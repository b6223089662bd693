----------------------------- MODULE MCS2eConn -----------------------------
EXTENDS S2eConn
=============================================================================
