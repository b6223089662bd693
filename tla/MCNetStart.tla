----------------------------- MODULE MCNetStart -----------------------------
EXTENDS NetStart

MCLeases == {2, INFINITE_LEASETIME}
=============================================================================
