------------------------------ MODULE MCAtSock ------------------------------
(* AtSock for TLC: the module is finite as it stands. *)
EXTENDS AtSock
=============================================================================
