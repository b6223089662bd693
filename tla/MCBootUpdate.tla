---------------------------- MODULE MCBootUpdate ----------------------------
(* BootUpdate for TLC: the module is finite as it stands. *)
EXTENDS BootUpdate
=============================================================================
