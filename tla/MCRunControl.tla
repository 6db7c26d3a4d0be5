---------------------------- MODULE MCRunControl ----------------------------
(* RunControl for TLC: one user, one debugger client at a time, "cont 1" at  *)
(* most.                                                                     *)
EXTENDS RunControl
=============================================================================
