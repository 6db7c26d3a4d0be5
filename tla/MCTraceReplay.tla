----------------------------- MODULE MCTraceReplay -----------------------------
(***************************************************************************)
(* TraceReplay for TLC: every main program of Size instructions, with the  *)
(* interrupt routine of the console behind it.                             *)
(***************************************************************************)
EXTENDS TraceReplay

CONSTANT MainSize

MainOps == {"LIMI0", "LIMI2", "TB", "STCR", "JEQ"}
Routine == <<"LIMI0", "TB", "RTWP">>

MCPrograms ==
  {[p \in 0..MainSize + 2 |->
      IF p < MainSize THEN [op |-> main[p + 1], last |-> p = MainSize - 1]
      ELSE [op |-> Routine[p - MainSize + 1], last |-> FALSE]] :
     main \in [1..MainSize -> MainOps]}
MCIntPC == MainSize
=============================================================================
