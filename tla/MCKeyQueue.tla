----------------------------- MODULE MCKeyQueue -----------------------------
(* KeyQueue for TLC: two keys, and the simulator and debugger threads as the *)
(* two threads that execute instructions; the queue has the code's 3 slots.  *)
EXTENDS KeyQueue, TLC

CONSTANTS k1, k2, sim, dbg

MCKeys == {k1, k2}
MCSteppers == {sim, dbg}
=============================================================================
