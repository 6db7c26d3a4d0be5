---------------------------- MODULE MCInterrupts ----------------------------
(* Interrupts for TLC: registers of two bits, the routine's workspace and    *)
(* one of the program's, and the interrupt masks around the threshold 2.     *)
EXTENDS Interrupts

MCWorkspaces == {"isr", "main"}
=============================================================================
