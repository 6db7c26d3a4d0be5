------------------------------ MODULE Preemption ------------------------------
(***************************************************************************)
(* What an interrupt promises to the program it interrupts: the program is *)
(* suspended only when there is a request and its own mask allows it, once *)
(* per request and never twice at a time, and goes on as if nothing had    *)
(* happened.                                                               *)
(***************************************************************************)
EXTENDS Integers

CONSTANT Contexts  \* what the program has in the processor: an address, a workspace, a status

VARIABLES program,    \* the program's context, whether it is running or suspended
          suspended,
          requested

preemptionVars == <<program, suspended, requested>>

Allows(context) == context.st.mask >= 2

PreemptionInit ==
  /\ program \in Contexts
  /\ suspended = FALSE
  /\ requested = FALSE

\* One instruction of the program.
Run ==
  /\ ~suspended
  /\ program' \in Contexts
  /\ UNCHANGED <<suspended, requested>>

Request ==
  /\ requested' = TRUE
  /\ UNCHANGED <<program, suspended>>

Suspend ==
  /\ requested /\ ~suspended /\ Allows(program)
  /\ suspended' = TRUE
  /\ requested' = FALSE
  /\ UNCHANGED program

Resume ==
  /\ suspended
  /\ suspended' = FALSE
  /\ UNCHANGED <<program, requested>>

PreemptionNext == Run \/ Request \/ Suspend \/ Resume

PreemptionSpec == PreemptionInit /\ [][PreemptionNext]_preemptionVars
=============================================================================
