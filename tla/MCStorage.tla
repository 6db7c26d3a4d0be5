------------------------------- MODULE MCStorage -------------------------------
(***************************************************************************)
(* Storage for TLC: four sectors of two bytes, in one or two images.       *)
(***************************************************************************)
EXTENDS Storage

MCDisks == {[i \in 0..7 |-> (i \div 2) % 4]}
=============================================================================
