----------------------------- MODULE MCPublisher -----------------------------
(* Constants of the TLC runs of Publisher. *)
EXTENDS Publisher, TLC

CONSTANTS dispatcher, consumer1, consumer2

AllFaults == FaultKinds

(* The code does not tell one caller from another.  For safety only. *)
Symmetry == Permutations(Callers)

===============================================================================
