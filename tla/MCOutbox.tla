------------------------------- MODULE MCOutbox -------------------------------
(* Constants of the TLC runs of Outbox. *)
EXTENDS Outbox, TLC

CONSTANTS e1, e2, d1, d2, t1, t2, t3, t4

AllFaults == FaultKinds

(* Healthy events are alike, and so are poisoned ones.  For safety only. *)
Symmetry == Permutations(Events \ Poison) \cup Permutations(Dispatchers)
            \cup Permutations(Tokens)

===============================================================================
