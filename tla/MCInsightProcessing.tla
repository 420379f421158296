------------------------- MODULE MCInsightProcessing -------------------------
(* Constants of the TLC runs of InsightProcessing. *)
EXTENDS InsightProcessing, TLC

CONSTANTS j1, j2, u1, m1, w1, w2, t1, t2, t3, t4

AllFaults   == FaultKinds
NoFaults    == {}
RelayFaults == {"relay", "broker"}

(* Jobs, goroutines and tokens are interchangeable.  Used for safety only. *)
Symmetry == Permutations(Jobs) \cup Permutations(Workers) \cup Permutations(Tokens)

===============================================================================
