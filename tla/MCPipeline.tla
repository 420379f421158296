------------------------------ MODULE MCPipeline ------------------------------
(* Constants of the TLC runs of Pipeline. *)
EXTENDS Pipeline, TLC

CONSTANTS j1, w1, d1, d2, t1, t2, o1, o2, o3

(* For safety only. *)
Symmetry == Permutations(Dispatchers) \cup Permutations(Tokens)
            \cup Permutations(OutboxTokens)

===============================================================================
