----------------------------- MODULE JobLifecycle -----------------------------
(***************************************************************************)
(* What the worker promises about an insight job, with no queue, no lease  *)
(* and no worker in sight: a job is tried some number of times and is      *)
(* resolved at most once, either by an insight or by a failure event, and  *)
(* only a job that has attempts left is ever put back for another try.     *)
(*                                                                         *)
(* InsightProcessing implements this module; its refinement mapping reads  *)
(* `phase' off three tables at once (insight_jobs, insights and            *)
(* outbox_eventos), so the implementation also shows that a status and the *)
(* rows that go with it are never seen apart.                              *)
(***************************************************************************)
EXTENDS Naturals

CONSTANTS
    Jobs,           \* the rows of insight_jobs
    MaxAttempts     \* INSIGHT_MAX_ATTEMPTS

VARIABLES
    phase,          \* what the outside world can tell of a job
    attempts        \* how often a worker has started it (saturating)

vars == <<phase, attempts>>

Phases == {"open", "running", "insight", "failure"}

(* The code only compares the counter with MaxAttempts, by >=, so it may   *)
(* stop counting one past the limit.                                       *)
AttemptCeiling == MaxAttempts + 1

NextAttempt(n) == IF n < AttemptCeiling THEN n + 1 ELSE n

Init == /\ phase = [j \in Jobs |-> "open"]
        /\ attempts = [j \in Jobs |-> 0]

(* A worker takes the job, or takes it over from one that let it go.       *)
Start(j) == /\ phase[j] \in {"open", "running"}
            /\ phase' = [phase EXCEPT ![j] = "running"]
            /\ attempts' = [attempts EXCEPT ![j] = NextAttempt(@)]

Conclude(j) == /\ phase[j] = "running"
               /\ phase' = [phase EXCEPT ![j] = "insight"]
               /\ UNCHANGED attempts

Fail(j) == /\ phase[j] = "running"
           /\ phase' = [phase EXCEPT ![j] = "failure"]
           /\ UNCHANGED attempts

Retry(j) == /\ phase[j] = "running"
            /\ attempts[j] < MaxAttempts
            /\ phase' = [phase EXCEPT ![j] = "open"]
            /\ UNCHANGED attempts

Next == \E j \in Jobs : Start(j) \/ Conclude(j) \/ Fail(j) \/ Retry(j)

Spec == Init /\ [][Next]_vars

===============================================================================
