---------------------------- MODULE Timing_proofs ----------------------------
(***************************************************************************)
(* What the rules of config.Load buy, for every environment and for any    *)
(* time the unlimited calls take.                                          *)
(***************************************************************************)
EXTENDS Timing, TLAPS

Limit(n) == n * Config["timeout"]  \* n publications, at the longest

(* What a batch, or an attempt, has used of its time.                      *)
BatchAge ==
    /\ pc \in Batch => left \in 1..Config["batch"]
    /\ pc = "waiting" =>
          age <= outside + Limit(Config["batch"] - left)
    /\ pc = "publishing" =>
          age + call <= outside + Limit(Config["batch"] - left + 1)
    /\ pc = "marking" =>
          age <= outside + Limit(Config["batch"] - left + 1)

AttemptAge ==
    /\ pc \in Attempt => mutex = "free"
    /\ pc = "querying" => age <= outside
    /\ pc = "asking" => age + call <= outside + Config["request"]
    /\ pc = "saving" => age <= outside + Config["request"]

IInv == TypeOK /\ BatchAge /\ AttemptAge

-------------------------------------------------------------------------------
LEMMA PublishedStep ==
    ASSUME Config["timeout"] \in Nat, NEW n \in Int
    PROVE  /\ Limit(n) \in Int
           /\ Limit(n + 1) = Limit(n) + Config["timeout"]
  BY DEF Limit

LEMMA PublishedMonotone ==
    ASSUME Config["timeout"] \in Nat, NEW m \in Nat, NEW n \in Nat, m <= n
    PROVE  Limit(m) <= Limit(n)
<1>1. PICK d \in Nat : n = m + d
  <2>1. n - m \in Nat /\ n = m + (n - m)
    OBVIOUS
  <2> QED
    BY <2>1
<1>2. n * Config["timeout"] = m * Config["timeout"] + d * Config["timeout"]
  BY <1>1
<1>3. d * Config["timeout"] \in Nat /\ m * Config["timeout"] \in Int
  OBVIOUS
<1> QED
  BY <1>2, <1>3 DEF Limit

(* What Load accepts is positive.                                          *)
LEMMA AcceptedIsPositive ==
    ASSUME Accepted
    PROVE  \A n \in Names : Config[n] \in Nat /\ Config[n] > 0
  BY DEF Accepted

-------------------------------------------------------------------------------
LEMMA TimingInit == Init => IInv
  BY DEF Init, IInv, TypeOK, BatchAge, AttemptAge, Batch, Attempt

LEMMA TimingStep == IInv /\ [Next]_vars => IInv'
<1> SUFFICES ASSUME IInv, [Next]_vars
             PROVE  IInv'
  OBVIOUS
<1> USE DEF IInv
<1>1. env' = env
  BY DEF Next, vars, clock, Load, Tick, ClaimPendingOutboxEvents, Publish,
         RejectPoison, Published, Mark, ConsumerPublishes, ConsumerPublished,
         BeginProcessing, Complete, Completed, Resolve
<1>2. /\ Config' = Config
      /\ Accepted' <=> Accepted
      /\ \A n : Limit(n)' = Limit(n)
  BY <1>1 DEF Config, Accepted, Prefetch, Limit
<1>3. CASE UNCHANGED vars
  BY <1>2, <1>3 DEF vars, clock, TypeOK, BatchAge, AttemptAge
<1>4. CASE Load
  BY <1>1, <1>2, <1>4 DEF Load, clock, TypeOK, BatchAge, AttemptAge, Batch, Attempt
<1>5. ASSUME pc \notin {"loading", "refused"}
      PROVE  /\ Accepted
             /\ Config["timeout"] \in Nat /\ Config["batch"] \in Nat
             /\ Config["request"] \in Nat
  BY <1>5, AcceptedIsPositive DEF TypeOK, Names
<1>6. CASE ClaimPendingOutboxEvents
  <2>1. /\ left' \in Nat /\ Config["batch"] - left' \in Nat /\ left' \in 1..Config["batch"]
    BY <1>5, <1>6 DEF ClaimPendingOutboxEvents
  <2>2. Limit(0) = 0 /\ 0 <= Limit(Config["batch"] - left')
    BY <1>5, <1>6, <2>1, PublishedMonotone DEF ClaimPendingOutboxEvents, Limit
  <2> QED
    BY <1>1, <1>2, <1>5, <1>6, <2>1, <2>2, PublishedStep
       DEF ClaimPendingOutboxEvents, Claimed, TypeOK, BatchAge, AttemptAge, Batch, Attempt
<1>7. CASE Publish
  <2>1. Limit(Config["batch"] - left + 1)
           = Limit(Config["batch"] - left) + Config["timeout"]
        /\ Limit(Config["batch"] - left) \in Int
    BY <1>5, <1>7, PublishedStep DEF Publish, TypeOK
  <2> QED
    BY <1>1, <1>2, <1>5, <1>7, <2>1
       DEF Publish, clock, TypeOK, BatchAge, AttemptAge, Batch, Attempt
<1>8. CASE RejectPoison
  <2>1. Limit(Config["batch"] - left + 1)
           = Limit(Config["batch"] - left) + Config["timeout"]
        /\ Limit(Config["batch"] - left) \in Int
    BY <1>5, <1>8, PublishedStep DEF RejectPoison, TypeOK
  <2> QED
    BY <1>1, <1>2, <1>5, <1>8, <2>1
       DEF RejectPoison, clock, TypeOK, BatchAge, AttemptAge, Batch, Attempt
<1>9. CASE Published
  <2>1. Limit(Config["batch"] - left + 1) \in Int
    BY <1>5, <1>9, PublishedStep DEF Published, TypeOK
  <2> QED
    BY <1>1, <1>2, <1>5, <1>9, <2>1
       DEF Published, clock, TypeOK, BatchAge, AttemptAge, Batch, Attempt
<1>10. CASE Mark
  <2>1. Config["batch"] - (left - 1) = Config["batch"] - left + 1
        /\ left \in 1..Config["batch"]
    BY <1>5, <1>10 DEF Mark, TypeOK, BatchAge, Batch
  <2> QED
    BY <1>1, <1>2, <1>5, <1>10, <2>1
       DEF Mark, clock, TypeOK, BatchAge, AttemptAge, Batch, Attempt
<1>11. CASE ConsumerPublishes
  BY <1>1, <1>2, <1>5, <1>11
     DEF ConsumerPublishes, clock, TypeOK, BatchAge, AttemptAge, Batch, Attempt
<1>12. CASE ConsumerPublished
  BY <1>1, <1>2, <1>12
     DEF ConsumerPublished, clock, TypeOK, BatchAge, AttemptAge, Batch, Attempt
<1>13. CASE BeginProcessing
  BY <1>1, <1>2, <1>13
     DEF BeginProcessing, Claimed, TypeOK, BatchAge, AttemptAge, Batch, Attempt
<1>14. CASE Complete
  BY <1>1, <1>2, <1>5, <1>14
     DEF Complete, clock, TypeOK, BatchAge, AttemptAge, Batch, Attempt
<1>15. CASE Completed
  BY <1>1, <1>2, <1>5, <1>15
     DEF Completed, clock, TypeOK, BatchAge, AttemptAge, Batch, Attempt
<1>16. CASE Resolve
  BY <1>1, <1>2, <1>16
     DEF Resolve, clock, TypeOK, BatchAge, AttemptAge, Batch, Attempt
<1>17. CASE Tick
  <2>1. /\ pc \in Batch => /\ Limit(Config["batch"] - left) \in Int
                           /\ Limit(Config["batch"] - left + 1) \in Int
    BY <1>5, PublishedStep DEF TypeOK, Batch
  <2>2. TypeOK'
    BY <1>1, <1>2, <1>17 DEF Tick, TypeOK, Batch, Attempt
  <2>3. BatchAge'
    BY <1>1, <1>2, <1>5, <1>17, <2>1 DEF Tick, InCall, TypeOK, BatchAge, Batch, Attempt
  <2>4. AttemptAge'
    BY <1>1, <1>2, <1>5, <1>17 DEF Tick, InCall, TypeOK, AttemptAge, Batch, Attempt
  <2> QED
    BY <2>2, <2>3, <2>4
<1> QED
  BY <1>3, <1>4, <1>6, <1>7, <1>8, <1>9, <1>10, <1>11, <1>12, <1>13, <1>14, <1>15,
     <1>16, <1>17 DEF Next

LEMMA TimingSafety == Spec => []IInv
  BY TimingInit, TimingStep, PTL DEF Spec

(* TypeOK holds in every reachable state, whatever the environment.        *)
THEOREM TimingTypeCorrect == Spec => []TypeOK
<1>1. IInv => TypeOK
  BY DEF IInv
<1> QED
  BY <1>1, TimingSafety, PTL

(* Whatever Load accepts, a batch outlives its lock only when more than    *)
(* one publish timeout was spent outside its publications.                 *)
THEOREM LockCoversTheBatch == Spec => []LockCoversBatch
<1>1. IInv => LockCoversBatch
  <2> SUFFICES ASSUME IInv, pc \in Batch, age >= Config["lock"]
               PROVE  outside > Config["timeout"]
    BY DEF LockCoversBatch
  <2>1. Accepted
    BY DEF IInv, TypeOK, Batch
  <2>2. /\ Config["timeout"] \in Nat /\ Config["batch"] \in Nat /\ Config["lock"] \in Nat
    BY <2>1, AcceptedIsPositive DEF Names
  <2>3. /\ left \in 1..Config["batch"] /\ age \in Nat /\ outside \in Nat /\ call \in Nat
    BY DEF IInv, TypeOK, BatchAge
  <2>4. /\ Limit(Config["batch"] - left) \in Int
        /\ Limit(Config["batch"] - left + 1) \in Int
        /\ Limit(Config["batch"] - left) <= Limit(Config["batch"])
        /\ Limit(Config["batch"] - left + 1) <= Limit(Config["batch"])
        /\ Limit(Config["batch"]) \in Int
    BY <2>2, <2>3, PublishedStep, PublishedMonotone
  <2>5. Limit(Config["batch"]) + Config["timeout"] < Config["lock"]
    BY <2>1, <2>2, PublishedStep DEF Accepted, OutboxRule, Limit
  <2>6. age <= outside + Limit(Config["batch"])
    BY <2>3, <2>4 DEF IInv, BatchAge, Batch
  <2> QED
    BY <2>2, <2>3, <2>4, <2>5, <2>6
<1> QED
  BY <1>1, TimingSafety, PTL

(* Whatever Load accepts, an attempt outlives its lease only when its      *)
(* queries took the margin by themselves.                                  *)
THEOREM LeaseCoversTheCall == Spec => []LeaseCoversCall
<1>1. IInv => LeaseCoversCall
  <2> SUFFICES ASSUME IInv, pc \in Attempt, age >= Config["lease"]
               PROVE  outside >= LeaseMargin
    BY DEF LeaseCoversCall
  <2>1. Accepted
    BY DEF IInv, TypeOK, Attempt
  <2>2. /\ Config["request"] \in Nat /\ Config["lease"] \in Nat
        /\ Config["lease"] >= Config["request"] + LeaseMargin
    BY <2>1, AcceptedIsPositive DEF Names, Accepted, LeaseRule
  <2>3. age \in Nat /\ outside \in Nat /\ call \in Nat /\ LeaseMargin \in Nat
    BY TimingAssumption DEF IInv, TypeOK
  <2>4. age <= outside + Config["request"]
    BY <2>2, <2>3 DEF IInv, AttemptAge, Attempt
  <2> QED
    BY <2>2, <2>3, <2>4
<1> QED
  BY <1>1, TimingSafety, PTL

===============================================================================
