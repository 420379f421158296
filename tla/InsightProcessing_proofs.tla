----------------------- MODULE InsightProcessing_proofs -----------------------
(***************************************************************************)
(* Proofs about InsightProcessing, for every set of jobs, messages,        *)
(* goroutines and tokens, every value of the limits and every set of       *)
(* faults.  The argument is one inductive invariant, IInv: the invariants  *)
(* that TLC checks, and WorkersAreCoherent, which ties what a goroutine    *)
(* has in its hands to where it is in handleDelivery.                      *)
(***************************************************************************)
EXTENDS InsightProcessing, TLAPS

(* What a goroutine has in its hands at each point of handleDelivery.      *)
WorkersAreCoherent ==
    \A w \in Workers :
        /\ workers[w].pc # "idle" <=> workers[w].body # NoBody
        /\ workers[w].held => workers[w].pc # "idle"
        /\ workers[w].pc = "invalid" => workers[w].body \in Malformed
        /\ workers[w].pc = "begin" => workers[w].body \in Jobs \cup Unknown
        /\ workers[w].pc \in Holding => workers[w].body \in Jobs
        /\ workers[w].pc = "ack" => workers[w].body \in Jobs \cup dlq

Shape == TypeOK /\ WorkersAreCoherent

TableInv == RowsAreCoherent /\ OutcomeMatchesStatus /\ WaitingHasAttemptsLeft

IInv == /\ Shape
        /\ TableInv
        /\ UniqueHolder
        /\ PendingJobHasRequest
        /\ StrayMessageNeverLost

-------------------------------------------------------------------------------
(* Every statement of the repository leaves a row of the right type.       *)
LEMMA RowOperations ==
    ASSUME NEW row \in JobRows, NEW t \in Tokens, NEW permanent \in BOOLEAN
    PROVE  /\ ClaimedRow(row, t) \in JobRows
           /\ ConcludedRow(row) \in JobRows
           /\ FailedRow(row, permanent) \in JobRows
           /\ RescheduledRow(row) \in JobRows
<1>1. AttemptCeiling \in Nat
  BY ProcessingAssumption DEF AttemptCeiling
<1>2. row.tentativas \in 0..AttemptCeiling
  BY DEF JobRows
<1>3. (IF row.tentativas < AttemptCeiling
         THEN row.tentativas + 1 ELSE row.tentativas) \in 0..AttemptCeiling
  BY <1>1, <1>2
<1> QED
  BY <1>2, <1>3 DEF JobRows, Statuses, ClaimedRow, ConcludedRow, FailedRow,
                    RescheduledRow

(* Shape holds when the API has just accepted the jobs.                    *)
LEMMA InitShape == Init => Shape
<1> SUFFICES ASSUME Init PROVE Shape
  OBVIOUS
<1>1. NewJob \in JobRows
  BY ProcessingAssumption DEF NewJob, JobRows, Statuses, AttemptCeiling
<1>2. Idle \in WorkerStates
  BY DEF Idle, WorkerStates, PCs, Holding
<1>3. TypeOK
  BY <1>1, <1>2 DEF Init, TypeOK, Bodies
<1>4. WorkersAreCoherent
  BY DEF Init, WorkersAreCoherent, Idle, Holding
<1> QED
  BY <1>3, <1>4 DEF Shape

(***************************************************************************)
(* A step of the system, as seen by the three tables an outcome shows in:  *)
(* the statements below are the only ones that touch them.                 *)
(***************************************************************************)
TablesUnchanged == UNCHANGED <<jobs, insights, failedEvents>>

Claims(j, t) == /\ Claimable(jobs[j])
                /\ jobs' = [jobs EXCEPT ![j] = ClaimedRow(@, t)]
                /\ UNCHANGED <<insights, failedEvents>>

Concludes(w, j) == /\ workers[w].pc = "save" /\ workers[w].body = j /\ Owns(w)
                   /\ jobs' = [jobs EXCEPT ![j] = ConcludedRow(@)]
                   /\ insights' = insights \cup {j}
                   /\ UNCHANGED failedEvents

Registers(w, j, permanent) ==
    /\ workers[w].pc = "fail" /\ workers[w].body = j /\ Owns(w)
    /\ jobs' = [jobs EXCEPT ![j] = FailedRow(@, permanent)]
    /\ failedEvents' = [failedEvents EXCEPT ![j] =
           IF Exhausted(jobs[j], permanent) THEN @ + 1 ELSE @]
    /\ UNCHANGED insights

Reschedules(batch) ==
    /\ batch \subseteq Due
    /\ jobs' = [j \in Jobs |-> IF j \in batch THEN RescheduledRow(jobs[j])
                                              ELSE jobs[j]]
    /\ UNCHANGED <<insights, failedEvents>>

Expires(j) == /\ jobs[j].lease = "live"
              /\ jobs' = [jobs EXCEPT ![j].lease = "expired"]
              /\ UNCHANGED <<insights, failedEvents>>

ComesDue(j) == /\ jobs[j].proxima = "future"
               /\ jobs' = [jobs EXCEPT ![j].proxima = "due"]
               /\ UNCHANGED <<insights, failedEvents>>

TableStep ==
    \/ TablesUnchanged
    \/ \E j \in Jobs, t \in Tokens : Claims(j, t)
    \/ \E w \in Workers, j \in Jobs : Concludes(w, j)
    \/ \E w \in Workers, j \in Jobs, p \in BOOLEAN : Registers(w, j, p)
    \/ \E batch \in SUBSET Jobs : Reschedules(batch)
    \/ \E j \in Jobs : Expires(j) \/ ComesDue(j)

(* Every action does to the three tables one of the things TableStep lists.*)
LEMMA EveryStepIsATableStep ==
    ASSUME Shape, [Next]_vars
    PROVE  TableStep
<1> USE DEF tables, broker
<1>1. CASE UNCHANGED vars
  BY <1>1 DEF vars, TableStep, TablesUnchanged
<1>2. ASSUME NEW w \in Workers, NEW b \in Bodies, Receive(w, b)
      PROVE  TableStep
  BY <1>2 DEF Receive, TableStep, TablesUnchanged
<1>3. ASSUME NEW w \in Workers, Handle(w)
      PROVE  TableStep
  <2>1. ASSUME NEW t \in Tokens, ClaimJob(w, t) \/ ClaimReplyLost(w, t)
        PROVE  TableStep
    <3>1. Claims(workers[w].body, t) /\ workers[w].body \in Jobs
      BY <2>1 DEF ClaimJob, ClaimReplyLost, Claims
    <3> QED
      BY <3>1 DEF TableStep
  <2>2. CASE SaveInsightResult(w)
    <3>1. Concludes(w, workers[w].body) /\ workers[w].body \in Jobs
      BY <2>2 DEF SaveInsightResult, Concludes, At, Owns
    <3> QED
      BY <3>1 DEF TableStep
  <2>3. CASE RegisterFailure(w)
    <3>1. workers[w].permanent \in BOOLEAN
      BY DEF Shape, TypeOK, WorkerStates
    <3>2. Registers(w, workers[w].body, workers[w].permanent)
      BY <2>3 DEF RegisterFailure, Registers, At
    <3>3. workers[w].body \in Jobs
      BY <2>3 DEF RegisterFailure, Owns
    <3> QED
      BY <3>1, <3>2, <3>3 DEF TableStep
  <2>4. CASE \/ DeadLetter(w) \/ DeadLetterFails(w)
             \/ AlreadyHandled(w) \/ BeginFails(w)
             \/ FindDisciplines(w) \/ Complete(w)
             \/ SaveLeaseLost(w) \/ SaveFails(w)
             \/ RegisterLeaseLost(w) \/ RegisterFails(w)
             \/ Ack(w) \/ Nack(w)
    BY <2>4 DEF DeadLetter, DeadLetterFails, AlreadyHandled, BeginFails,
                FindDisciplines, Complete, SaveLeaseLost, SaveFails,
                RegisterLeaseLost, RegisterFails, Ack, Nack,
                TableStep, TablesUnchanged
  <2> QED
    BY <1>3, <2>1, <2>2, <2>3, <2>4 DEF Handle
<1>4. ASSUME NEW w \in Workers, Crash(w) \/ ConnectionLost(w)
      PROVE  TableStep
  BY <1>4 DEF Crash, ConnectionLost, TableStep, TablesUnchanged
<1>5. ASSUME NEW batch \in SUBSET Jobs, ScheduleDueRetryJobs(batch)
      PROVE  TableStep
  <2>1. Reschedules(batch)
    BY <1>5 DEF ScheduleDueRetryJobs, Reschedules
  <2> QED
    BY <2>1 DEF TableStep
<1>6. ASSUME NEW j \in Jobs,
             RelayRequest(j) \/ RelayAgain(j) \/ RelayGivesUp(j)
      PROVE  TableStep
  BY <1>6 DEF RelayRequest, RelayAgain, RelayGivesUp, TableStep, TablesUnchanged
<1>7. ASSUME NEW j \in Jobs, LeaseExpires(j) \/ RetryComesDue(j)
      PROVE  TableStep
  <2>1. Expires(j) \/ ComesDue(j)
    BY <1>7 DEF LeaseExpires, RetryComesDue, Expires, ComesDue
  <2> QED
    BY <2>1 DEF TableStep
<1> QED
  BY <1>1, <1>2, <1>3, <1>4, <1>5, <1>6, <1>7 DEF Next

-------------------------------------------------------------------------------
TablesTyped == /\ jobs \in [Jobs -> JobRows]
               /\ insights \subseteq Jobs
               /\ failedEvents \in [Jobs -> Nat]

(* No statement of the repository, and no tick of the clock, takes the     *)
(* tables out of their types.                                              *)
LEMMA TableStepKeepsTypes ==
    ASSUME Shape, TableStep
    PROVE  TablesTyped'
<1>1. TablesTyped
  BY DEF Shape, TypeOK, TablesTyped
<1>2. CASE TablesUnchanged
  BY <1>1, <1>2 DEF TablesUnchanged, TablesTyped
<1>3. ASSUME NEW j \in Jobs, NEW t \in Tokens, Claims(j, t)
      PROVE  TablesTyped'
  <2>1. ClaimedRow(jobs[j], t) \in JobRows
    BY <1>1, RowOperations DEF TablesTyped
  <2> QED
    BY <1>1, <1>3, <2>1 DEF Claims, TablesTyped
<1>4. ASSUME NEW w \in Workers, NEW j \in Jobs, Concludes(w, j)
      PROVE  TablesTyped'
  <2>1. ConcludedRow(jobs[j]) \in JobRows
    BY <1>1 DEF TablesTyped, ConcludedRow, JobRows, Statuses
  <2> QED
    BY <1>1, <1>4, <2>1 DEF Concludes, TablesTyped
<1>5. ASSUME NEW w \in Workers, NEW j \in Jobs, NEW p \in BOOLEAN,
             Registers(w, j, p)
      PROVE  TablesTyped'
  <2>1. FailedRow(jobs[j], p) \in JobRows
    BY <1>1 DEF TablesTyped, FailedRow, JobRows, Statuses
  <2> QED
    BY <1>1, <1>5, <2>1 DEF Registers, TablesTyped
<1>6. ASSUME NEW batch \in SUBSET Jobs, Reschedules(batch)
      PROVE  TablesTyped'
  <2>1. \A j \in Jobs : RescheduledRow(jobs[j]) \in JobRows
    BY <1>1 DEF TablesTyped, RescheduledRow, JobRows, Statuses
  <2> QED
    BY <1>1, <1>6, <2>1 DEF Reschedules, TablesTyped
<1>7. ASSUME NEW j \in Jobs, Expires(j) \/ ComesDue(j)
      PROVE  TablesTyped'
  <2>1. /\ [jobs[j] EXCEPT !.lease = "expired"] \in JobRows
        /\ [jobs[j] EXCEPT !.proxima = "due"] \in JobRows
    BY <1>1 DEF TablesTyped, JobRows
  <2> QED
    BY <1>1, <1>7, <2>1 DEF Expires, ComesDue, TablesTyped
<1> QED
  BY <1>2, <1>3, <1>4, <1>5, <1>6, <1>7 DEF TableStep

(* The rest of Shape: the queues and what each goroutine holds.            *)
MessagesTyped == /\ requests \in [Jobs -> Nat]
                 /\ abandoned \subseteq Jobs
                 /\ queue \in [Bodies -> Nat]
                 /\ dlq \subseteq Malformed

WorkersTyped == /\ workers \in [Workers -> WorkerStates]
                /\ WorkersAreCoherent

(* Putting a delivery back leaves a bag of bodies.                         *)
LEMMA RequeueIsTyped ==
    ASSUME Shape, NEW w \in Workers
    PROVE  Requeued(w) \in [Bodies -> Nat]
<1>1. workers[w].held => workers[w].body \in Bodies
  BY DEF Shape, TypeOK, WorkersAreCoherent, WorkerStates
<1> QED
  BY <1>1 DEF Shape, TypeOK, Requeued

(* Requests, abandoned requests, queue and DLQ keep their types in every   *)
(* step.                                                                   *)
LEMMA MessagesStayTyped ==
    ASSUME Shape, [Next]_vars
    PROVE  MessagesTyped'
<1> USE DEF tables, broker
<1>1. MessagesTyped
  BY DEF Shape, TypeOK, MessagesTyped
<1>2. CASE UNCHANGED vars
  BY <1>1, <1>2 DEF vars, MessagesTyped
<1>3. ASSUME NEW w \in Workers, NEW b \in Bodies, Receive(w, b)
      PROVE  MessagesTyped'
  BY <1>1, <1>3 DEF Receive, MessagesTyped
<1>4. ASSUME NEW w \in Workers, Handle(w)
      PROVE  MessagesTyped'
  <2>1. CASE DeadLetter(w) \/ DeadLetterFails(w)
    <3>1. workers[w].body \in Malformed
      BY <2>1 DEF Shape, WorkersAreCoherent, DeadLetter, DeadLetterFails, At
    <3> QED
      BY <1>1, <2>1, <3>1 DEF DeadLetter, DeadLetterFails, MessagesTyped
  <2>2. CASE Nack(w)
    BY <1>1, <2>2, RequeueIsTyped DEF Nack, MessagesTyped
  <2>3. CASE \/ \E t \in Tokens : ClaimJob(w, t) \/ ClaimReplyLost(w, t)
             \/ AlreadyHandled(w) \/ BeginFails(w)
             \/ FindDisciplines(w) \/ Complete(w)
             \/ SaveInsightResult(w) \/ SaveLeaseLost(w) \/ SaveFails(w)
             \/ RegisterFailure(w) \/ RegisterLeaseLost(w) \/ RegisterFails(w)
             \/ Ack(w)
    BY <1>1, <2>3 DEF ClaimJob, ClaimReplyLost, AlreadyHandled, BeginFails,
          FindDisciplines, Complete, SaveInsightResult, SaveLeaseLost,
          SaveFails, RegisterFailure, RegisterLeaseLost, RegisterFails, Ack,
          MessagesTyped
  <2> QED
    BY <1>4, <2>1, <2>2, <2>3 DEF Handle
<1>5. ASSUME NEW w \in Workers, Crash(w) \/ ConnectionLost(w)
      PROVE  MessagesTyped'
  BY <1>1, <1>5, RequeueIsTyped DEF Crash, ConnectionLost, MessagesTyped
<1>6. ASSUME NEW batch \in SUBSET Jobs, ScheduleDueRetryJobs(batch)
      PROVE  MessagesTyped'
  BY <1>1, <1>6 DEF ScheduleDueRetryJobs, MessagesTyped
<1>7. ASSUME NEW j \in Jobs,
             \/ RelayRequest(j) \/ RelayAgain(j) \/ RelayGivesUp(j)
             \/ LeaseExpires(j) \/ RetryComesDue(j)
      PROVE  MessagesTyped'
  BY <1>1, <1>7 DEF RelayRequest, RelayAgain, RelayGivesUp, LeaseExpires,
                    RetryComesDue, MessagesTyped, Bodies
<1> QED
  BY <1>2, <1>3, <1>4, <1>5, <1>6, <1>7 DEF Next

(* A goroutine without a delivery is a well-typed goroutine.               *)
LEMMA IdleIsTyped ==
    /\ Idle \in WorkerStates
    /\ Idle.pc = "idle" /\ Idle.body = NoBody /\ Idle.token = NoToken
    /\ Idle.held = FALSE
BY DEF Idle, WorkerStates, PCs

(* Goroutines keep their types, and what they have in hand keeps matching  *)
(* where they are.                                                         *)
LEMMA WorkersStayTyped ==
    ASSUME Shape, [Next]_vars
    PROVE  WorkersTyped'
<1> USE BodiesAreDistinct DEF tables, broker
<1>1. WorkersTyped /\ dlq \subseteq Malformed
  BY DEF Shape, TypeOK, WorkersTyped
<1>2. CASE UNCHANGED <<workers, dlq>>
  BY <1>1, <1>2 DEF WorkersTyped, WorkersAreCoherent
<1>3. ASSUME NEW w \in Workers, NEW b \in Bodies, Receive(w, b)
      PROVE  WorkersTyped'
  BY <1>1, <1>3 DEF Receive, WorkersTyped, WorkersAreCoherent, WorkerStates,
        PCs, Holding, Idle, Bodies
<1>4. ASSUME NEW w \in Workers, Handle(w)
      PROVE  WorkersTyped'
  <2> USE DEF WorkersTyped, WorkersAreCoherent, WorkerStates, PCs, Holding,
              Bodies, At, Goto
  <2>1. CASE DeadLetter(w) \/ DeadLetterFails(w)
    BY <1>1, <2>1 DEF DeadLetter, DeadLetterFails
  <2>2. ASSUME NEW t \in Tokens, ClaimJob(w, t)
        PROVE  WorkersTyped'
    <3>1. ClaimedRow(jobs[workers[w].body], t).token = t
      BY DEF ClaimedRow
    <3>2. workers' = [workers EXCEPT ![w] = [@ EXCEPT !.pc = "find", !.token = t]]
      BY <2>2, <3>1 DEF ClaimJob
    <3>3. [workers[w] EXCEPT !.pc = "find", !.token = t] \in WorkerStates
      BY <1>1
    <3>4. workers' \in [Workers -> WorkerStates]
      BY <1>1, <3>2, <3>3
    <3>5. WorkersAreCoherent'
      <4>1. /\ workers'[w].pc = "find"
            /\ workers'[w].body = workers[w].body
            /\ workers[w].body \in Jobs
            /\ \A v \in Workers : v # w => workers'[v] = workers[v]
            /\ dlq' = dlq
        BY <1>1, <2>2, <3>2 DEF ClaimJob
      <4> QED
        BY <1>1, <4>1
    <3> QED
      BY <3>4, <3>5
  <2>3. ASSUME NEW t \in Tokens, ClaimReplyLost(w, t)
        PROVE  WorkersTyped'
    BY <1>1, <2>3 DEF ClaimReplyLost
  <2>4. CASE AlreadyHandled(w) \/ BeginFails(w)
    BY <1>1, <2>4 DEF AlreadyHandled, BeginFails
  <2>5. CASE FindDisciplines(w) \/ Complete(w)
    BY <1>1, <2>5 DEF FindDisciplines, Complete
  <2>6. CASE SaveInsightResult(w) \/ SaveLeaseLost(w) \/ SaveFails(w)
    BY <1>1, <2>6 DEF SaveInsightResult, SaveLeaseLost, SaveFails
  <2>7. CASE RegisterFailure(w) \/ RegisterLeaseLost(w) \/ RegisterFails(w)
    BY <1>1, <2>7 DEF RegisterFailure, RegisterLeaseLost, RegisterFails
  <2>8. CASE Ack(w) \/ Nack(w)
    <3>1. workers' = [workers EXCEPT ![w] = Idle] /\ dlq' = dlq
      BY <2>8 DEF Ack, Nack
    <3> QED
      BY <1>1, <3>1, IdleIsTyped
  <2> QED
    BY <1>4, <2>1, <2>2, <2>3, <2>4, <2>5, <2>6, <2>7, <2>8 DEF Handle
<1>5. ASSUME NEW w \in Workers, Crash(w) \/ ConnectionLost(w)
      PROVE  WorkersTyped'
  <2> USE DEF WorkersTyped, WorkersAreCoherent, WorkerStates, PCs, Holding
  <2>1. CASE Crash(w)
    <3>1. workers' = [workers EXCEPT ![w] = Idle] /\ dlq' = dlq
      BY <2>1 DEF Crash
    <3> QED
      BY <1>1, <3>1, IdleIsTyped
  <2>2. CASE ConnectionLost(w)
    <3>1. workers' \in [Workers -> WorkerStates]
      <4>1. [workers[w] EXCEPT !.held = FALSE] \in WorkerStates
        BY <1>1
      <4>2. workers' = [workers EXCEPT ![w] = [@ EXCEPT !.held = FALSE]]
        BY <2>2 DEF ConnectionLost
      <4> QED
        BY <1>1, <4>1, <4>2
    <3>2. /\ \A v \in Workers : /\ workers'[v].pc = workers[v].pc
                                /\ workers'[v].body = workers[v].body
                                /\ workers'[v].held => workers[v].held
          /\ dlq' = dlq
      BY <1>1, <2>2 DEF ConnectionLost
    <3>3. WorkersAreCoherent'
      BY <1>1, <3>2
    <3> QED
      BY <3>1, <3>3
  <2> QED
    BY <1>5, <2>1, <2>2
<1>6. CASE \/ \E batch \in SUBSET Jobs : ScheduleDueRetryJobs(batch)
           \/ \E j \in Jobs : \/ RelayRequest(j) \/ RelayAgain(j)
                              \/ RelayGivesUp(j) \/ LeaseExpires(j)
                              \/ RetryComesDue(j)
  BY <1>2, <1>6 DEF ScheduleDueRetryJobs, RelayRequest, RelayAgain,
        RelayGivesUp, LeaseExpires, RetryComesDue
<1>7. CASE UNCHANGED vars
  BY <1>2, <1>7 DEF vars
<1> QED
  BY <1>3, <1>4, <1>5, <1>6, <1>7 DEF Next

(* Shape is inductive.                                                     *)
LEMMA ShapeStep ==
    ASSUME Shape, [Next]_vars
    PROVE  Shape'
BY EveryStepIsATableStep, TableStepKeepsTypes, MessagesStayTyped,
   WorkersStayTyped
   DEF Shape, TypeOK, TablesTyped, MessagesTyped, WorkersTyped

(* TypeOK holds in every reachable state.                                  *)
THEOREM TypeCorrect == Spec => []TypeOK
<1>1. Shape => TypeOK
  BY DEF Shape
<1> QED
  BY <1>1, InitShape, ShapeStep, PTL DEF Spec

-------------------------------------------------------------------------------
(* What a step of the tables keeps: the columns of a row agree, outcomes   *)
(* match statuses, and whoever waits has attempts left.                    *)
RowInv(j) ==
    /\ jobs[j].status = "processando" <=> jobs[j].token # NoToken
    /\ jobs[j].status = "processando" <=> jobs[j].lease # "null"
    /\ jobs[j].status = "aguardando_retentativa" <=> jobs[j].proxima # "null"
    /\ j \in insights <=> jobs[j].status = "concluido"
    /\ failedEvents[j] = IF jobs[j].status = "falhou" THEN 1 ELSE 0
    /\ jobs[j].status \in {"pendente", "aguardando_retentativa"}
          => jobs[j].tentativas < MaxAttempts

(* TableInv says something of each row by itself.                          *)
LEMMA TableInvIsPerRow == TableInv <=> \A j \in Jobs : RowInv(j)
BY DEF TableInv, RowInv, RowsAreCoherent, OutcomeMatchesStatus,
       WaitingHasAttemptsLeft

(* No statement of the repository breaks the coherence of rows and         *)
(* outcomes.                                                               *)
LEMMA TableInvStep ==
    ASSUME Shape, TableInv, TableStep
    PROVE  TableInv'
<1> USE ProcessingAssumption, BodiesAreDistinct DEF RowInv
<1>1. TablesTyped /\ \A j \in Jobs : RowInv(j)
  BY TableInvIsPerRow DEF Shape, TypeOK, TablesTyped
<1>2. SUFFICES ASSUME NEW j \in Jobs PROVE RowInv(j)'
  BY DEF TableInv, RowsAreCoherent, OutcomeMatchesStatus, WaitingHasAttemptsLeft
<1>3. jobs[j] \in JobRows /\ RowInv(j)
  BY <1>1 DEF TablesTyped
<1>4. CASE TablesUnchanged
  BY <1>3, <1>4 DEF TablesUnchanged
<1>5. ASSUME NEW i \in Jobs, NEW t \in Tokens, Claims(i, t)
      PROVE  RowInv(j)'
  <2>1. CASE i = j
    <3>1. jobs'[j] = ClaimedRow(jobs[j], t)
      BY <1>1, <1>5, <2>1 DEF Claims, TablesTyped
    <3>2. jobs[j].status \notin {"concluido", "falhou"}
      BY <1>5, <2>1 DEF Claims, Claimable
    <3> QED
      BY <1>3, <1>5, <3>1, <3>2 DEF Claims, ClaimedRow
  <2>2. CASE i # j
    BY <1>1, <1>3, <1>5, <2>2 DEF Claims, TablesTyped
  <2> QED
    BY <2>1, <2>2
<1>6. ASSUME NEW w \in Workers, NEW i \in Jobs, Concludes(w, i)
      PROVE  RowInv(j)'
  <2>1. CASE i = j
    <3>1. jobs'[j] = ConcludedRow(jobs[j]) /\ j \in insights'
      BY <1>1, <1>6, <2>1 DEF Concludes, TablesTyped
    <3>2. jobs[j].status = "processando"
      BY <1>6, <2>1 DEF Concludes, Owns
    <3> QED
      BY <1>3, <1>6, <3>1, <3>2 DEF Concludes, ConcludedRow
  <2>2. CASE i # j
    BY <1>1, <1>3, <1>6, <2>2 DEF Concludes, TablesTyped
  <2> QED
    BY <2>1, <2>2
<1>7. ASSUME NEW w \in Workers, NEW i \in Jobs, NEW p \in BOOLEAN,
             Registers(w, i, p)
      PROVE  RowInv(j)'
  <2>1. CASE i = j
    <3>1. /\ jobs'[j] = FailedRow(jobs[j], p)
          /\ failedEvents'[j] = IF Exhausted(jobs[j], p)
                                  THEN failedEvents[j] + 1 ELSE failedEvents[j]
          /\ insights' = insights
      BY <1>1, <1>7, <2>1 DEF Registers, TablesTyped
    <3>2. jobs[j].status = "processando"
      BY <1>7, <2>1 DEF Registers, Owns
    <3>3. jobs[j].tentativas \in Nat
      BY <1>3 DEF JobRows, AttemptCeiling
    <3>4. CASE Exhausted(jobs[j], p)
      BY <1>3, <3>1, <3>2, <3>4 DEF FailedRow
    <3>5. CASE ~ Exhausted(jobs[j], p)
      <4>1. jobs[j].tentativas < MaxAttempts
        BY <3>3, <3>5 DEF Exhausted, AttemptLimit
      <4> QED
        BY <1>3, <3>1, <3>2, <3>5, <4>1 DEF FailedRow
    <3> QED
      BY <3>4, <3>5
  <2>2. CASE i # j
    BY <1>1, <1>3, <1>7, <2>2 DEF Registers, TablesTyped
  <2> QED
    BY <2>1, <2>2
<1>8. ASSUME NEW batch \in SUBSET Jobs, Reschedules(batch)
      PROVE  RowInv(j)'
  <2>1. CASE j \in batch
    BY <1>3, <1>8, <2>1 DEF Reschedules, Due, RescheduledRow
  <2>2. CASE j \notin batch
    BY <1>3, <1>8, <2>2 DEF Reschedules
  <2> QED
    BY <2>1, <2>2
<1>9. ASSUME NEW i \in Jobs, Expires(i) \/ ComesDue(i)
      PROVE  RowInv(j)'
  <2>1. /\ jobs'[j].status = jobs[j].status
        /\ jobs'[j].tentativas = jobs[j].tentativas
        /\ jobs'[j].token = jobs[j].token
        /\ jobs'[j].lease = "null" <=> jobs[j].lease = "null"
        /\ jobs'[j].proxima = "null" <=> jobs[j].proxima = "null"
        /\ insights' = insights
        /\ failedEvents' = failedEvents
    <3>1. CASE Expires(i)
      BY <1>1, <1>3, <3>1 DEF Expires, TablesTyped, JobRows
    <3>2. CASE ComesDue(i)
      BY <1>1, <1>3, <3>2 DEF ComesDue, TablesTyped, JobRows
    <3> QED
      BY <1>9, <3>1, <3>2
  <2> QED
    BY <1>3, <2>1
<1> QED
  BY <1>4, <1>5, <1>6, <1>7, <1>8, <1>9 DEF TableStep

(* TableInv holds of new jobs.                                             *)
LEMMA InitTableInv == Init => TableInv
BY ProcessingAssumption
   DEF Init, NewJob, TableInv, RowsAreCoherent, OutcomeMatchesStatus,
       WaitingHasAttemptsLeft

-------------------------------------------------------------------------------
(* Only ClaimJob hands out a token, and it hands out a fresh one.          *)
LEMMA UniqueHolderStep ==
    ASSUME Shape, UniqueHolder, [Next]_vars
    PROVE  UniqueHolder'
<1> USE DEF UniqueHolder
<1>1. workers \in [Workers -> WorkerStates]
  BY DEF Shape, TypeOK
<1>2. CASE UNCHANGED workers
  BY <1>2
<1>3. ASSUME NEW w \in Workers, NEW me,
             workers' = [workers EXCEPT ![w] = me],
             me.token \in {NoToken, workers[w].token}
      PROVE  UniqueHolder'
  BY <1>1, <1>3
<1>4. Idle.token = NoToken
  BY DEF Idle
<1>5. ASSUME NEW w \in Workers, NEW b \in Bodies, Receive(w, b)
      PROVE  UniqueHolder'
  BY <1>3, <1>5 DEF Receive, Idle
<1>6. ASSUME NEW w \in Workers, Handle(w)
      PROVE  UniqueHolder'
  <2> USE DEF Goto
  <2>1. ASSUME NEW t \in Tokens, ClaimJob(w, t)
        PROVE  UniqueHolder'
    <3>1. ClaimedRow(jobs[workers[w].body], t).token = t
      BY DEF ClaimedRow
    <3>2. \A v \in Workers : /\ workers[v].token # t
                             /\ v # w => workers'[v].token = workers[v].token
      BY <1>1, <2>1 DEF ClaimJob, Fresh
    <3>3. workers'[w].token = t
      BY <1>1, <2>1, <3>1 DEF ClaimJob, WorkerStates
    <3> QED
      BY <3>2, <3>3
  <2>2. CASE \/ DeadLetter(w) \/ DeadLetterFails(w)
             \/ \E t \in Tokens : ClaimReplyLost(w, t)
             \/ AlreadyHandled(w) \/ BeginFails(w)
             \/ FindDisciplines(w) \/ Complete(w)
             \/ SaveInsightResult(w) \/ SaveLeaseLost(w) \/ SaveFails(w)
             \/ RegisterFailure(w) \/ RegisterLeaseLost(w) \/ RegisterFails(w)
    <3>1. \/ \E pc \in PCs : Goto(w, pc)
          \/ \E p \in BOOLEAN :
                workers' = [workers EXCEPT ![w].pc = "fail", ![w].permanent = p]
      BY <2>2 DEF DeadLetter, DeadLetterFails, ClaimReplyLost, AlreadyHandled,
            BeginFails, FindDisciplines, Complete, SaveInsightResult,
            SaveLeaseLost, SaveFails, RegisterFailure, RegisterLeaseLost,
            RegisterFails, PCs, Holding
    <3>2. \A v \in Workers : workers'[v].token = workers[v].token
      BY <1>1, <3>1 DEF WorkerStates
    <3> QED
      BY <3>2
  <2>3. CASE Ack(w) \/ Nack(w)
    BY <1>3, <1>4, <2>3 DEF Ack, Nack
  <2> QED
    BY <1>6, <2>1, <2>2, <2>3 DEF Handle
<1>7. ASSUME NEW w \in Workers, Crash(w) \/ ConnectionLost(w)
      PROVE  UniqueHolder'
  <2>1. CASE Crash(w)
    BY <1>3, <1>4, <2>1 DEF Crash
  <2>2. CASE ConnectionLost(w)
    <3>1. \A v \in Workers : workers'[v].token = workers[v].token
      BY <1>1, <2>2 DEF ConnectionLost, WorkerStates
    <3> QED
      BY <3>1
  <2> QED
    BY <1>7, <2>1, <2>2
<1>8. CASE \/ \E batch \in SUBSET Jobs : ScheduleDueRetryJobs(batch)
           \/ \E j \in Jobs : \/ RelayRequest(j) \/ RelayAgain(j)
                              \/ RelayGivesUp(j) \/ LeaseExpires(j)
                              \/ RetryComesDue(j)
  BY <1>2, <1>8 DEF ScheduleDueRetryJobs, RelayRequest, RelayAgain,
        RelayGivesUp, LeaseExpires, RetryComesDue
<1>9. CASE UNCHANGED vars
  BY <1>2, <1>9 DEF vars
<1> QED
  BY <1>5, <1>6, <1>7, <1>8, <1>9 DEF Next

-------------------------------------------------------------------------------
(* A delivery of b that w will handle from the start, or requeue.          *)
WillHandle(w, b) == /\ workers[w].body = b
                    /\ workers[w].held
                    /\ workers[w].pc \in {"begin", "nack"}

(* The queue after the broker takes back what w had in its hands.          *)
LEMMA RequeueKeeps ==
    ASSUME Shape, NEW w \in Workers, NEW b \in Bodies
    PROVE  /\ queue[b] > 0 => Requeued(w)[b] > 0
           /\ workers[w].held /\ workers[w].body = b => Requeued(w)[b] > 0
<1>1. queue \in [Bodies -> Nat] /\ workers[w].held \in BOOLEAN
  BY DEF Shape, TypeOK, WorkerStates
<1> QED
  BY <1>1 DEF Requeued

(* PendingJobHasRequest survives every step: whoever takes the last message*)
(* of a pending job claims the job or gives the message back.              *)
LEMMA PendingStep ==
    ASSUME Shape, PendingJobHasRequest, [Next]_vars
    PROVE  PendingJobHasRequest'
<1> USE DEF tables, broker, Goto, At
<1>1. /\ workers \in [Workers -> WorkerStates]
      /\ queue \in [Bodies -> Nat]
      /\ requests \in [Jobs -> Nat]
      /\ jobs \in [Jobs -> JobRows]
      /\ queue' \in [Bodies -> Nat]
      /\ requests' \in [Jobs -> Nat]
  BY ShapeStep DEF Shape, TypeOK
<1>2. SUFFICES ASSUME NEW j \in Jobs, jobs'[j].status = "pendente",
                      j \notin abandoned'
               PROVE  Deliverable(j)'
  BY DEF PendingJobHasRequest
<1>3. j \in Bodies /\ j \notin Malformed /\ j \notin Unknown /\ j # NoBody
  BY BodiesAreDistinct DEF Bodies
<1>4. jobs[j].status = "pendente" /\ j \notin abandoned =>
         requests[j] > 0 \/ queue[j] > 0 \/ \E w \in Workers : WillHandle(w, j)
  BY DEF PendingJobHasRequest, Deliverable, WillHandle
<1>5. ASSUME requests'[j] > 0 \/ queue'[j] > 0
             \/ \E w \in Workers : WillHandle(w, j)'
      PROVE  Deliverable(j)'
  BY <1>5 DEF Deliverable, WillHandle
(* Nothing that bears on j changes but, perhaps, a goroutine that was not  *)
(* going to handle it.                                                     *)
<1>6. ASSUME jobs[j].status = "pendente", j \notin abandoned,
             requests'[j] >= requests[j], queue'[j] >= queue[j],
             \A w \in Workers : WillHandle(w, j) => WillHandle(w, j)'
      PROVE  Deliverable(j)'
  <2>1. requests[j] \in Nat /\ requests'[j] \in Nat
        /\ queue[j] \in Nat /\ queue'[j] \in Nat
    BY <1>1, <1>3
  <2> QED
    BY <1>4, <1>5, <1>6, <2>1
<1>7. CASE UNCHANGED vars
  BY <1>1, <1>2, <1>3, <1>6, <1>7 DEF vars, WillHandle
<1>8. ASSUME NEW w \in Workers, NEW b \in Bodies, Receive(w, b)
      PROVE  Deliverable(j)'
  <2>1. CASE b = j
    <3>1. WillHandle(w, j)'
      BY <1>1, <1>3, <1>8, <2>1 DEF Receive, Idle, WillHandle
    <3> QED
      BY <1>5, <3>1
  <2>2. CASE b # j
    <3>1. \A v \in Workers : WillHandle(v, j) => WillHandle(v, j)'
      BY <1>1, <1>8 DEF Receive, WillHandle
    <3>2. queue'[j] = queue[j] /\ requests'[j] = requests[j]
      BY <1>1, <1>3, <1>8, <2>2 DEF Receive
    <3>3. UNCHANGED <<jobs, abandoned>>
      BY <1>8 DEF Receive
    <3> QED
      BY <1>1, <1>2, <1>3, <1>6, <3>1, <3>2, <3>3
  <2> QED
    BY <2>1, <2>2
<1>9. ASSUME NEW w \in Workers, Handle(w)
      PROVE  Deliverable(j)'
  <2>1. ASSUME NEW t \in Tokens, ClaimJob(w, t) \/ ClaimReplyLost(w, t)
        PROVE  Deliverable(j)'
    <3>1. workers[w].body # j
      BY <1>1, <1>2, <2>1 DEF ClaimJob, ClaimReplyLost, ClaimedRow
    <3>2. \A v \in Workers : WillHandle(v, j) => WillHandle(v, j)'
      BY <1>1, <2>1, <3>1 DEF ClaimJob, ClaimReplyLost, WillHandle
    <3>3. /\ jobs'[j] = jobs[j]
          /\ UNCHANGED <<requests, abandoned, queue>>
      BY <1>1, <2>1, <3>1 DEF ClaimJob, ClaimReplyLost
    <3> QED
      BY <1>1, <1>2, <1>3, <1>6, <3>2, <3>3
  <2>2. CASE AlreadyHandled(w)
    <3>1. UNCHANGED <<jobs, requests, abandoned, queue>>
      BY <2>2 DEF AlreadyHandled
    <3>2. workers[w].body # j
      BY <1>2, <2>2, <3>1 DEF AlreadyHandled, Claimable
    <3>3. \A v \in Workers : WillHandle(v, j) => WillHandle(v, j)'
      BY <1>1, <2>2, <3>2 DEF AlreadyHandled, WillHandle
    <3> QED
      BY <1>1, <1>2, <1>3, <1>6, <3>1, <3>3
  <2>3. CASE BeginFails(w)
    <3>1. UNCHANGED <<jobs, requests, abandoned, queue>>
      BY <2>3 DEF BeginFails
    <3>2. \A v \in Workers : WillHandle(v, j) => WillHandle(v, j)'
      BY <1>1, <2>3 DEF BeginFails, WillHandle
    <3> QED
      BY <1>1, <1>2, <1>3, <1>6, <3>1, <3>2
  <2>4. CASE SaveInsightResult(w) \/ RegisterFailure(w)
    <3>1. workers[w].body # j
      BY <1>1, <1>2, <2>4 DEF SaveInsightResult, RegisterFailure,
                              ConcludedRow, FailedRow
    <3>2. \A v \in Workers : WillHandle(v, j) => WillHandle(v, j)'
      BY <1>1, <2>4, <3>1 DEF SaveInsightResult, RegisterFailure, WillHandle
    <3>3. /\ jobs'[j] = jobs[j]
          /\ UNCHANGED <<requests, abandoned, queue>>
      BY <1>1, <2>4, <3>1 DEF SaveInsightResult, RegisterFailure
    <3> QED
      BY <1>1, <1>2, <1>3, <1>6, <3>2, <3>3
  <2>5. CASE \/ DeadLetter(w) \/ DeadLetterFails(w)
             \/ FindDisciplines(w) \/ Complete(w)
             \/ SaveLeaseLost(w) \/ SaveFails(w)
             \/ RegisterLeaseLost(w) \/ RegisterFails(w)
             \/ Ack(w)
    <3>1. UNCHANGED <<jobs, requests, abandoned, queue>>
      BY <2>5 DEF DeadLetter, DeadLetterFails, FindDisciplines, Complete,
            SaveLeaseLost, SaveFails, RegisterLeaseLost, RegisterFails, Ack
    <3>2. workers[w].pc \notin {"begin", "nack"}
      BY <2>5 DEF DeadLetter, DeadLetterFails, FindDisciplines, Complete,
            SaveLeaseLost, SaveFails, RegisterLeaseLost, RegisterFails, Ack
    <3>3. \A v \in Workers : v # w => workers'[v] = workers[v]
      BY <1>1, <2>5 DEF DeadLetter, DeadLetterFails, FindDisciplines, Complete,
            SaveLeaseLost, SaveFails, RegisterLeaseLost, RegisterFails, Ack
    <3>4. \A v \in Workers : WillHandle(v, j) => WillHandle(v, j)'
      BY <3>2, <3>3 DEF WillHandle
    <3> QED
      BY <1>1, <1>2, <1>3, <1>6, <3>1, <3>4
  <2>6. CASE Nack(w)
    <3>1. /\ queue' = Requeued(w)
          /\ \A v \in Workers : v # w => workers'[v] = workers[v]
          /\ UNCHANGED <<jobs, requests, abandoned>>
      BY <1>1, <2>6 DEF Nack
    <3> QED
      BY <1>2, <1>3, <1>4, <1>5, <3>1, RequeueKeeps DEF WillHandle
  <2> QED
    BY <1>9, <2>1, <2>2, <2>3, <2>4, <2>5, <2>6 DEF Handle
<1>10. ASSUME NEW w \in Workers, Crash(w) \/ ConnectionLost(w)
       PROVE  Deliverable(j)'
  <2>1. /\ queue' = Requeued(w)
        /\ \A v \in Workers : v # w => workers'[v] = workers[v]
        /\ UNCHANGED <<jobs, requests, abandoned>>
    BY <1>1, <1>10 DEF Crash, ConnectionLost
  <2> QED
    BY <1>2, <1>3, <1>4, <1>5, <2>1, RequeueKeeps DEF WillHandle
<1>11. ASSUME NEW batch \in SUBSET Jobs, ScheduleDueRetryJobs(batch)
       PROVE  Deliverable(j)'
  <2>1. CASE j \in batch
    BY <1>1, <1>5, <1>11, <2>1 DEF ScheduleDueRetryJobs
  <2>2. CASE j \notin batch
    <3>1. /\ jobs'[j] = jobs[j] /\ requests'[j] = requests[j]
          /\ UNCHANGED <<abandoned, queue, workers>>
      BY <1>11, <2>2 DEF ScheduleDueRetryJobs
    <3> QED
      BY <1>1, <1>2, <1>3, <1>6, <3>1 DEF WillHandle
  <2> QED
    BY <2>1, <2>2
<1>12. ASSUME NEW i \in Jobs,
              \/ RelayRequest(i) \/ RelayAgain(i) \/ RelayGivesUp(i)
              \/ LeaseExpires(i) \/ RetryComesDue(i)
       PROVE  Deliverable(j)'
  <2>1. CASE i = j /\ (RelayRequest(i) \/ RelayAgain(i))
    BY <1>1, <1>3, <1>5, <2>1 DEF RelayRequest, RelayAgain
  <2>2. CASE i = j /\ RelayGivesUp(i)
    BY <1>2, <2>2 DEF RelayGivesUp
  <2>3. CASE i # j \/ LeaseExpires(i) \/ RetryComesDue(i)
    <3>1. /\ requests'[j] = requests[j] /\ queue'[j] = queue[j]
          /\ UNCHANGED workers /\ abandoned \subseteq abandoned'
      BY <1>1, <1>3, <1>12, <2>3 DEF RelayRequest, RelayAgain, RelayGivesUp,
                                    LeaseExpires, RetryComesDue
    <3>2. jobs'[j].status = jobs[j].status
      BY <1>1, <1>12 DEF RelayRequest, RelayAgain, RelayGivesUp, LeaseExpires,
                         RetryComesDue, JobRows
    <3> QED
      BY <1>1, <1>2, <1>3, <1>6, <3>1, <3>2 DEF WillHandle
  <2> QED
    BY <1>12, <2>1, <2>2, <2>3
<1> QED
  BY <1>7, <1>8, <1>9, <1>10, <1>11, <1>12 DEF Next

-------------------------------------------------------------------------------
Kept(b) == \/ queue[b] > 0
           \/ b \in dlq
           \/ \E w \in Workers : workers[w].body = b /\ workers[w].held

(* StrayMessageNeverLost survives every step: a stray message is acked only*)
(* once the DLQ has it.                                                    *)
LEMMA StrayStep ==
    ASSUME Shape, StrayMessageNeverLost, [Next]_vars
    PROVE  StrayMessageNeverLost'
<1> USE DEF tables, broker, Goto, At
<1>1. /\ workers \in [Workers -> WorkerStates]
      /\ queue \in [Bodies -> Nat]
      /\ queue' \in [Bodies -> Nat]
      /\ WorkersAreCoherent
  BY ShapeStep DEF Shape, TypeOK
<1>2. SUFFICES ASSUME NEW b \in Malformed \cup Unknown, Kept(b)
               PROVE  Kept(b)'
  BY DEF StrayMessageNeverLost, Kept
<1>3. b \in Bodies /\ b \notin Jobs /\ b # NoBody
  BY BodiesAreDistinct DEF Bodies
(* A step that takes nothing from the queue and leaves what is held held.  *)
<1>4. ASSUME queue' = queue, dlq \subseteq dlq',
             \A w \in Workers : /\ workers'[w].body = workers[w].body
                               /\ workers'[w].held = workers[w].held
      PROVE  Kept(b)'
  BY <1>2, <1>4 DEF Kept
<1>5. ASSUME NEW w \in Workers, queue' = Requeued(w), dlq' = dlq,
             \A v \in Workers : v # w => workers'[v] = workers[v]
      PROVE  Kept(b)'
  BY <1>2, <1>3, <1>5, RequeueKeeps DEF Kept
<1>6. ASSUME NEW w \in Workers, NEW c \in Bodies, Receive(w, c)
      PROVE  Kept(b)'
  <2>1. CASE b = c
    BY <1>1, <1>6, <2>1 DEF Receive, Idle, Kept
  <2>2. CASE b # c
    <3>1. /\ queue'[b] = queue[b] /\ dlq' = dlq
          /\ \A v \in Workers : v # w => workers'[v] = workers[v]
      BY <1>1, <1>6, <2>2 DEF Receive
    <3>2. workers[w].body # b
      BY <1>1, <1>3, <1>6 DEF Receive, WorkersAreCoherent
    <3> QED
      BY <1>2, <3>1, <3>2 DEF Kept
  <2> QED
    BY <2>1, <2>2
<1>7. ASSUME NEW w \in Workers, Handle(w)
      PROVE  Kept(b)'
  <2>1. CASE Ack(w)
    <3>1. /\ UNCHANGED <<queue, dlq>>
          /\ \A v \in Workers : v # w => workers'[v] = workers[v]
      BY <1>1, <2>1 DEF Ack
    <3>2. workers[w].body = b => b \in dlq
      BY <1>1, <1>3, <2>1 DEF Ack, WorkersAreCoherent
    <3> QED
      BY <1>2, <3>1, <3>2 DEF Kept
  <2>2. CASE Nack(w)
    BY <1>1, <1>5, <2>2 DEF Nack
  <2>3. ASSUME NEW t \in Tokens, ClaimJob(w, t)
        PROVE  Kept(b)'
    <3>1. /\ UNCHANGED <<queue, dlq>>
          /\ \A v \in Workers : /\ workers'[v].body = workers[v].body
                                /\ workers'[v].held = workers[v].held
      BY <1>1, <2>3 DEF ClaimJob, WorkerStates
    <3> QED
      BY <1>4, <3>1
  <2>4. CASE \/ DeadLetter(w) \/ DeadLetterFails(w)
             \/ \E t \in Tokens : ClaimReplyLost(w, t)
             \/ AlreadyHandled(w) \/ BeginFails(w)
             \/ FindDisciplines(w) \/ Complete(w)
             \/ SaveInsightResult(w) \/ SaveLeaseLost(w) \/ SaveFails(w)
             \/ RegisterFailure(w) \/ RegisterLeaseLost(w) \/ RegisterFails(w)
    <3>1. /\ UNCHANGED queue /\ dlq \subseteq dlq'
          /\ \/ \E pc \in PCs : Goto(w, pc)
             \/ \E p \in BOOLEAN :
                   workers' = [workers EXCEPT ![w].pc = "fail", ![w].permanent = p]
      BY <2>4 DEF DeadLetter, DeadLetterFails, ClaimReplyLost, AlreadyHandled,
            BeginFails, FindDisciplines, Complete, SaveInsightResult,
            SaveLeaseLost, SaveFails, RegisterFailure, RegisterLeaseLost,
            RegisterFails, PCs, Holding
    <3>2. \A v \in Workers : /\ workers'[v].body = workers[v].body
                             /\ workers'[v].held = workers[v].held
      BY <1>1, <3>1 DEF WorkerStates
    <3> QED
      BY <1>4, <3>1, <3>2
  <2> QED
    BY <1>7, <2>1, <2>2, <2>3, <2>4 DEF Handle
<1>8. ASSUME NEW w \in Workers, Crash(w) \/ ConnectionLost(w)
      PROVE  Kept(b)'
  BY <1>1, <1>5, <1>8 DEF Crash, ConnectionLost
<1>9. CASE \/ \E batch \in SUBSET Jobs : ScheduleDueRetryJobs(batch)
           \/ \E j \in Jobs : \/ RelayGivesUp(j) \/ LeaseExpires(j)
                              \/ RetryComesDue(j)
  <2>1. UNCHANGED <<queue, dlq, workers>>
    BY <1>9 DEF ScheduleDueRetryJobs, RelayGivesUp, LeaseExpires, RetryComesDue
  <2> QED
    BY <1>4, <2>1
<1>10. ASSUME NEW j \in Jobs, RelayRequest(j) \/ RelayAgain(j)
       PROVE  Kept(b)'
  <2>1. queue'[b] = queue[b] /\ UNCHANGED <<dlq, workers>>
    BY <1>1, <1>3, <1>10 DEF RelayRequest, RelayAgain
  <2> QED
    BY <1>2, <2>1 DEF Kept
<1>11. CASE UNCHANGED vars
  BY <1>4, <1>11 DEF vars
<1> QED
  BY <1>6, <1>7, <1>8, <1>9, <1>10, <1>11 DEF Next

-------------------------------------------------------------------------------
(* The inductive invariant holds initially.                                *)
THEOREM Initially == Init => IInv
<1> SUFFICES ASSUME Init PROVE IInv
  OBVIOUS
<1>1. UniqueHolder
  BY DEF Init, UniqueHolder, Idle
<1>2. PendingJobHasRequest
  BY DEF Init, PendingJobHasRequest, Deliverable
<1>3. StrayMessageNeverLost
  BY BodiesAreDistinct DEF Init, StrayMessageNeverLost, Bodies
<1> QED
  BY <1>1, <1>2, <1>3, InitShape, InitTableInv DEF IInv

(* The inductive invariant is preserved by every step of goroutines,       *)
(* scheduler, dispatcher, broker and clock.                                *)
THEOREM Inductive == IInv /\ [Next]_vars => IInv'
BY EveryStepIsATableStep, ShapeStep, TableInvStep, UniqueHolderStep,
   PendingStep, StrayStep
   DEF IInv

(* The inductive invariant holds in every reachable state.                 *)
THEOREM Safety == Spec => []IInv
BY Initially, Inductive, PTL DEF Spec

(* OutcomeMatchesStatus, in every reachable state.                         *)
THEOREM OutcomeIsCoherent == Spec => []OutcomeMatchesStatus
<1>1. IInv => OutcomeMatchesStatus
  BY DEF IInv, TableInv
<1> QED
  BY <1>1, Safety, PTL

(* RowsAreCoherent, in every reachable state.                              *)
THEOREM RowsStayCoherent == Spec => []RowsAreCoherent
<1>1. IInv => RowsAreCoherent
  BY DEF IInv, TableInv
<1> QED
  BY <1>1, Safety, PTL

(* WaitingHasAttemptsLeft, in every reachable state: the scheduler and the *)
(* outbox never bring back a job that has used its attempts.               *)
THEOREM RetriesHaveAttemptsLeft == Spec => []WaitingHasAttemptsLeft
<1>1. IInv => WaitingHasAttemptsLeft
  BY DEF IInv, TableInv
<1> QED
  BY <1>1, Safety, PTL

(* UniqueHolder, in every reachable state.                                 *)
THEOREM OneHolderPerToken == Spec => []UniqueHolder
<1>1. IInv => UniqueHolder
  BY DEF IInv
<1> QED
  BY <1>1, Safety, PTL

(* PendingJobHasRequest, in every reachable state, under every fault.      *)
THEOREM PendingJobsAreDeliverable == Spec => []PendingJobHasRequest
<1>1. IInv => PendingJobHasRequest
  BY DEF IInv
<1> QED
  BY <1>1, Safety, PTL

(* StrayMessageNeverLost, in every reachable state, under every fault.     *)
THEOREM StrayMessagesAreKept == Spec => []StrayMessageNeverLost
<1>1. IInv => StrayMessageNeverLost
  BY DEF IInv
<1> QED
  BY <1>1, Safety, PTL

-------------------------------------------------------------------------------
(* Action properties: a row is touched by nobody but the statements of     *)
(* TableStep, and those check who owns it.                                 *)

(* No table step touches a job that is resolved, or what was made of it.   *)
LEMMA ResolvedRowsAreLeftAlone ==
    ASSUME Shape, TableInv, TableStep, NEW j \in Jobs,
           jobs[j].status \in Resolved
    PROVE  /\ jobs'[j] = jobs[j]
           /\ failedEvents'[j] = failedEvents[j]
           /\ j \in insights' <=> j \in insights
<1>1. TablesTyped /\ RowInv(j)
  BY TableInvIsPerRow DEF Shape, TypeOK, TablesTyped
<1>2. /\ jobs[j].status \notin {"pendente", "processando", "aguardando_retentativa"}
      /\ jobs[j].lease = "null" /\ jobs[j].proxima = "null"
  BY <1>1 DEF RowInv, Resolved, TablesTyped, JobRows, Statuses
<1>3. CASE TablesUnchanged
  BY <1>3 DEF TablesUnchanged
<1>4. ASSUME NEW i \in Jobs, NEW t \in Tokens, Claims(i, t)
      PROVE  UNCHANGED <<jobs[j], failedEvents[j], insights>>
  BY <1>1, <1>2, <1>4 DEF Claims, Claimable, TablesTyped
<1>5. ASSUME NEW w \in Workers, NEW i \in Jobs, Concludes(w, i)
      PROVE  /\ UNCHANGED <<jobs[j], failedEvents[j]>>
             /\ j \in insights' <=> j \in insights
  BY <1>1, <1>2, <1>5 DEF Concludes, Owns, TablesTyped
<1>6. ASSUME NEW w \in Workers, NEW i \in Jobs, NEW p \in BOOLEAN,
             Registers(w, i, p)
      PROVE  UNCHANGED <<jobs[j], failedEvents[j], insights>>
  BY <1>1, <1>2, <1>6 DEF Registers, Owns, TablesTyped
<1>7. ASSUME NEW batch \in SUBSET Jobs, Reschedules(batch)
      PROVE  UNCHANGED <<jobs[j], failedEvents[j], insights>>
  BY <1>1, <1>2, <1>7 DEF Reschedules, Due, TablesTyped
<1>8. ASSUME NEW i \in Jobs, Expires(i) \/ ComesDue(i)
      PROVE  UNCHANGED <<jobs[j], failedEvents[j], insights>>
  BY <1>1, <1>2, <1>8 DEF Expires, ComesDue, TablesTyped
<1> QED
  BY <1>3, <1>4, <1>5, <1>6, <1>7, <1>8 DEF TableStep

(* ResolvedIsFinal: nothing that happens to a job after it is resolved     *)
(* shows in any of the three tables.                                       *)
THEOREM ResolvedStaysResolved == Spec => ResolvedIsFinal
<1>1. IInv /\ [Next]_vars =>
         [\A j \in Jobs : jobs[j].status \in Resolved =>
             /\ jobs'[j] = jobs[j]
             /\ failedEvents'[j] = failedEvents[j]
             /\ j \in insights' <=> j \in insights]_vars
  BY EveryStepIsATableStep, ResolvedRowsAreLeftAlone DEF IInv
<1> QED
  BY <1>1, Safety, PTL DEF Spec, ResolvedIsFinal

(* A table step that changes a row in 'processando' is the holder's, a     *)
(* takeover after expiry, or the clock's.                                  *)
LEMMA OnlyTheHolderTouchesARow ==
    ASSUME Shape, TableInv, TableStep, NEW j \in Jobs,
           jobs[j].status = "processando", jobs'[j] # jobs[j]
    PROVE  \/ \E w \in Workers : /\ Owns(w) /\ workers[w].body = j
                                 /\ workers[w].pc \in {"save", "fail"}
           \/ jobs[j].lease = "expired" /\ jobs'[j].status = "processando"
           \/ jobs'[j] = [jobs[j] EXCEPT !.lease = "expired"]
<1>1. TablesTyped /\ RowInv(j)
  BY TableInvIsPerRow DEF Shape, TypeOK, TablesTyped
<1>2. ~ TablesUnchanged
  BY DEF TablesUnchanged
<1>3. ASSUME NEW i \in Jobs, NEW t \in Tokens, Claims(i, t)
      PROVE  jobs[j].lease = "expired" /\ jobs'[j].status = "processando"
  <2>1. i = j
    BY <1>1, <1>3 DEF Claims, TablesTyped
  <2> QED
    BY <1>1, <1>3, <2>1 DEF Claims, Claimable, ClaimedRow, TablesTyped
<1>4. ASSUME NEW w \in Workers, NEW i \in Jobs, Concludes(w, i)
      PROVE  Owns(w) /\ workers[w].body = j /\ workers[w].pc = "save"
  BY <1>1, <1>4 DEF Concludes, TablesTyped
<1>5. ASSUME NEW w \in Workers, NEW i \in Jobs, NEW p \in BOOLEAN,
             Registers(w, i, p)
      PROVE  Owns(w) /\ workers[w].body = j /\ workers[w].pc = "fail"
  BY <1>1, <1>5 DEF Registers, TablesTyped
<1>6. ASSUME NEW batch \in SUBSET Jobs, Reschedules(batch)
      PROVE  FALSE
  BY <1>1, <1>6 DEF Reschedules, Due, TablesTyped
<1>7. ASSUME NEW i \in Jobs, Expires(i)
      PROVE  jobs'[j] = [jobs[j] EXCEPT !.lease = "expired"]
  BY <1>1, <1>7 DEF Expires, TablesTyped
<1>8. ASSUME NEW i \in Jobs, ComesDue(i)
      PROVE  FALSE
  BY <1>1, <1>8 DEF ComesDue, TablesTyped, RowInv
<1> QED
  BY <1>2, <1>3, <1>4, <1>5, <1>6, <1>7, <1>8 DEF TableStep

(* LeaseIsRespected: a job being processed changes hands only by expiry.   *)
THEOREM LeasesAreRespected == Spec => LeaseIsRespected
<1>1. IInv /\ [Next]_vars =>
         [\A j \in Jobs :
             jobs[j].status = "processando" /\ jobs'[j] # jobs[j] =>
                \/ \E w \in Workers : /\ Owns(w) /\ workers[w].body = j
                                      /\ workers[w].pc \in {"save", "fail"}
                \/ jobs[j].lease = "expired" /\ jobs'[j].status = "processando"
                \/ jobs'[j] = [jobs[j] EXCEPT !.lease = "expired"]]_vars
  BY EveryStepIsATableStep, OnlyTheHolderTouchesARow DEF IInv
<1> QED
  BY <1>1, Safety, PTL DEF Spec, LeaseIsRespected

-------------------------------------------------------------------------------
(* The refinement.  Given TableInv the phase of a job can be read off its  *)
(* status alone.                                                           *)
PhaseOfStatus(status) ==
    CASE status \in {"pendente", "aguardando_retentativa"} -> "open"
      [] status = "processando" -> "running"
      [] status = "concluido"   -> "insight"
      [] status = "falhou"      -> "failure"

PhaseBar == [j \in Jobs |-> Phase(j)]
AttemptsBar == [j \in Jobs |-> jobs[j].tentativas]

(* Where TableInv holds, the phase of a job is a function of its status.   *)
LEMMA PhaseFollowsStatus ==
    TablesTyped /\ TableInv =>
        \A j \in Jobs : PhaseBar[j] = PhaseOfStatus(jobs[j].status)
<1> SUFFICES ASSUME TablesTyped, TableInv, NEW j \in Jobs
             PROVE  PhaseBar[j] = PhaseOfStatus(jobs[j].status)
  OBVIOUS
<1>1. jobs[j].status \in Statuses /\ RowInv(j)
  BY TableInvIsPerRow DEF TablesTyped, JobRows
<1>2. Phase(j) = PhaseOfStatus(jobs[j].status)
  <2>1. CASE jobs[j].status \in {"pendente", "aguardando_retentativa"}
    BY <1>1, <2>1 DEF RowInv, Phase, PhaseOfStatus
  <2>2. CASE jobs[j].status = "processando"
    BY <1>1, <2>2 DEF RowInv, Phase, PhaseOfStatus
  <2>3. CASE jobs[j].status = "concluido"
    BY <1>1, <2>3 DEF RowInv, Phase, PhaseOfStatus
  <2>4. CASE jobs[j].status = "falhou"
    BY <1>1, <2>4 DEF RowInv, Phase, PhaseOfStatus
  <2> QED
    BY <1>1, <2>1, <2>2, <2>3, <2>4 DEF Statuses
<1> QED
  BY <1>2 DEF PhaseBar

(* The same of the next state.                                             *)
LEMMA PhaseFollowsStatusNext ==
    (TablesTyped /\ TableInv =>
        \A j \in Jobs : PhaseBar[j] = PhaseOfStatus(jobs[j].status))'
BY PhaseFollowsStatus, PTL

(* A table step is a step of JobLifecycle or a stutter; rescheduling a     *)
(* batch is a stutter, for waiting and pending are both open.              *)
LEMMA TableStepRefines ==
    ASSUME Shape, TableInv, TableStep, TablesTyped', TableInv'
    PROVE  \/ UNCHANGED <<PhaseBar, AttemptsBar>>
           \/ \E j \in Jobs : \/ Lifecycle!Start(j) \/ Lifecycle!Conclude(j)
                              \/ Lifecycle!Fail(j) \/ Lifecycle!Retry(j)
<1> DEFINE Refines ==
              \/ UNCHANGED <<PhaseBar, AttemptsBar>>
              \/ \E j \in Jobs : \/ Lifecycle!Start(j) \/ Lifecycle!Conclude(j)
                                 \/ Lifecycle!Fail(j) \/ Lifecycle!Retry(j)
<1>1. TablesTyped
  BY DEF Shape, TypeOK, TablesTyped
<1>2. \A j \in Jobs : /\ PhaseBar[j] = PhaseOfStatus(jobs[j].status)
                      /\ PhaseBar'[j] = PhaseOfStatus(jobs'[j].status)
                      /\ AttemptsBar[j] = jobs[j].tentativas
                      /\ AttemptsBar'[j] = jobs'[j].tentativas
                      /\ jobs[j].status \in Statuses
  BY <1>1, PhaseFollowsStatus, PhaseFollowsStatusNext
     DEF AttemptsBar, TablesTyped, JobRows
<1>3. /\ PhaseBar = [j \in Jobs |-> PhaseBar[j]]
      /\ PhaseBar' = [j \in Jobs |-> PhaseBar'[j]]
      /\ AttemptsBar = [j \in Jobs |-> AttemptsBar[j]]
      /\ AttemptsBar' = [j \in Jobs |-> AttemptsBar'[j]]
  BY DEF PhaseBar, AttemptsBar
(* A step that leaves status and tentativas of every row as they are.      *)
<1>4. ASSUME \A j \in Jobs : /\ PhaseBar'[j] = PhaseBar[j]
                             /\ AttemptsBar'[j] = AttemptsBar[j]
      PROVE  Refines
  BY <1>3, <1>4
(* A step of the one row i.                                                *)
<1>5. ASSUME NEW i \in Jobs, \A j \in Jobs : j # i => jobs'[j] = jobs[j]
      PROVE  /\ PhaseBar' = [PhaseBar EXCEPT ![i] = PhaseBar'[i]]
             /\ AttemptsBar' = [AttemptsBar EXCEPT ![i] = AttemptsBar'[i]]
             /\ AttemptsBar'[i] = AttemptsBar[i] => AttemptsBar' = AttemptsBar
  BY <1>2, <1>3, <1>5
<1>6. CASE TablesUnchanged
  BY <1>2, <1>4, <1>6 DEF TablesUnchanged
<1>7. ASSUME NEW i \in Jobs, NEW t \in Tokens, Claims(i, t)
      PROVE  Refines
  <2>1. /\ jobs'[i] = ClaimedRow(jobs[i], t)
        /\ \A j \in Jobs : j # i => jobs'[j] = jobs[j]
        /\ Claimable(jobs[i])
    BY <1>1, <1>7 DEF Claims, TablesTyped
  <2>2. PhaseBar[i] \in {"open", "running"} /\ PhaseBar'[i] = "running"
    BY <1>2, <2>1 DEF Claimable, ClaimedRow, PhaseOfStatus
  <2>3. AttemptsBar'[i] = Lifecycle!NextAttempt(AttemptsBar[i])
    BY <1>2, <2>1 DEF ClaimedRow, Lifecycle!NextAttempt, AttemptCeiling,
                      Lifecycle!AttemptCeiling
  <2>4. Lifecycle!Start(i)
    BY <1>5, <2>1, <2>2, <2>3 DEF Lifecycle!Start, PhaseBar, AttemptsBar
  <2> QED
    BY <2>4
<1>8. ASSUME NEW w \in Workers, NEW i \in Jobs, Concludes(w, i)
      PROVE  Refines
  <2>1. /\ jobs'[i] = ConcludedRow(jobs[i])
        /\ \A j \in Jobs : j # i => jobs'[j] = jobs[j]
        /\ jobs[i].status = "processando"
    BY <1>1, <1>8 DEF Concludes, Owns, TablesTyped
  <2>2. PhaseBar[i] = "running" /\ PhaseBar'[i] = "insight"
    BY <1>2, <2>1 DEF ConcludedRow, PhaseOfStatus
  <2>3. AttemptsBar'[i] = AttemptsBar[i]
    BY <1>2, <2>1 DEF ConcludedRow
  <2>4. Lifecycle!Conclude(i)
    BY <1>5, <2>1, <2>2, <2>3 DEF Lifecycle!Conclude, PhaseBar, AttemptsBar
  <2> QED
    BY <2>4
<1>9. ASSUME NEW w \in Workers, NEW i \in Jobs, NEW p \in BOOLEAN,
             Registers(w, i, p)
      PROVE  Refines
  <2>1. /\ jobs'[i] = FailedRow(jobs[i], p)
        /\ \A j \in Jobs : j # i => jobs'[j] = jobs[j]
        /\ jobs[i].status = "processando"
    BY <1>1, <1>9 DEF Registers, Owns, TablesTyped
  <2>2. PhaseBar[i] = "running" /\ AttemptsBar'[i] = AttemptsBar[i]
    BY <1>2, <2>1 DEF FailedRow, PhaseOfStatus
  <2>3. CASE Exhausted(jobs[i], p)
    <3>1. PhaseBar'[i] = "failure"
      BY <1>2, <2>1, <2>3 DEF FailedRow, PhaseOfStatus
    <3>2. Lifecycle!Fail(i)
      BY <1>5, <2>1, <2>2, <3>1 DEF Lifecycle!Fail, PhaseBar, AttemptsBar
    <3> QED
      BY <3>2
  <2>4. CASE ~ Exhausted(jobs[i], p)
    <3>1. PhaseBar'[i] = "open"
      BY <1>2, <2>1, <2>4 DEF FailedRow, PhaseOfStatus
    <3>2. AttemptsBar[i] < MaxAttempts
      <4>1. jobs[i].tentativas \in Nat
        BY <1>1, ProcessingAssumption DEF TablesTyped, JobRows, AttemptCeiling
      <4> QED
        BY <1>2, <2>4, <4>1, ProcessingAssumption DEF Exhausted, AttemptLimit
    <3>3. Lifecycle!Retry(i)
      BY <1>5, <2>1, <2>2, <3>1, <3>2 DEF Lifecycle!Retry, PhaseBar, AttemptsBar
    <3> QED
      BY <3>3
  <2> QED
    BY <2>3, <2>4
<1>10. ASSUME NEW batch \in SUBSET Jobs, Reschedules(batch)
       PROVE  Refines
  <2>1. ASSUME NEW j \in Jobs
        PROVE  /\ PhaseOfStatus(jobs'[j].status) = PhaseOfStatus(jobs[j].status)
               /\ jobs'[j].tentativas = jobs[j].tentativas
    BY <1>10 DEF Reschedules, Due, RescheduledRow, PhaseOfStatus
  <2> QED
    BY <1>2, <1>4, <2>1
<1>11. ASSUME NEW i \in Jobs, Expires(i) \/ ComesDue(i)
       PROVE  Refines
  <2>1. ASSUME NEW j \in Jobs
        PROVE  /\ jobs'[j].status = jobs[j].status
               /\ jobs'[j].tentativas = jobs[j].tentativas
    BY <1>1, <1>11 DEF Expires, ComesDue, TablesTyped, JobRows
  <2> QED
    BY <1>2, <1>4, <2>1
<1> QED
  BY <1>6, <1>7, <1>8, <1>9, <1>10, <1>11 DEF TableStep

(* New jobs are open and untried.                                          *)
LEMMA InitRefines == Init => Lifecycle!Init
<1> SUFFICES ASSUME Init PROVE Lifecycle!Init
  OBVIOUS
<1>1. \A j \in Jobs : Phase(j) = "open" /\ jobs[j].tentativas = 0
  BY DEF Init, NewJob, Phase
<1> QED
  BY <1>1 DEF Lifecycle!Init

(* LifecycleSpec: whatever the goroutines, the broker and the clock do,    *)
(* the three tables move as JobLifecycle allows.                           *)
THEOREM Refinement == Spec => LifecycleSpec
<1>1. IInv /\ IInv' /\ [Next]_vars => [Lifecycle!Next]_(Lifecycle!vars)
  <2> SUFFICES ASSUME IInv, IInv', [Next]_vars
               PROVE  [Lifecycle!Next]_(Lifecycle!vars)
    OBVIOUS
  <2>1. TableStep
    BY EveryStepIsATableStep DEF IInv
  <2>2. TablesTyped' /\ TableInv'
    BY DEF IInv, Shape, TypeOK, TablesTyped
  <2> QED
    BY <2>1, <2>2, TableStepRefines
       DEF IInv, Lifecycle!Next, Lifecycle!vars, PhaseBar, AttemptsBar
<1> QED
  BY <1>1, InitRefines, Safety, PTL DEF Spec, LifecycleSpec, Lifecycle!Spec

-------------------------------------------------------------------------------
(* With no process dying, no connection lost and every query granted, a    *)
(* job being processed always has a goroutine that can resolve it.         *)
Undisturbed == Faults \cap {"crash", "connection", "database", "text"} = {}

NobodyInterrupted ==
    \A w \in Workers : At(w, "idle") \/ ~ Interrupted(w)

LEMMA NobodyInterruptedStep ==
    ASSUME Undisturbed, TypeOK, NobodyInterrupted, [Next]_vars
    PROVE  NobodyInterrupted'
<1> USE DEF NobodyInterrupted, Interrupted, At, Goto, Idle
<1>1. workers \in [Workers -> WorkerStates]
  BY DEF TypeOK
<1>2. CASE UNCHANGED workers
  BY <1>2
<1>3. ASSUME NEW w \in Workers, NEW b \in Bodies, Receive(w, b)
      PROVE  NobodyInterrupted'
  BY <1>1, <1>3 DEF Receive, WorkerStates
<1>4. ASSUME NEW w \in Workers, Handle(w)
      PROVE  NobodyInterrupted'
  <2>1. CASE Ack(w) \/ Nack(w)
    BY <1>1, <2>1 DEF Ack, Nack, WorkerStates
  <2>2. CASE ~ (Ack(w) \/ Nack(w))
    <3>1. /\ workers[w].pc # "idle"
          /\ \A v \in Workers : /\ workers'[v].held = workers[v].held
                                /\ v # w => workers'[v] = workers[v]
      BY <1>1, <1>4, <2>2
         DEF Handle, DeadLetter, DeadLetterFails, ClaimJob, ClaimReplyLost, AlreadyHandled,
             BeginFails, FindDisciplines, Complete, SaveInsightResult, SaveLeaseLost,
             SaveFails, RegisterFailure, RegisterLeaseLost, RegisterFails, WorkerStates
    <3> QED
      BY <1>1, <3>1
  <2> QED
    BY <2>1, <2>2
<1>5. \A w \in Workers : ~ Crash(w) /\ ~ ConnectionLost(w)
  BY DEF Undisturbed, Crash, ConnectionLost
<1> QED
  BY <1>2, <1>3, <1>4, <1>5
     DEF Next, ScheduleDueRetryJobs, RelayRequest, RelayAgain, RelayGivesUp, LeaseExpires,
         RetryComesDue, vars

LEMMA NoStrandedStep ==
    ASSUME IInv, NoStrandedJob, NobodyInterrupted, [Next]_vars, Undisturbed
    PROVE  NoStrandedJob'
<1> DEFINE Holds(w, j) == /\ jobs[j].status = "processando"
                          /\ jobs[j].token = workers[w].token
                          /\ workers[w].body = j
                          /\ workers[w].pc \in Holding
<1> USE DEF tables, broker, At, Goto
<1>1. /\ workers \in [Workers -> WorkerStates]
      /\ jobs \in [Jobs -> JobRows]
      /\ RowsAreCoherent /\ UniqueHolder
  BY DEF IInv, Shape, TypeOK, TableInv
<1>2. SUFFICES ASSUME NEW j \in Jobs, jobs'[j].status = "processando"
               PROVE  \E w \in Workers : Holds(w, j)'
  BY DEF NoStrandedJob, Owns
<1>3. jobs[j].status = "processando" => \E w \in Workers : Holds(w, j)
  BY DEF NoStrandedJob, Owns
(* A step that keeps the row's token, and the hands of its holder.         *)
<1>4. ASSUME jobs[j].status = "processando", jobs'[j].token = jobs[j].token,
             \A w \in Workers : Holds(w, j) =>
                /\ workers'[w].token = workers[w].token
                /\ workers'[w].body = workers[w].body
                /\ workers'[w].pc \in Holding
      PROVE  \E w \in Workers : Holds(w, j)'
  BY <1>2, <1>3, <1>4
<1>5. CASE UNCHANGED <<jobs, workers>>
  BY <1>2, <1>4, <1>5
<1>6. ASSUME NEW w \in Workers, NEW b \in Bodies, Receive(w, b)
      PROVE  \E v \in Workers : Holds(v, j)'
  BY <1>1, <1>2, <1>4, <1>6 DEF Receive, Holding
<1>7. ASSUME NEW w \in Workers, Handle(w)
      PROVE  \E v \in Workers : Holds(v, j)'
  <2>1. ASSUME NEW t \in Tokens, ClaimJob(w, t)
        PROVE  \E v \in Workers : Holds(v, j)'
    <3>1. CASE workers[w].body = j
      <4>1. jobs'[j].token = t
        BY <1>1, <2>1, <3>1 DEF ClaimJob, ClaimedRow
      <4>2. workers' = [workers EXCEPT ![w] = [@ EXCEPT !.pc = "find", !.token = t]]
        BY <2>1 DEF ClaimJob, ClaimedRow
      <4>3. /\ workers'[w].token = t /\ workers'[w].body = j
            /\ workers'[w].pc = "find"
        BY <1>1, <3>1, <4>2 DEF WorkerStates
      <4> QED
        BY <1>2, <4>1, <4>3 DEF Holding
    <3>2. CASE workers[w].body # j
      <4>1. jobs'[j] = jobs[j]
        BY <1>1, <2>1, <3>2 DEF ClaimJob
      <4>2. \A v \in Workers : v # w => workers'[v] = workers[v]
        BY <1>1, <2>1 DEF ClaimJob
      <4> QED
        BY <1>2, <1>4, <3>2, <4>1, <4>2
    <3> QED
      BY <3>1, <3>2
  <2>2. ASSUME jobs' = jobs, workers[w].pc \notin Holding,
               \A v \in Workers : v # w => workers'[v] = workers[v]
        PROVE  \E v \in Workers : Holds(v, j)'
    BY <1>2, <1>4, <2>2
  <2>3. CASE DeadLetter(w) \/ DeadLetterFails(w)
    BY <1>1, <2>2, <2>3 DEF DeadLetter, DeadLetterFails, Holding
  <2>4. CASE AlreadyHandled(w) \/ BeginFails(w)
    BY <1>1, <2>2, <2>4 DEF AlreadyHandled, BeginFails, Holding
  <2>5. CASE Ack(w) \/ Nack(w)
    BY <1>1, <2>2, <2>5 DEF Ack, Nack, Holding
  <2>6. CASE FindDisciplines(w) \/ Complete(w)
    <3>1. jobs' = jobs
      BY <2>6 DEF FindDisciplines, Complete
    <3>2. \/ \E pc \in Holding : Goto(w, pc)
          \/ \E p \in BOOLEAN :
                workers' = [workers EXCEPT ![w].pc = "fail", ![w].permanent = p]
      BY <2>6 DEF FindDisciplines, Complete, Holding
    <3>3. \A v \in Workers : /\ workers'[v].token = workers[v].token
                             /\ workers'[v].body = workers[v].body
                             /\ v # w => workers'[v] = workers[v]
                             /\ workers'[w].pc \in Holding
      BY <1>1, <3>2 DEF WorkerStates, Holding
    <3> QED
      BY <1>2, <1>4, <3>1, <3>3
  <2>7. CASE SaveInsightResult(w) \/ RegisterFailure(w)
    <3>1. workers[w].body # j
      BY <1>1, <1>2, <2>7 DEF SaveInsightResult, RegisterFailure,
                              ConcludedRow, FailedRow
    <3>2. jobs'[j] = jobs[j]
      BY <1>1, <2>7, <3>1 DEF SaveInsightResult, RegisterFailure
    <3>3. \A v \in Workers : v # w => workers'[v] = workers[v]
      BY <1>1, <2>7 DEF SaveInsightResult, RegisterFailure
    <3> QED
      BY <1>2, <1>4, <3>1, <3>2, <3>3
  <2>8. CASE SaveLeaseLost(w) \/ RegisterLeaseLost(w)
    <3>1. ~ Owns(w)
      BY <2>8 DEF SaveLeaseLost, RegisterLeaseLost
    <3>2. jobs' = jobs /\ \A v \in Workers : v # w => workers'[v] = workers[v]
      BY <1>1, <2>8 DEF SaveLeaseLost, RegisterLeaseLost
    <3>3. ~ Holds(w, j)
      BY <3>1 DEF Owns
    <3> QED
      BY <1>2, <1>4, <3>2, <3>3 
  <2>9. ~ SaveFails(w) /\ ~ RegisterFails(w)
        /\ \A t \in Tokens : ~ ClaimReplyLost(w, t)
    BY DEF SaveFails, RegisterFails, ClaimReplyLost, NobodyInterrupted, QueryMayFail,
           Undisturbed
  <2> QED
    BY <1>7, <2>1, <2>3, <2>4, <2>5, <2>6, <2>7, <2>8, <2>9 DEF Handle
<1>8. ASSUME NEW batch \in SUBSET Jobs, ScheduleDueRetryJobs(batch)
      PROVE  \E v \in Workers : Holds(v, j)'
  <2>1. j \notin batch
    BY <1>2, <1>8 DEF ScheduleDueRetryJobs, RescheduledRow
  <2>2. jobs'[j] = jobs[j] /\ workers' = workers
    BY <1>8, <2>1 DEF ScheduleDueRetryJobs
  <2> QED
    BY <1>2, <1>4, <2>2
<1>9. ASSUME NEW i \in Jobs, LeaseExpires(i) \/ RetryComesDue(i)
       PROVE  \E v \in Workers : Holds(v, j)'
  <2>1. /\ jobs'[j].status = jobs[j].status /\ jobs'[j].token = jobs[j].token
        /\ workers' = workers
    BY <1>1, <1>9 DEF LeaseExpires, RetryComesDue, JobRows
  <2> QED
    BY <1>2, <1>4, <2>1
<1>10. ASSUME NEW i \in Jobs, RelayRequest(i) \/ RelayAgain(i) \/ RelayGivesUp(i)
       PROVE  \E v \in Workers : Holds(v, j)'
  BY <1>5, <1>10 DEF RelayRequest, RelayAgain, RelayGivesUp
<1>11. CASE UNCHANGED vars
  BY <1>5, <1>11 DEF vars
<1>12. \A w \in Workers : ~ Crash(w) /\ ~ ConnectionLost(w)
  BY DEF Undisturbed, Crash, ConnectionLost
<1> QED
  BY <1>6, <1>7, <1>8, <1>8, <1>9, <1>10, <1>11, <1>12 DEF Next

(* NoStrandedJob, in every reachable state of a system in which no process *)
(* dies or loses its connection and no query is lost or refused.           *)
THEOREM NoJobIsStranded ==
    ASSUME Faults \cap {"crash", "connection", "database", "text"} = {}
    PROVE  Spec => []NoStrandedJob
<1>1. Init => NoStrandedJob /\ NobodyInterrupted
  BY DEF Init, NewJob, NoStrandedJob, NobodyInterrupted, At, Idle
<1>2. IInv /\ NoStrandedJob /\ NobodyInterrupted /\ [Next]_vars
         => NoStrandedJob' /\ NobodyInterrupted'
  BY NoStrandedStep, NobodyInterruptedStep DEF Undisturbed, IInv, Shape
<1> QED
  BY <1>1, <1>2, Safety, PTL DEF Spec

===============================================================================
