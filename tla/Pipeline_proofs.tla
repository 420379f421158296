--------------------------- MODULE Pipeline_proofs ---------------------------
(***************************************************************************)
(* The composition, for any number of jobs, messages, goroutines and       *)
(* dispatchers: the outbox table and its dispatchers keep the contract     *)
(* that InsightProcessing has for its relay.  What the two parts keep by   *)
(* themselves is taken from their own proofs, which are instantiated here  *)
(* as the parts are instantiated in Pipeline.                              *)
(***************************************************************************)
EXTENDS Pipeline, FiniteSetTheorems, TLAPS

OP == INSTANCE Outbox_proofs WITH
    Tokens      <- OutboxTokens,
    MaxAttempts <- OutboxMaxAttempts,
    Poison      <- {},
    Faults      <- OutboxFaults

PP == INSTANCE InsightProcessing_proofs WITH
    failedEvents <- [j \in Jobs |-> IF Failure(j) \in inserted THEN 1 ELSE 0],
    requests     <- [j \in Jobs |-> Cardinality(Undelivered(j))],
    abandoned    <- {e[1] : e \in lost},
    Faults       <- {"relay"} \cup Faults

(* The request and retry rows of a job.                                    *)
Rows(j) == {e \in Requests \cap inserted : e[1] = j}

(* They are numbered without gaps, so the next number is a new row.        *)
Numbered ==
    \A j \in Jobs : /\ IsFiniteSet(Rows(j))
                    /\ Rows(j) = {j} \X (1..Cardinality(Rows(j)))

(* A job has one row for each attempt, and one more while it is pending.   *)
Worth(row) == row.tentativas + (IF row.status = "pendente" THEN 1 ELSE 0)

RowsWithinAttempts == \A j \in Jobs : Cardinality(Rows(j)) <= Worth(jobs[j])

(* Nobody works on a row that is not there yet.                            *)
OnlyInserted ==
    /\ inserted \subseteq Events
    /\ \A d \in Dispatchers : O!InHand(d) \subseteq inserted
    /\ \A e \in Events \ inserted : events[e].status = "pending" /\ copies[e] = 0

LostAreFailed ==
    /\ lost \subseteq Requests \cap inserted
    /\ \A e \in lost : events[e].status = "failed"
    /\ \A e \in Requests \cap inserted :
          events[e].status = "failed" /\ copies[e] = 0 => e \in lost

Books == Numbered /\ RowsWithinAttempts /\ OnlyInserted /\ LostAreFailed

IInv == OP!IInv /\ PP!IInv /\ Books

-------------------------------------------------------------------------------
(* The assumptions of the two parts hold of the constants they get.        *)
LEMMA PartsAreFit ==
    /\ OutboxMaxAttempts \in Nat \ {0} /\ BatchSize \in Nat \ {0}
    /\ {} \subseteq Events /\ NoToken \notin OutboxTokens /\ NoEvent \notin Events
    /\ OutboxFaults \subseteq OP!FaultKinds /\ OP!IsFiniteSet(Dispatchers)
    /\ MaxAttempts \in Nat \ {0} /\ RetryBatchSize \in Nat \ {0} /\ MaxCopies \in Nat
    /\ {"relay"} \cup Faults \subseteq PP!FaultKinds
    /\ Jobs \cap Unknown = {} /\ Jobs \cap Malformed = {} /\ Unknown \cap Malformed = {}
    /\ NoBody \notin Jobs \cup Unknown \cup Malformed
    /\ NoToken \notin Tokens
  BY PipelineAssumption, PartsAssumption DEF O!FaultKinds, OP!FaultKinds, PP!FaultKinds,
     OP!IsFiniteSet, IsFiniteSet

LEMMA OutboxKeeps == OP!IInv /\ [OP!Next]_(OP!vars) => OP!IInv'
  BY PartsAreFit, OP!OutboxStep

LEMMA ProcessingKeeps == PP!IInv /\ [PP!Next]_(PP!vars) => PP!IInv'
  BY PartsAreFit, PP!Inductive

(* A module and its proofs speak of the same actions.                      *)
LEMMA SameOutboxActions ==
    ASSUME NEW d, NEW e, NEW batch, NEW t, NEW answer, NEW taken
    PROVE  /\ O!ClaimPendingOutboxEvents(d, batch, t)
                 <=> OP!ClaimPendingOutboxEvents(d, batch, t)
           /\ O!ClaimReplyLost(d, batch, t) <=> OP!ClaimReplyLost(d, batch, t)
           /\ O!PublishAs(d, e, answer, taken) <=> OP!PublishAs(d, e, answer, taken)
           /\ O!Mark(d) <=> OP!Mark(d)
           /\ O!Crash(d) <=> OP!Crash(d)
           /\ O!LockExpires(e) <=> OP!LockExpires(e)
           /\ O!RetryComesDue(e) <=> OP!RetryComesDue(e)
<1> USE DEF O!At, OP!At, O!AttemptCeiling, OP!AttemptCeiling, O!NextCount, OP!NextCount,
            O!Idle, OP!Idle
<1>1. O!Claimed(batch, t) <=> OP!Claimed(batch, t)
  BY DEF O!Claimed, OP!Claimed, O!Available, OP!Available, O!Fresh, OP!Fresh,
         O!ClaimedRow, OP!ClaimedRow, O!Cardinality, OP!Cardinality
<1>2. /\ O!ClaimPendingOutboxEvents(d, batch, t) <=> OP!ClaimPendingOutboxEvents(d, batch, t)
      /\ O!ClaimReplyLost(d, batch, t) <=> OP!ClaimReplyLost(d, batch, t)
  BY <1>1 DEF O!ClaimPendingOutboxEvents, OP!ClaimPendingOutboxEvents,
              O!ClaimReplyLost, OP!ClaimReplyLost
<1>3. O!PublishAs(d, e, answer, taken) <=> OP!PublishAs(d, e, answer, taken)
  BY DEF O!PublishAs, OP!PublishAs
<1>4. O!Mark(d) <=> OP!Mark(d)
  BY DEF O!Mark, OP!Mark, O!MarkOutboxEventPublished, OP!MarkOutboxEventPublished,
         O!MarkOutboxEventFailed, OP!MarkOutboxEventFailed, O!NotMarked, OP!NotMarked,
         O!NextEvent, OP!NextEvent, O!Owns, OP!Owns, O!PublishedRow, OP!PublishedRow,
         O!RefusedRow, OP!RefusedRow, O!Exhausted, OP!Exhausted
<1>5. /\ O!Crash(d) <=> OP!Crash(d)
      /\ O!LockExpires(e) <=> OP!LockExpires(e)
      /\ O!RetryComesDue(e) <=> OP!RetryComesDue(e)
  BY DEF O!Crash, OP!Crash, O!LockExpires, OP!LockExpires, O!RetryComesDue,
         OP!RetryComesDue, O!InHand, OP!InHand
<1> QED
  BY <1>2, <1>3, <1>4, <1>5

LEMMA SameProcessingActions ==
    ASSUME NEW w, NEW b, NEW j, NEW batch
    PROVE  /\ P!Receive(w, b) <=> PP!Receive(w, b)
           /\ P!Handle(w) <=> PP!Handle(w)
           /\ P!Crash(w) <=> PP!Crash(w)
           /\ P!ConnectionLost(w) <=> PP!ConnectionLost(w)
           /\ P!LeaseExpires(j) <=> PP!LeaseExpires(j)
           /\ P!RetryComesDue(j) <=> PP!RetryComesDue(j)
           /\ P!ScheduleDueRetryJobs(batch) <=> PP!ScheduleDueRetryJobs(batch)
           /\ P!RelayRequest(j) <=> PP!RelayRequest(j)
           /\ P!RelayAgain(j) <=> PP!RelayAgain(j)
           /\ P!RelayGivesUp(j) <=> PP!RelayGivesUp(j)
<1> USE DEF P!At, PP!At, P!Idle, PP!Idle, P!Requeued, PP!Requeued, P!tables, PP!tables,
            P!broker, PP!broker
<1>1. P!Handle(w) <=> PP!Handle(w)
  BY DEF P!Handle, PP!Handle, P!Goto, PP!Goto, P!DeadLetter, PP!DeadLetter,
         P!DeadLetterFails, PP!DeadLetterFails, P!ClaimJob, PP!ClaimJob,
         P!ClaimReplyLost, PP!ClaimReplyLost, P!AlreadyHandled, PP!AlreadyHandled,
         P!BeginFails, PP!BeginFails, P!FindDisciplines, PP!FindDisciplines,
         P!Complete, PP!Complete, P!SaveInsightResult, PP!SaveInsightResult,
         P!SaveLeaseLost, PP!SaveLeaseLost, P!SaveFails, PP!SaveFails,
         P!RegisterFailure, PP!RegisterFailure, P!RegisterLeaseLost, PP!RegisterLeaseLost,
         P!RegisterFails, PP!RegisterFails, P!Ack, PP!Ack, P!Nack, PP!Nack,
         P!Claimable, PP!Claimable, P!Fresh, PP!Fresh, P!ClaimedRow, PP!ClaimedRow,
         P!ConcludedRow, PP!ConcludedRow, P!FailedRow, PP!FailedRow,
         P!Exhausted, PP!Exhausted, P!AttemptLimit, PP!AttemptLimit, P!Owns, PP!Owns,
         P!AttemptCeiling, PP!AttemptCeiling,
         P!QueryMayFail, PP!QueryMayFail, P!PublishMayFail, PP!PublishMayFail,
         P!Interrupted, PP!Interrupted
<1>2. /\ P!Receive(w, b) <=> PP!Receive(w, b)
      /\ P!Crash(w) <=> PP!Crash(w)
      /\ P!ConnectionLost(w) <=> PP!ConnectionLost(w)
  BY DEF P!Receive, PP!Receive, P!Crash, PP!Crash, P!ConnectionLost, PP!ConnectionLost
<1>3. /\ P!LeaseExpires(j) <=> PP!LeaseExpires(j)
      /\ P!RetryComesDue(j) <=> PP!RetryComesDue(j)
  BY DEF P!LeaseExpires, PP!LeaseExpires, P!RetryComesDue, PP!RetryComesDue
<1>4. P!ScheduleDueRetryJobs(batch) <=> PP!ScheduleDueRetryJobs(batch)
  BY DEF P!ScheduleDueRetryJobs, PP!ScheduleDueRetryJobs, P!Due, PP!Due,
         P!RescheduledRow, PP!RescheduledRow, P!Cardinality, PP!Cardinality
<1>5. /\ P!RelayRequest(j) <=> PP!RelayRequest(j)
      /\ P!RelayAgain(j) <=> PP!RelayAgain(j)
      /\ P!RelayGivesUp(j) <=> PP!RelayGivesUp(j)
  BY DEF P!RelayRequest, PP!RelayRequest, P!RelayAgain, PP!RelayAgain,
         P!RelayGivesUp, PP!RelayGivesUp
<1> QED
  BY <1>1, <1>2, <1>3, <1>4, <1>5

LEMMA SameSteps ==
    /\ P!Next <=> PP!Next
    /\ P!vars = PP!vars
    /\ P!vars' = PP!vars'
<1>1. P!Bodies = PP!Bodies
  BY DEF P!Bodies, PP!Bodies
<1>2. P!vars = PP!vars /\ P!vars' = PP!vars'
  BY DEF P!vars, PP!vars
<1> QED
  BY <1>1, <1>2, SameProcessingActions DEF P!Next, PP!Next


-------------------------------------------------------------------------------
(* What the types say of the rows, in the words of Pipeline.               *)
LEMMA OutboxTyped ==
    ASSUME IInv
    PROVE  /\ events \in [Events -> OP!EventRows]
           /\ copies \in [Events -> Nat]
           /\ dispatchers \in [Dispatchers -> OP!DispatcherStates]
           /\ inserted \subseteq Events
<1>1. OP!AttemptCeiling \in Nat
  BY PartsAssumption DEF OP!AttemptCeiling
<1> QED
  BY <1>1 DEF IInv, OP!IInv, OP!TypeOK, Books, OnlyInserted

LEMMA JobsTyped ==
    ASSUME IInv
    PROVE  /\ jobs \in [Jobs -> PP!JobRows]
           /\ queue \in [P!Bodies -> Nat]
           /\ Jobs \subseteq P!Bodies
BY DEF IInv, PP!IInv, PP!Shape, PP!TypeOK, PP!Bodies, P!Bodies

(* The rows a job has are its first ones, in the order of its retries.     *)
LEMMA RowsOfAJob ==
    ASSUME IInv, NEW j \in Jobs
    PROVE  /\ IsFiniteSet(Rows(j)) /\ Cardinality(Rows(j)) \in Nat
           /\ Rows(j) = {j} \X (1..Cardinality(Rows(j)))
           /\ NextRequest(j) = <<j, 1 + Cardinality(Rows(j))>>
           /\ NextRequest(j) \notin Rows(j)
           /\ IsFiniteSet(Undelivered(j)) /\ Cardinality(Undelivered(j)) \in Nat
<1>1. IsFiniteSet(Rows(j)) /\ Rows(j) = {j} \X (1..Cardinality(Rows(j)))
  BY DEF IInv, Books, Numbered
<1>2. Cardinality(Rows(j)) \in Nat
  BY <1>1, FS_CardinalityType
<1>3. NextRequest(j) = <<j, 1 + Cardinality(Rows(j))>>
  BY DEF NextRequest, Rows
<1>4. NextRequest(j) \notin Rows(j)
  <2>1. SUFFICES ASSUME <<j, 1 + Cardinality(Rows(j))>> \in {j} \X (1..Cardinality(Rows(j)))
                 PROVE  FALSE
    BY <1>1, <1>3
  <2>2. 1 + Cardinality(Rows(j)) \in 1..Cardinality(Rows(j))
    BY <2>1
  <2> QED
    BY <2>2, <1>2
<1>5. Undelivered(j) \subseteq Rows(j)
  BY DEF Undelivered, Rows
<1>6. IsFiniteSet(Undelivered(j))
  BY <1>1, <1>5, FS_Subset
<1>7. Cardinality(Undelivered(j)) \in Nat
  BY <1>6, FS_CardinalityType
<1> QED
  BY <1>1, <1>2, <1>3, <1>4, <1>6, <1>7

-------------------------------------------------------------------------------
(* A step of the composition is a step of the outbox or leaves it alone.   *)
LEMMA OutboxMoves ==
    ASSUME IInv, [Next]_vars
    PROVE  [OP!Next]_(OP!vars)
<1> USE DEF outbox, worker
<1>1. CASE outbox' = outbox
  BY <1>1 DEF OP!vars
<1>2. ASSUME NEW d \in Dispatchers, O!Mark(d)
      PROVE  OP!Next
  BY <1>2, SameOutboxActions DEF OP!Next, OP!Work
<1>3. ASSUME NEW d \in Dispatchers, NEW e \in Events, Publish(d, e)
      PROVE  OP!Next
  <2>1. PICK answer \in {"published", "refused"}, taken \in BOOLEAN :
           O!PublishAs(d, e, answer, taken)
    BY <1>3 DEF Publish
  <2>2. OP!Publish(d, e)
    BY <2>1, SameOutboxActions DEF OP!Publish
  <2> QED
    BY <2>2 DEF OP!Next, OP!Work
<1>4. ASSUME NEW d \in Dispatchers, O!Crash(d)
      PROVE  OP!Next
  BY <1>4, SameOutboxActions DEF OP!Next
<1>5. ASSUME NEW d \in Dispatchers, NEW t \in OutboxTokens, NEW batch \in SUBSET inserted,
             Claim(d, batch, t)
      PROVE  OP!Next
  <2>1. batch \in SUBSET Events
    BY OutboxTyped
  <2>2. CASE O!ClaimReplyLost(d, batch, t)
    BY <2>1, <2>2, SameOutboxActions DEF OP!Next
  <2>3. CASE O!ClaimPendingOutboxEvents(d, batch, t)
    <3>1. PICK e \in batch : TRUE
      BY <2>3 DEF O!ClaimPendingOutboxEvents, O!Claimed
    <3>2. OP!ClaimAny(e)
      BY <2>1, <2>3, <3>1, SameOutboxActions DEF OP!ClaimAny
    <3> QED
      BY <2>1, <3>2 DEF OP!Next
  <2> QED
    BY <1>5, <2>2, <2>3 DEF Claim
<1>6. ASSUME NEW e \in Events, OutboxClock(e)
      PROVE  OP!Next
  BY <1>6, SameOutboxActions DEF OutboxClock, OP!Next
<1>7. CASE Next /\ outbox' # outbox
  BY <1>2, <1>3, <1>4, <1>5, <1>6, <1>7
     DEF Next, Receive, Handle, WorkerFault, LeaseExpires, RetryComesDue,
         ScheduleDueRetryJobs, Work, Mark, DispatcherCrash
<1> QED
  BY <1>1, <1>7 DEF vars

(* Each step of the outbox keeps to the rows of the table, and only a mark *)
(* gives an event up.                                                      *)
OutboxKeepsToRows ==
    /\ \A e \in Events \ inserted : events'[e] = events[e] /\ copies'[e] = copies[e]
    /\ \A d \in Dispatchers : O!InHand(d)' \subseteq inserted
    /\ \A e \in Events : copies'[e] = 0 => copies[e] = 0

NothingIsGivenUp ==
    \A e \in Events : events'[e].status = "failed" => events[e].status = "failed"

LEMMA OutboxStaysInTable ==
    ASSUME IInv, [Next]_vars
    PROVE  /\ OutboxKeepsToRows
           /\ NothingIsGivenUp \/ \E d \in Dispatchers : Mark(d)
<1> USE DEF outbox, worker
<1>1. /\ events \in [Events -> OP!EventRows] /\ copies \in [Events -> Nat]
      /\ dispatchers \in [Dispatchers -> OP!DispatcherStates] /\ inserted \subseteq Events
      /\ \A d \in Dispatchers : O!InHand(d) \subseteq inserted
  BY OutboxTyped DEF IInv, Books, OnlyInserted
<1>2. CASE outbox' = outbox
  BY <1>1, <1>2 DEF OutboxKeepsToRows, NothingIsGivenUp, O!InHand
<1>3. ASSUME NEW d \in Dispatchers, Mark(d)
      PROVE  OutboxKeepsToRows
  <2>1. /\ copies' = copies /\ O!NextEvent(d)
        /\ \/ events' = events
           \/ /\ dispatchers[d].event \in Events
              /\ \E row : events' = [events EXCEPT ![dispatchers[d].event] = row]
    BY <1>3 DEF Mark, O!Mark, O!MarkOutboxEventPublished, O!MarkOutboxEventFailed,
                O!NotMarked, O!Owns
  <2>2. dispatchers[d].event \in Events => dispatchers[d].event \in inserted
    BY <1>1, PartsAssumption DEF O!InHand
  <2>3. \A e \in Events \ inserted : events'[e] = events[e]
    BY <1>1, <2>1, <2>2
  <2>4. ASSUME NEW c \in Dispatchers
        PROVE  O!InHand(c)' \subseteq O!InHand(c)
    BY <1>1, <2>1 DEF O!NextEvent, O!InHand, O!Idle
  <2> QED
    BY <1>1, <2>1, <2>3, <2>4 DEF OutboxKeepsToRows
<1>4. ASSUME NEW d \in Dispatchers, NEW e \in Events, Publish(d, e)
      PROVE  OutboxKeepsToRows /\ NothingIsGivenUp
  <2>1. PICK answer \in {"published", "refused"}, taken \in BOOLEAN :
           O!PublishAs(d, e, answer, taken)
    BY <1>4 DEF Publish
  <2>2. /\ events' = events /\ e \in dispatchers[d].todo /\ e \in inserted
        /\ copies' = IF taken THEN [copies EXCEPT ![e] = O!NextCount(@)] ELSE copies
        /\ dispatchers' = [dispatchers EXCEPT ![d].pc = answer, ![d].event = e,
                                              ![d].todo = @ \ {e}]
    BY <1>1, <2>1 DEF O!PublishAs, O!InHand
  <2>3. O!NextCount(copies[e]) # 0
    BY <1>1, PartsAssumption DEF O!NextCount, O!AttemptCeiling
  <2>4. ASSUME NEW c \in Dispatchers
        PROVE  O!InHand(c)' \subseteq O!InHand(c)
    BY <1>1, <2>2 DEF O!InHand, OP!DispatcherStates
  <2> QED
    BY <1>1, <2>2, <2>3, <2>4 DEF OutboxKeepsToRows, NothingIsGivenUp
<1>5. ASSUME NEW d \in Dispatchers, NEW t \in OutboxTokens, NEW batch \in SUBSET inserted,
             Claim(d, batch, t)
      PROVE  OutboxKeepsToRows /\ NothingIsGivenUp
  <2>1. /\ copies' = copies
        /\ events' = [e \in Events |-> IF e \in batch THEN O!ClaimedRow(events[e], t)
                                                      ELSE events[e]]
        /\ \/ dispatchers' = dispatchers
           \/ dispatchers' = [dispatchers EXCEPT ![d] =
                 [pc |-> "publish", token |-> t, todo |-> batch, event |-> NoEvent]]
    BY <1>5 DEF Claim, O!ClaimPendingOutboxEvents, O!ClaimReplyLost, O!Claimed
  <2>2. \A e \in Events : events'[e].status = "failed" => events[e].status = "failed"
    BY <1>1, <2>1 DEF O!ClaimedRow, OP!EventRows
  <2>3. ASSUME NEW c \in Dispatchers
        PROVE  O!InHand(c)' \subseteq O!InHand(c) \cup batch
    BY <1>1, <2>1 DEF O!InHand
  <2> QED
    BY <1>1, <2>1, <2>2, <2>3 DEF OutboxKeepsToRows, NothingIsGivenUp
<1>6. ASSUME NEW e \in Events, OutboxClock(e)
      PROVE  OutboxKeepsToRows /\ NothingIsGivenUp
  <2>1. /\ copies' = copies /\ dispatchers' = dispatchers /\ e \in inserted
        /\ \/ events' = [events EXCEPT ![e].lock = "expired"]
           \/ events' = [events EXCEPT ![e].due = TRUE]
    BY <1>6 DEF OutboxClock, O!LockExpires, O!RetryComesDue
  <2>2. \A f \in Events : events'[f].status = events[f].status /\ (f # e => events'[f] = events[f])
    BY <1>1, <2>1 DEF OP!EventRows
  <2> QED
    BY <1>1, <2>1, <2>2 DEF OutboxKeepsToRows, NothingIsGivenUp, O!InHand
<1>7. ASSUME NEW d \in Dispatchers, DispatcherCrash(d)
      PROVE  OutboxKeepsToRows /\ NothingIsGivenUp
  <2>1. events' = events /\ copies' = copies
        /\ dispatchers' = [dispatchers EXCEPT ![d] = O!Idle]
    BY <1>7 DEF DispatcherCrash, O!Crash
  <2>2. ASSUME NEW c \in Dispatchers
        PROVE  O!InHand(c)' \subseteq O!InHand(c)
    BY <1>1, <2>1 DEF O!InHand, O!Idle
  <2> QED
    BY <1>1, <2>1, <2>2 DEF OutboxKeepsToRows, NothingIsGivenUp
<1>8. CASE Next /\ outbox' # outbox
  BY <1>3, <1>4, <1>5, <1>6, <1>7, <1>8
     DEF Next, Receive, Handle, WorkerFault, LeaseExpires, RetryComesDue,
         ScheduleDueRetryJobs, Work
<1> QED
  BY <1>2, <1>8 DEF vars

-------------------------------------------------------------------------------
(* What InsightProcessing sees of the outbox, as functions of the job.     *)
FailedBar    == [j \in Jobs |-> IF Failure(j) \in inserted THEN 1 ELSE 0]
RequestsBar  == [j \in Jobs |-> Cardinality(Undelivered(j))]
AbandonedBar == {e[1] : e \in lost}

(* Nothing it sees has changed.                                            *)
LEMMA SeenUnchanged ==
    ASSUME UNCHANGED <<worker, queue, inserted, lost>>,
           \A e \in Requests \cap inserted :
               O!Fate(e)' = O!Fate(e) /\ (copies'[e] = 0 <=> copies[e] = 0)
    PROVE  UNCHANGED P!vars
<1>1. ASSUME NEW j \in Jobs
      PROVE  Undelivered(j)' = Undelivered(j)
  BY DEF Undelivered
<1>2. UNCHANGED <<FailedBar, RequestsBar, AbandonedBar>>
  BY <1>1 DEF FailedBar, RequestsBar, AbandonedBar
<1> QED
  BY <1>2 DEF P!vars, worker, FailedBar, RequestsBar, AbandonedBar

(* One request less is undelivered.                                        *)
LEMMA OneRequestLess ==
    ASSUME IInv, NEW e \in Requests \cap inserted, inserted' = inserted,
           O!Fate(e) = "open" /\ copies[e] = 0,
           O!Fate(e)' # "open" \/ copies'[e] # 0,
           \A f \in Requests \cap inserted : f # e =>
               O!Fate(f)' = O!Fate(f) /\ (copies'[f] = 0 <=> copies[f] = 0)
    PROVE  /\ e[1] \in Jobs
           /\ RequestsBar[e[1]] > 0
           /\ RequestsBar' = [RequestsBar EXCEPT ![e[1]] = @ - 1]
           /\ FailedBar' = FailedBar
<1> DEFINE j == e[1]
<1>1. j \in Jobs
  BY DEF Requests
<1>2. e \in Undelivered(j) /\ Undelivered(j)' = Undelivered(j) \ {e}
  BY DEF Undelivered
<1>3. \A k \in Jobs : k # j => Undelivered(k)' = Undelivered(k)
  BY DEF Undelivered
<1>4. IsFiniteSet(Undelivered(j)) /\ Cardinality(Undelivered(j)) \in Nat
  BY <1>1, RowsOfAJob
<1>5. Cardinality(Undelivered(j) \ {e}) = Cardinality(Undelivered(j)) - 1
  BY <1>2, <1>4, FS_RemoveElement
<1>6. Cardinality(Undelivered(j)) # 0
  BY <1>2, <1>4, FS_EmptySet
<1>7. FailedBar' = FailedBar
  BY DEF FailedBar
<1>8. RequestsBar' = [RequestsBar EXCEPT ![j] = @ - 1]
  <2>1. \A k \in Jobs : Cardinality(Undelivered(k))' =
            IF k = j THEN Cardinality(Undelivered(j)) - 1 ELSE Cardinality(Undelivered(k))
    BY <1>2, <1>3, <1>5
  <2> QED
    BY <2>1 DEF RequestsBar
<1> QED
  BY <1>1, <1>4, <1>6, <1>7, <1>8 DEF RequestsBar

(* The scheduler's tick is the abstract one: each row it inserts is new,   *)
(* and within the numbers a job can have.                                  *)
LEMMA NewRowsAreNew ==
    ASSUME IInv, NEW j \in Jobs, jobs[j].status = "aguardando_retentativa"
    PROVE  /\ NextRequest(j) \in Requests \ inserted
           /\ O!Fate(NextRequest(j)) = "open" /\ copies[NextRequest(j)] = 0
<1>1. /\ Cardinality(Rows(j)) \in Nat /\ NextRequest(j) = <<j, 1 + Cardinality(Rows(j))>>
      /\ NextRequest(j) \notin Rows(j)
  BY RowsOfAJob
<1>2. jobs[j].tentativas < MaxAttempts
  BY DEF IInv, PP!IInv, PP!TableInv, PP!WaitingHasAttemptsLeft
<1>3. Cardinality(Rows(j)) <= jobs[j].tentativas + 0
  BY DEF IInv, Books, RowsWithinAttempts, Worth
<1>4. jobs[j].tentativas \in Nat
  BY JobsTyped, PartsAssumption DEF PP!JobRows, PP!AttemptCeiling
<1>5. 1 + Cardinality(Rows(j)) \in 1..MaxAttempts
  BY <1>1, <1>2, <1>3, <1>4, PartsAssumption
<1>6. NextRequest(j) \in Requests
  BY <1>1, <1>5 DEF Requests
<1>7. NextRequest(j)[1] = j
  BY <1>1
<1>8. NextRequest(j) \notin inserted
  BY <1>1, <1>6, <1>7 DEF Rows
<1>9. NextRequest(j) \in Events \ inserted
  BY <1>6, <1>8 DEF Events
<1> QED
  BY <1>6, <1>8, <1>9 DEF IInv, Books, OnlyInserted, O!Fate

LEMMA ScheduleMoves ==
    ASSUME IInv, NEW batch \in SUBSET Jobs, ScheduleDueRetryJobs(batch)
    PROVE  P!ScheduleDueRetryJobs(batch)
<1>1. /\ batch # {} /\ Cardinality(batch) <= RetryBatchSize /\ batch \subseteq P!Due
      /\ jobs' = [j \in Jobs |-> IF j \in batch THEN P!RescheduledRow(jobs[j])
                                                ELSE jobs[j]]
      /\ inserted' = inserted \cup {NextRequest(j) : j \in batch}
      /\ UNCHANGED <<insights, dlq, workers, queue, events, copies, dispatchers, lost>>
  BY DEF ScheduleDueRetryJobs, InsertedRequests, outbox
<1>2. \A j \in batch : /\ NextRequest(j) \in Requests \ inserted
                       /\ O!Fate(NextRequest(j)) = "open" /\ copies[NextRequest(j)] = 0
  BY <1>1, NewRowsAreNew DEF P!Due
<1>3. \A j \in Jobs : NextRequest(j)[1] = j
  BY DEF NextRequest
<1>4. ASSUME NEW e \in Requests
      PROVE  O!Fate(e)' = O!Fate(e)
  BY <1>1 DEF O!Fate
<1>5. ASSUME NEW j \in batch
      PROVE  Cardinality(Undelivered(j))' = Cardinality(Undelivered(j)) + 1
  <2>1. Undelivered(j)' = Undelivered(j) \cup {NextRequest(j)}
    BY <1>1, <1>2, <1>3, <1>4 DEF Undelivered
  <2>2. NextRequest(j) \notin Undelivered(j)
    BY <1>2 DEF Undelivered
  <2>3. IsFiniteSet(Undelivered(j))
    BY RowsOfAJob
  <2>4. Cardinality(Undelivered(j) \cup {NextRequest(j)}) = Cardinality(Undelivered(j)) + 1
    BY <2>2, <2>3, FS_AddElement
  <2> QED
    BY <2>1, <2>4
<1>6. ASSUME NEW j \in Jobs \ batch
      PROVE  Cardinality(Undelivered(j))' = Cardinality(Undelivered(j))
  <2>1. Undelivered(j)' = Undelivered(j)
    BY <1>1, <1>2, <1>3, <1>4 DEF Undelivered
  <2> QED
    BY <2>1
<1>7. RequestsBar' = [j \in Jobs |-> IF j \in batch THEN RequestsBar[j] + 1 ELSE RequestsBar[j]]
  BY <1>5, <1>6 DEF RequestsBar
<1>8. FailedBar' = FailedBar
  <2>1. \A j \in Jobs : Failure(j) \notin Requests
    BY DEF Failure, Requests
  <2>2. \A j \in Jobs : Failure(j) \in inserted' <=> Failure(j) \in inserted
    BY <1>1, <1>2, <2>1
  <2> QED
    BY <2>2 DEF FailedBar
<1>9. AbandonedBar' = AbandonedBar
  BY <1>1 DEF AbandonedBar
<1>10. P!Cardinality(batch) = Cardinality(batch)
  BY DEF P!Cardinality, Cardinality
<1> QED
  BY <1>1, <1>7, <1>8, <1>9, <1>10
     DEF P!ScheduleDueRetryJobs, P!broker, RequestsBar, FailedBar, AbandonedBar

-------------------------------------------------------------------------------
(* A publication delivers a request, delivers one again, or is none of the *)
(* worker's business.                                                      *)
LEMMA PublishMoves ==
    ASSUME IInv, NEW d \in Dispatchers, NEW e \in Events, Publish(d, e)
    PROVE  [P!Next]_(P!vars)
<1>1. PICK answer \in {"published", "refused"}, taken \in BOOLEAN :
         /\ taken /\ e \in Requests => queue[e[1]] < MaxCopies
         /\ O!PublishAs(d, e, answer, taken)
         /\ queue' = IF taken THEN Queued(e) ELSE queue
  BY DEF Publish
<1>2. /\ UNCHANGED <<jobs, insights, dlq, workers, inserted, lost, events>>
      /\ e \in inserted
      /\ copies' = IF taken THEN [copies EXCEPT ![e] = O!NextCount(@)] ELSE copies
  BY <1>1 DEF Publish, worker, O!PublishAs, O!InHand, IInv, Books, OnlyInserted
<1>3. \A f \in Events : O!Fate(f)' = O!Fate(f)
  BY <1>2 DEF O!Fate
<1>4. copies \in [Events -> Nat] /\ inserted \subseteq Events
  BY OutboxTyped
<1>5. \A f \in Events : f # e => copies'[f] = copies[f]
  BY <1>2, <1>4
<1>6. CASE ~ taken
  BY <1>1, <1>2, <1>3, <1>6, SeenUnchanged DEF worker, Requests, Events
<1>7. CASE taken /\ e \notin Requests
  <2>1. queue' = queue
    BY <1>1, <1>7 DEF Queued
  <2> QED
    BY <1>2, <1>3, <1>5, <1>7, <2>1, SeenUnchanged DEF worker, Requests, Events
<1>8. CASE taken /\ e \in Requests
  <2>1. e[1] \in Jobs /\ queue' = [queue EXCEPT ![e[1]] = @ + 1]
    BY <1>1, <1>8 DEF Queued, Requests
  <2>2. copies'[e] # 0
    BY <1>2, <1>4, <1>8, PartsAssumption DEF O!NextCount, O!AttemptCeiling
  <2>3. AbandonedBar' = AbandonedBar
    BY <1>2 DEF AbandonedBar
  <2>4. CASE O!Fate(e) = "open" /\ copies[e] = 0
    <3>1. /\ RequestsBar[e[1]] > 0
          /\ RequestsBar' = [RequestsBar EXCEPT ![e[1]] = @ - 1]
          /\ FailedBar' = FailedBar
      BY <1>2, <1>3, <1>5, <1>8, <2>2, <2>4, OneRequestLess DEF Events
    <3>2. P!RelayRequest(e[1])
      BY <1>2, <2>1, <2>3, <3>1
         DEF P!RelayRequest, RequestsBar, FailedBar, AbandonedBar
    <3> QED
      BY <2>1, <3>2 DEF P!Next
  <2>5. CASE ~ (O!Fate(e) = "open" /\ copies[e] = 0)
    <3>1. ASSUME NEW j \in Jobs
          PROVE  Undelivered(j)' = Undelivered(j)
      BY <1>2, <1>3, <1>5, <1>8, <2>2, <2>5 DEF Undelivered, Events
    <3>2. RequestsBar' = RequestsBar /\ FailedBar' = FailedBar
      BY <1>2, <3>1 DEF RequestsBar, FailedBar
    <3>3. P!RelayAgain(e[1])
      BY <1>1, <1>2, <1>8, <2>1, <2>3, <3>2
         DEF P!RelayAgain, P!tables, RequestsBar, FailedBar, AbandonedBar
    <3> QED
      BY <2>1, <3>3 DEF P!Next
  <2> QED
    BY <2>4, <2>5
<1> QED
  BY <1>6, <1>7, <1>8

(* A mark gives up an undelivered request, or changes nothing that the     *)
(* worker could see.                                                       *)
LEMMA MarkMoves ==
    ASSUME IInv, NEW d \in Dispatchers, Mark(d)
    PROVE  [P!Next]_(P!vars)
<1> PICK x : x = dispatchers[d].event
  OBVIOUS
<1>1. /\ UNCHANGED <<jobs, insights, dlq, workers, inserted, queue, copies>>
      /\ lost' = lost \cup {e \in Requests \cap inserted :
                               events'[e].status = "failed" /\ copies[e] = 0}
  BY DEF Mark, Marked, worker, O!Mark, O!MarkOutboxEventPublished,
         O!MarkOutboxEventFailed, O!NotMarked
<1>2. /\ events \in [Events -> OP!EventRows] /\ copies \in [Events -> Nat]
      /\ inserted \subseteq Events /\ O!InHand(d) \subseteq inserted
  BY OutboxTyped DEF IInv, Books, OnlyInserted
<1>3. \A e \in Requests \cap inserted :
          events[e].status = "failed" /\ copies[e] = 0 => e \in lost
  BY DEF IInv, Books, LostAreFailed
<1>4. x \in Events => x \in inserted
  BY <1>2, PartsAssumption DEF O!InHand
<1>5. CASE events' = events
  <2>1. lost' = lost
    BY <1>1, <1>3, <1>5
  <2>2. \A e \in Events : O!Fate(e)' = O!Fate(e)
    BY <1>5 DEF O!Fate
  <2> QED
    BY <1>1, <1>2, <2>1, <2>2, SeenUnchanged DEF worker
<1>6. CASE O!MarkOutboxEventPublished(d)
  <2>1. /\ dispatchers[d].pc = "published" /\ x \in Events /\ events[x].status = "processing"
        /\ events' = [events EXCEPT ![x] = O!PublishedRow(@)]
    BY <1>6 DEF O!MarkOutboxEventPublished, O!At, O!Owns
  <2>2. copies[x] > 0
    BY <2>1 DEF IInv, OP!IInv, OP!HandsMatchPlace
  <2>3. \A e \in Events : e # x => events'[e] = events[e] /\ O!Fate(e)' = O!Fate(e)
    BY <1>2, <2>1 DEF O!Fate
  <2>4. lost' = lost
    BY <1>1, <1>2, <1>3, <2>2, <2>3
  <2>5. ASSUME NEW j \in Jobs
        PROVE  Undelivered(j)' = Undelivered(j)
    BY <1>1, <1>2, <2>2, <2>3 DEF Undelivered
  <2>6. UNCHANGED <<RequestsBar, FailedBar, AbandonedBar>>
    BY <1>1, <2>4, <2>5 DEF RequestsBar, FailedBar, AbandonedBar
  <2> QED
    BY <1>1, <2>6 DEF P!vars, RequestsBar, FailedBar, AbandonedBar
<1>7. CASE O!MarkOutboxEventFailed(d)
  <2>1. /\ x \in Events /\ events[x].status = "processing"
        /\ events' = [events EXCEPT ![x] = O!RefusedRow(@)]
    BY <1>7 DEF O!MarkOutboxEventFailed, O!At, O!Owns
  <2>2. \A e \in Events : e # x => events'[e] = events[e] /\ O!Fate(e)' = O!Fate(e)
    BY <1>2, <2>1 DEF O!Fate
  <2>3. O!Fate(x) = "open" /\ events'[x] = O!RefusedRow(events[x])
    BY <1>2, <2>1 DEF O!Fate
  <2>4. events'[x].status = IF O!Exhausted(events[x]) THEN "failed" ELSE "pending"
    BY <1>2, <2>1, <2>3 DEF O!RefusedRow, OP!EventRows
  <2>5. CASE O!Exhausted(events[x]) /\ copies[x] = 0 /\ x \in Requests
    <3>1. x \in Requests \cap inserted /\ O!Fate(x)' # "open"
      BY <1>4, <2>1, <2>4, <2>5 DEF O!Fate
    <3>2. /\ x[1] \in Jobs
          /\ RequestsBar[x[1]] > 0
          /\ RequestsBar' = [RequestsBar EXCEPT ![x[1]] = @ - 1]
          /\ FailedBar' = FailedBar
      BY <1>1, <1>2, <2>2, <2>3, <2>5, <3>1, OneRequestLess
    <3>3. lost' = lost \cup {x}
      BY <1>1, <1>2, <1>3, <2>2, <2>4, <2>5, <3>1
    <3>4. AbandonedBar' = AbandonedBar \cup {x[1]}
      BY <3>3 DEF AbandonedBar
    <3>5. P!RelayGivesUp(x[1])
      BY <1>1, <3>2, <3>4
         DEF P!RelayGivesUp, P!broker, RequestsBar, FailedBar, AbandonedBar
    <3> QED
      BY <3>2, <3>5 DEF P!Next
  <2>6. CASE ~ (O!Exhausted(events[x]) /\ copies[x] = 0 /\ x \in Requests)
    <3>1. lost' = lost
      BY <1>1, <1>2, <1>3, <2>2, <2>4, <2>6
    <3>2. x \in Requests /\ copies[x] = 0 => O!Fate(x)' = "open"
      BY <2>4, <2>6 DEF O!Fate
    <3>3. ASSUME NEW j \in Jobs
          PROVE  Undelivered(j)' = Undelivered(j)
      BY <1>1, <1>2, <2>2, <2>3, <3>2 DEF Undelivered
    <3>4. UNCHANGED <<RequestsBar, FailedBar, AbandonedBar>>
      BY <1>1, <3>1, <3>3 DEF RequestsBar, FailedBar, AbandonedBar
    <3> QED
      BY <1>1, <3>4 DEF P!vars, RequestsBar, FailedBar, AbandonedBar
  <2> QED
    BY <2>5, <2>6
<1> QED
  BY <1>5, <1>6, <1>7 DEF Mark, O!Mark, O!NotMarked

(* The clock and the claims of the outbox leave every fate as it is.       *)
LEMMA HiddenMoves ==
    ASSUME IInv,
           \/ \E d \in Dispatchers, t \in OutboxTokens, batch \in SUBSET inserted :
                 Claim(d, batch, t)
           \/ \E e \in Events : OutboxClock(e)
           \/ \E d \in Dispatchers : DispatcherCrash(d)
    PROVE  UNCHANGED P!vars
<1>1. events \in [Events -> OP!EventRows] /\ inserted \subseteq Events
  BY OutboxTyped
<1>2. UNCHANGED <<worker, queue, inserted, lost, copies>>
  BY DEF Claim, OutboxClock, DispatcherCrash, O!ClaimPendingOutboxEvents, O!ClaimReplyLost,
         O!LockExpires, O!RetryComesDue, O!Crash
<1>3. ASSUME NEW e \in Events
      PROVE  O!Fate(e)' = O!Fate(e)
  <2>1. CASE \E d \in Dispatchers, t \in OutboxTokens, batch \in SUBSET inserted :
                Claim(d, batch, t)
    <3>1. PICK batch \in SUBSET inserted, t \in OutboxTokens : O!Claimed(batch, t)
      BY <2>1 DEF Claim, O!ClaimPendingOutboxEvents, O!ClaimReplyLost
    <3>2. \/ events'[e] = events[e]
          \/ /\ events[e].status \in {"pending", "processing"}
             /\ events'[e] = O!ClaimedRow(events[e], t)
      BY <1>1, <3>1 DEF O!Claimed, O!Available
    <3> QED
      BY <1>1, <3>2 DEF O!ClaimedRow, O!Fate, OP!EventRows
  <2>2. CASE \E f \in Events : OutboxClock(f)
    <3>1. events'[e].status = events[e].status
      BY <1>1, <2>2 DEF OutboxClock, O!LockExpires, O!RetryComesDue, OP!EventRows
    <3> QED
      BY <3>1 DEF O!Fate
  <2>3. CASE \E d \in Dispatchers : DispatcherCrash(d)
    BY <2>3 DEF DispatcherCrash, O!Crash, O!Fate
  <2> QED
    BY <2>1, <2>2, <2>3
<1> QED
  BY <1>1, <1>2, <1>3, SeenUnchanged

(* A step of the composition is a step of InsightProcessing, or nothing    *)
(* that it could see.                                                      *)
LEMMA ProcessingMoves ==
    ASSUME IInv, [Next]_vars
    PROVE  [P!Next]_(P!vars)
<1>1. CASE UNCHANGED vars
  BY <1>1, SeenUnchanged DEF vars, worker, outbox, O!Fate
<1>2. ASSUME NEW w \in Workers, NEW b \in P!Bodies, Receive(w, b)
      PROVE  P!Next
  BY <1>2 DEF Receive, P!Next
<1>3. ASSUME NEW w \in Workers, Handle(w) \/ WorkerFault(w)
      PROVE  P!Next
  BY <1>3 DEF Handle, WorkerFault, P!Next
<1>4. ASSUME NEW j \in Jobs, LeaseExpires(j) \/ RetryComesDue(j)
      PROVE  P!Next
  BY <1>4 DEF LeaseExpires, RetryComesDue, P!Next
<1>5. ASSUME NEW batch \in SUBSET Jobs, ScheduleDueRetryJobs(batch)
      PROVE  P!Next
  BY <1>5, ScheduleMoves DEF P!Next
<1> QED
  BY <1>1, <1>2, <1>3, <1>4, <1>5, PublishMoves, MarkMoves, HiddenMoves DEF Next, Work

-------------------------------------------------------------------------------
(* Every change of a job's row leaves it worth at least as much; a retry   *)
(* makes it worth one more.                                                *)
LEMMA WorthIsKept ==
    ASSUME IInv, [Next]_vars, NEW j \in Jobs
    PROVE  /\ Worth(jobs[j]) \in Nat /\ Worth(jobs'[j]) \in Nat
           /\ Worth(jobs'[j]) >= Worth(jobs[j])
           /\ jobs[j].status = "aguardando_retentativa" /\ jobs'[j].status = "pendente"
                 => Worth(jobs'[j]) >= Worth(jobs[j]) + 1
<1>1. PP!Shape /\ PP!TableInv /\ [PP!Next]_(PP!vars) /\ PP!IInv'
  BY ProcessingMoves, SameSteps, ProcessingKeeps DEF IInv, PP!IInv
<1>2. PP!TableStep
  BY <1>1, PP!EveryStepIsATableStep, PartsAreFit
<1>3. jobs \in [Jobs -> PP!JobRows] /\ jobs' \in [Jobs -> PP!JobRows]
  BY <1>1 DEF PP!IInv, PP!Shape, PP!TypeOK
<1>4. /\ jobs[j].tentativas \in Nat /\ jobs'[j].tentativas \in Nat
      /\ jobs[j].tentativas <= MaxAttempts + 1
  BY <1>3, PartsAssumption DEF PP!JobRows, PP!AttemptCeiling
<1>5. jobs[j].status = "pendente" => jobs[j].tentativas < MaxAttempts
  BY <1>1 DEF PP!TableInv, PP!WaitingHasAttemptsLeft
<1>6. \/ jobs'[j] = jobs[j]
      \/ \E t : /\ PP!Claimable(jobs[j]) /\ jobs'[j] = PP!ClaimedRow(jobs[j], t)
      \/ /\ jobs[j].status = "processando"
         /\ jobs'[j] = PP!ConcludedRow(jobs[j])
      \/ \E p : /\ jobs[j].status = "processando"
                /\ jobs'[j] = PP!FailedRow(jobs[j], p)
      \/ /\ jobs[j].status = "aguardando_retentativa"
         /\ jobs'[j] = PP!RescheduledRow(jobs[j])
      \/ jobs'[j] = [jobs[j] EXCEPT !.lease = "expired"]
      \/ jobs'[j] = [jobs[j] EXCEPT !.proxima = "due"]
  <2>1. CASE jobs' = jobs
    BY <2>1
  <2>2. CASE \E k \in Jobs, t \in Tokens : PP!Claims(k, t)
    BY <1>3, <2>2 DEF PP!Claims
  <2>3. CASE \E w \in Workers, k \in Jobs : PP!Concludes(w, k)
    BY <1>3, <2>3 DEF PP!Concludes, PP!Owns
  <2>4. CASE \E w \in Workers, k \in Jobs, p \in BOOLEAN : PP!Registers(w, k, p)
    BY <1>3, <2>4 DEF PP!Registers, PP!Owns
  <2>5. CASE \E batch \in SUBSET Jobs : PP!Reschedules(batch)
    BY <1>3, <2>5 DEF PP!Reschedules, PP!Due
  <2>6. CASE \E k \in Jobs : PP!Expires(k) \/ PP!ComesDue(k)
    BY <1>3, <2>6 DEF PP!Expires, PP!ComesDue
  <2> QED
    BY <1>2, <2>1, <2>2, <2>3, <2>4, <2>5, <2>6 DEF PP!TableStep, PP!TablesUnchanged
<1>7. CASE \E t : /\ PP!Claimable(jobs[j]) /\ jobs'[j] = PP!ClaimedRow(jobs[j], t)
  BY <1>4, <1>5, <1>7, PartsAssumption
     DEF Worth, PP!Claimable, PP!ClaimedRow, PP!AttemptCeiling
<1>8. CASE jobs[j].status = "processando" /\ jobs'[j] = PP!ConcludedRow(jobs[j])
  BY <1>4, <1>8 DEF Worth, PP!ConcludedRow
<1>9. CASE \E p : jobs[j].status = "processando" /\ jobs'[j] = PP!FailedRow(jobs[j], p)
  BY <1>4, <1>9 DEF Worth, PP!FailedRow
<1>10. CASE jobs[j].status = "aguardando_retentativa"
            /\ jobs'[j] = PP!RescheduledRow(jobs[j])
  BY <1>4, <1>10 DEF Worth, PP!RescheduledRow
<1>11. CASE \/ jobs'[j] = jobs[j]
            \/ jobs'[j] = [jobs[j] EXCEPT !.lease = "expired"]
            \/ jobs'[j] = [jobs[j] EXCEPT !.proxima = "due"]
  <2>1. jobs'[j].status = jobs[j].status /\ jobs'[j].tentativas = jobs[j].tentativas
    BY <1>3, <1>11 DEF PP!JobRows
  <2> QED
    BY <1>4, <2>1 DEF Worth
<1> QED
  BY <1>6, <1>7, <1>8, <1>9, <1>10, <1>11

(* What a step inserts.                                                    *)
LEMMA Insertions ==
    ASSUME IInv, [Next]_vars
    PROVE  \/ inserted' = inserted
           \/ \E j \in Jobs : inserted' = inserted \cup {Failure(j)}
           \/ \E batch \in SUBSET Jobs : ScheduleDueRetryJobs(batch)
BY DEF Next, vars, Receive, Handle, WorkerFault, LeaseExpires, RetryComesDue, Work,
       Mark, Marked, Publish, Claim, OutboxClock, DispatcherCrash

(* A step that inserts no retry leaves every job the rows it has.          *)
LEMMA SameRows ==
    ASSUME \/ inserted' = inserted
           \/ \E j \in Jobs : inserted' = inserted \cup {Failure(j)}
    PROVE  /\ Requests \cap inserted' = Requests \cap inserted
           /\ \A j \in Jobs : Rows(j)' = Rows(j)
<1>1. \A j \in Jobs : Failure(j) \notin Requests
  BY DEF Failure, Requests
<1> QED
  BY <1>1 DEF Rows

(* The scheduler gives each job of its batch the next row.                 *)
LEMMA OneMoreRow ==
    ASSUME IInv, NEW batch \in SUBSET Jobs, ScheduleDueRetryJobs(batch), NEW j \in Jobs
    PROVE  IF j \in batch
           THEN /\ Rows(j)' = Rows(j) \cup {NextRequest(j)}
                /\ Cardinality(Rows(j)') = Cardinality(Rows(j)) + 1
                /\ IsFiniteSet(Rows(j)')
                /\ Rows(j)' = {j} \X (1..Cardinality(Rows(j)'))
                /\ jobs[j].status = "aguardando_retentativa"
                /\ jobs'[j].status = "pendente"
           ELSE Rows(j)' = Rows(j)
<1>1. /\ batch \subseteq P!Due
      /\ jobs' = [k \in Jobs |-> IF k \in batch THEN P!RescheduledRow(jobs[k]) ELSE jobs[k]]
      /\ inserted' = inserted \cup {NextRequest(k) : k \in batch}
  BY DEF ScheduleDueRetryJobs, InsertedRequests
<1>2. \A k \in batch : NextRequest(k) \in Requests
  BY <1>1, NewRowsAreNew DEF P!Due
<1>3. \A k \in Jobs : NextRequest(k)[1] = k
  BY DEF NextRequest
<1>4. j \notin batch => Rows(j)' = Rows(j)
  BY <1>1, <1>2, <1>3 DEF Rows
<1>5. ASSUME j \in batch
      PROVE  Rows(j)' = Rows(j) \cup {NextRequest(j)}
  BY <1>1, <1>2, <1>3, <1>5 DEF Rows
<1>6. /\ IsFiniteSet(Rows(j)) /\ Cardinality(Rows(j)) \in Nat
      /\ Rows(j) = {j} \X (1..Cardinality(Rows(j)))
      /\ NextRequest(j) = <<j, 1 + Cardinality(Rows(j))>>
      /\ NextRequest(j) \notin Rows(j)
  BY RowsOfAJob
<1>7. /\ IsFiniteSet(Rows(j) \cup {NextRequest(j)})
      /\ Cardinality(Rows(j) \cup {NextRequest(j)}) = Cardinality(Rows(j)) + 1
  BY <1>6, FS_AddElement
<1>8. Rows(j) \cup {NextRequest(j)} = {j} \X (1..(Cardinality(Rows(j)) + 1))
  <2> DEFINE n == Cardinality(Rows(j))
  <2>1. 1..(n + 1) = (1..n) \cup {1 + n}
    BY <1>6
  <2>2. {j} \X ((1..n) \cup {1 + n}) = ({j} \X (1..n)) \cup {<<j, 1 + n>>}
    OBVIOUS
  <2> QED
    BY <1>6, <2>1, <2>2
<1>9. j \in batch => /\ jobs[j].status = "aguardando_retentativa"
                     /\ jobs'[j].status = "pendente"
  BY <1>1 DEF P!Due, P!RescheduledRow
<1> QED
  BY <1>4, <1>5, <1>7, <1>8, <1>9

LEMMA BooksStep ==
    ASSUME IInv, [Next]_vars
    PROVE  Books'
<1>1. /\ Numbered /\ RowsWithinAttempts /\ OnlyInserted /\ LostAreFailed
      /\ events \in [Events -> OP!EventRows] /\ copies \in [Events -> Nat]
      /\ inserted \subseteq Events
  BY OutboxTyped DEF IInv, Books
<1>2. /\ inserted \subseteq inserted' /\ inserted' \subseteq Events
  <2>1. \A j \in Jobs : Failure(j) \in Events
    BY DEF Events
  <2>2. ASSUME NEW batch \in SUBSET Jobs, ScheduleDueRetryJobs(batch)
        PROVE  inserted \subseteq inserted' /\ inserted' \subseteq Events
    <3>1. inserted' = inserted \cup {NextRequest(j) : j \in batch} /\ batch \subseteq P!Due
      BY <2>2 DEF ScheduleDueRetryJobs, InsertedRequests
    <3>2. \A j \in batch : NextRequest(j) \in Requests
      BY <3>1, NewRowsAreNew DEF P!Due
    <3> QED
      BY <1>1, <3>1, <3>2 DEF Events
  <2> QED
    BY <1>1, <2>1, <2>2, Insertions
<1>3. OutboxKeepsToRows /\ (NothingIsGivenUp \/ \E d \in Dispatchers : Mark(d))
  BY OutboxStaysInTable
<1>4. \A j \in Jobs : /\ Cardinality(Rows(j)) \in Nat
                      /\ Worth(jobs[j]) \in Nat /\ Worth(jobs'[j]) \in Nat
                      /\ Worth(jobs'[j]) >= Worth(jobs[j])
                      /\ Cardinality(Rows(j)) <= Worth(jobs[j])
  BY <1>1, RowsOfAJob, WorthIsKept DEF RowsWithinAttempts
<1>5. Numbered' /\ RowsWithinAttempts'
  <2>1. ASSUME NEW batch \in SUBSET Jobs, ScheduleDueRetryJobs(batch)
        PROVE  Numbered' /\ RowsWithinAttempts'
    <3>1. ASSUME NEW j \in Jobs
          PROVE  /\ IsFiniteSet(Rows(j)') /\ Rows(j)' = {j} \X (1..Cardinality(Rows(j)'))
                 /\ Cardinality(Rows(j)') <= Worth(jobs'[j])
      <4>1. CASE j \in batch
        <5>1. /\ IsFiniteSet(Rows(j)') /\ Rows(j)' = {j} \X (1..Cardinality(Rows(j)'))
              /\ Cardinality(Rows(j)') = Cardinality(Rows(j)) + 1
              /\ Worth(jobs'[j]) >= Worth(jobs[j]) + 1
          BY <2>1, <4>1, OneMoreRow, WorthIsKept
        <5> QED
          BY <1>4, <5>1
      <4>2. CASE j \notin batch
        <5>1. Rows(j)' = Rows(j)
          BY <2>1, <4>2, OneMoreRow
        <5>2. /\ IsFiniteSet(Rows(j)) /\ Rows(j) = {j} \X (1..Cardinality(Rows(j)))
          BY RowsOfAJob
        <5>3. Cardinality(Rows(j)) <= Worth(jobs'[j])
          BY <1>4
        <5> QED
          BY <5>1, <5>2, <5>3
      <4> QED
        BY <4>1, <4>2
    <3> QED
      BY <3>1 DEF Numbered, RowsWithinAttempts, Worth
  <2>2. CASE \/ inserted' = inserted
             \/ \E j \in Jobs : inserted' = inserted \cup {Failure(j)}
    <3>1. \A j \in Jobs : Rows(j)' = Rows(j)
      BY <2>2, SameRows
    <3>2. ASSUME NEW j \in Jobs
          PROVE  Cardinality(Rows(j)) <= Worth(jobs'[j])
      BY <1>4
    <3>3. ASSUME NEW j \in Jobs
          PROVE  /\ IsFiniteSet(Rows(j)') /\ Rows(j)' = {j} \X (1..Cardinality(Rows(j)'))
                 /\ Cardinality(Rows(j)') <= Worth(jobs'[j])
      BY <1>1, <3>1, <3>2 DEF Numbered
    <3> QED
      BY <3>3 DEF Numbered, RowsWithinAttempts, Worth
  <2> QED
    BY <2>1, <2>2, Insertions
<1>6. OnlyInserted'
  <2>1. \A d \in Dispatchers : O!InHand(d)' \subseteq inserted'
    BY <1>2, <1>3 DEF OutboxKeepsToRows
  <2>2. \A e \in Events \ inserted' : events'[e].status = "pending" /\ copies'[e] = 0
    BY <1>1, <1>2, <1>3 DEF OutboxKeepsToRows, OnlyInserted
  <2> QED
    BY <1>2, <2>1, <2>2 DEF OnlyInserted
<1>7. LostAreFailed'
  <2>1. \/ lost' = lost
        \/ lost' = lost \cup {e \in Requests \cap inserted :
                               events'[e].status = "failed" /\ copies[e] = 0}
    BY DEF Next, vars, Receive, Handle, WorkerFault, LeaseExpires, RetryComesDue, Work,
           Mark, Marked, Publish, Claim, OutboxClock, DispatcherCrash, ScheduleDueRetryJobs
  <2>2. lost' \subseteq Requests \cap inserted'
    BY <1>1, <1>2, <2>1 DEF LostAreFailed
  <2>3. \A e \in lost : events'[e].status = "failed"
    <3>1. ASSUME NEW e \in lost
          PROVE  events'[e].status = "failed"
      <4>1. e \in Events /\ events[e].status = "failed"
        BY <1>1 DEF LostAreFailed, Events
      <4>2. OP!Fate(e) = "failed"
        BY <4>1 DEF OP!Fate
      <4>3. OP!IInv /\ [OP!Next]_(OP!vars)
        BY OutboxMoves DEF IInv
      <4>4. OP!Fate(e)' = "failed"
        BY <4>1, <4>2, <4>3, OP!FateSteps, PartsAreFit
      <4> QED
        BY <4>4 DEF OP!Fate
    <3> QED
      BY <3>1
  <2>4. \A e \in lost' : events'[e].status = "failed"
    BY <2>1, <2>3
  <2>5. ASSUME NEW e \in Requests \cap inserted',
               events'[e].status = "failed", copies'[e] = 0
        PROVE  e \in lost'
    <3>1. e \in Events /\ copies[e] = 0
      BY <1>2, <1>3, <2>5 DEF OutboxKeepsToRows
    <3>2. CASE NothingIsGivenUp
      <4>1. events[e].status = "failed"
        BY <2>5, <3>1, <3>2 DEF NothingIsGivenUp
      <4>2. e \in inserted
        BY <1>1, <3>1, <4>1 DEF OnlyInserted
      <4> QED
        BY <1>1, <2>1, <2>5, <3>1, <4>1, <4>2 DEF LostAreFailed
    <3>3. CASE \E d \in Dispatchers : Mark(d)
      BY <2>5, <3>1, <3>3 DEF Mark, Marked
    <3> QED
      BY <1>3, <3>2, <3>3
  <2> QED
    BY <2>2, <2>4, <2>5 DEF LostAreFailed
<1> QED
  BY <1>5, <1>6, <1>7 DEF Books

-------------------------------------------------------------------------------
LEMMA InitMaps ==
    ASSUME Init
    PROVE  /\ P!Init
           /\ OP!Init
           /\ Books
<1>1. /\ jobs = [j \in Jobs |-> P!NewJob] /\ O!Init
      /\ inserted = {<<j, 1>> : j \in Jobs} /\ lost = {}
      /\ events = [e \in Events |-> O!NewEvent] /\ copies = [e \in Events |-> 0]
      /\ dispatchers = [d \in Dispatchers |-> O!Idle]
  BY DEF Init, O!Init
<1>2. OP!Init
  BY <1>1 DEF O!Init, OP!Init, O!NewEvent, OP!NewEvent, O!Idle, OP!Idle
<1>3. \A j \in Jobs : <<j, 1>> \in Requests
  BY PartsAssumption DEF Requests
<1>4. ASSUME NEW j \in Jobs
      PROVE  Rows(j) = {<<j, 1>>}
  BY <1>1, <1>3 DEF Rows
<1>5. ASSUME NEW j \in Jobs
      PROVE  IsFiniteSet(Rows(j)) /\ Cardinality(Rows(j)) = 1
  BY <1>4, FS_Singleton
<1>6. \A e \in Events : /\ events[e].status = "pending" /\ copies[e] = 0
                        /\ O!Fate(e) = "open"
  BY <1>1 DEF O!NewEvent, O!Fate
<1>7. P!Init
  <2>1. ASSUME NEW j \in Jobs
        PROVE  Cardinality(Undelivered(j)) = 1
    <3>1. Undelivered(j) = Rows(j)
      BY <1>6 DEF Undelivered, Rows, Events
    <3> QED
      BY <1>5, <3>1
  <2>2. RequestsBar = [j \in Jobs |-> 1]
    BY <2>1 DEF RequestsBar
  <2>3. FailedBar = [j \in Jobs |-> 0]
    BY <1>1 DEF FailedBar, Failure
  <2>4. AbandonedBar = {}
    BY <1>1 DEF AbandonedBar
  <2> QED
    BY <2>2, <2>3, <2>4 DEF Init, P!Init, RequestsBar, FailedBar, AbandonedBar
<1>8. Numbered
  <2>1. ASSUME NEW j \in Jobs
        PROVE  {<<j, 1>>} = {j} \X (1..1)
    OBVIOUS
  <2> QED
    BY <1>4, <1>5, <2>1 DEF Numbered
<1>9. RowsWithinAttempts
  BY <1>1, <1>5 DEF RowsWithinAttempts, Worth, P!NewJob
<1>10. OnlyInserted
  BY <1>1, <1>3, <1>6 DEF OnlyInserted, O!InHand, O!Idle, Events
<1>11. LostAreFailed
  BY <1>1, <1>6 DEF LostAreFailed, Events
<1> QED
  BY <1>2, <1>7, <1>8, <1>9, <1>10, <1>11 DEF Books

LEMMA PipelineInit == Init => IInv
<1> SUFFICES ASSUME Init
             PROVE  IInv
  OBVIOUS
<1>1. OP!IInv
  BY InitMaps, PartsAreFit, OP!OutboxInit
<1>2. PP!Init
  BY InitMaps DEF P!Init, PP!Init, P!NewJob, PP!NewJob, P!Bodies, PP!Bodies,
                  P!Idle, PP!Idle
<1>3. PP!IInv
  BY <1>2, PartsAreFit, PP!Initially
<1> QED
  BY <1>1, <1>3, InitMaps DEF IInv

LEMMA PipelineStep == IInv /\ [Next]_vars => IInv'
<1> SUFFICES ASSUME IInv, [Next]_vars
             PROVE  IInv'
  OBVIOUS
<1>1. OP!IInv'
  BY OutboxMoves, OutboxKeeps DEF IInv
<1>2. PP!IInv'
  BY ProcessingMoves, SameSteps, ProcessingKeeps DEF IInv
<1> QED
  BY <1>1, <1>2, BooksStep DEF IInv

LEMMA PipelineSafety == Spec => []IInv
  BY PipelineInit, PipelineStep, PTL DEF Spec

-------------------------------------------------------------------------------
(* Every variable of the composition has its type, the number of its       *)
(* retries never takes a job past the rows it can have, and no dispatcher  *)
(* works on an event that is not in the table.                             *)
THEOREM PipelineTypeCorrect == Spec => []TypeOK
<1>1. IInv => TypeOK
  <2> SUFFICES ASSUME IInv
               PROVE  TypeOK
    OBVIOUS
  <2>1. O!TypeOK
    BY DEF IInv, OP!IInv, OP!TypeOK, O!TypeOK, OP!EventRows, O!EventRows,
           OP!DispatcherStates, O!DispatcherStates, OP!AttemptCeiling, O!AttemptCeiling
  <2>2. P!TypeOK
    BY DEF IInv, PP!IInv, PP!Shape, PP!TypeOK, P!TypeOK, PP!JobRows, P!JobRows,
           PP!Statuses, P!Statuses, PP!AttemptCeiling, P!AttemptCeiling, PP!Bodies,
           P!Bodies, PP!WorkerStates, P!WorkerStates, PP!PCs, P!PCs, PP!Holding, P!Holding
  <2> QED
    BY <2>1, <2>2 DEF TypeOK, IInv, Books, OnlyInserted, LostAreFailed
<1> QED
  BY <1>1, PipelineSafety, PTL

(* A pending job that no message will bring back has a request that was    *)
(* tried to the last attempt and never reached the broker.                 *)
THEOREM SilenceMeansALostRequest == Spec => []SilentJobHasLostRequest
<1>1. IInv => SilentJobHasLostRequest
  <2> SUFFICES ASSUME IInv, NEW j \in Jobs, Silent(j)
               PROVE  \E e \in lost : /\ e[1] = j
                                      /\ events[e].tentativas >= OutboxMaxAttempts
    BY DEF SilentJobHasLostRequest
  <2>1. jobs[j].status = "pendente" /\ ~ PP!Deliverable(j)
    BY DEF Silent, P!Deliverable, PP!Deliverable
  <2>2. j \in {e[1] : e \in lost}
    BY <2>1 DEF IInv, PP!IInv, PP!PendingJobHasRequest
  <2>3. PICK e \in lost : e[1] = j
    BY <2>2
  <2>4. e \in Events /\ events[e].status = "failed"
    BY DEF IInv, Books, LostAreFailed, Events
  <2>5. events[e].tentativas >= OutboxMaxAttempts
    BY <2>4 DEF IInv, OP!IInv, OP!AttemptsDecideFate
  <2> QED
    BY <2>3, <2>5
<1> QED
  BY <1>1, PipelineSafety, PTL

(* The table and its dispatchers keep the contract of the relay: with them *)
(* in its place, the worker does what InsightProcessing says.              *)
THEOREM CompositionImplementsProcessing == Spec => ProcessingSpec
<1>1. Init => P!Init
  BY InitMaps
<1>2. IInv /\ [Next]_vars => [P!Next]_(P!vars)
  BY ProcessingMoves
<1> QED
  BY <1>1, <1>2, PipelineSafety, PTL DEF Spec, ProcessingSpec, P!Spec

(* What is proved of the parts holds of the composition.                   *)
LEMMA CompositionRunsItsParts == Spec => PP!Spec /\ OP!Spec
<1>1. Init => PP!Init
  BY InitMaps DEF P!Init, PP!Init, P!NewJob, PP!NewJob, P!Bodies, PP!Bodies,
                  P!Idle, PP!Idle
<1>2. IInv /\ [Next]_vars => [PP!Next]_(PP!vars)
  BY ProcessingMoves, SameSteps
<1>3. Init => OP!Init
  BY InitMaps
<1>4. IInv /\ [Next]_vars => [OP!Next]_(OP!vars)
  BY OutboxMoves
<1> QED
  BY <1>1, <1>2, <1>3, <1>4, PipelineSafety, PTL DEF Spec, PP!Spec, OP!Spec

(* So the life of a job is the one JobLifecycle describes with the real    *)
(* outbox in the loop as well.                                             *)
THEOREM JobsKeepTheirLifecycle == Spec => PP!LifecycleSpec
<1>1. PP!Spec => PP!LifecycleSpec
  BY PartsAreFit, PP!Refinement
<1> QED
  BY <1>1, CompositionRunsItsParts, PTL

(* The events the worker itself inserts are delivered as Relay promises:   *)
(* none is called published that the broker does not have, and what is     *)
(* settled stays so.                                                       *)
THEOREM EventsKeepTheirFate == Spec => OP!RelaySpec
<1>1. OP!Spec => OP!RelaySpec
  BY PartsAreFit, OP!OutboxImplementsRelay
<1> QED
  BY <1>1, CompositionRunsItsParts, PTL

(* Whatever the dispatchers suffer, a job in 'processando' has a goroutine *)
(* with its token, as long as no process with goroutines dies or loses its *)
(* connection and no query of theirs is lost or refused.                   *)
THEOREM DispatchersStrandNoJob ==
    ASSUME Faults \cap {"crash", "connection", "database", "text"} = {}
    PROVE  Spec => []PP!NoStrandedJob
<1>1. ({"relay"} \cup Faults) \cap {"crash", "connection", "database", "text"} = {}
  OBVIOUS
<1>2. PP!Spec => []PP!NoStrandedJob
  BY <1>1, PartsAreFit, PP!NoJobIsStranded
<1> QED
  BY <1>2, CompositionRunsItsParts, PTL
===============================================================================
