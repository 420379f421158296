------------------------------- MODULE Pipeline -------------------------------
(***************************************************************************)
(* The whole loop of a job: InsightProcessing and Outbox composed.  What   *)
(* the worker writes to outbox_eventos the dispatchers publish, and what   *)
(* they publish is the queue the goroutines read.  InsightProcessing has   *)
(* only a contract for the outbox (RelayRequest, RelayAgain,               *)
(* RelayGivesUp); here the table and its dispatchers take its place, and   *)
(* the composition is shown to keep that contract.                         *)
(***************************************************************************)
EXTENDS Naturals, FiniteSets

CONSTANTS
    Jobs, Unknown, Malformed, Workers, Tokens, NoToken, NoBody,
    MaxAttempts, RetryBatchSize,            \* as in InsightProcessing
    Dispatchers, OutboxTokens, NoEvent,
    OutboxMaxAttempts, BatchSize,           \* as in Outbox
    MaxCopies,      \* bound: a dispatcher waits while so many are queued
    Faults,         \* of the goroutines; "relay" is what the outbox does
    OutboxFaults    \* of the dispatchers

(***************************************************************************)
(* Rows of outbox_eventos: <<j, 0>> is the insight.failed event of job j,  *)
(* <<j, 1>> its insight.requested, <<j, n>> for n > 1 a retry.  A job is   *)
(* put back fewer than MaxAttempts times, so it has at most that many.     *)
(***************************************************************************)
Failure(j) == <<j, 0>>
Requests   == Jobs \X (1..MaxAttempts)
Events     == Requests \cup {Failure(j) : j \in Jobs}

VARIABLES
    jobs, insights, queue, dlq, workers,    \* of InsightProcessing
    events, copies, dispatchers,            \* of Outbox
    inserted,       \* which Events are rows of the table
    lost            \* Requests marked 'failed' that the broker never took

outbox == <<events, copies, dispatchers>>
worker == <<jobs, insights, dlq, workers>>
vars   == <<worker, queue, outbox, inserted, lost>>

O == INSTANCE Outbox WITH
    Tokens      <- OutboxTokens,
    MaxAttempts <- OutboxMaxAttempts,
    Poison      <- {},
    Faults      <- OutboxFaults

(* What InsightProcessing sees of the outbox.                              *)
Undelivered(j) ==
    {e \in Requests \cap inserted : e[1] = j /\ O!Fate(e) = "open" /\ copies[e] = 0}

P == INSTANCE InsightProcessing WITH
    failedEvents <- [j \in Jobs |-> IF Failure(j) \in inserted THEN 1 ELSE 0],
    requests     <- [j \in Jobs |-> Cardinality(Undelivered(j))],
    abandoned    <- {e[1] : e \in lost},
    Faults       <- {"relay"} \cup Faults

ASSUME PipelineAssumption ==
    /\ Faults \subseteq {"crash", "connection", "database", "text", "broker"}
    /\ OutboxFaults \subseteq O!FaultKinds

(* What the two modules assume of their constants, for those given here.   *)
ASSUME PartsAssumption ==
    /\ MaxAttempts \in Nat \ {0} /\ RetryBatchSize \in Nat \ {0}
    /\ OutboxMaxAttempts \in Nat \ {0} /\ BatchSize \in Nat \ {0}
    /\ MaxCopies \in Nat
    /\ Jobs \cap Unknown = {} /\ Jobs \cap Malformed = {} /\ Unknown \cap Malformed = {}
    /\ NoBody \notin Jobs \cup Unknown \cup Malformed
    /\ NoToken \notin Tokens \cup OutboxTokens
    /\ NoEvent \notin Events
    /\ IsFiniteSet(Dispatchers)

Init == /\ jobs = [j \in Jobs |-> P!NewJob]
        /\ insights = {}
        /\ queue = [b \in P!Bodies |-> IF b \in Jobs THEN 0 ELSE 1]
        /\ dlq = {}
        /\ workers = [w \in Workers |-> P!Idle]
        /\ O!Init
        /\ inserted = {<<j, 1>> : j \in Jobs}
        /\ lost = {}

-------------------------------------------------------------------------------
(* The goroutines, the clock of their tables and their faults.             *)
Receive(w, b) ==
    /\ UNCHANGED <<outbox, inserted, lost>>
    /\ P!Receive(w, b)

(* RegisterFailure inserts the insight.failed row with the status; nothing *)
(* else a goroutine does touches outbox_eventos.                           *)
Handle(w) ==
    /\ \/ UNCHANGED inserted
       \/ /\ workers[w].body \in Jobs
          /\ inserted' = inserted \cup {Failure(workers[w].body)}
    /\ UNCHANGED <<outbox, lost>>
    /\ P!Handle(w)

WorkerFault(w) ==
    /\ UNCHANGED <<outbox, inserted, lost>>
    /\ P!Crash(w) \/ P!ConnectionLost(w)

LeaseExpires(j) == /\ UNCHANGED <<outbox, inserted, lost>>
                   /\ P!LeaseExpires(j)

RetryComesDue(j) == /\ UNCHANGED <<outbox, inserted, lost>>
                    /\ P!RetryComesDue(j)

NextRequest(j) == <<j, 1 + Cardinality({e \in Requests \cap inserted : e[1] = j})>>

InsertedRequestsBug(batch) == {}    \* updates the jobs and inserts nothing

InsertedRequests(batch) == {NextRequest(j) : j \in batch}

(* One tick of the scheduler: the jobs and their rows in one transaction.  *)
ScheduleDueRetryJobs(batch) ==
    /\ batch # {}
    /\ Cardinality(batch) <= RetryBatchSize
    /\ batch \subseteq P!Due
    /\ jobs' = [j \in Jobs |-> IF j \in batch THEN P!RescheduledRow(jobs[j])
                                              ELSE jobs[j]]
    /\ inserted' = inserted \cup InsertedRequests(batch)
    /\ UNCHANGED <<insights, dlq, workers, queue, outbox, lost>>

-------------------------------------------------------------------------------
(* The dispatchers.                                                        *)
Claim(d, batch, t) ==
    /\ batch \subseteq inserted
    /\ O!ClaimPendingOutboxEvents(d, batch, t) \/ O!ClaimReplyLost(d, batch, t)
    /\ UNCHANGED <<worker, queue, inserted, lost>>

QueuedBug(e) ==     \* a retry goes where the failures go
    IF e[2] = 1 THEN [queue EXCEPT ![e[1]] = @ + 1] ELSE queue

(* A request goes to the insight queue, an insight.failed event to the DLQ *)
(* (its copies are counted in "copies").                                   *)
Queued(e) == IF e \in Requests THEN [queue EXCEPT ![e[1]] = @ + 1] ELSE queue

Publish(d, e) ==
    /\ \E answer \in {"published", "refused"}, taken \in BOOLEAN :
          /\ taken /\ e \in Requests => queue[e[1]] < MaxCopies
          /\ O!PublishAs(d, e, answer, taken)
          /\ queue' = IF taken THEN Queued(e) ELSE queue
    /\ UNCHANGED <<worker, inserted, lost>>

Marked == /\ lost' = lost \cup {e \in Requests \cap inserted :
                             events'[e].status = "failed" /\ copies[e] = 0}
          /\ UNCHANGED <<worker, queue, inserted>>

Mark(d) == O!Mark(d) /\ Marked

OutboxClock(e) ==
    /\ e \in inserted
    /\ O!LockExpires(e) \/ O!RetryComesDue(e)
    /\ UNCHANGED <<worker, queue, inserted, lost>>

DispatcherCrash(d) ==
    /\ O!Crash(d)
    /\ UNCHANGED <<worker, queue, inserted, lost>>

-------------------------------------------------------------------------------
Work(d) == Mark(d) \/ \E e \in Events : Publish(d, e)

Next ==
    \/ \E w \in Workers, b \in P!Bodies : Receive(w, b)
    \/ \E w \in Workers : Handle(w) \/ WorkerFault(w)
    \/ \E j \in Jobs : LeaseExpires(j) \/ RetryComesDue(j)
    \/ \E batch \in SUBSET Jobs : ScheduleDueRetryJobs(batch)
    \/ \E d \in Dispatchers : Work(d) \/ DispatcherCrash(d)
    \/ \E d \in Dispatchers, t \in OutboxTokens, batch \in SUBSET inserted :
          Claim(d, batch, t)
    \/ \E e \in Events : OutboxClock(e)

Spec == Init /\ [][Next]_vars

(* The fairness of the two modules, for the actions composed here.  What   *)
(* Outbox asks of a dispatcher that crashes again and again is left out:   *)
(* the worker does not survive crashes either (NoStrandedJob).             *)
FairSpec ==
    /\ Spec
    /\ \A w \in Workers : WF_vars(Handle(w))
    /\ \A j \in Jobs : /\ SF_vars(\E w \in Workers : Receive(w, j))
                       /\ WF_vars(LeaseExpires(j))
                       /\ WF_vars(RetryComesDue(j))
    /\ WF_vars(\E batch \in SUBSET Jobs : ScheduleDueRetryJobs(batch))
    /\ \A d \in Dispatchers : WF_vars(Work(d))
    /\ \A e \in Events :
          /\ SF_vars(\E d \in Dispatchers, t \in OutboxTokens :
                        \E batch \in SUBSET inserted :
                            /\ e \in batch
                            /\ O!ClaimPendingOutboxEvents(d, batch, t)
                            /\ UNCHANGED <<worker, queue, inserted, lost>>)
          /\ WF_vars(OutboxClock(e))

-------------------------------------------------------------------------------
(* Every variable has its type, and only rows that exist are worked on.    *)
TypeOK == /\ O!TypeOK
          /\ P!TypeOK
          /\ inserted \subseteq Events
          /\ lost \subseteq Requests \cap inserted
          /\ \A d \in Dispatchers : O!InHand(d) \subseteq inserted

(* The composition implements InsightProcessing: the table, the claims and *)
(* the dispatchers do to the queue and to a job nothing but what its       *)
(* relay says, and no insert the worker makes goes missing.                *)
ProcessingSpec == P!Spec

(* dispatcher.go:78.  A pending job that no message will bring back has a  *)
(* request that was refused to the last attempt and never reached the      *)
(* broker; a crash, a lost reply or a late mark alone leaves no job silent.*)
Silent(j) == /\ jobs[j].status = "pendente"
             /\ ~ P!Deliverable(j)

SilentJobHasLostRequest ==
    \A j \in Jobs : Silent(j) =>
        \E e \in lost : /\ e[1] = j
                        /\ events[e].tentativas >= OutboxMaxAttempts

(* README.md:104 and 124: every job ends with an insight, or with its      *)
(* failure in the DLQ; or the dispatcher has given up on that failure, or  *)
(* on a request that never reached the broker.  Giving up on one that did  *)
(* is no excuse.                                                           *)
Answered(j) == \/ jobs[j].status = "concluido"
               \/ /\ jobs[j].status = "falhou"
                  /\ \/ copies[Failure(j)] > 0
                     \/ events[Failure(j)].status = "failed"
               \/ \E e \in lost : e[1] = j

EveryJobAnswered == \A j \in Jobs : <>[]Answered(j)

===============================================================================
