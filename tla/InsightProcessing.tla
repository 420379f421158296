-------------------------- MODULE InsightProcessing --------------------------
(***************************************************************************)
(* The worker's core: the goroutines of worker.Consumer, each running      *)
(* handleDelivery -> service.Process -> postgres.Repository on one message *)
(* at a time, the retry scheduler, and the queue and tables they share.    *)
(*                                                                         *)
(* One element of Workers is one goroutine of one replica.  Each call to   *)
(* the database, to the broker or to the AI provider is one step, because  *)
(* between two of them every other goroutine may run and the process may   *)
(* die.  The outbox dispatcher appears here only as the relay that moves   *)
(* insight.requested / insight.retry.requested events to the queue.        *)
(***************************************************************************)
EXTENDS Naturals, FiniteSets

CONSTANTS
    Jobs,           \* rows of insight_jobs; also the bodies that name them
    Unknown,        \* well-formed bodies that name no row of insight_jobs
    Malformed,      \* bodies domain.ParseMessage rejects
    Workers,        \* consumer goroutines, of every replica
    Tokens,         \* values of uuid.NewString()
    NoToken,        \* processing_token IS NULL
    NoBody,         \* an idle goroutine has no delivery
    MaxAttempts,    \* INSIGHT_MAX_ATTEMPTS
    RetryBatchSize, \* RETRY_BATCH_SIZE, the LIMIT of ScheduleDueRetryJobs
    MaxCopies,      \* bound: the relay duplicates while fewer are queued
    Faults          \* which of FaultKinds the environment may exhibit

FaultKinds == {"crash", "connection", "database", "text", "broker", "relay"}

ASSUME ProcessingAssumption ==
    /\ MaxAttempts \in Nat \ {0}
    /\ RetryBatchSize \in Nat \ {0}
    /\ MaxCopies \in Nat
    /\ Faults \subseteq FaultKinds

ASSUME BodiesAreDistinct ==
    /\ Jobs \cap Unknown = {}
    /\ Jobs \cap Malformed = {}
    /\ Unknown \cap Malformed = {}
    /\ NoBody \notin Jobs \cup Unknown \cup Malformed
    /\ NoToken \notin Tokens

VARIABLES
    jobs,           \* the insight_jobs table
    insights,       \* jobs with a row in insights (job_id is unique there)
    failedEvents,   \* how many insight.failed outbox rows name the job
    requests,       \* how many request/retry rows the broker never took
    abandoned,      \* jobs with such a row that was marked 'failed'
    queue,          \* messages ready in the insight queue, a bag of bodies
    dlq,            \* malformed bodies with a copy in the dead-letter queue
    workers         \* what each goroutine is doing

vars == <<jobs, insights, failedEvents, requests, abandoned, queue, dlq, workers>>

Bodies == Jobs \cup Unknown \cup Malformed

(***************************************************************************)
(* A row of insight_jobs.  Times are kept as what the queries ask of them: *)
(* whether lease_expira_em and proxima_tentativa_em have passed.           *)
(***************************************************************************)
Statuses == {"pendente", "processando", "aguardando_retentativa",
             "concluido", "falhou"}

AttemptCeiling == MaxAttempts + 1   \* tentativas saturates: only >= is asked

JobRows == [status     : Statuses,
            tentativas : 0..AttemptCeiling,
            token      : Tokens \cup {NoToken},
            lease      : {"null", "live", "expired"},
            proxima    : {"null", "future", "due"}]

(***************************************************************************)
(* A goroutine: where it is in handleDelivery/Process, the body it has     *)
(* been handed, the token of the lease it believes it has, whether the     *)
(* failure it is registering is one isRetryable rejects, and whether the   *)
(* broker still counts the delivery as its own.                            *)
(***************************************************************************)
Holding == {"find", "complete", "save", "fail"}     \* pcs with a lease

PCs == {"idle", "invalid", "begin", "ack", "nack"} \cup Holding

WorkerStates == [pc        : PCs,
                 body      : Bodies \cup {NoBody},
                 token     : Tokens \cup {NoToken},
                 permanent : BOOLEAN,
                 held      : BOOLEAN]

Idle == [pc |-> "idle", body |-> NoBody, token |-> NoToken,
         permanent |-> FALSE, held |-> FALSE]

(* The API inserts the job and its insight.requested event together.       *)
NewJob == [status |-> "pendente", tentativas |-> 0, token |-> NoToken,
           lease |-> "null", proxima |-> "null"]

Init == /\ jobs = [j \in Jobs |-> NewJob]
        /\ insights = {}
        /\ failedEvents = [j \in Jobs |-> 0]
        /\ requests = [j \in Jobs |-> 1]
        /\ abandoned = {}
        /\ queue = [b \in Bodies |-> IF b \in Jobs THEN 0 ELSE 1]
        /\ dlq = {}
        /\ workers = [w \in Workers |-> Idle]

-------------------------------------------------------------------------------
(* What the repository's statements do to one row.  An operator whose name *)
(* ends in a Bug is not part of the specification: it is the way the next  *)
(* definition could have been written wrong, and some run must notice.     *)

ClaimableBug(row) ==    \* takes a job whose lease is still running
    row.status \in {"pendente", "aguardando_retentativa", "processando"}

Claimable(row) ==
    \/ row.status = "pendente"
    \/ row.status = "aguardando_retentativa" /\ row.proxima # "future"
    \/ row.status = "processando" /\ row.lease = "expired"

ClaimedRowBug(row, t) ==    \* a takeover inherits the token of the old lease
    [status |-> "processando", tentativas |-> row.tentativas,
     token |-> IF row.token = NoToken THEN t ELSE row.token,
     lease |-> "live", proxima |-> "null"]

ClaimedRow(row, t) ==
    [status     |-> "processando",
     tentativas |-> IF row.tentativas < AttemptCeiling
                      THEN row.tentativas + 1 ELSE row.tentativas,
     token      |-> t,
     lease      |-> "live",
     proxima    |-> "null"]

ConcludedRowBug(row) ==     \* leaves lease and token in the row
    [row EXCEPT !.status = "concluido"]

ConcludedRow(row) == [status |-> "concluido", tentativas |-> row.tentativas,
                      token |-> NoToken, lease |-> "null", proxima |-> "null"]

AttemptLimitBug(permanent) ==   \* compares with > instead of >=
    MaxAttempts + 1

(* registerFailure passes 1 instead of maxAttempts for a failure that is   *)
(* not retryable.                                                          *)
AttemptLimit(permanent) == IF permanent THEN 1 ELSE MaxAttempts

Exhausted(row, permanent) == row.tentativas >= AttemptLimit(permanent)

FailedRowBug(row, permanent) ==     \* forgets proxima_tentativa_em
    [status |-> IF Exhausted(row, permanent)
                  THEN "falhou" ELSE "aguardando_retentativa",
     tentativas |-> row.tentativas, token |-> NoToken,
     lease |-> "null", proxima |-> "null"]

FailedRow(row, permanent) ==
    [status     |-> IF Exhausted(row, permanent)
                      THEN "falhou" ELSE "aguardando_retentativa",
     tentativas |-> row.tentativas,
     token      |-> NoToken,
     lease      |-> "null",
     proxima    |-> IF Exhausted(row, permanent) THEN "null" ELSE "future"]

RescheduledRow(row) == [status |-> "pendente", tentativas |-> row.tentativas,
                        token |-> NoToken, lease |-> "null",
                        proxima |-> "null"]

OwnsBug(w) == workers[w].body \in Jobs     \* WHERE id = $1 and no more

(* WHERE status = 'processando' AND processing_token = $lease.Token        *)
Owns(w) == LET me == workers[w] IN
           /\ me.body \in Jobs
           /\ jobs[me.body].status = "processando"
           /\ jobs[me.body].token = me.token

(* uuid.NewString(): a value no row and no goroutine has.                  *)
Fresh(t) == /\ \A j \in Jobs : jobs[j].token # t
            /\ \A w \in Workers : workers[w].token # t

At(w, pc) == workers[w].pc = pc

Goto(w, pc) == workers' = [workers EXCEPT ![w].pc = pc]

(* The loss of a connection ends its process: run's watcher returns an     *)
(* error, the errgroup cancels the context, and from then on any call the  *)
(* goroutine still makes with it may fail.                                 *)
Interrupted(w) == ~ workers[w].held

QueryMayFail(w) == "database" \in Faults \/ Interrupted(w)

PublishMayFail(w) == "broker" \in Faults \/ Interrupted(w)

tables == <<jobs, insights, failedEvents, requests, abandoned>>
broker == <<queue, dlq>>

-------------------------------------------------------------------------------
(* A goroutine of Consumer.Run takes a delivery and parses it.             *)
Receive(w, b) ==
    /\ At(w, "idle")
    /\ queue[b] > 0
    /\ queue' = [queue EXCEPT ![b] = @ - 1]
    /\ workers' = [workers EXCEPT ![w] =
           [Idle EXCEPT !.pc = IF b \in Malformed THEN "invalid" ELSE "begin",
                        !.body = b,
                        !.held = TRUE]]
    /\ UNCHANGED <<tables, dlq>>

(* PublishRawToDLQ returned nil: the body is in the DLQ, then Ack.         *)
DeadLetter(w) ==
    /\ At(w, "invalid")
    /\ dlq' = dlq \cup {workers[w].body}
    /\ Goto(w, "ack")
    /\ UNCHANGED <<tables, queue>>

DeadLetterFailsBug(w) ==    \* acks although the DLQ did not take the body
    /\ At(w, "invalid")
    /\ PublishMayFail(w)
    /\ Goto(w, "ack")
    /\ UNCHANGED <<tables, broker>>

(* PublishRawToDLQ returned an error.  The message may have been routed    *)
(* all the same (the confirm was late); the code nacks either way.         *)
DeadLetterFails(w) ==
    /\ At(w, "invalid")
    /\ PublishMayFail(w)
    /\ dlq' \in {dlq, dlq \cup {workers[w].body}}
    /\ Goto(w, "nack")
    /\ UNCHANGED <<tables, queue>>

(* BeginProcessing: the UPDATE returned a row.                             *)
ClaimJob(w, t) ==
    LET j == workers[w].body IN
    /\ At(w, "begin")
    /\ j \in Jobs
    /\ Claimable(jobs[j])
    /\ Fresh(t)
    /\ jobs' = [jobs EXCEPT ![j] = ClaimedRow(@, t)]
    /\ workers' = [workers EXCEPT ![w].pc = "find",
                                  ![w].token = ClaimedRow(jobs[j], t).token]
    /\ UNCHANGED <<insights, failedEvents, requests, abandoned, broker>>

(* The UPDATE was committed and its reply never arrived: Process returns   *)
(* an error and the token is nobody's.                                     *)
ClaimReplyLost(w, t) ==
    LET j == workers[w].body IN
    /\ At(w, "begin")
    /\ QueryMayFail(w)
    /\ j \in Jobs
    /\ Claimable(jobs[j])
    /\ Fresh(t)
    /\ jobs' = [jobs EXCEPT ![j] = ClaimedRow(@, t)]
    /\ Goto(w, "nack")
    /\ UNCHANGED <<insights, failedEvents, requests, abandoned, broker>>

AlreadyHandledBug(w) ==     \* requeues what has been handled
    /\ At(w, "begin")
    /\ workers[w].body \in Jobs
    /\ ~ Claimable(jobs[workers[w].body])
    /\ Goto(w, "nack")
    /\ UNCHANGED <<tables, broker>>

(* No row was updated but the job exists: alreadyHandled, so Process       *)
(* returns nil and the delivery is acked.                                  *)
AlreadyHandled(w) ==
    /\ At(w, "begin")
    /\ workers[w].body \in Jobs
    /\ ~ Claimable(jobs[workers[w].body])
    /\ Goto(w, "ack")
    /\ UNCHANGED <<tables, broker>>

(* The job does not exist, or one of the two queries failed.               *)
BeginFails(w) ==
    /\ At(w, "begin")
    /\ workers[w].body \in Unknown \/ QueryMayFail(w)
    /\ Goto(w, "nack")
    /\ UNCHANGED <<tables, broker>>

FindDisciplines(w) ==
    /\ At(w, "find")
    /\ \/ Goto(w, "complete")
       \/ QueryMayFail(w) /\ Goto(w, "fail")
    /\ UNCHANGED <<tables, broker>>

CompleteBug(w) ==   \* returns the provider's error without registering it
    /\ At(w, "complete")
    /\ Goto(w, "save") \/ Goto(w, "nack")
    /\ UNCHANGED <<tables, broker>>

(* The AI provider answers, or fails in a way isRetryable accepts or not.  *)
Complete(w) ==
    /\ At(w, "complete")
    /\ \/ Goto(w, "save")
       \/ \E permanent \in BOOLEAN :
             workers' = [workers EXCEPT ![w].pc = "fail",
                                        ![w].permanent = permanent]
    /\ UNCHANGED <<tables, broker>>

SaveInsightResultBug(w) ==  \* the insight is not in the transaction
    /\ At(w, "save")
    /\ Owns(w)
    /\ insights' = insights \cup {workers[w].body}
    /\ \/ /\ jobs' = [jobs EXCEPT ![workers[w].body] = ConcludedRow(@)]
          /\ Goto(w, "ack")
       \/ QueryMayFail(w) /\ Goto(w, "fail") /\ UNCHANGED jobs
    /\ UNCHANGED <<failedEvents, requests, abandoned, broker>>

(* SaveInsightResult committed; with "reply lost" Process goes on to       *)
(* register INSIGHT_SAVE_FAILED all the same.                              *)
SaveInsightResult(w) ==
    LET j == workers[w].body IN
    /\ At(w, "save")
    /\ Owns(w)
    /\ jobs' = [jobs EXCEPT ![j] = ConcludedRow(@)]
    /\ insights' = insights \cup {j}
    /\ \/ Goto(w, "ack")
       \/ QueryMayFail(w) /\ Goto(w, "fail")
    /\ UNCHANGED <<failedEvents, requests, abandoned, broker>>

(* ErrProcessingLeaseLost: Process returns nil.                            *)
SaveLeaseLost(w) ==
    /\ At(w, "save")
    /\ ~ Owns(w)
    /\ Goto(w, "ack")
    /\ UNCHANGED <<tables, broker>>

SaveFails(w) ==
    /\ At(w, "save")
    /\ QueryMayFail(w)
    /\ Goto(w, "fail")
    /\ UNCHANGED <<tables, broker>>

RegisterFailureBug(w) ==    \* inserts the event by the wrong limit
    LET j == workers[w].body IN
    /\ At(w, "fail")
    /\ Owns(w)
    /\ jobs' = [jobs EXCEPT ![j] = FailedRow(@, workers[w].permanent)]
    /\ failedEvents' = [failedEvents EXCEPT ![j] =
           IF Exhausted(jobs[j], FALSE) THEN @ + 1 ELSE @]
    /\ Goto(w, "ack")
    /\ UNCHANGED <<insights, requests, abandoned, broker>>

(* RegisterFailure committed: the row, and in the same transaction the     *)
(* insight.failed event when the row became 'falhou'.                      *)
RegisterFailure(w) ==
    LET j == workers[w].body
        permanent == workers[w].permanent
    IN
    /\ At(w, "fail")
    /\ Owns(w)
    /\ jobs' = [jobs EXCEPT ![j] = FailedRow(@, permanent)]
    /\ failedEvents' = [failedEvents EXCEPT ![j] =
           IF Exhausted(jobs[j], permanent) THEN @ + 1 ELSE @]
    /\ \/ Goto(w, "ack")
       \/ QueryMayFail(w) /\ Goto(w, "nack")
    /\ UNCHANGED <<insights, requests, abandoned, broker>>

RegisterLeaseLost(w) ==
    /\ At(w, "fail")
    /\ ~ Owns(w)
    /\ Goto(w, "ack")
    /\ UNCHANGED <<tables, broker>>

(* The query is lost, or the UPDATE is refused: summary[:500] can cut the   *)
(* provider's text within a character, and that is no UTF-8 ("text").      *)
RegisterFails(w) ==
    /\ At(w, "fail")
    /\ "text" \in Faults \/ QueryMayFail(w)
    /\ Goto(w, "nack")
    /\ UNCHANGED <<tables, broker>>

(* Ack(false) and Nack(false, true) end handleDelivery; on a delivery the  *)
(* broker has already taken back they only log an error.                   *)
Ack(w) ==
    /\ At(w, "ack")
    /\ workers' = [workers EXCEPT ![w] = Idle]
    /\ UNCHANGED <<tables, broker>>

Requeued(w) == IF workers[w].held
                 THEN [queue EXCEPT ![workers[w].body] = @ + 1]
                 ELSE queue

Nack(w) ==
    /\ At(w, "nack")
    /\ queue' = Requeued(w)
    /\ workers' = [workers EXCEPT ![w] = Idle]
    /\ UNCHANGED <<tables, dlq>>

-------------------------------------------------------------------------------
(* The process of w dies and another takes its place: the broker requeues  *)
(* what was not acked, the tables stay as they are.                        *)
Crash(w) ==
    /\ "crash" \in Faults
    /\ ~ At(w, "idle")
    /\ queue' = Requeued(w)
    /\ workers' = [workers EXCEPT ![w] = Idle]
    /\ UNCHANGED <<tables, dlq>>

(* The broker drops the connection, or the channel, and requeues the       *)
(* delivery while the goroutine is still working on it.  What it does      *)
(* from then on may be cut short (Interrupted).                            *)
ConnectionLost(w) ==
    /\ "connection" \in Faults
    /\ workers[w].held
    /\ queue' = Requeued(w)
    /\ workers' = [workers EXCEPT ![w].held = FALSE]
    /\ UNCHANGED <<tables, dlq>>

-------------------------------------------------------------------------------
Due == {j \in Jobs : /\ jobs[j].status = "aguardando_retentativa"
                     /\ jobs[j].proxima = "due"}

ScheduleDueRetryJobsBug(batch) ==   \* reopens the jobs without an event
    /\ batch # {} /\ batch \subseteq Due
    /\ jobs' = [j \in Jobs |-> IF j \in batch THEN RescheduledRow(jobs[j])
                                              ELSE jobs[j]]
    /\ UNCHANGED <<insights, failedEvents, requests, abandoned, broker, workers>>

(* One tick of the scheduler: a batch of due jobs goes back to 'pendente', *)
(* each with its insight.retry.requested event, in one transaction.        *)
ScheduleDueRetryJobs(batch) ==
    /\ batch # {}
    /\ Cardinality(batch) <= RetryBatchSize
    /\ batch \subseteq Due
    /\ jobs' = [j \in Jobs |-> IF j \in batch THEN RescheduledRow(jobs[j])
                                              ELSE jobs[j]]
    /\ requests' = [j \in Jobs |-> IF j \in batch THEN requests[j] + 1
                                                  ELSE requests[j]]
    /\ UNCHANGED <<insights, failedEvents, abandoned, broker, workers>>

RelayRequestBug(j) ==   \* publishes without an event to publish
    /\ requests' = [requests EXCEPT ![j] = @ - 1]
    /\ queue' = [queue EXCEPT ![j] = @ + 1]
    /\ UNCHANGED <<jobs, insights, failedEvents, abandoned, dlq, workers>>

(* The outbox delivers an event for the first time.  Marking it published  *)
(* changes nothing here.                                                   *)
RelayRequest(j) ==
    /\ requests[j] > 0
    /\ requests' = [requests EXCEPT ![j] = @ - 1]
    /\ queue' = [queue EXCEPT ![j] = @ + 1]
    /\ UNCHANGED <<jobs, insights, failedEvents, abandoned, dlq, workers>>

(* It delivers one again that it did not get to mark, or lost to another   *)
(* dispatcher.  Every job has at least its insight.requested event.        *)
RelayAgain(j) ==
    /\ "relay" \in Faults
    /\ queue[j] < MaxCopies
    /\ queue' = [queue EXCEPT ![j] = @ + 1]
    /\ UNCHANGED <<tables, dlq, workers>>

(* It marks one 'failed' after OUTBOX_MAX_ATTEMPTS, undelivered.           *)
RelayGivesUp(j) ==
    /\ "relay" \in Faults
    /\ requests[j] > 0
    /\ requests' = [requests EXCEPT ![j] = @ - 1]
    /\ abandoned' = abandoned \cup {j}
    /\ UNCHANGED <<jobs, insights, failedEvents, broker, workers>>

-------------------------------------------------------------------------------
(* The database clock passes a timestamp of a row.                         *)
LeaseExpires(j) ==
    /\ jobs[j].lease = "live"
    /\ jobs' = [jobs EXCEPT ![j].lease = "expired"]
    /\ UNCHANGED <<insights, failedEvents, requests, abandoned, broker, workers>>

RetryComesDue(j) ==
    /\ jobs[j].proxima = "future"
    /\ jobs' = [jobs EXCEPT ![j].proxima = "due"]
    /\ UNCHANGED <<insights, failedEvents, requests, abandoned, broker, workers>>

-------------------------------------------------------------------------------
(* Everything handleDelivery does with the delivery it has.                *)
Handle(w) ==
    \/ DeadLetter(w) \/ DeadLetterFails(w)
    \/ \E t \in Tokens : ClaimJob(w, t) \/ ClaimReplyLost(w, t)
    \/ AlreadyHandled(w) \/ BeginFails(w)
    \/ FindDisciplines(w) \/ Complete(w)
    \/ SaveInsightResult(w) \/ SaveLeaseLost(w) \/ SaveFails(w)
    \/ RegisterFailure(w) \/ RegisterLeaseLost(w) \/ RegisterFails(w)
    \/ Ack(w) \/ Nack(w)

Next ==
    \/ \E w \in Workers, b \in Bodies : Receive(w, b)
    \/ \E w \in Workers : Handle(w) \/ Crash(w) \/ ConnectionLost(w)
    \/ \E batch \in SUBSET Jobs : ScheduleDueRetryJobs(batch)
    \/ \E j \in Jobs : \/ RelayRequest(j) \/ RelayAgain(j) \/ RelayGivesUp(j)
                       \/ LeaseExpires(j) \/ RetryComesDue(j)

Spec == Init /\ [][Next]_vars

(***************************************************************************)
(* Fairness.  A goroutine keeps executing its handler; the scheduler and   *)
(* the dispatcher run on tickers; the clock does not stop.  A message      *)
(* waits in a FIFO queue for one of finitely many goroutines, so it is     *)
(* received even though each goroutine is busy again and again: strong     *)
(* fairness, per body.  An event is delivered finitely often, because it   *)
(* is settled (Outbox!EveryEventSettles).  Nothing else is assumed of the  *)
(* faults.                                                                 *)
(***************************************************************************)
FairSpec ==
    /\ Spec
    /\ \A w \in Workers : WF_vars(Handle(w))
    /\ \A j \in Jobs : /\ SF_vars(\E w \in Workers : Receive(w, j))
                       /\ WF_vars(RelayRequest(j))
                       /\ WF_vars(LeaseExpires(j))
                       /\ WF_vars(RetryComesDue(j))
                       /\ <>[][~ RelayAgain(j)]_vars
    /\ WF_vars(\E batch \in SUBSET Jobs : ScheduleDueRetryJobs(batch))

-------------------------------------------------------------------------------
(* Every variable has its type.                                            *)
TypeOK ==
    /\ jobs \in [Jobs -> JobRows]
    /\ insights \subseteq Jobs
    /\ failedEvents \in [Jobs -> Nat]
    /\ requests \in [Jobs -> Nat]
    /\ abandoned \subseteq Jobs
    /\ queue \in [Bodies -> Nat]
    /\ dlq \subseteq Malformed
    /\ workers \in [Workers -> WorkerStates]

(* A row's columns agree with its status: a token and a lease exactly      *)
(* while 'processando', a retry time exactly while                         *)
(* 'aguardando_retentativa'.  The scheduler does not COALESCE, so a        *)
(* waiting row without a time would wait forever.                          *)
RowsAreCoherent ==
    \A j \in Jobs :
        /\ jobs[j].status = "processando" <=> jobs[j].token # NoToken
        /\ jobs[j].status = "processando" <=> jobs[j].lease # "null"
        /\ jobs[j].status = "aguardando_retentativa"
              <=> jobs[j].proxima # "null"

(* The status of a job and what the students' application can see of it    *)
(* never disagree: 'concluido' goes with an insight and 'falhou' with      *)
(* exactly one insight.failed event, whatever became of the replies, the   *)
(* workers and the lease.                                                  *)
OutcomeMatchesStatus ==
    \A j \in Jobs :
        /\ j \in insights <=> jobs[j].status = "concluido"
        /\ failedEvents[j] = IF jobs[j].status = "falhou" THEN 1 ELSE 0

(* At most one goroutine has the token that is in the row, so at most one  *)
(* of those working on a job can still resolve it.                         *)
UniqueHolder ==
    \A v, w \in Workers :
        /\ workers[v].token = workers[w].token
        /\ workers[v].token # NoToken
        => v = w

(* Only a job with attempts left is put back for another attempt.          *)
WaitingHasAttemptsLeft ==
    \A j \in Jobs :
        jobs[j].status \in {"pendente", "aguardando_retentativa"}
            => jobs[j].tentativas < MaxAttempts

(* Nothing scans 'pendente' rows, so a pending job lives by its messages:  *)
(* there is an undelivered request, a queued message or a delivery that    *)
(* will be handled or requeued -- unless the dispatcher marked a request   *)
(* of this job 'failed' without having delivered it.                       *)
Deliverable(j) ==
    \/ requests[j] > 0
    \/ queue[j] > 0
    \/ \E w \in Workers : /\ workers[w].body = j
                          /\ workers[w].held
                          /\ workers[w].pc \in {"begin", "nack"}

PendingJobHasRequest ==
    \A j \in Jobs :
        jobs[j].status = "pendente" => j \in abandoned \/ Deliverable(j)

(* A message the worker cannot read is never acked away: it is in the      *)
(* queue, in the DLQ, or in the hands of a goroutine.                      *)
StrayMessageNeverLost ==
    \A b \in Malformed \cup Unknown :
        \/ queue[b] > 0
        \/ b \in dlq
        \/ \E w \in Workers : workers[w].body = b /\ workers[w].held

(* A job in 'processando' has a goroutine that will resolve it.  Nothing   *)
(* rescans expired leases, so this is what keeps a job from being stuck;   *)
(* it holds as long as no process dies, none loses its connection, and     *)
(* every query is answered with what it did.                               *)
NoStrandedJob ==
    \A j \in Jobs :
        jobs[j].status = "processando" =>
            \E w \in Workers : Owns(w) /\ workers[w].body = j
                                       /\ workers[w].pc \in Holding

(* README.md:104, "ao atingir INSIGHT_MAX_ATTEMPTS, o job e marcado como   *)
(* falhou": a job is never tried more often than the limit.                *)
AttemptsWithinBudget == \A j \in Jobs : jobs[j].tentativas <= MaxAttempts

-------------------------------------------------------------------------------
Resolved == {"concluido", "falhou"}

(* A resolved job stays as it is: no late worker, no redelivery and no     *)
(* scheduler tick reopens it, replaces its outcome or adds a second event. *)
ResolvedIsFinal ==
    [][\A j \in Jobs : jobs[j].status \in Resolved =>
          /\ jobs'[j] = jobs[j]
          /\ failedEvents'[j] = failedEvents[j]
          /\ j \in insights' <=> j \in insights]_vars

(* A row in 'processando' is changed only by the goroutine that has its    *)
(* token, by the clock, or by a takeover after the lease has expired.      *)
LeaseIsRespected ==
    [][\A j \in Jobs :
          jobs[j].status = "processando" /\ jobs'[j] # jobs[j] =>
              \/ \E w \in Workers : /\ Owns(w) /\ workers[w].body = j
                                    /\ workers[w].pc \in {"save", "fail"}
              \/ jobs[j].lease = "expired" /\ jobs'[j].status = "processando"
              \/ jobs'[j] = [jobs[j] EXCEPT !.lease = "expired"]]_vars

(* Every job is resolved, or the dispatcher gave up on a request of it     *)
(* that it never delivered.                                                *)
EveryJobResolved ==
    \A j \in Jobs :
        <>(jobs[j].status \in Resolved \/ j \in abandoned)

(* Once everything is resolved the duplicates drain: no message of a job   *)
(* is requeued forever.                                                    *)
QueueDrains ==
    \A j \in Jobs : <>[](queue[j] = 0 /\ \A w \in Workers : workers[w].body # j)

-------------------------------------------------------------------------------
(* What a job looks like from outside, and the module it then implements.  *)
Phase(j) ==
    CASE /\ jobs[j].status \in {"pendente", "aguardando_retentativa"}
         /\ j \notin insights /\ failedEvents[j] = 0 -> "open"
      [] /\ jobs[j].status = "processando"
         /\ j \notin insights /\ failedEvents[j] = 0 -> "running"
      [] /\ jobs[j].status = "concluido"
         /\ j \in insights /\ failedEvents[j] = 0 -> "insight"
      [] /\ jobs[j].status = "falhou"
         /\ j \notin insights /\ failedEvents[j] = 1 -> "failure"
      [] OTHER -> "incoherent"

Lifecycle == INSTANCE JobLifecycle WITH
    phase    <- [j \in Jobs |-> Phase(j)],
    attempts <- [j \in Jobs |-> jobs[j].tentativas]

(* The tables implement JobLifecycle.                                      *)
LifecycleSpec == Lifecycle!Spec

===============================================================================
