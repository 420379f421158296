# Formal models of the Mentor.IA insights worker

The worker consumes requests for insights from RabbitMQ, claims the job in
PostgreSQL, asks an AI provider for a text, saves it, retries what failed and
publishes its own events through a transactional outbox.  This directory holds
TLA+ models of that program, the TLC configurations that check them on small
instances, and TLAPS proofs of their safety for every instance.

All paths below are relative to the repository (`src/`); `repository.go` means
`internal/insights/postgres/repository.go`.

- [1. Inventory](#1-inventory)
- [2. Modules](#2-modules)
- [3. What is checked](#3-what-is-checked)
- [4. Bounds, symmetry, deadlock](#4-bounds-symmetry-deadlock)
- [5. Fairness](#5-fairness)
- [6. Proofs](#6-proofs)
- [7. Where code and documentation part](#7-where-code-and-documentation-part)
- [8. What is not modelled](#8-what-is-not-modelled)
- [9. Plan](#9-plan)

## 1. Inventory

| component | state | operations | what makes it correct |
|---|---|---|---|
| message handling, `insights/worker/consumer.go` `handleDelivery` | the delivery in hand | parse, process, ack, nack with requeue, copy to the DLQ | a message is acked only when its effect is in the database or its copy in the DLQ |
| insight service, `insights/service/service.go` | the lease of the attempt | `Process`, `registerFailure`, `isRetryable` | every way out of an attempt either resolves it, registers it, or gives the message back |
| job repository, `repository.go` | `insight_jobs`, `insights`, `insights_disciplinas` | `BeginProcessing`, `FindLowestPerformanceDisciplines`, `SaveInsightResult`, `RegisterFailure` | one attempt at a time owns a job; outcome, insight and failure event agree |
| retry scheduler, `insights/retry/scheduler.go` | none of its own | `ScheduleDueRetryJobs` on a ticker | a due job is reopened together with the event that brings it back |
| outbox table and dispatcher, `insights/outbox/dispatcher.go`, `repository.go` | `outbox_eventos`, the batch in hand | `ClaimPendingOutboxEvents`, `publish`, `MarkOutboxEventPublished`, `MarkOutboxEventFailed` | at-least-once delivery; 'published' only after delivery; settled is final |
| RabbitMQ publisher, `platform/rabbitmq/publisher.go` | one channel, one mutex, two buffered Go channels | `publish`, `waitForPublish`, `PublishRawToDLQ` ... | nil means that the broker confirmed this message |
| consumer pool, `Consumer.Run`, `platform/rabbitmq/consumer.go` | hand-off channel, goroutines, prefetch window | feed, hand over, stop | every delivery reaches one goroutine; shutdown terminates |
| process lifecycle, `cmd/insights-worker/main.go`, `connection.go` | errgroup, two AMQP channels | start, fail fast, stop | the death of a part ends the process |
| configuration, `internal/config/config.go` | none | `Load` | the timing rules the rest relies on |
| AI client, `internal/ai/openrouter/client.go` | none | `Complete` | error classification (retryable or not) |
| topology, prompt builder, PostgreSQL client, sqlc code, logger, test support | none | | |

How they interact.  The API (outside this repository) inserts a job and its
`insight.requested` event in one transaction.  The dispatcher publishes the event; a
consumer goroutine receives the message, claims the job with a conditional
`UPDATE` that writes a fresh `processing_token` and a lease, and from then on
every write is conditional on that token.  A retryable failure puts the job in
`aguardando_retentativa` with a time; the scheduler moves due jobs to
`pendente` and writes an `insight.retry.requested` event, which closes the
loop.  A definitive failure writes an `insight.failed` event for the DLQ.  The
dispatcher and the consumer goroutines (for the DLQ) share one publisher.

What is hard here:

- several goroutines, of several replicas, work on one job, and a lease that
  expires in the middle of a slow call hands the job to another;
- the reply of a committed statement can be lost, and `Process` then goes on
  as if the statement had failed;
- processes die between any two calls, and the broker requeues what they had;
- messages are duplicated by the outbox and requeued by nacks;
- nothing scans `pendente` rows or expired `processando` rows, so a job lives
  by its messages;
- the publisher matches confirmations to messages only by order;
- the feeding loop, the goroutines, the tickers and the watcher of the
  connection stop on one context, in any order, while the defers of `main` wait
  to close what they use;
- three durations are limited by timeouts and compared with a lease and a lock,
  and the rest of the time (queries, a mutex, a blocked socket) by nothing.

`PROJECT.json` lists these and the smaller ones under "hazards", each at its
line, with the properties that would notice.

## 2. Modules

| module | what it is |
|---|---|
| `JobLifecycle` | abstract: what the worker promises about a job. A job is open, running, or resolved once, by an insight or by a failure event; it is reopened only with attempts left |
| `InsightProcessing` | the core: goroutines, service, repository, scheduler, queue and DLQ, with crashes, lost connections, lost replies and refused statements; implements `JobLifecycle` |
| `Relay` | abstract: what an outbox promises about an event |
| `Outbox` | table, claims, locks, backoff and dispatchers of several replicas; implements `Relay` |
| `Pipeline` | `InsightProcessing` and `Outbox` composed: the table and its dispatchers take the place of the relay; implements `InsightProcessing` |
| `Publisher` | `publish`/`waitForPublish` over the shared channel, with the broker's frames and the library's reader |
| `WorkerProcess` | one process: the prefetch window, `Consumer.Run` and its goroutines, the ticker loops, the errgroup of `main`, signals, fail-fast, restart |
| `Timing` | the numeric settings and rules of `config.Load`, and the time a batch and an attempt take under them |
| `InsightProcessing_proofs`, `Outbox_proofs`, `Pipeline_proofs`, `Publisher_proofs`, `WorkerProcess_proofs`, `Timing_proofs` | theorems about the modules they are named after |
| `MCInsightProcessing`, `MCOutbox`, `MCPipeline`, `MCPublisher`, `MCWorkerProcess`, `MCTiming` | constants and symmetry of the TLC runs |

Operators whose name ends in `Bug` are not part of any specification.  Each is
a plausible slip in the definition that follows it (a dropped guard, a missing
reset, the wrong limit, an early return without unlock).  Replacing the
definition by the slip must make a property fail; `PROJECT.json` pairs each
property with one such slip under "mutants".

### InsightProcessing

State.  `jobs` is the `insight_jobs` table (status, tentativas,
processing_token, and for the two timestamps only whether they are null, ahead
or passed); `insights` the jobs with a row in `insights`; `failedEvents` the
number of `insight.failed` events of a job; `requests` its undelivered request
and retry events; `abandoned` the jobs that had an undelivered request marked `failed`;
`queue` the ready messages as a bag of bodies; `dlq` the malformed bodies that
reached the DLQ; `workers` what each goroutine is doing.  One element of
`Workers` is one goroutine of one replica: goroutines of a process and of
different processes share nothing but the database and the broker, so nothing
else distinguishes them.

| action | code |
|---|---|
| `Receive` | a goroutine of `Run` takes a delivery, `ParseMessage` |
| `DeadLetter`, `DeadLetterFails` | `PublishRawToDLQ` and what follows |
| `ClaimJob`, `ClaimReplyLost`, `AlreadyHandled`, `BeginFails` | `BeginProcessing` (repository.go:32-84) |
| `FindDisciplines`, `Complete` | the read and the AI call of `Process` |
| `SaveInsightResult`, `SaveLeaseLost`, `SaveFails` | `SaveInsightResult` (repository.go:119 onwards), one transaction |
| `RegisterFailure`, `RegisterLeaseLost`, `RegisterFails` | `registerFailure` and `RegisterFailure`, row and event in one transaction |
| `Ack`, `Nack` | the end of `handleDelivery` |
| `ScheduleDueRetryJobs` | one tick of the scheduler |
| `RelayRequest`, `RelayAgain`, `RelayGivesUp` | what the outbox does to an event, seen from the queue |
| `LeaseExpires`, `RetryComesDue` | the database clock |
| `Crash`, `ConnectionLost` | a process dies; the broker takes a delivery back while its goroutine goes on, its context cancelled (`Interrupted`) |

Choices worth knowing:

- Every call that leaves the process is a step of its own, because between two
  of them everybody else may run.  A transaction is one step: it locks the
  rows it touches, and what other transactions can see of it is its commit.
- `BeginProcessing` is two queries.  The `UPDATE` decides; the second one only
  tells a job that is not claimable from one that does not exist, and no job
  is ever deleted, so both are one step.
- The "database" fault covers a query that never arrived, a commit whose reply
  was lost, and a context cancelled in the middle (SIGTERM): in all three the
  caller sees an error, and the statement has or has not taken effect.
- A lost connection makes the watcher of `main.go:117-128` return an error, and
  the errgroup then cancels the context of every goroutine.  A goroutine that
  lost its delivery is `Interrupted`: from then on each query and publication
  it makes may fail as under "database" and "broker" (`QueryMayFail`,
  `PublishMayFail`), whatever else the set of faults has.  It may also succeed,
  since the call can come before the news.
- `RegisterFailure` cuts the text of a failure after 500 bytes
  (repository.go:182-183).  If the provider's answer has a multi-byte character
  there, PostgreSQL refuses the `UPDATE`.  That is the fault "text" of
  `RegisterFails`: the one refused statement that is the program's own doing.
- The outbox appears here through its contract.  `requests` counts the events
  that no message has been sent for; `RelayRequest` is the first delivery of
  one, `RelayAgain` any later one (a delivery that was not marked, or was lost
  to another dispatcher), `RelayGivesUp` the mark `failed` of an event that was
  never delivered.  Marks of delivered events change nothing the goroutines
  can see.  `Pipeline` shows that table and dispatchers keep this contract.
- A lease that expires is a free step: nothing in the model relates the lease
  to the length of a call, so the safety results do not depend on the rule of
  `config.go:152`.
- A token is fresh when no row and no goroutine has it, which is all that
  `uuid.NewString()` is used for.  A lease of which the reply was lost leaves
  its token in the row only.

### Outbox

`events` is `outbox_eventos`, `copies` counts the messages the broker took for
an event, `dispatchers` is the dispatcher of each replica with the rest of its
batch.  `ClaimPendingOutboxEvents` takes any batch of available events (the
claim orders by age but skips locked rows); `Publish` may return nil, an error
with no message sent, or an error for a message the broker took;
`MarkOutboxEventPublished`, `MarkOutboxEventFailed` and `NotMarked` end an
event, and the dispatcher goes on with the next whatever happened
(dispatcher.go:64-95).  `Poison` events are those `Dispatcher.publish` rejects
by type or payload.  The fault "slow" lets a lock expire while its batch is
still being published.

### Pipeline

The variables of `InsightProcessing` and `Outbox` together, with `inserted`,
the rows that exist in `outbox_eventos`, and `lost`, the requests that were
marked `failed` undelivered.  What the relay of `InsightProcessing` counts is
no longer a variable but read off the table (`Undelivered`).  Each action is
one of the two modules' with its effect on the other's state:
`ScheduleDueRetryJobs` inserts a row for each job, `RegisterFailure` the
`insight.failed` row, `Publish` puts a message in the queue or the DLQ, and
`Mark` decides whether a request is lost.  `ProcessingSpec` says that every
step of the composition is a step of `InsightProcessing` or leaves it alone, so
what is proved about that module with its relay holds with the real outbox.

### Publisher

One step per channel operation of `waitForPublish` (publisher.go:74-100),
each `case` of its select an action.  The broker answers in the order of the
delivery tags and follows a `basic.return` with an ack; the library's reader
hands each frame over with a blocking send to a Go channel of capacity one.
These two facts about RabbitMQ and amqp091-go are external and marked so.
`fate` (what the broker did) and `result` (what the caller was told) are kept
per message so that they can be compared.

### WorkerProcess

One process from `run` to its exit, and the next one the orchestrator starts.
`feeder` is the loop of `Consumer.Run` with the delivery in its hand, `pool`
its goroutines, `buffer` the deliveries the library holds, `unacked` what the
broker counts against the prefetch window.  The hand-off over the unbuffered
channel is one step of both sides.  `cancelled` is the context everybody
selects on: set by a signal or by the first component that returns an error
(`Returned`).  `WaitReturns` is the end of `components.Wait()`, `Exit` that of the
defers, which give back what was not acked.  `ChannelCloses` takes the channel alone or the whole
connection: only in the second case does the watcher of `main.go:117` hear
of it, in the first the feeder finds `deliveries` closed.  `handleDelivery` is
one step here, an ack, or a nack with requeue: of a message whose job does not
exist always, of any other when a query or a copy to the DLQ failed or the
context was cancelled.

`unread` counts the publications that ended without taking their answer
(`AnswerLeftUnread`): they timed out, or went on with the context cancelled
(dispatcher.go:76-95, publisher.go:96), or took a return whose ack was still to
come.  The first such answer stays in the Go channel of `NotifyPublish`
(`Capacity`), the second stops the library's reader on its send, and with it
every frame of the connection, the replies `Client.Close` waits for among them.
`ReaderRuns` says that this cannot be the case.  It is no guard: an answer may
still be on its way when the process ends, so at two unread answers the reader
may be blocked and may not.  It is the condition under which the broker's
frames, and with them `Exit`, are promised to arrive (section 5).
`unread` is never reset within a process: a later `publish` that reads an old
answer leaves its own behind.  `Publisher` has the frames themselves.

### Timing

`env` is an environment that `Load` reads once: unset values fall back to their
defaults, unreadable ones and rule violations refuse it.  Then either a batch
is followed (claim; for each event the mutex, the publication with its timeout,
the mark) or an attempt (claim, queries, the AI call with its timeout, the
saving query).  `age` is the time since the claim and `outside` the part of it
that no timeout limits.  Consumer goroutines that publish to the DLQ take
the mutex in between, as often and as long as they like.

## 3. What is checked

| run | instance | shows |
|---|---|---|
| `processing_faults` | 1 job, 1 unreadable and 1 unknown message, 2 goroutines, every fault | `TypeOK`; `RowsAreCoherent`; `OutcomeMatchesStatus`; `UniqueHolder`; `WaitingHasAttemptsLeft`; `PendingJobHasRequest`; `StrayMessageNeverLost`; `ResolvedIsFinal`; `LeaseIsRespected`; implements `JobLifecycle` |
| `processing_liveness` | 1 job, 1 unreadable message, 2 goroutines, duplicates and DLQ failures | `NoStrandedJob`, `EveryJobResolved`, `QueueDrains` |
| `processing_stranded` | 1 job, 1 goroutine, a provider's text cut within a character | `EveryJobResolved` fails (finding 1) |
| `processing_attempts` | 1 job, 2 goroutines, crashes | `AttemptsWithinBudget` fails (finding 2) |
| `outbox_faults` | a healthy and a poisoned event, 2 dispatchers, every fault | `TypeOK`; `AttemptsDecideFate`; `AtMostOneCopyPerClaim`; `LockIsRespected`; implements `Relay` |
| `outbox_liveness` | a healthy and a poisoned event, 2 dispatchers, every fault but "slow" | `NoDoubleDispatch`, `EveryEventSettles` |
| `publisher_faults` | a dispatcher and 2 goroutines, every fault | `TypeOK` (mutual exclusion and buffer sizes included), `OkMeansConfirmedInStep`, `AnswersInStep`, `OksNeverExceedAcks` |
| `publisher_timeout` | a dispatcher and 2 goroutines, timeouts | `OkMeansConfirmed` fails (finding 3) |
| `pipeline_faults` | 1 job, 1 goroutine that dies and is replaced, 2 dispatchers that crash, outlast their locks and have publications refused | `TypeOK`; `SilentJobHasLostRequest`; implements `InsightProcessing` |
| `pipeline_liveness` | 1 job, 1 goroutine, 1 dispatcher that outlasts its locks and has publications refused | `EveryJobAnswered` |
| `worker_process` | 3 messages, 1 of them requeued for ever, 2 goroutines, the dispatcher's loop, prefetch 2, up to 2 unread answers, 2 starts | `TypeOK`; `DeliveriesAccountedFor`; `ResourcesOutliveTheirUsers`; `CleanExitOnlyOnSignal`; `FailFast`; `ComponentsReturn`; `ShutdownTerminates`; `EveryMessageHandled` |
| `timing` | 109 environments around the boundaries of `Load`, time up to 130 s | `TypeOK`; `LockCoversBatch`; `LeaseCoversCall` |

The properties, in words:

- `OutcomeMatchesStatus`: `concluido` goes with an insight and `falhou` with
  exactly one `insight.failed` event, even when a commit's reply is lost and
  the failure of a finished job is registered.
- `UniqueHolder`, `LeaseIsRespected`: at most one goroutine has the token in
  the row, and only it, the clock, or a takeover after expiry changes the row.
- `ResolvedIsFinal`: no late worker, redelivery or tick reopens a job.
- `PendingJobHasRequest`: a pending job has an unpublished request, a queued
  message or a delivery that will be handled or given back, unless the
  dispatcher marked a request `failed`.  Nothing scans `pendente` rows, so
  this is what keeps them alive.
- `StrayMessageNeverLost`: a message that is unreadable or names no job is in
  the queue, in the DLQ or in somebody's hands.
- `QueueDrains`: the duplicates of a resolved job do not circulate for ever.
- `AtMostOneCopyPerClaim`: delivery is at least once, and also no more often
  than the event was claimed.
- `NoDoubleDispatch`: no two dispatchers have one event in hand, as long as a
  batch fits in its lock.
- `OkMeansConfirmedInStep`: until an earlier publication timed out or was
  returned, nil means that the broker accepted this message, also when
  refusals and returns of its own arrive in any order.
- `AnswersInStep`: as long, and when the mutex is free, nothing is left over for the next
  publication to find, and a waiting goroutine sees only answers to its own
  message.
- `OksNeverExceedAcks`: however far answers and messages have drifted apart, a
  success uses up an ack of its own.
- `SilentJobHasLostRequest`: a pending job that no message and no delivery will
  bring back has a request the dispatcher gave up after `OUTBOX_MAX_ATTEMPTS`
  and the broker never took.  Crashes, late marks, takeovers and claims by slow
  dispatchers alone silence no job.
- `EveryJobAnswered`: around the whole loop, retries included, a job ends
  `concluido`, or `falhou` with its failure in the DLQ or the event of that
  failure given up, or with a request given up that the broker never took.
  It needs goroutines that are neither killed nor cancelled: finding 1 is what
  happens otherwise, so its run has faults of the dispatcher only.
- `DeliveriesAccountedFor`: no message is in two places, and until shutdown a
  delivery counted by the broker is in the library, with the feeder, or with
  exactly one goroutine, so the prefetch window does not leak.
- `ResourcesOutliveTheirUsers`: when the defers close the pool and the
  connection no goroutine is in `handleDelivery` and no loop in a pass.
- `CleanExitOnlyOnSignal`: the process returns nil only after a signal.
- `ComponentsReturn`: once the context is cancelled every component returns to
  `main`, from every state and whether or not the reader is blocked.
- `ShutdownTerminates`: after that the process ends, unless two publications
  left their answers unread.  One such answer does no harm: it fits in the
  channel.
- `FailFast`: a dead channel ends the process even when the connection reports
  nothing, with the same exception.
- `EveryMessageHandled`: through losses, transient nacks and restarts, every
  message that can be handled is acked, as long as fewer messages than
  `RABBITMQ_PREFETCH` are requeued for ever, with the same exception.
- `LockCoversBatch`, `LeaseCoversCall`: under the rules of `Load` a lock
  expires within a batch only if more than one publish timeout was spent
  outside publications, and a lease within an attempt only if its queries took
  the margin of 30 s by themselves.  The first is when "slow" can happen.

## 4. Bounds, symmetry, deadlock

- Jobs.  One.  Jobs meet in two places only, the choice of a goroutine and the
  scheduler's batch; the proofs of the safety invariants cover any number of
  jobs and any batch, and check exactly those two places.
- Goroutines.  Two: the one that lost its lease and the one that took over.
- Tokens.  One per row and goroutine that can hold one: a run never lacks a
  fresh token, so `Fresh` never disables a claim.
- `MaxAttempts = 2`: the least with a retry, a last attempt and, past it, a
  takeover.  `tentativas` saturates at `AttemptCeiling`, one past the limit;
  the code only asks whether it is `>=` the limit, so nothing is lost.
- `MaxCopies` bounds how often an unmarked event is published again while
  copies are queued.  Two are enough for both goroutines to hold copies while
  another waits; in `pipeline_faults`, with one goroutine, one is.
- `OutboxMaxAttempts = 1` in `pipeline_faults` (a request is lost at its first
  refusal), 2 in `pipeline_liveness`.
- `OutboxTokens`: two in `pipeline_faults`.  When both stay in rows whose
  dispatchers died the run stops at that state; `outbox_faults`, with four, goes
  on from there.
- `MaxPublishes = 5`: a drift of one answer needs two publications, a full
  channel and a blocked reader four.
- `BatchSize = 2` in the runs of `Outbox` (a batch half done), 1 in those of
  `Pipeline`.
- `WorkerProcess`: two goroutines and `Prefetch = 2`, the least the
  configuration allows for them, with one message that never goes away and two
  that compete for the other place.  `MaxStarts = 2`: the first process may
  fail in any way, the second runs undisturbed until a signal.  `MaxUnread = 2`:
  one unread answer fits in the channel and the second may stop the reader; a
  third changes nothing further.  One ticker loop, the dispatcher's: the
  scheduler's has the same control and does not publish, and the proofs cover
  any set of loops.
- `Timing` counts in units of 5 s, in which the defaults and the margin of
  `config.go:19-38` are whole numbers: request 4, lease 24, timeout 1, batch 4,
  lock 6, margin 6.  `MaxAge = 26` is past the longest lease and lock tried.
  The settings go over both sides of each rule, zero, missing and unreadable
  values; the proofs cover all integers.
- Symmetry (jobs, goroutines, tokens; events, dispatchers; callers) is used in
  safety runs only.
- Deadlock is not checked, because the systems really come to rest: every job
  resolved and every queue empty; every event settled; the process stopped by a
  signal; an environment refused; every message published that `MaxPublishes`
  allows.  That they do not rest too early is what the liveness properties
  show for the first three.  For the publisher, the reader blocked
  on a full channel is a real state and described in finding 3.

## 5. Fairness

`InsightProcessing!FairSpec`:

- weak fairness of a goroutine's handler: it runs straight through; calls end
  because the AI client has a timeout and the faults model the rest;
- weak fairness of scheduler and dispatcher: both run on tickers and survive
  their errors;
- weak fairness of the clock;
- strong fairness of receiving a body: goroutines are idle again and again,
  not continuously, and the queue is FIFO.  With unknown messages this is too
  much to ask, because RabbitMQ puts a requeued message back near the head:
  `RABBITMQ_PREFETCH` of them keep every other message from being delivered.
  The liveness run therefore has none; `WorkerProcess` has that queue in its
  real order and shows what is true with some;
- finitely many duplicates of an event (`<>[][~ RelayAgain(j)]_vars`), since
  an event is delivered at most once for each of its `OUTBOX_MAX_ATTEMPTS`
  claims, apart from takeovers (`AtMostOneCopyPerClaim`).

Nothing is assumed of faults.  They may strike, or never.

`Outbox!FairSpec`: weak fairness of a dispatcher with a batch and of the clock;
strong fairness of claiming an event, since the claim takes the oldest
`proxima_tentativa_em` first and a refused event is pushed back by its backoff;
strong fairness of publishing and of marking an event, which says that crashes
and failing statements are transient.  The broker may refuse for ever.

`Pipeline!FairSpec` is made of the two.  It leaves out the strong fairness of
publishing and marking, because its liveness run has no crashes, and the bound
on duplicates, because there the table bounds them.

`WorkerProcess!FairSpec`: weak fairness of the process's own steps and of the
orchestrator; strong fairness of a loop's return, because Go's `select` picks
among ready cases at random, so a ticker cannot hide the context for ever.  A
handler ends because its calls do.  Whatever needs a frame of the broker has
fairness only while `ReaderRuns`: the deliveries, the news that the channel or
the connection is closed, and the replies `Client.Close` waits for
(`connection.go:122-132` are synchronous requests without a timeout).  A delivery
is strongly fair, because the broker fills the window much faster than messages
are handled.  So is the ack of each message whose job exists: that is the
assumption that failing queries and failing copies to the DLQ are transient, and
without it a nack could follow a nack for ever.  Signals, losses, and answers
left unread are free.

## 6. Proofs

`InsightProcessing_proofs` proves the following for every set of jobs,
messages, goroutines and tokens, every limit and every set of faults, from two
assumptions of `InsightProcessing` on its constants: `ProcessingAssumption`
(the limits are positive, as `config.Load` enforces) and `BodiesAreDistinct`
(a body is of one kind, NULL is not a token).

| theorem | states |
|---|---|
| `TypeCorrect` | `Spec => []TypeOK` |
| `Safety` | `Spec => []IInv`, the inductive invariant |
| `OutcomeIsCoherent` | `Spec => []OutcomeMatchesStatus` |
| `RowsStayCoherent` | `Spec => []RowsAreCoherent` |
| `RetriesHaveAttemptsLeft` | `Spec => []WaitingHasAttemptsLeft` |
| `OneHolderPerToken` | `Spec => []UniqueHolder` |
| `PendingJobsAreDeliverable` | `Spec => []PendingJobHasRequest` |
| `StrayMessagesAreKept` | `Spec => []StrayMessageNeverLost` |
| `ResolvedStaysResolved` | `Spec => ResolvedIsFinal` |
| `LeasesAreRespected` | `Spec => LeaseIsRespected` |
| `Refinement` | `Spec => LifecycleSpec`: the tables implement `JobLifecycle` |
| `NoJobIsStranded` | `Spec => []NoStrandedJob` if "crash", "connection", "database" and "text" are not among the faults |

The argument.  `IInv` is `Shape /\ TableInv /\ UniqueHolder /\
PendingJobHasRequest /\ StrayMessageNeverLost`.

- `Shape` is `TypeOK` and `WorkersAreCoherent`, which says what a goroutine has
  in hand at each point of `handleDelivery`.  The other invariants are not
  inductive without it: an ack of a malformed body is harmless only because a
  goroutine at "ack" with such a body has put it in the DLQ, and the types of
  the queue depend on a held delivery having a body.
- `TableInv` is about rows alone.  The actions are many, but they do only six
  things to the three tables, named in `TableStep`
  (a claim, a conclusion, a registered failure, a reschedule, two ticks);
  `EveryStepIsATableStep` is the only proof that looks at every action, and
  `TableInvStep`, `ResolvedRowsAreLeftAlone`, `OnlyTheHolderTouchesARow` and
  `TableStepRefines` work on those six.
- `PendingStep`, `StrayStep` and `UniqueHolderStep` follow the messages and
  the tokens through each action.
- `NoJobIsStranded` needs `NobodyInterrupted` beside `IInv`: with no connection
  lost no goroutine's context is cancelled, so no query of its fails for that.
- `Refinement` uses that, under `TableInv`, the phase read off three tables
  is a function of the status (`PhaseFollowsStatus`).

TLC checked `IInv` as an invariant on the instances above before it was proved.

`Outbox_proofs`, from `OutboxAssumption` and `DispatchersAreFinite`, for every
set of events, every number of dispatchers, every limit and set of faults:

| theorem | states |
|---|---|
| `OutboxTypeCorrect` | `Spec => []TypeOK` |
| `FateFollowsAttempts` | `Spec => []AttemptsDecideFate` |
| `OneCopyPerClaim` | `Spec => []AtMostOneCopyPerClaim` |
| `LocksAreRespected` | `Spec => LockIsRespected` |
| `OutboxImplementsRelay` | `Spec => RelaySpec` |
| `NobodyDispatchesTwice` | `Spec => []NoDoubleDispatch` if "slow" is not among the faults |

`AtMostOneCopyPerClaim` is not inductive: a publication adds a copy and no
attempt.  `ClaimsCoverCopies` strengthens it.  Each attempt pays for one copy,
made or still owed by a dispatcher that has the event on its list (`Owing`); a
claim adds one to both sides, a publication turns a debt into a copy, a crash
cancels debts.  This needs the number of dispatchers that owe an event to be a
number, hence `DispatchersAreFinite`.  `HandsMatchPlace` says what a dispatcher
has in hand at each point of `dispatch`, in particular that at "published"
there is a copy, which the refinement needs.  `RowSteps` reduces every action to
what it does to one row (taken, settled, aged), and `LocksAreRespected`,
`FateSteps` and `OneFateChanges` work on those.  `NobodyDispatchesTwice` rests
on `Locked`: what is in hand is locked under the token of its dispatcher, tokens
differ, and the event being worked on is off the list.

`Timing_proofs`, from `TimingAssumption`, for every set of environments:

| theorem | states |
|---|---|
| `TimingTypeCorrect` | `Spec => []TypeOK` |
| `LockCoversTheBatch` | `Spec => []LockCoversBatch` |
| `LeaseCoversTheCall` | `Spec => []LeaseCoversCall` |

The inductive invariant accounts for time: `BatchAge` bounds the age of a batch
by the timeouts of the publications made, what is used of the current one, and
`outside`; `AttemptAge` does the same with the AI call.  The rules that `Load`
accepted an environment under turn these sums into the two theorems.

`Publisher_proofs`, from `PublisherAssumption`, for every set of callers, every
number of publications and every set of faults:

| theorem | states |
|---|---|
| `PublisherTypeCorrect` | `Spec => []TypeOK`, mutual exclusion included |
| `NilMeansConfirmed` | `Spec => []OkMeansConfirmedInStep` |
| `AnswersStayInStep` | `Spec => []AnswersInStep` |
| `NilsNeverExceedAcks` | `Spec => []OksNeverExceedAcks` |

What a caller is told follows from where its answer can be.  `Waiting(n)` and
`Checking(n)` name the places: with the broker, on the wire, in a Go channel,
or, once the ack has been read, nowhere but in `returns` when the message was
returned.  `InStep` says that until the first timeout or return that is all
there is, and that nothing is left when the mutex is free.  A wait that ends in
a timeout needs no proof about what it leaves behind: from then on `InStep`
claims nothing.  `OksNeverExceedAcks` has to hold from then on as well, so it
needs an invariant of its own.  `CountInv` counts: an ack is spent when
it is neither on the wire nor in `confirms`; no two acks are about one message,
and each success, with the one that is about to be checked, has spent one.

`WorkerProcess_proofs`, from `ProcessAssumption`, for every finite set of
messages and of goroutines, every window that has a place for each goroutine (as
`config.go:144` asks) and every number of starts:

| theorem | states |
|---|---|
| `ProcessTypeCorrect` | `Spec => []TypeOK` |
| `NoDeliveryIsLostOrDoubled` | `Spec => []DeliveriesAccountedFor` |
| `NothingIsClosedInUse` | `Spec => []ResourcesOutliveTheirUsers` |
| `StatusZeroOnlyOnSignal` | `Spec => []CleanExitOnlyOnSignal` |

`DeliveriesAccountedFor` is not inductive, because it says something of an open
channel until the context is done, while a message received before that can be
handled after it.  `Custody` is what holds as long as the channel is open: no
pair of hands has a message that is not unacked or that another pair has.
`NothingForgotten` adds that until the context is done the hands are as many as
the unacked messages.  Both sides are counted, hence the assumption that the
sets are finite.  `Lifecycle` orders the shutdown: once main has left
`components.Wait` nothing runs, neither while the defers close the clients nor
after, Run does not return before its goroutines, and
nothing ends without a reason (a signal, or an error that becomes the result).

`Pipeline_proofs`, from `PipelineAssumption` and `PartsAssumption` (what the two
parts assume of their constants), for every number of jobs, messages,
goroutines and dispatchers, every limit and every set of faults:

| theorem | states |
|---|---|
| `PipelineTypeCorrect` | `Spec => []TypeOK` |
| `SilenceMeansALostRequest` | `Spec => []SilentJobHasLostRequest` |
| `CompositionImplementsProcessing` | `Spec => ProcessingSpec` |
| `JobsKeepTheirLifecycle` | `Spec => PP!LifecycleSpec`: `JobLifecycle`, with the outbox in the loop |
| `EventsKeepTheirFate` | `Spec => OP!RelaySpec`: `Relay`, for the rows the worker inserts |
| `DispatchersStrandNoJob` | `Spec => []PP!NoStrandedJob` if "crash", "connection", "database" and "text" are not among the faults of the goroutines |

The proofs of the parts are instantiated as the parts are (`OP`, `PP`), so that
their invariants and theorems can be cited, and the invariant here is theirs and
`Books`, which relates one part to the other:

- `Numbered`: the request rows of a job are its first ones, without gaps, so
  the row the scheduler inserts is new;
- `RowsWithinAttempts`: a job has a row per attempt, and one more while it is
  `pendente`.  A claim turns that one into an attempt, and a retry is
  scheduled only with attempts left (`WaitingHasAttemptsLeft`), so the rows
  never pass `INSIGHT_MAX_ATTEMPTS`;
- `OnlyInserted`: nobody works on a row that is not there;
- `LostAreFailed`: the lost requests are exactly the rows that are `failed` and
  of which the broker has no copy.

The argument goes in a circle that closes within one step: `OutboxMoves` shows
that a step is one of `Outbox`, `ProcessingMoves`, with one lemma per kind of
step (`ScheduleMoves`, `PublishMoves`, `MarkMoves`, `HiddenMoves`), that it is
one of `InsightProcessing`; with that the parts' own step theorems give their
invariants, and `BooksStep` uses what the parts say of a row (`WorthIsKept`)
and of a fate (`OutboxStaysInTable`, `FateSteps`) for the rest.
`SilenceMeansALostRequest` then joins `PendingJobHasRequest` of one part with
`AttemptsDecideFate` of the other.  The last three theorems cite those of the
parts, for the behaviours of the parts that a behaviour of `Pipeline` is.

Two changes of the models came from these proofs.  `Pipeline!Handle` allowed a
goroutine to insert the failure row of whatever body it had; with a body that
names no job that is no row of the table, and only the instances TLC had, in
which no body is of that kind, kept `TypeOK` true.  It now inserts one only for
a job, as `RegisterFailure` does.  And the assumptions that the parts make of
their constants, which an instance does not check, are now written down and
evaluated for `Pipeline` too.

Every safety invariant, action property and refinement that a passing run
checks is stated by a theorem.  Only model-checked: the liveness properties
(`EveryJobResolved`, `QueueDrains`, `EveryEventSettles`, `EveryJobAnswered`,
`FailFast`, `ComponentsReturn`, `ShutdownTerminates`, `EveryMessageHandled`),
which are out of the prover's reach.

## 7. Where code and documentation part

1. **A job can stay in `processando` for ever** (`processing_stranded`).
   README.md:102 says that network errors, timeouts, `429` and `5xx` of the
   provider lead to a retry, README.md:81 that unexpected infrastructure
   failures get a `Nack` with requeue, and the description of the feature in
   `prs-features/` that this is there so as not to lose the job.  When the
   500th byte of the provider's error falls within a multi-byte character,
   `RegisterFailure` sends invalid UTF-8, PostgreSQL refuses it, and the
   delivery is nacked.  The message comes back within the lease;
   `BeginProcessing` finds no claimable row and reports `alreadyHandled`; the
   message is acked.  From then on nothing names the job: the scheduler reads
   only `aguardando_retentativa`, and an expired lease matters only to a message
   that arrives.  No process has to die for it and no query has to be lost.  A
   lost reply of the claim, or a death after it, ends the same way.  So does a
   lost connection: its watcher ends the errgroup, the cancelled context fails
   the AI call and then `RegisterFailure` too, and the message the broker has
   requeued is acked by the next process while the lease still runs.
   `NoJobIsStranded` proves that without these four it cannot happen.
2. **Takeovers do not count against `INSIGHT_MAX_ATTEMPTS`**
   (`processing_attempts`).  README.md:104 says a job is marked `falhou` on
   reaching the limit.  `BeginProcessing` increments `tentativas` without
   comparing it, and only `RegisterFailure` does; a job whose goroutines die
   is started again and again.
3. **A late confirmation is taken for the next message's**
   (`publisher_timeout`).  After a publication timed out, its confirmation is
   still to come, and stays in the channel of capacity one.  The next `publish`
   returns nil on it, before the broker has answered its own message, and every
   later one is one answer behind.  An unroutable message has the same effect,
   because its return is followed by an ack that nobody reads.  When two
   answers are left over the reader blocks on the full channel, and with it
   every frame of the connection, until somebody publishes again.  If nobody does,
   because the process is ending, `Client.Close` waits for a reply that does not
   come and the process neither exits nor is restarted, against the fail-fast of
   README.md:119.  A timeout is not even needed: with its context cancelled
   `dispatch` goes on with its batch, and none of those publications waits for
   its answer.  `worker_process` shows that this is the only thing that can
   hold an ending process up (`ComponentsReturn`, `ShutdownTerminates`).
   `publisher_faults` shows that before the first timeout or return none
   of this can happen, and that even after it successes never outnumber acks.  `InsightProcessing` and
   `Outbox` take the contract (nil means that the broker has the message) for
   granted: their results hold as far as it does.

## 8. What is not modelled

- Connection strings, the check for missing ones in production, and the masking
  of the logged configuration: text.
- The seconds to which leases and locks are truncated (every setting is a whole
  number of seconds, so nothing is lost), and durations past the range of
  `time.Duration` (some 292 years).
- The length of a backoff: a retry is due or not yet due.
- The content of prompts, insights, payloads and error texts, except that an
  error text may be cut within a character; logging.
- The HTTP exchange with the AI provider and its classification by status
  code: `Complete` answers, fails retryably, or fails for good.
- The death of a process with everything in it at once: goroutines
  (`InsightProcessing`) and dispatchers (`Outbox`, `Pipeline`) die one by one,
  in any order, which includes it.
- Queue declaration, pool set-up, generated queries, scripts: no state or
  pure I/O.
- The API that creates jobs, RabbitMQ, PostgreSQL and amqp091-go: external,
  modelled from how the code uses them.

## 9. Plan

Done: `JobLifecycle`, `InsightProcessing`, `Relay`, `Outbox`, `Pipeline`,
`Publisher`, `WorkerProcess`, `Timing`, and the proofs of their safety.

Next, safety facts on which the liveness runs rest and which a proof can reach:

1. an event is published at most `OUTBOX_MAX_ATTEMPTS` times as long as no lock
   expires under its dispatcher, the reason why `InsightProcessing!FairSpec` may
   assume finitely many duplicates;
2. once the context is done, a process has a bounded number of steps left
   besides those of its environment, the measure behind `ComponentsReturn`.
