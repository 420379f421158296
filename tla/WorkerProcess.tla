---------------------------- MODULE WorkerProcess ----------------------------
(***************************************************************************)
(* One process of the worker: main's errgroup, worker.Consumer.Run with    *)
(* its feeding loop and its goroutines, the two ticker loops, the watcher  *)
(* of the connection, and the consumer channel with its prefetch window.   *)
(* How it starts, hands deliveries over, fails fast, stops, and is started *)
(* again by the orchestrator.                                              *)
(*                                                                         *)
(* What handleDelivery does is in InsightProcessing; here it ends in an    *)
(* ack or in a nack with requeue.  RabbitMQ puts a requeued message back   *)
(* in its place, so the queue is a set of numbers read from the lowest.    *)
(***************************************************************************)
EXTENDS Naturals, Sequences, FiniteSets, FiniteSetsExt

CONSTANTS
    Messages,       \* in the order in which they were published
    Unknown,        \* those whose job does not exist: always nacked
    Goroutines,     \* WORKER_CONCURRENCY of them
    Loops,          \* the retry scheduler and the outbox dispatcher
    Dispatcher,     \* which of them is the dispatcher
    Prefetch,       \* RABBITMQ_PREFETCH
    MaxStarts       \* bound: the last of so many starts runs undisturbed

ASSUME ProcessAssumption ==
    /\ Messages \subseteq Nat \ {0} /\ IsFiniteSet(Messages)
    /\ Unknown \subseteq Messages
    /\ Dispatcher \in Loops
    /\ Prefetch \in Nat \ {0}
    /\ IsFiniteSet(Goroutines)
    /\ Cardinality(Goroutines) <= Prefetch      \* config.go:144
    /\ MaxStarts \in Nat \ {0}

None == 0           \* no delivery in hand

Capacity == 1       \* of the Go channel of NotifyPublish
MaxUnread == 2      \* bound: more unread answers change nothing further

VARIABLES
    queue,          \* messages ready in the insight queue
    unacked,        \* delivered to this process and not acked
    acked,          \* acked for good
    buffer,         \* delivered, in the library, not yet received by Run
    channel,        \* the consumer channel: "closed", "open"
    connection,     \* "up", or "lost" when NotifyClose has news
    unread,         \* publications whose answer nobody waits for any more
    feeder,         \* the loop of Run
    pool,           \* its goroutines
    loops,          \* the two ticker loops
    watcher,        \* the component that waits for rabbitClient.Errors()
    cancelled,      \* componentCtx is done
    failed,         \* run has an error to return
    signalled,      \* SIGTERM or SIGINT has arrived
    main,           \* where run is
    starts          \* how often the process has been started

broker  == <<queue, unacked, acked, buffer, channel, connection, unread>>
group   == <<watcher, cancelled, failed>>
process == <<signalled, main, starts>>
vars    == <<broker, feeder, pool, loops, group, process>>

Idle == [pc |-> "idle", message |-> None]

Init == /\ queue = Messages
        /\ unacked = {} /\ acked = {} /\ buffer = <<>>
        /\ channel = "closed" /\ connection = "up" /\ unread = 0
        /\ feeder = [pc |-> "done", message |-> None, error |-> FALSE]
        /\ pool = [g \in Goroutines |-> [Idle EXCEPT !.pc = "done"]]
        /\ loops = [l \in Loops |-> "done"]
        /\ watcher = "done"
        /\ cancelled = FALSE /\ failed = FALSE /\ signalled = FALSE
        /\ main = "starting" /\ starts = 1

-------------------------------------------------------------------------------
(* An operator whose name ends in a Bug is not part of the specification:  *)
(* it is the way the next definition could have been written wrong, and    *)
(* some run must notice.                                                   *)

(* Everything up to components.Go: the clients connect, Consume starts the *)
(* deliveries, and the components run.                                     *)
Start ==
    /\ main = "starting"
    /\ main' = "waiting"
    /\ channel' = "open"
    /\ feeder' = [pc |-> "receive", message |-> None, error |-> FALSE]
    /\ pool' = [g \in Goroutines |-> Idle]
    /\ loops' = [l \in Loops |-> "pass"]
    /\ watcher' = "watching"
    /\ UNCHANGED <<queue, unacked, acked, buffer, connection, unread, cancelled,
                   failed, signalled, starts>>

StartFailsBug ==    \* logs the error and returns nil
    /\ main = "starting"
    /\ starts < MaxStarts \/ signalled
    /\ main' = "exited"
    /\ UNCHANGED <<broker, feeder, pool, loops, group, signalled, starts>>

(* One of the clients does not connect, or the signal cancels the attempt: *)
(* run returns the error and its defers close what had been opened.        *)
StartFails ==
    /\ main = "starting"
    /\ starts < MaxStarts \/ signalled
    /\ main' = "exited"
    /\ failed' = TRUE
    /\ UNCHANGED <<broker, feeder, pool, loops, watcher, cancelled, signalled, starts>>

-------------------------------------------------------------------------------
WithinPrefetchBug == TRUE   \* no Qos on the channel

(* channel.Qos(prefetch, 0, false)                                         *)
WithinPrefetch == Cardinality(unacked) < Prefetch

DeliverBug(m) ==    \* Consume with autoAck: gone from the broker at once
    /\ channel = "open"
    /\ m \in queue /\ m = Min(queue)
    /\ WithinPrefetch
    /\ queue' = queue \ {m}
    /\ buffer' = Append(buffer, m)
    /\ UNCHANGED <<unacked, acked, channel, connection, unread, feeder, pool, loops,
                   group, process>>

(* The broker sends the first ready message, with manual acks.             *)
Deliver(m) ==
    /\ channel = "open"
    /\ m \in queue /\ m = Min(queue)
    /\ WithinPrefetch
    /\ queue' = queue \ {m}
    /\ unacked' = unacked \cup {m}
    /\ buffer' = Append(buffer, m)
    /\ UNCHANGED <<acked, channel, connection, unread, feeder, pool, loops, group,
                   process>>

(* The channel, or the whole connection, goes down under a running         *)
(* process: the broker takes back what was not acked.                      *)
ChannelCloses ==
    /\ starts < MaxStarts
    /\ channel = "open"
    /\ channel' = "closed"
    /\ connection' \in {"up", "lost"}
    /\ queue' = queue \cup unacked
    /\ unacked' = {}
    /\ UNCHANGED <<acked, buffer, unread, feeder, pool, loops, group, process>>

(* The library drops what it has not handed over and closes deliveries.    *)
BufferDropped ==
    /\ channel = "closed"
    /\ buffer # <<>>
    /\ buffer' = <<>>
    /\ UNCHANGED <<queue, unacked, acked, channel, connection, unread, feeder, pool,
                   loops, group, process>>

-------------------------------------------------------------------------------
(* case delivery, ok := <-deliveries                                       *)
FeederReceives ==
    /\ feeder.pc = "receive"
    /\ buffer # <<>>
    /\ feeder' = [feeder EXCEPT !.pc = "handoff", !.message = Head(buffer)]
    /\ buffer' = Tail(buffer)
    /\ UNCHANGED <<queue, unacked, acked, channel, connection, unread, pool, loops,
                   group, process>>

DeliveriesClosedBug ==  \* takes it for the end of the work
    /\ feeder.pc = "receive"
    /\ channel = "closed" /\ buffer = <<>>
    /\ feeder' = [feeder EXCEPT !.pc = "wait", !.error = FALSE]
    /\ UNCHANGED <<broker, pool, loops, group, process>>

(* !ok: an error unless the context is done.                               *)
DeliveriesClosed ==
    /\ feeder.pc = "receive"
    /\ channel = "closed" /\ buffer = <<>>
    /\ feeder' = [feeder EXCEPT !.pc = "wait", !.error = ~ cancelled]
    /\ UNCHANGED <<broker, pool, loops, group, process>>

(* case jobs <- delivery meets case delivery, ok := <-jobs: the channel is *)
(* not buffered.                                                           *)
HandOff(g) ==
    /\ feeder.pc = "handoff"
    /\ pool[g].pc = "idle"
    /\ pool' = [pool EXCEPT ![g] = [pc |-> "handling", message |-> feeder.message]]
    /\ feeder' = [feeder EXCEPT !.pc = "receive", !.message = None]
    /\ UNCHANGED <<broker, loops, group, process>>

FeederStopsBug ==   \* hands over without looking at the context
    /\ cancelled
    /\ feeder.pc = "receive"
    /\ feeder' = [feeder EXCEPT !.pc = "wait", !.message = None]
    /\ UNCHANGED <<broker, pool, loops, group, process>>

(* case <-ctx.Done() of either select; a delivery in hand is dropped.      *)
FeederStops ==
    /\ cancelled
    /\ feeder.pc \in {"receive", "handoff"}
    /\ feeder' = [feeder EXCEPT !.pc = "wait", !.message = None]
    /\ UNCHANGED <<broker, pool, loops, group, process>>

(* handleDelivery ends in Ack(false).                                      *)
Ack(g) ==
    LET m == pool[g].message IN
    /\ pool[g].pc = "handling"
    /\ m \notin Unknown
    /\ pool' = [pool EXCEPT ![g] = Idle]
    /\ acked' = IF channel = "open" THEN acked \cup {m} ELSE acked
    /\ unacked' = IF channel = "open" THEN unacked \ {m} ELSE unacked
    /\ UNCHANGED <<queue, buffer, channel, connection, unread, feeder, loops, group,
                   process>>

NackBug(g) ==   \* the goroutine returns with the error
    LET m == pool[g].message IN
    /\ pool[g].pc = "handling"
    /\ pool' = [pool EXCEPT ![g] = [Idle EXCEPT !.pc = "done"]]
    /\ queue' = IF channel = "open" THEN queue \cup {m} ELSE queue
    /\ unacked' = IF channel = "open" THEN unacked \ {m} ELSE unacked
    /\ UNCHANGED <<acked, buffer, channel, connection, unread, feeder, loops, group,
                   process>>

(* handleDelivery ends in Nack(false, true): the job does not exist, the   *)
(* database or the DLQ failed, or the context was cancelled under a call.  *)
Nack(g) ==
    LET m == pool[g].message IN
    /\ pool[g].pc = "handling"
    /\ pool' = [pool EXCEPT ![g] = Idle]
    /\ queue' = IF channel = "open" THEN queue \cup {m} ELSE queue
    /\ unacked' = IF channel = "open" THEN unacked \ {m} ELSE unacked
    /\ UNCHANGED <<acked, buffer, channel, connection, unread, feeder, loops, group,
                   process>>

(* case <-ctx.Done(), or jobs closed by the defer of Run.                  *)
GoroutineReturns(g) ==
    /\ pool[g].pc = "idle"
    /\ cancelled \/ feeder.pc = "wait"
    /\ pool' = [pool EXCEPT ![g].pc = "done"]
    /\ UNCHANGED <<broker, feeder, loops, group, process>>

(* A component returns to the errgroup: the first error cancels the rest.  *)
Returned(error) == /\ failed' = (failed \/ error)
                   /\ cancelled' = (cancelled \/ error)

RunReturnsBug ==    \* no workers.Wait()
    /\ feeder.pc = "wait"
    /\ feeder' = [feeder EXCEPT !.pc = "done"]
    /\ Returned(feeder.error)
    /\ UNCHANGED <<broker, pool, loops, watcher, process>>

(* workers.Wait() is over, and Run returns what it had decided to.         *)
RunReturns ==
    /\ feeder.pc = "wait"
    /\ \A g \in Goroutines : pool[g].pc = "done"
    /\ feeder' = [feeder EXCEPT !.pc = "done"]
    /\ Returned(feeder.error)
    /\ UNCHANGED <<broker, pool, loops, watcher, process>>

-------------------------------------------------------------------------------
Publishing == \/ loops[Dispatcher] = "pass"
              \/ \E g \in Goroutines : pool[g].pc = "handling"

(* waitForPublish returns without the answer to its message, because it    *)
(* timed out, or the context is done and the rest of the batch is still    *)
(* published, or it took a return.  The answer is left for whoever comes   *)
(* next, who leaves his own behind instead.                                *)
AnswerLeftUnread ==
    /\ Publishing
    /\ connection = "up"
    /\ unread < MaxUnread
    /\ unread' = unread + 1
    /\ UNCHANGED <<queue, unacked, acked, buffer, channel, connection, feeder, pool,
                   loops, group, process>>

ReaderRunsBug == unread < Capacity      \* a channel without a buffer

(* One unread answer fits in the Go channel; at the second one the reader  *)
(* of the library may block, and no frame of the connection passes it.     *)
ReaderRuns == unread <= Capacity

(* Scheduler.Run and Dispatcher.Run: a pass at once, and then one for each *)
(* tick; only between passes do they look at the context.                  *)
LoopPasses(l) ==
    /\ \/ loops[l] = "pass"    /\ loops' = [loops EXCEPT ![l] = "waiting"]
       \/ loops[l] = "waiting" /\ loops' = [loops EXCEPT ![l] = "pass"]
    /\ UNCHANGED <<broker, feeder, pool, group, process>>

LoopReturns(l) ==
    /\ loops[l] = "waiting"
    /\ cancelled
    /\ loops' = [loops EXCEPT ![l] = "done"]
    /\ UNCHANGED <<broker, feeder, pool, group, process>>

WatcherReturns ==
    /\ watcher = "watching"
    /\ \/ cancelled /\ UNCHANGED <<failed, cancelled>>
       \/ connection = "lost" /\ Returned(TRUE)
    /\ watcher' = "done"
    /\ UNCHANGED <<broker, feeder, pool, loops, process>>

(* signal.NotifyContext cancels the context of everything.                 *)
Signal ==
    /\ main # "exited"
    /\ ~ signalled
    /\ signalled' = TRUE
    /\ cancelled' = TRUE
    /\ UNCHANGED <<broker, feeder, pool, loops, watcher, failed, main, starts>>

AllReturned == /\ feeder.pc = "done"
               /\ \A l \in Loops : loops[l] = "done"
               /\ watcher = "done"

(* components.Wait() returns, and the defers begin.                        *)
WaitReturns ==
    /\ main = "waiting"
    /\ AllReturned
    /\ main' = "closing"
    /\ UNCHANGED <<broker, feeder, pool, loops, group, signalled, starts>>

(* Client.Close has closed both channels and the connection, each with a   *)
(* request whose reply the library's reader must hand over (FairSpec); the *)
(* broker takes back what was not acked.  Then the pool of PostgreSQL.     *)
Exit ==
    /\ main = "closing"
    /\ main' = "exited"
    /\ channel' = "closed"
    /\ queue' = queue \cup unacked
    /\ unacked' = {}
    /\ buffer' = <<>>
    /\ unread' = 0
    /\ UNCHANGED <<acked, connection, feeder, pool, loops, group, signalled, starts>>

(* The orchestrator starts a process that exited with an error again.      *)
Restart ==
    /\ main = "exited" /\ failed /\ ~ signalled
    /\ starts < MaxStarts
    /\ main' = "starting"
    /\ starts' = starts + 1
    /\ failed' = FALSE /\ cancelled' = FALSE
    /\ connection' = "up"
    /\ UNCHANGED <<queue, unacked, acked, buffer, channel, unread, feeder, pool,
                   loops, watcher, signalled>>

-------------------------------------------------------------------------------
FromLibrary == FeederReceives \/ DeliveriesClosed

Next == \/ Start \/ StartFails \/ Signal \/ WaitReturns \/ Exit \/ Restart
        \/ \E m \in Messages : Deliver(m)
        \/ ChannelCloses \/ BufferDropped \/ AnswerLeftUnread
        \/ FromLibrary \/ RunReturns \/ FeederStops \/ WatcherReturns
        \/ \E g \in Goroutines : HandOff(g) \/ Ack(g) \/ Nack(g) \/ GoroutineReturns(g)
        \/ \E l \in Loops : LoopPasses(l) \/ LoopReturns(l)

Spec == Init /\ [][Next]_vars

(***************************************************************************)
(* Fairness.  Whatever can run does, and a select does not prefer one of   *)
(* its ready cases for ever (the runtime chooses at random): a loop whose  *)
(* ticker fires again and again still sees the context.  What the broker   *)
(* sends -- deliveries, the news that a channel or the connection is       *)
(* closed, the replies Client.Close waits for -- comes through the         *)
(* library's reader, and nothing is promised of it while the reader may be *)
(* blocked.  The broker fills the prefetch window much faster than a       *)
(* message is handled, so a message that is first in the queue again and   *)
(* again is delivered: strong fairness.  A message whose job exists is not *)
(* nacked for ever, because failing queries and DLQ copies are transient:  *)
(* strong fairness of its ack.  Nothing is assumed of signals and failures.*)
(***************************************************************************)
FairSpec ==
    /\ Spec
    /\ WF_vars(Start) /\ WF_vars(Restart)
    /\ WF_vars(RunReturns) /\ WF_vars(FeederStops)
    /\ WF_vars(cancelled /\ WatcherReturns) /\ WF_vars(WaitReturns)
    /\ WF_vars(\E g \in Goroutines : HandOff(g))
    /\ \A g \in Goroutines : /\ WF_vars(Ack(g) \/ Nack(g))
                             /\ WF_vars(GoroutineReturns(g))
    /\ \A l \in Loops : WF_vars(LoopPasses(l)) /\ SF_vars(LoopReturns(l))
    /\ WF_vars(ReaderRuns /\ BufferDropped) /\ WF_vars(ReaderRuns /\ FromLibrary)
    /\ WF_vars(ReaderRuns /\ WatcherReturns) /\ WF_vars(ReaderRuns /\ Exit)
    /\ \A m \in Messages :
          /\ SF_vars(ReaderRuns /\ Deliver(m))
          /\ SF_vars(\E g \in Goroutines : pool[g].message = m /\ Ack(g))

-------------------------------------------------------------------------------
(* Every variable has its type, the process never has more deliveries than *)
(* RABBITMQ_PREFETCH, and the feeder has one exactly while it hands over.  *)
TypeOK ==
    /\ queue \subseteq Messages /\ unacked \subseteq Messages /\ acked \subseteq Messages
    /\ Cardinality(unacked) <= Prefetch
    /\ buffer \in Seq(Messages)
    /\ channel \in {"open", "closed"} /\ connection \in {"up", "lost"}
    /\ unread \in 0..MaxUnread
    /\ feeder \in [pc : {"receive", "handoff", "wait", "done"},
                   message : Messages \cup {None}, error : BOOLEAN]
    /\ feeder.pc = "handoff" <=> feeder.message # None
    /\ pool \in [Goroutines -> [pc : {"idle", "handling", "done"},
                                message : Messages \cup {None}]]
    /\ loops \in [Loops -> {"pass", "waiting", "done"}]
    /\ watcher \in {"watching", "done"}
    /\ cancelled \in BOOLEAN /\ failed \in BOOLEAN /\ signalled \in BOOLEAN
    /\ main \in {"starting", "waiting", "closing", "exited"}
    /\ starts \in 1..MaxStarts

(* A message is in one place only, and until the context is done what the  *)
(* broker counts as delivered is in the library, with the feeder, or with  *)
(* exactly one goroutine: no delivery is forgotten or handled twice at     *)
(* once, and the prefetch window does not leak.                            *)
InHand == {feeder.message} \cup {pool[g].message : g \in Goroutines}
          \cup {buffer[i] : i \in DOMAIN buffer}

HandsTaken == Len(buffer) + Cardinality({g \in Goroutines : pool[g].pc = "handling"})
              + (IF feeder.pc = "handoff" THEN 1 ELSE 0)

DeliveriesAccountedFor ==
    /\ queue \cup unacked \cup acked = Messages
    /\ Cardinality(queue) + Cardinality(unacked) + Cardinality(acked)
          = Cardinality(Messages)
    /\ channel = "open" /\ ~ cancelled =>
          /\ unacked = InHand \ {None}
          /\ HandsTaken = Cardinality(unacked)

(* main.go:66 and 81 close the pool and the connection in defers: when     *)
(* they begin nothing is left that uses them, neither a goroutine in       *)
(* handleDelivery nor a pass of a loop.                                    *)
ResourcesOutliveTheirUsers ==
    main \in {"closing", "exited"} => /\ \A g \in Goroutines : pool[g].pc = "done"
                                     /\ \A l \in Loops : loops[l] = "done"

(* README.md:119.  The process never ends by itself with status 0, which   *)
(* would tell the orchestrator that it was done.                           *)
CleanExitOnlyOnSignal ==
    main = "exited" /\ ~ failed => signalled

(* A second answer that nobody waits for fills the Go channel of the       *)
(* confirmations and the hand of the reader.                               *)
TwoUnread == unread >= 2

(* README.md:119, fail-fast.  A lost connection, and the loss of the       *)
(* consumer channel alone, end the process, unless two publications ended  *)
(* without their answers.                                                  *)
FailFast == (main = "waiting" /\ channel = "closed") ~> (main = "exited" \/ TwoUnread)

(* Once the context is done every component returns to main, whatever the  *)
(* reader of the library does: no hand-off without a taker, and no Wait    *)
(* for a goroutine that nobody wakes.                                      *)
ComponentsReturn == cancelled ~> main \in {"closing", "exited"}

(* The process then ends.  A publication or two are cut short by every     *)
(* shutdown (dispatcher.go:76-95 goes on with its batch, publisher.go:96   *)
(* does not wait), and Client.Close waits for replies: one unread answer   *)
(* must not be in their way, and two are the only thing that can be.       *)
ShutdownTerminates == cancelled ~> (main = "exited" \/ TwoUnread)

(* Unless it is told to stop, or two answers are left unread, the process  *)
(* acks every message it can handle, however often it is restarted and     *)
(* however often the message is nacked before, as long as fewer messages   *)
(* than RABBITMQ_PREFETCH are requeued for ever.                           *)
EveryMessageHandled ==
    Cardinality(Unknown) < Prefetch =>
        \A m \in Messages \ Unknown : <>(m \in acked \/ signalled \/ TwoUnread)

===============================================================================
