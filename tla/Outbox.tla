-------------------------------- MODULE Outbox --------------------------------
(***************************************************************************)
(* The outbox_eventos table and the dispatchers that drain it: each tick,  *)
(* outbox.Dispatcher.dispatch claims a batch of events under one token and *)
(* a lock, then publishes them one by one outside any transaction and      *)
(* marks each as published or failed.  One element of Dispatchers is the   *)
(* dispatcher of one replica.                                              *)
(*                                                                         *)
(* A publication that returns nil has reached the broker: that is what     *)
(* Client.publish promises, and module Publisher says when it keeps it.    *)
(***************************************************************************)
EXTENDS Naturals, FiniteSets

CONSTANTS
    Events,         \* rows of outbox_eventos
    Poison,         \* rows whose tipo or payload Dispatcher.publish rejects
    Dispatchers,    \* one per replica
    Tokens,         \* values of uuid.NewString()
    NoToken,        \* processing_token IS NULL
    NoEvent,        \* a dispatcher between two events
    MaxAttempts,    \* OUTBOX_MAX_ATTEMPTS
    BatchSize,      \* OUTBOX_BATCH_SIZE
    Faults          \* which of FaultKinds the environment may exhibit

(* "slow": a batch may take longer than OUTBOX_LOCK_SECONDS.               *)
FaultKinds == {"crash", "database", "broker", "slow"}

ASSUME OutboxAssumption ==
    /\ MaxAttempts \in Nat \ {0}
    /\ BatchSize \in Nat \ {0}
    /\ Poison \subseteq Events
    /\ NoToken \notin Tokens
    /\ NoEvent \notin Events
    /\ Faults \subseteq FaultKinds

ASSUME DispatchersAreFinite == IsFiniteSet(Dispatchers)

VARIABLES
    events,         \* the outbox_eventos table
    copies,         \* how many messages the broker took for each event
    dispatchers     \* what each dispatcher is doing

vars == <<events, copies, dispatchers>>

(* Both counters saturate: the code only asks tentativas >= maxAttempts.   *)
AttemptCeiling == MaxAttempts + 1

NextCount(n) == IF n < AttemptCeiling THEN n + 1 ELSE n

EventRows == [status     : {"pending", "processing", "published", "failed"},
              tentativas : 0..AttemptCeiling,
              token      : Tokens \cup {NoToken},
              lock       : {"null", "live", "expired"},
              due        : BOOLEAN]         \* proxima_tentativa_em <= NOW()

DispatcherStates == [pc    : {"idle", "publish", "published", "refused"},
                     token : Tokens \cup {NoToken},
                     todo  : SUBSET Events,             \* rest of the batch
                     event : Events \cup {NoEvent}]

Idle == [pc |-> "idle", token |-> NoToken, todo |-> {}, event |-> NoEvent]

NewEvent == [status |-> "pending", tentativas |-> 0, token |-> NoToken,
             lock |-> "null", due |-> TRUE]

Init == /\ events = [e \in Events |-> NewEvent]
        /\ copies = [e \in Events |-> 0]
        /\ dispatchers = [d \in Dispatchers |-> Idle]

-------------------------------------------------------------------------------
(* What the repository's statements do to one row.  An operator whose name *)
(* ends in a Bug is not part of the specification: it is the way the next  *)
(* definition could have been written wrong, and some run must notice.     *)

AvailableBug(row) ==    \* takes an event whose lock is still running
    row.status \in {"pending", "processing"} /\ row.due

Available(row) == \/ row.status = "pending" /\ row.due
                  \/ row.status = "processing" /\ row.lock = "expired"

ClaimedRow(row, t) == [row EXCEPT !.status = "processing",
                                  !.token = t,
                                  !.lock = "live",
                                  !.tentativas = NextCount(@)]

PublishedRowBug(row) ==     \* the status column is text: a slip is stored
    [row EXCEPT !.status = "concluido", !.token = NoToken, !.lock = "null"]

PublishedRow(row) == [row EXCEPT !.status = "published",
                                 !.token = NoToken,
                                 !.lock = "null"]

ExhaustedBug(row) == row.tentativas > MaxAttempts

Exhausted(row) == row.tentativas >= MaxAttempts

(* Leaves the row 'processing' and takes its lock away.                    *)
RefusedRowBug(row) == [row EXCEPT !.status = IF Exhausted(row) THEN "failed" ELSE @,
                                  !.token = NoToken,
                                  !.lock = "null"]

(* A row that may be tried again is not due before the backoff is over.    *)
RefusedRow(row) == [row EXCEPT !.status = IF Exhausted(row) THEN "failed" ELSE "pending",
                               !.due = IF Exhausted(row) THEN @ ELSE FALSE,
                               !.token = NoToken,
                               !.lock = "null"]

(* WHERE id = $1, and not who claimed it.                                  *)
OwnsBug(d) == dispatchers[d].event # NoEvent

(* WHERE status = 'processing' AND processing_token = $2                   *)
Owns(d) == LET me == dispatchers[d] IN
           /\ me.event \in Events
           /\ events[me.event].status = "processing"
           /\ events[me.event].token = me.token

Fresh(t) == /\ \A e \in Events : events[e].token # t
            /\ \A d \in Dispatchers : dispatchers[d].token # t

At(d, pc) == dispatchers[d].pc = pc

(* The events of its batch a dispatcher has not marked yet.                *)
InHand(d) == dispatchers[d].todo \cup ({dispatchers[d].event} \ {NoEvent})

-------------------------------------------------------------------------------
Claimed(batch, t) ==
    /\ batch # {}
    /\ Cardinality(batch) <= BatchSize
    /\ \A e \in batch : Available(events[e])
    /\ Fresh(t)
    /\ events' = [e \in Events |-> IF e \in batch THEN ClaimedRow(events[e], t)
                                                  ELSE events[e]]

(* ClaimPendingOutboxEvents: oldest first, but SKIP LOCKED passes over the *)
(* rows another statement is holding, so any batch may result.             *)
ClaimPendingOutboxEvents(d, batch, t) ==
    /\ At(d, "idle")
    /\ Claimed(batch, t)
    /\ dispatchers' = [dispatchers EXCEPT ![d] =
           [pc |-> "publish", token |-> t, todo |-> batch, event |-> NoEvent]]
    /\ UNCHANGED copies

(* The claim committed but dispatch got an error: nobody has the batch.    *)
ClaimReplyLost(d, batch, t) ==
    /\ "database" \in Faults
    /\ At(d, "idle")
    /\ Claimed(batch, t)
    /\ UNCHANGED <<copies, dispatchers>>

PublishBug(d, e) ==     \* treats an unknown type as nothing to publish
    /\ At(d, "publish")
    /\ e \in dispatchers[d].todo
    /\ copies' = IF e \in Poison THEN copies
                 ELSE [copies EXCEPT ![e] = NextCount(@)]
    /\ dispatchers' = [dispatchers EXCEPT ![d].pc = "published",
                                          ![d].event = e,
                                          ![d].todo = @ \ {e}]
    /\ UNCHANGED events

PublishTwiceBug(d, e) ==    \* publishes once more what is already published
    /\ At(d, "publish") \/ At(d, "published")
    /\ e \in dispatchers[d].todo \cup {dispatchers[d].event}
    /\ e \notin Poison
    /\ copies' = [copies EXCEPT ![e] = NextCount(@)]
    /\ dispatchers' = [dispatchers EXCEPT ![d].pc = "published",
                                          ![d].event = e,
                                          ![d].todo = @ \ {e}]
    /\ UNCHANGED events

(* Dispatcher.publish: nil; an error with no message; or an error for a    *)
(* message the broker has taken (its confirm came too late).               *)
PublishAs(d, e, answer, taken) ==
    /\ At(d, "publish")
    /\ e \in dispatchers[d].todo
    /\ answer = "published" => taken
    /\ e \in Poison => ~ taken
    /\ answer = "refused" => e \in Poison \/ "broker" \in Faults
    /\ copies' = IF taken THEN [copies EXCEPT ![e] = NextCount(@)] ELSE copies
    /\ dispatchers' = [dispatchers EXCEPT ![d].pc = answer,
                                          ![d].event = e,
                                          ![d].todo = @ \ {e}]
    /\ UNCHANGED events

Publish(d, e) == \E answer \in {"published", "refused"}, taken \in BOOLEAN :
                    PublishAs(d, e, answer, taken)

(* Whatever came of marking the event, dispatch goes on with the next.     *)
NextEvent(d) ==
    dispatchers' = [dispatchers EXCEPT ![d] =
        IF @.todo = {} THEN Idle
                       ELSE [@ EXCEPT !.pc = "publish", !.event = NoEvent]]

(* The reply may be lost: it is only logged.                               *)
MarkOutboxEventPublished(d) ==
    /\ At(d, "published")
    /\ Owns(d)
    /\ events' = [events EXCEPT ![dispatchers[d].event] = PublishedRow(@)]
    /\ NextEvent(d)
    /\ UNCHANGED copies

MarkOutboxEventFailed(d) ==
    /\ At(d, "refused")
    /\ Owns(d)
    /\ events' = [events EXCEPT ![dispatchers[d].event] = RefusedRow(@)]
    /\ NextEvent(d)
    /\ UNCHANGED copies

(* ErrOutboxDispatchLost, or the statement did not reach the database.     *)
NotMarked(d) ==
    /\ At(d, "published") \/ At(d, "refused")
    /\ ~ Owns(d) \/ "database" \in Faults
    /\ NextEvent(d)
    /\ UNCHANGED <<events, copies>>

Crash(d) ==
    /\ "crash" \in Faults
    /\ ~ At(d, "idle")
    /\ dispatchers' = [dispatchers EXCEPT ![d] = Idle]
    /\ UNCHANGED <<events, copies>>

(* lock_expira_em passes.  Load's rule on batch size and publish timeout   *)
(* is meant to keep it from passing while the batch is being worked on.    *)
LockExpires(e) ==
    /\ events[e].lock = "live"
    /\ \/ "slow" \in Faults
       \/ \A d \in Dispatchers :
             dispatchers[d].token = events[e].token => e \notin InHand(d)
    /\ events' = [events EXCEPT ![e].lock = "expired"]
    /\ UNCHANGED <<copies, dispatchers>>

(* proxima_tentativa_em passes.                                            *)
RetryComesDue(e) ==
    /\ ~ events[e].due
    /\ events' = [events EXCEPT ![e].due = TRUE]
    /\ UNCHANGED <<copies, dispatchers>>

-------------------------------------------------------------------------------
Mark(d) == \/ MarkOutboxEventPublished(d)
           \/ MarkOutboxEventFailed(d)
           \/ NotMarked(d)

Work(d) == Mark(d) \/ \E e \in Events : Publish(d, e)

ClaimAny(e) == \E d \in Dispatchers, t \in Tokens, batch \in SUBSET Events :
                  e \in batch /\ ClaimPendingOutboxEvents(d, batch, t)

Next ==
    \/ \E e \in Events : ClaimAny(e) \/ LockExpires(e) \/ RetryComesDue(e)
    \/ \E d \in Dispatchers :
          \/ Work(d) \/ Crash(d)
          \/ \E t \in Tokens, batch \in SUBSET Events : ClaimReplyLost(d, batch, t)

Spec == Init /\ [][Next]_vars

(***************************************************************************)
(* Fairness.  A dispatcher finishes its batch and ticks again; the clock   *)
(* does not stop.  An available event is not passed over forever, since    *)
(* the claim takes the oldest proxima_tentativa_em first: strong fairness. *)
(* Crashes and failing statements are transient: a dispatcher that gets to *)
(* an event again and again in the end publishes it, or is told no, and    *)
(* marks it.  Nothing is assumed of the broker, which may refuse for ever. *)
(***************************************************************************)
MarkEvent(e) == \E d \in Dispatchers :
                   /\ dispatchers[d].event = e
                   /\ MarkOutboxEventPublished(d) \/ MarkOutboxEventFailed(d)

FairSpec == /\ Spec
            /\ \A d \in Dispatchers : WF_vars(Work(d))
            /\ \A e \in Events : /\ SF_vars(ClaimAny(e))
                                 /\ SF_vars(\E d \in Dispatchers : Publish(d, e))
                                 /\ SF_vars(MarkEvent(e))
                                 /\ WF_vars(LockExpires(e))
                                 /\ WF_vars(RetryComesDue(e))

-------------------------------------------------------------------------------
(* Every variable has its type.                                            *)
TypeOK == /\ events \in [Events -> EventRows]
          /\ copies \in [Events -> 0..AttemptCeiling]
          /\ dispatchers \in [Dispatchers -> DispatcherStates]

(* tentativas decides which way a refused event goes: one that is pending  *)
(* again still has attempts left, one that is 'failed' has none.           *)
AttemptsDecideFate ==
    \A e \in Events :
        /\ events[e].status = "pending" => events[e].tentativas < MaxAttempts
        /\ events[e].status = "failed" => events[e].tentativas >= MaxAttempts

(* A claim is worth at most one message: the copies of an event never      *)
(* outnumber its attempts, through crashes, lost replies and takeovers.    *)
AtMostOneCopyPerClaim ==
    \A e \in Events : copies[e] <= events[e].tentativas

(* No two dispatchers have the same event in hand.  Holds as long as every *)
(* batch fits in its lock, that is, without "slow".                        *)
NoDoubleDispatch ==
    \A c, d \in Dispatchers :
        c # d => InHand(c) \cap InHand(d) = {}

(* An event in 'processing' changes only by the dispatcher whose token it  *)
(* has, by the clock, or by a takeover after its lock has expired.         *)
LockIsRespected ==
    [][\A e \in Events :
          events[e].status = "processing" /\ events'[e] # events[e] =>
              \/ \E d \in Dispatchers : /\ dispatchers[d].event = e
                                        /\ dispatchers[d].token = events[e].token
              \/ events[e].lock = "expired" /\ events'[e].status = "processing"
              \/ events'[e] = [events[e] EXCEPT !.lock = "expired"]]_vars

(* README.md:117: no event is left unsettled, and one that cannot be       *)
(* published does not block the others.                                    *)
EveryEventSettles ==
    \A e \in Events : <>(events[e].status \in {"published", "failed"})

Fate(e) == IF events[e].status \in {"published", "failed"}
             THEN events[e].status ELSE "open"

Abstract == INSTANCE Relay WITH
    CopyCeiling <- AttemptCeiling,
    fate        <- [e \in Events |-> Fate(e)]

(* The table and its dispatchers implement Relay.                          *)
RelaySpec == Abstract!Spec

===============================================================================
