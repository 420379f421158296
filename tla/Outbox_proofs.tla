---------------------------- MODULE Outbox_proofs ----------------------------
(***************************************************************************)
(* What Outbox keeps for any number of events, dispatchers and attempts,   *)
(* through crashes, lost statements, a failing broker and late batches.    *)
(***************************************************************************)
EXTENDS Outbox, FiniteSetTheorems, TLAPS

(* What a dispatcher has in hand in each place of dispatch.                *)
HandsMatchPlace ==
    \A d \in Dispatchers :
        LET me == dispatchers[d] IN
        /\ me.pc = "idle" => me = Idle
        /\ me.pc # "idle" => me.token \in Tokens
        /\ me.pc = "publish" => me.event = NoEvent
        /\ me.pc \in {"published", "refused"} => me.event \in Events
        /\ me.pc = "published" => copies[me.event] > 0

(* The dispatchers that may still publish e.                               *)
Owing(e) == {d \in Dispatchers : e \in dispatchers[d].todo}

(* Every claim is worth one copy: made, or still owed by a dispatcher.     *)
ClaimsCoverCopies ==
    \A e \in Events :
        events[e].tentativas < AttemptCeiling =>
            copies[e] + Cardinality(Owing(e)) <= events[e].tentativas

IInv == /\ TypeOK
        /\ HandsMatchPlace
        /\ AttemptsDecideFate
        /\ ClaimsCoverCopies

-------------------------------------------------------------------------------
LEMMA CountsAreNat ==
    /\ MaxAttempts \in Nat /\ AttemptCeiling \in Nat /\ AttemptCeiling > MaxAttempts
    /\ \A n \in 0..AttemptCeiling :
          /\ NextCount(n) \in 0..AttemptCeiling
          /\ n < AttemptCeiling => NextCount(n) = n + 1
          /\ n >= MaxAttempts => NextCount(n) >= MaxAttempts
          /\ NextCount(n) > 0
          /\ NextCount(n) >= n /\ NextCount(n) <= n + 1
          /\ NextCount(n) < AttemptCeiling => n < AttemptCeiling /\ NextCount(n) = n + 1
  BY OutboxAssumption DEF AttemptCeiling, NextCount

LEMMA OwingIsFinite ==
    ASSUME NEW e \in Events
    PROVE  IsFiniteSet(Owing(e)) /\ Cardinality(Owing(e)) \in Nat
<1>1. Owing(e) \subseteq Dispatchers
  BY DEF Owing
<1> QED
  BY <1>1, DispatchersAreFinite, FS_Subset, FS_CardinalityType

(* What the statements make of a row.                                      *)
LEMMA RowsStayRows ==
    ASSUME NEW row \in EventRows, NEW t \in Tokens
    PROVE  /\ ClaimedRow(row, t) \in EventRows
           /\ PublishedRow(row) \in EventRows
           /\ RefusedRow(row) \in EventRows
           /\ [row EXCEPT !.lock = "expired"] \in EventRows
           /\ [row EXCEPT !.due = TRUE] \in EventRows
<1>1. ClaimedRow(row, t) \in EventRows
  BY CountsAreNat DEF ClaimedRow, EventRows
<1>2. PublishedRow(row) \in EventRows
  BY DEF PublishedRow, EventRows
<1>3. RefusedRow(row) \in EventRows
  BY DEF RefusedRow, EventRows
<1> QED
  BY <1>1, <1>2, <1>3 DEF EventRows

-------------------------------------------------------------------------------
LEMMA OutboxInit == Init => IInv
<1> SUFFICES ASSUME Init
             PROVE  IInv
  OBVIOUS
<1>1. TypeOK
  BY CountsAreNat DEF Init, TypeOK, NewEvent, Idle, EventRows, DispatcherStates
<1>2. HandsMatchPlace
  BY DEF Init, HandsMatchPlace, Idle
<1>3. AttemptsDecideFate
  BY OutboxAssumption DEF Init, AttemptsDecideFate, NewEvent
<1>4. ClaimsCoverCopies
  <2> SUFFICES ASSUME NEW e \in Events
               PROVE  copies[e] + Cardinality(Owing(e)) <= events[e].tentativas
    BY DEF ClaimsCoverCopies
  <2>1. Owing(e) = {}
    BY DEF Owing, Init, Idle
  <2> QED
    BY <2>1, FS_EmptySet DEF Init, NewEvent
<1> QED
  BY <1>1, <1>2, <1>3, <1>4 DEF IInv

(* A step in which no dispatcher comes to owe more and no copy is made.    *)
LEMMA NoNewDebt ==
    ASSUME IInv, copies' = copies, TypeOK',
           \A e \in Events : /\ Owing(e)' \subseteq Owing(e)
                             /\ events'[e].tentativas >= events[e].tentativas
                             /\ events'[e].tentativas < AttemptCeiling =>
                                    events[e].tentativas < AttemptCeiling
    PROVE  ClaimsCoverCopies'
<1> SUFFICES ASSUME NEW e \in Events, events'[e].tentativas < AttemptCeiling
             PROVE  copies[e] + Cardinality(Owing(e)') <= events'[e].tentativas
  BY DEF ClaimsCoverCopies
<1>1. /\ Cardinality(Owing(e)') \in Nat
      /\ Cardinality(Owing(e)') <= Cardinality(Owing(e))
  BY OwingIsFinite, FS_Subset, FS_CardinalityType
<1>2. /\ copies[e] \in Nat /\ events[e].tentativas \in Nat /\ events'[e].tentativas \in Nat
      /\ Cardinality(Owing(e)) \in Nat
  BY OwingIsFinite, CountsAreNat DEF IInv, TypeOK, EventRows
<1> QED
  BY <1>1, <1>2 DEF IInv, ClaimsCoverCopies

LEMMA ClaimStep ==
    ASSUME IInv, NEW d \in Dispatchers, NEW batch \in SUBSET Events, NEW t \in Tokens,
           ClaimPendingOutboxEvents(d, batch, t)
    PROVE  IInv'
<1> USE DEF IInv
<1>1. /\ dispatchers[d] = Idle
      /\ dispatchers' = [dispatchers EXCEPT ![d] =
            [pc |-> "publish", token |-> t, todo |-> batch, event |-> NoEvent]]
      /\ copies' = copies
      /\ Claimed(batch, t)
  BY DEF ClaimPendingOutboxEvents, At, HandsMatchPlace
<1>2. \A e \in Events : events'[e] = IF e \in batch THEN ClaimedRow(events[e], t)
                                                   ELSE events[e]
  BY <1>1 DEF Claimed
<1>3. TypeOK'
  <2>1. events' \in [Events -> EventRows]
    BY <1>1, RowsStayRows DEF Claimed, TypeOK
  <2>2. dispatchers' \in [Dispatchers -> DispatcherStates]
    BY <1>1 DEF TypeOK, DispatcherStates
  <2> QED
    BY <1>1, <2>1, <2>2 DEF TypeOK
<1>4. HandsMatchPlace'
  BY <1>1 DEF HandsMatchPlace, TypeOK
<1>5. AttemptsDecideFate'
  BY <1>2 DEF AttemptsDecideFate, ClaimedRow, TypeOK, EventRows
<1>6. ClaimsCoverCopies'
  <2> SUFFICES ASSUME NEW e \in Events, events'[e].tentativas < AttemptCeiling
               PROVE  copies[e] + Cardinality(Owing(e)') <= events'[e].tentativas
    BY <1>1 DEF ClaimsCoverCopies
  <2>1. /\ copies[e] \in Nat /\ events[e].tentativas \in 0..AttemptCeiling
        /\ events'[e].tentativas \in Nat
        /\ Cardinality(Owing(e)) \in Nat
    BY <1>3, OwingIsFinite, CountsAreNat DEF TypeOK, EventRows
  <2>2. CASE e \in batch
    <3>1. Owing(e)' = Owing(e) \cup {d} /\ d \notin Owing(e)
      BY <1>1, <2>2 DEF Owing, Idle, TypeOK
    <3>2. Cardinality(Owing(e)') = Cardinality(Owing(e)) + 1
      BY <3>1, OwingIsFinite, FS_AddElement
    <3>3. events'[e].tentativas = NextCount(events[e].tentativas)
      BY <1>2, <2>2 DEF ClaimedRow, TypeOK, EventRows
    <3>4. /\ events'[e].tentativas = events[e].tentativas + 1
          /\ events[e].tentativas < AttemptCeiling
      BY <3>3, <2>1, CountsAreNat
    <3> QED
      BY <2>1, <3>2, <3>4 DEF ClaimsCoverCopies
  <2>3. CASE e \notin batch
    <3>1. Owing(e)' = Owing(e)
      BY <1>1, <2>3 DEF Owing, Idle, TypeOK
    <3> QED
      BY <1>2, <2>3, <3>1 DEF ClaimsCoverCopies
  <2> QED
    BY <2>2, <2>3
<1> QED
  BY <1>3, <1>4, <1>5, <1>6

LEMMA ClaimReplyLostStep ==
    ASSUME IInv, NEW d \in Dispatchers, NEW batch \in SUBSET Events, NEW t \in Tokens,
           ClaimReplyLost(d, batch, t)
    PROVE  IInv'
<1> USE DEF IInv
<1>1. dispatchers' = dispatchers /\ copies' = copies /\ Claimed(batch, t)
  BY DEF ClaimReplyLost
<1>2. \A e \in Events : events'[e] = IF e \in batch THEN ClaimedRow(events[e], t)
                                                   ELSE events[e]
  BY <1>1 DEF Claimed
<1>3. TypeOK'
  BY <1>1, RowsStayRows DEF Claimed, TypeOK
<1>4. HandsMatchPlace'
  BY <1>1 DEF HandsMatchPlace
<1>5. AttemptsDecideFate'
  BY <1>2 DEF AttemptsDecideFate, ClaimedRow, TypeOK, EventRows
<1>6. ClaimsCoverCopies'
  <2>1. \A e \in Events : Owing(e)' = Owing(e)
    BY <1>1 DEF Owing
  <2>2. \A e \in Events : /\ events[e].tentativas \in 0..AttemptCeiling
                          /\ \/ events'[e].tentativas = events[e].tentativas
                             \/ events'[e].tentativas = NextCount(events[e].tentativas)
    BY <1>2 DEF ClaimedRow, TypeOK, EventRows
  <2>3. \A e \in Events : /\ events'[e].tentativas >= events[e].tentativas
                          /\ events'[e].tentativas < AttemptCeiling =>
                                 events[e].tentativas < AttemptCeiling
    BY <2>2, CountsAreNat
  <2> QED
    BY <1>1, <1>3, <2>1, <2>3, NoNewDebt
<1> QED
  BY <1>3, <1>4, <1>5, <1>6

LEMMA PublishStep ==
    ASSUME IInv, NEW d \in Dispatchers, NEW e \in Events, Publish(d, e)
    PROVE  IInv'
<1> USE DEF IInv
<1>1. PICK answer \in {"published", "refused"}, taken \in BOOLEAN :
         PublishAs(d, e, answer, taken)
  BY DEF Publish
<1>2. /\ dispatchers[d].pc = "publish" /\ e \in dispatchers[d].todo
      /\ answer = "published" => taken
      /\ copies' = IF taken THEN [copies EXCEPT ![e] = NextCount(@)] ELSE copies
      /\ dispatchers' = [dispatchers EXCEPT ![d].pc = answer, ![d].event = e,
                                            ![d].todo = @ \ {e}]
      /\ events' = events
  BY <1>1 DEF PublishAs, At
<1>3. \A f \in Events : /\ copies[f] \in 0..AttemptCeiling
                        /\ copies'[f] \in 0..AttemptCeiling
                        /\ copies'[f] >= copies[f]
                        /\ copies'[f] <= copies[f] + (IF f = e THEN 1 ELSE 0)
                        /\ f = e /\ taken => copies'[f] > 0
  BY <1>2, CountsAreNat DEF TypeOK
<1>4. TypeOK'
  <2>1. copies' \in [Events -> 0..AttemptCeiling]
    BY <1>2, <1>3 DEF TypeOK
  <2>2. dispatchers' \in [Dispatchers -> DispatcherStates]
    BY <1>2 DEF TypeOK, DispatcherStates
  <2> QED
    BY <1>2, <2>1, <2>2 DEF TypeOK
<1>5. HandsMatchPlace'
  <2> SUFFICES ASSUME NEW c \in Dispatchers
               PROVE  LET me == dispatchers'[c] IN
                      /\ me.pc = "idle" => me = Idle
                      /\ me.pc # "idle" => me.token \in Tokens
                      /\ me.pc = "publish" => me.event = NoEvent
                      /\ me.pc \in {"published", "refused"} => me.event \in Events
                      /\ me.pc = "published" => copies'[me.event] > 0
    BY DEF HandsMatchPlace
  <2>1. CASE c = d
    <3>1. dispatchers[d] \in DispatcherStates
      BY DEF TypeOK
    <3>2. /\ dispatchers'[d].pc = answer /\ dispatchers'[d].event = e
          /\ dispatchers'[d].token = dispatchers[d].token
      BY <1>2, <3>1 DEF TypeOK, DispatcherStates
    <3>3. dispatchers[d].token \in Tokens
      BY <1>2 DEF HandsMatchPlace
    <3> QED
      BY <1>2, <1>3, <2>1, <3>2, <3>3
  <2>2. CASE c # d
    <3>1. dispatchers'[c] = dispatchers[c]
      BY <1>2, <2>2 DEF TypeOK
    <3>2. dispatchers[c].pc = "published" => copies'[dispatchers[c].event] > 0
      BY <1>3, CountsAreNat DEF HandsMatchPlace
    <3> QED
      BY <3>1, <3>2 DEF HandsMatchPlace
  <2> QED
    BY <2>1, <2>2
<1>6. AttemptsDecideFate'
  BY <1>2 DEF AttemptsDecideFate
<1>7. ClaimsCoverCopies'
  <2> SUFFICES ASSUME NEW f \in Events, events[f].tentativas < AttemptCeiling
               PROVE  copies'[f] + Cardinality(Owing(f)') <= events[f].tentativas
    BY <1>2 DEF ClaimsCoverCopies
  <2>1. /\ copies[f] \in Nat /\ copies'[f] \in Nat /\ events[f].tentativas \in Nat
        /\ Cardinality(Owing(f)) \in Nat
        /\ copies[f] + Cardinality(Owing(f)) <= events[f].tentativas
    BY <1>3, OwingIsFinite, CountsAreNat DEF TypeOK, EventRows, ClaimsCoverCopies
  <2>2. CASE f = e
    <3>1. Owing(f)' = Owing(f) \ {d} /\ d \in Owing(f)
      BY <1>2, <2>2 DEF Owing, TypeOK, DispatcherStates
    <3>2. Cardinality(Owing(f)') = Cardinality(Owing(f)) - 1
      BY <3>1, OwingIsFinite, FS_RemoveElement
    <3> QED
      BY <1>3, <2>1, <2>2, <3>2
  <2>3. CASE f # e
    <3>1. Owing(f)' = Owing(f)
      BY <1>2, <2>3 DEF Owing, TypeOK, DispatcherStates
    <3> QED
      BY <1>3, <2>1, <2>3, <3>1
  <2> QED
    BY <2>2, <2>3
<1> QED
  BY <1>4, <1>5, <1>6, <1>7

(* NextEvent, whatever happens to the rows.                                *)
LEMMA NextEventStep ==
    ASSUME IInv, NEW d \in Dispatchers, ~ At(d, "idle"), NextEvent(d), copies' = copies
    PROVE  /\ dispatchers' \in [Dispatchers -> DispatcherStates]
           /\ HandsMatchPlace'
           /\ \A e \in Events : Owing(e)' \subseteq Owing(e)
<1> USE DEF IInv
<1>1. dispatchers[d] \in DispatcherStates /\ dispatchers[d].token \in Tokens
  BY DEF TypeOK, HandsMatchPlace, At
<1>2. dispatchers'[d] \in {Idle, [dispatchers[d] EXCEPT !.pc = "publish", !.event = NoEvent]}
  BY DEF NextEvent, TypeOK
<1>3. \A c \in Dispatchers : c # d => dispatchers'[c] = dispatchers[c]
  BY DEF NextEvent, TypeOK
<1>4. dispatchers' \in [Dispatchers -> DispatcherStates]
  <2>1. Idle \in DispatcherStates
    BY DEF Idle, DispatcherStates
  <2>2. [dispatchers[d] EXCEPT !.pc = "publish", !.event = NoEvent] \in DispatcherStates
    BY <1>1 DEF DispatcherStates
  <2> QED
    BY <2>1, <2>2 DEF NextEvent, TypeOK
<1>5. /\ dispatchers'[d].pc \in {"idle", "publish"}
      /\ dispatchers'[d].pc = "idle" => dispatchers'[d] = Idle
      /\ dispatchers'[d].pc = "publish" => /\ dispatchers'[d].event = NoEvent
                                           /\ dispatchers'[d].token \in Tokens
      /\ dispatchers'[d].todo \subseteq dispatchers[d].todo
  <2>1. CASE dispatchers'[d] = Idle
    BY <2>1 DEF Idle
  <2>2. CASE dispatchers'[d] = [dispatchers[d] EXCEPT !.pc = "publish", !.event = NoEvent]
    <3> DEFINE me == [dispatchers[d] EXCEPT !.pc = "publish", !.event = NoEvent]
    <3>1. /\ me.pc = "publish" /\ me.event = NoEvent
          /\ me.token = dispatchers[d].token /\ me.todo = dispatchers[d].todo
      BY <1>1 DEF DispatcherStates
    <3> QED
      BY <1>1, <2>2, <3>1
  <2> QED
    BY <1>2, <2>1, <2>2
<1>6. HandsMatchPlace'
  BY <1>3, <1>5 DEF HandsMatchPlace
<1>7. \A e \in Events : Owing(e)' \subseteq Owing(e)
  BY <1>3, <1>5 DEF Owing
<1> QED
  BY <1>4, <1>6, <1>7

LEMMA MarkStep ==
    ASSUME IInv, NEW d \in Dispatchers, Mark(d)
    PROVE  IInv'
<1> USE DEF IInv
<1>1. /\ ~ At(d, "idle") /\ NextEvent(d) /\ copies' = copies
      /\ \/ events' = events
         \/ \E e \in Events :
               /\ events[e].status = "processing"
               /\ \/ events' = [events EXCEPT ![e] = PublishedRow(@)]
                  \/ events' = [events EXCEPT ![e] = RefusedRow(@)]
  BY DEF Mark, MarkOutboxEventPublished, MarkOutboxEventFailed, NotMarked, At, Owns
<1>2. /\ dispatchers' \in [Dispatchers -> DispatcherStates]
      /\ HandsMatchPlace'
      /\ \A e \in Events : Owing(e)' \subseteq Owing(e)
  BY <1>1, NextEventStep
<1>3. Tokens # {}
  BY <1>1 DEF HandsMatchPlace, At
<1>4. TypeOK'
  BY <1>1, <1>2, <1>3, RowsStayRows DEF TypeOK
<1>5. AttemptsDecideFate' /\ \A e \in Events : events'[e].tentativas = events[e].tentativas
  <2>1. CASE events' = events
    BY <2>1 DEF AttemptsDecideFate
  <2>2. ASSUME NEW e \in Events, NEW row,
               row \in {PublishedRow(events[e]), RefusedRow(events[e])},
               events' = [events EXCEPT ![e] = row]
        PROVE  AttemptsDecideFate' /\ \A f \in Events :
                                         events'[f].tentativas = events[f].tentativas
    <3>1. events[e] \in EventRows
      BY DEF TypeOK
    <3>2. /\ row.tentativas = events[e].tentativas
          /\ row.status = "pending" => events[e].tentativas < MaxAttempts
          /\ row.status = "failed" => events[e].tentativas >= MaxAttempts
      <4>1. CASE row = PublishedRow(events[e])
        BY <3>1, <4>1 DEF PublishedRow, EventRows
      <4>2. CASE row = RefusedRow(events[e])
        <5>1. events[e].tentativas \in Nat /\ MaxAttempts \in Nat
          BY <3>1, CountsAreNat DEF EventRows
        <5> QED
          BY <3>1, <4>2, <5>1 DEF RefusedRow, Exhausted, EventRows
      <4> QED
        BY <2>2, <4>1, <4>2
    <3>3. \A f \in Events : events'[f] = IF f = e THEN row ELSE events[f]
      BY <2>2 DEF TypeOK
    <3> QED
      BY <3>2, <3>3 DEF AttemptsDecideFate
  <2> QED
    BY <1>1, <2>1, <2>2 DEF TypeOK
<1>6. ClaimsCoverCopies'
  <2>1. \A e \in Events : events[e].tentativas \in Nat
    BY CountsAreNat DEF TypeOK, EventRows
  <2> QED
    BY <1>1, <1>2, <1>4, <1>5, <2>1, NoNewDebt
<1> QED
  BY <1>2, <1>4, <1>5, <1>6

LEMMA CrashStep ==
    ASSUME IInv, NEW d \in Dispatchers, Crash(d)
    PROVE  IInv'
<1> USE DEF IInv
<1>1. dispatchers' = [dispatchers EXCEPT ![d] = Idle] /\ UNCHANGED <<events, copies>>
  BY DEF Crash
<1>2. TypeOK'
  <2>1. Idle \in DispatcherStates
    BY DEF Idle, DispatcherStates
  <2> QED
    BY <1>1, <2>1 DEF TypeOK
<1>3. HandsMatchPlace' /\ AttemptsDecideFate'
  BY <1>1 DEF HandsMatchPlace, AttemptsDecideFate, TypeOK, Idle
<1>4. \A e \in Events : Owing(e)' \subseteq Owing(e) /\ events[e].tentativas \in Nat
  BY <1>1, CountsAreNat DEF Owing, Idle, TypeOK, EventRows
<1> QED
  BY <1>1, <1>2, <1>3, <1>4, NoNewDebt

LEMMA ClockStep ==
    ASSUME IInv, NEW e \in Events, LockExpires(e) \/ RetryComesDue(e)
    PROVE  IInv'
<1> USE DEF IInv
<1>1. /\ UNCHANGED <<copies, dispatchers>>
      /\ \/ events' = [events EXCEPT ![e].lock = "expired"]
         \/ events' = [events EXCEPT ![e].due = TRUE]
  BY DEF LockExpires, RetryComesDue
<1>2. TypeOK'
  <2>1. /\ [events[e] EXCEPT !.lock = "expired"] \in EventRows
        /\ [events[e] EXCEPT !.due = TRUE] \in EventRows
    BY DEF TypeOK, EventRows
  <2> QED
    BY <1>1, <2>1 DEF TypeOK
<1>3. \A f \in Events : /\ events'[f].status = events[f].status
                        /\ events'[f].tentativas = events[f].tentativas
                        /\ events[f].tentativas \in Nat
  BY <1>1, CountsAreNat DEF TypeOK, EventRows
<1>4. HandsMatchPlace' /\ AttemptsDecideFate'
  BY <1>1, <1>3 DEF HandsMatchPlace, AttemptsDecideFate
<1>5. \A f \in Events : Owing(f)' = Owing(f)
  BY <1>1 DEF Owing
<1> QED
  BY <1>1, <1>2, <1>3, <1>4, <1>5, NoNewDebt

LEMMA OutboxStep == IInv /\ [Next]_vars => IInv'
<1> SUFFICES ASSUME IInv, [Next]_vars
             PROVE  IInv'
  OBVIOUS
<1>1. CASE UNCHANGED vars
  BY <1>1 DEF vars, IInv, TypeOK, HandsMatchPlace, AttemptsDecideFate, ClaimsCoverCopies,
              Owing
<1>2. CASE Next
  BY <1>2, ClaimStep, ClaimReplyLostStep, PublishStep, MarkStep, CrashStep, ClockStep
     DEF Next, ClaimAny, Work
<1> QED
  BY <1>1, <1>2

LEMMA OutboxSafety == Spec => []IInv
  BY OutboxInit, OutboxStep, PTL DEF Spec

-------------------------------------------------------------------------------
(* TypeOK holds in every reachable state.                                  *)
THEOREM OutboxTypeCorrect == Spec => []TypeOK
  BY OutboxSafety, PTL DEF IInv

(* An event that is pending again has attempts left, and one that has      *)
(* failed has none.                                                        *)
THEOREM FateFollowsAttempts == Spec => []AttemptsDecideFate
  BY OutboxSafety, PTL DEF IInv

(* The copies of an event never outnumber its attempts.                    *)
THEOREM OneCopyPerClaim == Spec => []AtMostOneCopyPerClaim
<1>1. IInv => AtMostOneCopyPerClaim
  <2> SUFFICES ASSUME IInv, NEW e \in Events
               PROVE  copies[e] <= events[e].tentativas
    BY DEF AtMostOneCopyPerClaim
  <2>1. /\ copies[e] \in 0..AttemptCeiling /\ events[e].tentativas \in 0..AttemptCeiling
        /\ Cardinality(Owing(e)) \in Nat
    BY OwingIsFinite DEF IInv, TypeOK, EventRows
  <2> QED
    BY <2>1, CountsAreNat DEF IInv, ClaimsCoverCopies
<1> QED
  BY <1>1, OutboxSafety, PTL

-------------------------------------------------------------------------------
(* What a step makes of one row: nothing, or what one of the statements or *)
(* the clock makes of it.                                                  *)
Taken(e)  == /\ Available(events[e])
             /\ \E t \in Tokens : events'[e] = ClaimedRow(events[e], t)

Settled(e) == \E d \in Dispatchers :
                /\ Owns(d) /\ dispatchers[d].event = e
                /\ \/ At(d, "published") /\ events'[e] = PublishedRow(events[e])
                   \/ At(d, "refused") /\ events'[e] = RefusedRow(events[e])

Aged(e) == \/ events'[e] = [events[e] EXCEPT !.lock = "expired"]
           \/ ~ events[e].due /\ events'[e] = [events[e] EXCEPT !.due = TRUE]

LEMMA RowSteps ==
    ASSUME IInv, [Next]_vars, NEW e \in Events
    PROVE  events'[e] = events[e] \/ Taken(e) \/ Settled(e) \/ Aged(e)
<1> USE DEF IInv, TypeOK
<1>1. CASE UNCHANGED vars
  BY <1>1 DEF vars
<1>2. ASSUME NEW d \in Dispatchers, NEW batch \in SUBSET Events, NEW t \in Tokens,
             ClaimPendingOutboxEvents(d, batch, t) \/ ClaimReplyLost(d, batch, t)
      PROVE  events'[e] = events[e] \/ Taken(e)
  BY <1>2 DEF ClaimPendingOutboxEvents, ClaimReplyLost, Claimed, Taken
<1>3. ASSUME NEW d \in Dispatchers, NEW f \in Events, Publish(d, f)
      PROVE  events'[e] = events[e]
  BY <1>3 DEF Publish, PublishAs
<1>4. ASSUME NEW d \in Dispatchers, Mark(d)
      PROVE  events'[e] = events[e] \/ Settled(e)
  <2>1. CASE NotMarked(d)
    BY <2>1 DEF NotMarked
  <2>2. CASE MarkOutboxEventPublished(d)
    BY <2>2 DEF MarkOutboxEventPublished, Settled, Owns
  <2>3. CASE MarkOutboxEventFailed(d)
    BY <2>3 DEF MarkOutboxEventFailed, Settled, Owns
  <2> QED
    BY <1>4, <2>1, <2>2, <2>3 DEF Mark
<1>5. ASSUME NEW d \in Dispatchers, Crash(d)
      PROVE  events'[e] = events[e]
  BY <1>5 DEF Crash
<1>6. ASSUME NEW f \in Events, LockExpires(f) \/ RetryComesDue(f)
      PROVE  events'[e] = events[e] \/ Aged(e)
  BY <1>6 DEF LockExpires, RetryComesDue, Aged
<1> QED
  BY <1>1, <1>2, <1>3, <1>4, <1>5, <1>6 DEF Next, ClaimAny, Work

-------------------------------------------------------------------------------
(* Only a due row is claimed, and only a refusal makes it wait again.      *)
WorkedOnIsDue == \A e \in Events : events[e].status = "processing" => events[e].due

LEMMA WorkedOnStep ==
    ASSUME IInv, WorkedOnIsDue, [Next]_vars
    PROVE  WorkedOnIsDue'
<1> SUFFICES ASSUME NEW e \in Events, events'[e].status = "processing"
             PROVE  events'[e].due
  BY DEF WorkedOnIsDue
<1>1. events[e] \in EventRows
  BY DEF IInv, TypeOK
<1>2. CASE events'[e] = events[e]
  BY <1>2 DEF WorkedOnIsDue
<1>3. CASE Taken(e)
  BY <1>1, <1>3 DEF Taken, Available, ClaimedRow, WorkedOnIsDue, EventRows
<1>4. CASE Settled(e)
  <2>1. events'[e] \in {PublishedRow(events[e]), RefusedRow(events[e])}
    BY <1>4 DEF Settled
  <2>2. events'[e].status # "processing"
    BY <1>1, <2>1 DEF PublishedRow, RefusedRow, EventRows
  <2> QED
    BY <2>2
<1>5. CASE Aged(e)
  BY <1>1, <1>5 DEF Aged, WorkedOnIsDue, EventRows
<1> QED
  BY <1>2, <1>3, <1>4, <1>5, RowSteps

LEMMA WorkedOnSafety == Spec => [](IInv /\ WorkedOnIsDue)
<1>1. Init => WorkedOnIsDue
  BY DEF Init, WorkedOnIsDue, NewEvent
<1> QED
  BY <1>1, WorkedOnStep, OutboxSafety, PTL DEF Spec

(* An event in 'processing' changes only by its dispatcher, by the clock,  *)
(* or by a takeover after its lock has expired.                            *)
THEOREM LocksAreRespected == Spec => LockIsRespected
<1> DEFINE Respected(e) ==
      events[e].status = "processing" /\ events'[e] # events[e] =>
          \/ \E d \in Dispatchers : /\ dispatchers[d].event = e
                                    /\ dispatchers[d].token = events[e].token
          \/ events[e].lock = "expired" /\ events'[e].status = "processing"
          \/ events'[e] = [events[e] EXCEPT !.lock = "expired"]
<1>1. ASSUME IInv, WorkedOnIsDue, [Next]_vars, NEW e \in Events
      PROVE  Respected(e)
  <2>1. events[e] \in EventRows
    BY <1>1 DEF IInv, TypeOK
  <2>2. CASE Taken(e)
    BY <2>1, <2>2 DEF Taken, Available, ClaimedRow, EventRows
  <2>3. CASE Settled(e)
    BY <2>3 DEF Settled, Owns
  <2>4. CASE Aged(e)
    BY <1>1, <2>4 DEF Aged, WorkedOnIsDue
  <2> QED
    BY <1>1, <2>2, <2>3, <2>4, RowSteps
<1>2. IInv /\ WorkedOnIsDue /\ [Next]_vars => [\A e \in Events : Respected(e)]_vars
  BY <1>1
<1> QED
  BY <1>2, WorkedOnSafety, PTL DEF Spec, LockIsRespected

-------------------------------------------------------------------------------
(* Refinement: each step is a step of Relay or leaves fate and copies.     *)
FateBar == [e \in Events |-> Fate(e)]

LEMMA FateSteps ==
    ASSUME IInv, [Next]_vars, NEW e \in Events
    PROVE  \/ Fate(e)' = Fate(e)
           \/ Fate(e) = "open" /\ Fate(e)' = "failed"
           \/ Fate(e) = "open" /\ Fate(e)' = "published" /\ copies[e] > 0
<1>1. events[e] \in EventRows
  BY DEF IInv, TypeOK
<1>2. CASE events'[e] = events[e]
  BY <1>2 DEF Fate
<1>3. CASE Taken(e)
  BY <1>1, <1>3 DEF Taken, Available, ClaimedRow, Fate, EventRows
<1>4. CASE Settled(e)
  <2>1. PICK d \in Dispatchers :
           /\ Owns(d) /\ dispatchers[d].event = e
           /\ \/ At(d, "published") /\ events'[e] = PublishedRow(events[e])
              \/ At(d, "refused") /\ events'[e] = RefusedRow(events[e])
    BY <1>4 DEF Settled
  <2>2. Fate(e) = "open"
    BY <2>1 DEF Owns, Fate
  <2>3. CASE At(d, "published") /\ events'[e] = PublishedRow(events[e])
    <3>1. copies[e] > 0
      BY <2>1, <2>3 DEF IInv, HandsMatchPlace, At
    <3>2. events'[e].status = "published"
      BY <1>1, <2>3 DEF PublishedRow, EventRows
    <3> QED
      BY <2>2, <3>1, <3>2 DEF Fate
  <2>4. CASE events'[e] = RefusedRow(events[e])
    <3>1. events'[e].status \in {"failed", "pending"}
      BY <1>1, <2>4 DEF RefusedRow, EventRows
    <3> QED
      BY <2>2, <3>1 DEF Fate
  <2> QED
    BY <2>1, <2>3, <2>4
<1>5. CASE Aged(e)
  BY <1>1, <1>5 DEF Aged, Fate, EventRows
<1> QED
  BY <1>2, <1>3, <1>4, <1>5, RowSteps

(* A step changes the row of at most one event that is not being claimed.  *)
LEMMA OneFateChanges ==
    ASSUME IInv, [Next]_vars, NEW e \in Events, Fate(e)' # Fate(e)
    PROVE  /\ copies' = copies
           /\ \A f \in Events : f # e => Fate(f)' = Fate(f)
<1> USE DEF IInv, TypeOK
<1>1. ASSUME NEW d \in Dispatchers, NEW batch \in SUBSET Events, NEW t \in Tokens,
             ClaimPendingOutboxEvents(d, batch, t) \/ ClaimReplyLost(d, batch, t)
      PROVE  FALSE
  <2>1. events'[e] = events[e] \/ Taken(e)
    BY <1>1 DEF ClaimPendingOutboxEvents, ClaimReplyLost, Claimed, Taken
  <2>2. Fate(e)' = Fate(e)
    BY <2>1 DEF Taken, Available, ClaimedRow, Fate, EventRows
  <2> QED
    BY <2>2
<1>2. ASSUME NEW d \in Dispatchers, Mark(d)
      PROVE  /\ copies' = copies
             /\ \A f \in Events : f # e => events'[f] = events[f]
  <2>1. copies' = copies
    BY <1>2 DEF Mark, NotMarked, MarkOutboxEventPublished, MarkOutboxEventFailed
  <2>2. CASE NotMarked(d)
    BY <2>2 DEF NotMarked, Fate
  <2>3. ASSUME NEW g \in Events, \A f \in Events : f # g => events'[f] = events[f]
        PROVE  \A f \in Events : f # e => events'[f] = events[f]
    <3>1. events'[e] # events[e]
      BY DEF Fate
    <3>2. e = g
      BY <2>3, <3>1
    <3> QED
      BY <2>3, <3>2
  <2>4. CASE MarkOutboxEventPublished(d) \/ MarkOutboxEventFailed(d)
    <3> DEFINE g == dispatchers[d].event
    <3>1. g \in Events
      BY <2>4 DEF MarkOutboxEventPublished, MarkOutboxEventFailed, Owns
    <3>2. \A f \in Events : f # g => events'[f] = events[f]
      BY <2>4, <3>1 DEF MarkOutboxEventPublished, MarkOutboxEventFailed
    <3> HIDE DEF g
    <3> QED
      BY <2>1, <2>3, <3>1, <3>2
  <2> QED
    BY <1>2, <2>1, <2>2, <2>4 DEF Mark
<1>3. ASSUME NEW d \in Dispatchers, NEW f \in Events, Publish(d, f)
      PROVE  FALSE
  BY <1>3 DEF Publish, PublishAs, Fate
<1>4. ASSUME NEW d \in Dispatchers, Crash(d)
      PROVE  FALSE
  BY <1>4 DEF Crash, Fate
<1>5. ASSUME NEW f \in Events, LockExpires(f) \/ RetryComesDue(f)
      PROVE  FALSE
  <2>1. events'[e] = events[e] \/ Aged(e)
    BY <1>5 DEF LockExpires, RetryComesDue, Aged
  <2>2. Fate(e)' = Fate(e)
    BY <2>1 DEF Aged, Fate, EventRows
  <2> QED
    BY <2>2
<1>6. CASE UNCHANGED vars
  BY <1>6 DEF vars, Fate
<1>7. CASE \E d \in Dispatchers : Mark(d)
  BY <1>2, <1>7 DEF Fate
<1> QED
  BY <1>1, <1>3, <1>4, <1>5, <1>6, <1>7 DEF Next, ClaimAny, Work

LEMMA CopiesStep ==
    ASSUME IInv, [Next]_vars
    PROVE  \/ copies' = copies
           \/ \E e \in Events : /\ e \notin Poison
                                /\ copies' = [copies EXCEPT ![e] = NextCount(@)]
<1>1. ASSUME NEW d \in Dispatchers, NEW e \in Events, Publish(d, e)
      PROVE  \/ copies' = copies
             \/ e \notin Poison /\ copies' = [copies EXCEPT ![e] = NextCount(@)]
  <2>1. PICK answer \in {"published", "refused"}, taken \in BOOLEAN :
           PublishAs(d, e, answer, taken)
    BY <1>1 DEF Publish
  <2> QED
    BY <2>1 DEF PublishAs
<1>2. ASSUME NEW d \in Dispatchers, Mark(d) \/ Crash(d)
      PROVE  copies' = copies
  BY <1>2 DEF Mark, MarkOutboxEventPublished, MarkOutboxEventFailed, NotMarked, Crash
<1>3. ASSUME NEW d \in Dispatchers, NEW batch \in SUBSET Events, NEW t \in Tokens,
             ClaimPendingOutboxEvents(d, batch, t) \/ ClaimReplyLost(d, batch, t)
      PROVE  copies' = copies
  BY <1>3 DEF ClaimPendingOutboxEvents, ClaimReplyLost
<1>4. ASSUME NEW e \in Events, LockExpires(e) \/ RetryComesDue(e)
      PROVE  copies' = copies
  BY <1>4 DEF LockExpires, RetryComesDue
<1>5. CASE UNCHANGED vars
  BY <1>5 DEF vars
<1> QED
  BY <1>1, <1>2, <1>3, <1>4, <1>5 DEF Next, ClaimAny, Work

LEMMA RelayStep ==
    ASSUME IInv, [Next]_vars
    PROVE  [Abstract!Next]_(Abstract!vars)
<1>1. CASE \E e \in Events : Fate(e)' # Fate(e)
  <2>1. PICK e \in Events : Fate(e)' # Fate(e)
    BY <1>1
  <2>2. copies' = copies /\ \A f \in Events : f # e => Fate(f)' = Fate(f)
    BY <2>1, OneFateChanges
  <2>3. FateBar' = [FateBar EXCEPT ![e] = Fate(e)']
    BY <2>2 DEF FateBar
  <2>4. \/ FateBar[e] = "open" /\ Fate(e)' = "failed"
        \/ FateBar[e] = "open" /\ Fate(e)' = "published" /\ copies[e] > 0
    BY <2>1, FateSteps DEF FateBar
  <2>5. Abstract!GiveUp(e) \/ Abstract!Publish(e)
    BY <2>2, <2>3, <2>4 DEF Abstract!GiveUp, Abstract!Publish, FateBar
  <2> QED
    BY <2>5 DEF Abstract!Next
<1>2. CASE \A e \in Events : Fate(e)' = Fate(e)
  <2>1. FateBar' = FateBar
    BY <1>2 DEF FateBar
  <2>2. CASE copies' = copies
    BY <2>1, <2>2 DEF Abstract!vars, FateBar
  <2>3. CASE \E e \in Events : /\ e \notin Poison
                               /\ copies' = [copies EXCEPT ![e] = NextCount(@)]
    <3>1. PICK e \in Events : /\ e \notin Poison
                             /\ copies' = [copies EXCEPT ![e] = NextCount(@)]
      BY <2>3
    <3>2. Abstract!Deliver(e)
      BY <2>1, <3>1 DEF Abstract!Deliver, NextCount, FateBar
    <3> QED
      BY <3>2 DEF Abstract!Next
  <2> QED
    BY <2>2, <2>3, CopiesStep
<1> QED
  BY <1>1, <1>2

(* The table and its dispatchers implement Relay: delivered before it is   *)
(* called published, and settled for good.                                 *)
THEOREM OutboxImplementsRelay == Spec => RelaySpec
<1>1. Init => Abstract!Init
  BY DEF Init, Abstract!Init, Fate, NewEvent
<1> QED
  BY <1>1, RelayStep, OutboxSafety, PTL DEF Spec, RelaySpec, Abstract!Spec

-------------------------------------------------------------------------------
(* Without "slow": what a dispatcher has in hand is locked under its token, *)
(* which no other dispatcher has, and the event it is at is off its list.   *)
HandsAreLocked ==
    \A d \in Dispatchers : \A e \in InHand(d) :
        /\ events[e].status = "processing"
        /\ events[e].lock = "live"
        /\ events[e].token = dispatchers[d].token

TokensDiffer ==
    \A c, d \in Dispatchers :
        c # d /\ dispatchers[c].token = dispatchers[d].token =>
            dispatchers[c].token = NoToken

OneAtATime == \A d \in Dispatchers : dispatchers[d].event \notin dispatchers[d].todo

Locked == HandsAreLocked /\ TokensDiffer /\ OneAtATime

LEMMA HandsAreEvents ==
    ASSUME TypeOK, HandsMatchPlace, NEW d \in Dispatchers
    PROVE  /\ InHand(d) \subseteq Events
           /\ NoEvent \notin InHand(d)
           /\ \A e \in InHand(d) : dispatchers[d].token \in Tokens
<1>1. dispatchers[d] \in DispatcherStates
  BY DEF TypeOK
<1>2. dispatchers[d].pc = "idle" => InHand(d) = {}
  BY DEF HandsMatchPlace, Idle, InHand
<1> QED
  BY <1>1, <1>2, OutboxAssumption DEF HandsMatchPlace, InHand, DispatcherStates

LEMMA LockedMeansApart ==
    ASSUME TypeOK, HandsMatchPlace, Locked
    PROVE  NoDoubleDispatch
<1> SUFFICES ASSUME NEW c \in Dispatchers, NEW d \in Dispatchers, c # d,
                    NEW e \in InHand(c), e \in InHand(d)
             PROVE  FALSE
  BY DEF NoDoubleDispatch
<1>1. dispatchers[c].token \in Tokens
  BY HandsAreEvents
<1>2. dispatchers[c].token = dispatchers[d].token
  BY DEF Locked, HandsAreLocked
<1> QED
  BY <1>1, <1>2, OutboxAssumption DEF Locked, TokensDiffer

(* A claim takes nothing that is in hand, under a token nobody has.         *)
LEMMA ClaimSparesHands ==
    ASSUME IInv, Locked, NEW batch \in SUBSET Events, NEW t \in Tokens, Claimed(batch, t)
    PROVE  /\ \A c \in Dispatchers : \A e \in InHand(c) : events'[e] = events[e]
           /\ \A e \in batch : events'[e] = ClaimedRow(events[e], t)
           /\ \A c \in Dispatchers : dispatchers[c].token # t
<1>1. ASSUME NEW c \in Dispatchers, NEW e \in InHand(c)
      PROVE  events'[e] = events[e]
  <2>1. e \in Events
    BY HandsAreEvents DEF IInv
  <2>2. ~ Available(events[e])
    BY DEF Locked, HandsAreLocked, Available
  <2> QED
    BY <2>1, <2>2 DEF Claimed
<1> QED
  BY <1>1 DEF Claimed, Fresh

LEMMA LockedClaim ==
    ASSUME IInv, Locked, NEW d \in Dispatchers, NEW batch \in SUBSET Events,
           NEW t \in Tokens, ClaimPendingOutboxEvents(d, batch, t)
    PROVE  Locked'
<1>1. /\ dispatchers' = [dispatchers EXCEPT ![d] =
            [pc |-> "publish", token |-> t, todo |-> batch, event |-> NoEvent]]
      /\ Claimed(batch, t)
  BY DEF ClaimPendingOutboxEvents
<1>2. /\ dispatchers'[d] = [pc |-> "publish", token |-> t, todo |-> batch, event |-> NoEvent]
      /\ \A c \in Dispatchers : c # d => dispatchers'[c] = dispatchers[c]
  BY <1>1 DEF IInv, TypeOK
<1>3. HandsAreLocked'
  <2> SUFFICES ASSUME NEW c \in Dispatchers, NEW e \in InHand(c)'
               PROVE  /\ events'[e].status = "processing"
                      /\ events'[e].lock = "live"
                      /\ events'[e].token = dispatchers'[c].token
    BY DEF HandsAreLocked
  <2>1. CASE c = d
    <3>1. e \in batch /\ e \in Events
      BY <1>2, <2>1 DEF InHand
    <3>2. events'[e] = ClaimedRow(events[e], t) /\ events[e] \in EventRows
      BY <1>1, <3>1, ClaimSparesHands DEF IInv, TypeOK
    <3> QED
      BY <1>2, <2>1, <3>2 DEF ClaimedRow, EventRows
  <2>2. CASE c # d
    <3>1. e \in InHand(c)
      BY <1>2, <2>2 DEF InHand
    <3> QED
      BY <1>1, <1>2, <2>2, <3>1, ClaimSparesHands DEF Locked, HandsAreLocked
  <2> QED
    BY <2>1, <2>2
<1>4. TokensDiffer'
  BY <1>1, <1>2, ClaimSparesHands DEF Locked, TokensDiffer
<1>5. OneAtATime'
  BY <1>2, OutboxAssumption DEF Locked, OneAtATime
<1> QED
  BY <1>3, <1>4, <1>5 DEF Locked

(* A dispatcher whose hands do not grow, and rows that keep their lock.     *)
LEMMA LockedKept ==
    ASSUME IInv, Locked, NEW d \in Dispatchers,
           \A c \in Dispatchers : c # d => dispatchers'[c] = dispatchers[c],
           InHand(d)' \subseteq InHand(d),
           dispatchers'[d].token = dispatchers[d].token \/ dispatchers'[d] = Idle,
           dispatchers'[d].event \notin dispatchers'[d].todo,
           \A c \in Dispatchers : \A e \in InHand(c) \cap InHand(c)' :
               /\ events'[e].status = events[e].status
               /\ events'[e].lock = events[e].lock
               /\ events'[e].token = events[e].token
    PROVE  Locked'
<1>1. HandsAreLocked'
  <2> SUFFICES ASSUME NEW c \in Dispatchers, NEW e \in InHand(c)'
               PROVE  /\ events'[e].status = "processing"
                      /\ events'[e].lock = "live"
                      /\ events'[e].token = dispatchers'[c].token
    BY DEF HandsAreLocked
  <2>1. e \in InHand(c)
    <3>1. CASE c = d
      BY <3>1
    <3>2. CASE c # d
      BY <3>2 DEF InHand
    <3> QED
      BY <3>1, <3>2
  <2>2. dispatchers'[c].token = dispatchers[c].token
    <3>1. dispatchers'[c] # Idle
      BY DEF InHand, Idle
    <3> QED
      BY <3>1
  <2> QED
    BY <2>1, <2>2 DEF Locked, HandsAreLocked
<1>2. TokensDiffer'
  BY DEF Locked, TokensDiffer, Idle
<1>3. OneAtATime'
  BY DEF Locked, OneAtATime
<1> QED
  BY <1>1, <1>2, <1>3 DEF Locked

LEMMA LockedStep ==
    ASSUME IInv, Locked, [Next]_vars, "slow" \notin Faults
    PROVE  Locked'
<1> USE DEF IInv, TypeOK
<1>1. CASE UNCHANGED vars
  BY <1>1 DEF vars, Locked, HandsAreLocked, TokensDiffer, OneAtATime, InHand
<1>2. ASSUME NEW d \in Dispatchers, NEW batch \in SUBSET Events, NEW t \in Tokens,
             ClaimPendingOutboxEvents(d, batch, t)
      PROVE  Locked'
  BY <1>2, LockedClaim
<1>3. ASSUME NEW d \in Dispatchers, NEW batch \in SUBSET Events, NEW t \in Tokens,
             ClaimReplyLost(d, batch, t)
      PROVE  Locked'
  <2>1. dispatchers' = dispatchers /\ Claimed(batch, t)
    BY <1>3 DEF ClaimReplyLost
  <2>2. \A c \in Dispatchers : InHand(c)' = InHand(c)
    BY <2>1 DEF InHand
  <2> QED
    BY <2>1, <2>2, ClaimSparesHands DEF Locked, HandsAreLocked, TokensDiffer, OneAtATime
<1>4. ASSUME NEW d \in Dispatchers, NEW e \in Events, Publish(d, e)
      PROVE  Locked'
  <2>1. PICK answer \in {"published", "refused"}, taken \in BOOLEAN :
           PublishAs(d, e, answer, taken)
    BY <1>4 DEF Publish
  <2>2. /\ events' = events
        /\ e \in dispatchers[d].todo
        /\ dispatchers' = [dispatchers EXCEPT ![d].pc = answer,
                                              ![d].event = e,
                                              ![d].todo = @ \ {e}]
    BY <2>1 DEF PublishAs
  <2>3. /\ dispatchers'[d].event = e
        /\ dispatchers'[d].todo = dispatchers[d].todo \ {e}
        /\ dispatchers'[d].token = dispatchers[d].token
        /\ \A c \in Dispatchers : c # d => dispatchers'[c] = dispatchers[c]
    BY <2>2 DEF DispatcherStates
  <2>4. InHand(d)' \subseteq InHand(d)
    BY <2>2, <2>3 DEF InHand
  <2> QED
    BY <2>2, <2>3, <2>4, LockedKept
<1>5. ASSUME NEW d \in Dispatchers, NextEvent(d)
      PROVE  /\ \A c \in Dispatchers : c # d => dispatchers'[c] = dispatchers[c]
             /\ InHand(d)' = dispatchers[d].todo
             /\ dispatchers'[d].token = dispatchers[d].token \/ dispatchers'[d] = Idle
             /\ dispatchers'[d].event = NoEvent
  <2>1. dispatchers'[d] = IF dispatchers[d].todo = {} THEN Idle
                          ELSE [dispatchers[d] EXCEPT !.pc = "publish", !.event = NoEvent]
    BY <1>5 DEF NextEvent
  <2>2. CASE dispatchers[d].todo = {}
    BY <1>5, <2>1, <2>2 DEF NextEvent, Idle, InHand
  <2>3. CASE dispatchers[d].todo # {}
    <3>1. /\ dispatchers'[d].event = NoEvent
          /\ dispatchers'[d].todo = dispatchers[d].todo
          /\ dispatchers'[d].token = dispatchers[d].token
      BY <2>1, <2>3 DEF DispatcherStates
    <3> QED
      BY <1>5, <3>1 DEF NextEvent, InHand
  <2> QED
    BY <2>2, <2>3
<1>6. ASSUME NEW d \in Dispatchers, Mark(d)
      PROVE  Locked'
  <2>1. NextEvent(d)
    BY <1>6 DEF Mark, NotMarked, MarkOutboxEventPublished, MarkOutboxEventFailed
  <2>2. InHand(d)' \subseteq InHand(d) /\ NoEvent \notin InHand(d)'
    BY <1>5, <2>1, OutboxAssumption DEF InHand, DispatcherStates
  <2>3. ASSUME NEW c \in Dispatchers, NEW e \in InHand(c) \cap InHand(c)'
        PROVE  events'[e] = events[e]
    <3>1. e # dispatchers[d].event
      <4>1. CASE c = d
        BY <1>5, <2>1, <4>1 DEF Locked, OneAtATime
      <4>2. CASE c # d
        <5>1. e \notin InHand(d) /\ e # NoEvent
          BY <4>2, LockedMeansApart, HandsAreEvents DEF NoDoubleDispatch
        <5> QED
          BY <5>1 DEF InHand
      <4> QED
        BY <4>1, <4>2
    <3>2. e \in Events
      BY HandsAreEvents
    <3>3. CASE NotMarked(d)
      BY <3>3 DEF NotMarked
    <3>4. CASE MarkOutboxEventPublished(d) \/ MarkOutboxEventFailed(d)
      BY <3>1, <3>2, <3>4 DEF MarkOutboxEventPublished, MarkOutboxEventFailed
    <3> QED
      BY <1>6, <3>3, <3>4 DEF Mark
  <2>4. NoEvent \notin dispatchers'[d].todo
    BY <2>2 DEF InHand
  <2> QED
    BY <1>5, <2>1, <2>2, <2>3, <2>4, LockedKept
<1>7. ASSUME NEW d \in Dispatchers, Crash(d)
      PROVE  Locked'
  <2>1. /\ events' = events
        /\ dispatchers'[d] = Idle
        /\ \A c \in Dispatchers : c # d => dispatchers'[c] = dispatchers[c]
    BY <1>7 DEF Crash
  <2>2. InHand(d)' = {} /\ dispatchers'[d].todo = {}
    BY <2>1 DEF InHand, Idle
  <2> QED
    BY <2>1, <2>2, LockedKept
<1>8. ASSUME NEW f \in Events, LockExpires(f) \/ RetryComesDue(f)
      PROVE  Locked'
  <2>1. dispatchers' = dispatchers
    BY <1>8 DEF LockExpires, RetryComesDue
  <2>2. \A c \in Dispatchers : InHand(c)' = InHand(c)
    BY <2>1 DEF InHand
  <2>3. ASSUME NEW c \in Dispatchers, NEW e \in InHand(c)
        PROVE  /\ events'[e].status = events[e].status
               /\ events'[e].lock = events[e].lock
               /\ events'[e].token = events[e].token
    <3>1. events[e] \in EventRows /\ e \in Events
      BY HandsAreEvents
    <3>2. CASE LockExpires(f)
      <4>1. e # f
        BY <3>2 DEF LockExpires, Locked, HandsAreLocked
      <4> QED
        BY <3>2, <4>1 DEF LockExpires
    <3>3. CASE RetryComesDue(f)
      BY <3>1, <3>3 DEF RetryComesDue, EventRows
    <3> QED
      BY <1>8, <3>2, <3>3
  <2> QED
    BY <2>1, <2>2, <2>3 DEF Locked, HandsAreLocked, TokensDiffer, OneAtATime
<1> QED
  BY <1>1, <1>2, <1>3, <1>4, <1>6, <1>7, <1>8 DEF Next, ClaimAny, Work

(* As long as every batch fits in its lock (module Timing says when), no    *)
(* two dispatchers have the same event in hand.                             *)
THEOREM NobodyDispatchesTwice ==
    ASSUME "slow" \notin Faults
    PROVE  Spec => []NoDoubleDispatch
<1>1. Init => Locked
  BY DEF Init, Locked, HandsAreLocked, TokensDiffer, OneAtATime, InHand, Idle
<1>2. IInv /\ Locked /\ [Next]_vars => Locked'
  BY LockedStep
<1>3. IInv /\ Locked => NoDoubleDispatch
  BY LockedMeansApart DEF IInv
<1> QED
  BY <1>1, <1>2, <1>3, OutboxSafety, PTL DEF Spec

===============================================================================
