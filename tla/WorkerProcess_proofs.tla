------------------------ MODULE WorkerProcess_proofs ------------------------
(***************************************************************************)
(* What holds of a process of the worker for any number of messages,       *)
(* goroutines, loops and starts, and for any prefetch window: no delivery  *)
(* is forgotten or handled twice, nothing is closed under its users, and   *)
(* the process does not end by itself with status 0.                       *)
(***************************************************************************)
EXTENDS WorkerProcess, FiniteSetTheorems, SequenceTheorems, TLAPS

(* Outside main's errgroup nothing runs, and before its clients connect    *)
(* and after they are closed nothing is open.                              *)
Stopped ==
    /\ main # "waiting" => /\ feeder.pc = "done" /\ watcher = "done"
                           /\ \A l \in Loops : loops[l] = "done"
    /\ main \in {"starting", "exited"} => channel = "closed" /\ buffer = <<>>

(* The broker takes everything back when the channel closes, and Run does  *)
(* not return before its goroutines.                                       *)
Drained == /\ channel = "closed" => unacked = {}
           /\ feeder.pc = "done" => \A g \in Goroutines : pool[g].pc = "done"

(* Why Run ends: the context is done, or it has an error to return, which  *)
(* the errgroup makes the end of the context.                              *)
Reasons ==
    /\ cancelled => failed \/ signalled
    /\ main \in {"waiting", "closing"} =>
          /\ feeder.pc = "wait" => cancelled \/ feeder.error
          /\ feeder.pc = "done" => cancelled

InOnePlace ==
    /\ queue \cup unacked \cup acked = Messages
    /\ queue \cap unacked = {} /\ queue \cap acked = {} /\ unacked \cap acked = {}

Handling == {g \in Goroutines : pool[g].pc = "handling"}

HandsAreFull ==
    \A g \in Goroutines : pool[g].pc = "handling" <=> pool[g].message # None

(* While the channel is open, also after the context is done: nobody has a *)
(* message that the broker has not delivered, nor one that somebody else   *)
(* has.                                                                    *)
Custody ==
    channel = "open" =>
        /\ \A g \in Handling : pool[g].message \in unacked
        /\ \A g, h \in Handling : pool[g].message = pool[h].message => g = h
        /\ feeder.pc = "handoff" =>
              /\ feeder.message \in unacked
              /\ \A g \in Handling : pool[g].message # feeder.message
        /\ \A i \in 1..Len(buffer) :
              /\ buffer[i] \in unacked
              /\ buffer[i] # feeder.message
              /\ \A g \in Handling : pool[g].message # buffer[i]
        /\ \A i, j \in 1..Len(buffer) : buffer[i] = buffer[j] => i = j

(* Until the context is done, none is forgotten either.                    *)
NothingForgotten ==
    channel = "open" /\ ~ cancelled =>
        /\ unacked \subseteq InHand
        /\ HandsTaken = Cardinality(unacked)

Typed == TypeOK /\ HandsAreFull

Lifecycle == Stopped /\ Drained /\ Reasons /\ CleanExitOnlyOnSignal

IInv == Typed /\ Lifecycle /\ InOnePlace /\ Custody /\ NothingForgotten

-------------------------------------------------------------------------------
LEMMA NoneIsNoMessage == None \notin Messages
  BY ProcessAssumption DEF None

LEMMA SetsOfMessages ==
    ASSUME NEW S, S \subseteq Messages
    PROVE  IsFiniteSet(S) /\ Cardinality(S) \in Nat
<1>1. IsFiniteSet(Messages) /\ S \in SUBSET Messages
  BY ProcessAssumption
<1> QED
  BY <1>1, FS_Subset, FS_CardinalityType

LEMMA MessageSets ==
    ASSUME TypeOK
    PROVE  /\ IsFiniteSet(queue) /\ IsFiniteSet(unacked) /\ IsFiniteSet(acked)
           /\ Cardinality(queue) \in Nat /\ Cardinality(unacked) \in Nat
           /\ Cardinality(acked) \in Nat /\ Prefetch \in Nat \ {0}
<1>1. queue \subseteq Messages /\ unacked \subseteq Messages /\ acked \subseteq Messages
  BY DEF TypeOK
<1> QED
  BY <1>1, SetsOfMessages, ProcessAssumption

(* A frame of the buffer, as the library and Run move it.                  *)
LEMMA Delivered ==
    ASSUME Typed, NEW m \in Messages, Deliver(m)
    PROVE  /\ Len(buffer) \in Nat
           /\ buffer' \in Seq(Messages)
           /\ Len(buffer') = Len(buffer) + 1
           /\ \A i \in 1..Len(buffer) : buffer'[i] = buffer[i]
           /\ buffer'[Len(buffer) + 1] = m
  BY AppendProperties, LenProperties DEF Deliver, Typed, TypeOK

LEMMA Received ==
    ASSUME Typed, FeederReceives
    PROVE  /\ Len(buffer) \in Nat \ {0}
           /\ buffer' \in Seq(Messages)
           /\ Len(buffer') = Len(buffer) - 1
           /\ \A i \in 1..Len(buffer') : buffer'[i] = buffer[i + 1]
           /\ feeder'.message = buffer[1] /\ feeder'.message \in Messages
           /\ feeder' = [feeder EXCEPT !.pc = "handoff", !.message = buffer[1]]
<1>1. buffer \in Seq(Messages) /\ buffer # <<>>
      /\ buffer' = Tail(buffer)
      /\ feeder' = [feeder EXCEPT !.pc = "handoff", !.message = Head(buffer)]
  BY DEF FeederReceives, Typed, TypeOK
<1>2. /\ Len(buffer) \in Nat \ {0}
      /\ Head(buffer) = buffer[1] /\ Head(buffer) \in Messages
      /\ Tail(buffer) \in Seq(Messages) /\ Len(Tail(buffer)) = Len(buffer) - 1
      /\ \A i \in 1..Len(Tail(buffer)) : Tail(buffer)[i] = buffer[i + 1]
  BY <1>1, HeadTailProperties, EmptySeq
<1>3. feeder'.message = Head(buffer)
  BY <1>1 DEF Typed, TypeOK
<1> QED
  BY <1>1, <1>2, <1>3

-------------------------------------------------------------------------------
(* Types, the prefetch window, and who has a message in hand.              *)
LEMMA TypedInit == Init => Typed
<1> SUFFICES ASSUME Init
             PROVE  Typed
  OBVIOUS
<1>1. Cardinality(unacked) <= Prefetch
  BY FS_EmptySet, ProcessAssumption DEF Init
<1>2. buffer \in Seq(Messages)
  BY EmptySeq DEF Init
<1>3. starts \in 1..MaxStarts
  BY ProcessAssumption DEF Init
<1>4. unread \in 0..MaxUnread
  BY DEF Init, MaxUnread
<1>5. TypeOK
  BY <1>1, <1>2, <1>3, <1>4 DEF Init, TypeOK, Idle, None
<1> QED
  BY <1>5 DEF Init, Typed, HandsAreFull, Idle, None

LEMMA TypedStep ==
    ASSUME Typed, [Next]_vars
    PROVE  Typed'
<1> USE DEF Typed, broker, group, process, HandsAreFull
<1>1. CASE Start
  BY <1>1 DEF Start, TypeOK, Idle, None
<1>2. CASE StartFails \/ Signal
  BY <1>2 DEF StartFails, Signal, TypeOK
<1>3. CASE Exit
  <2>1. Cardinality(unacked') <= Prefetch /\ buffer' \in Seq(Messages)
    BY <1>3, FS_EmptySet, EmptySeq, ProcessAssumption DEF Exit
  <2> QED
    BY <1>3, <2>1 DEF Exit, TypeOK, MaxUnread
<1>4. CASE Restart
  <2>1. starts' \in 1..MaxStarts
    BY <1>4, ProcessAssumption DEF Restart, TypeOK
  <2> QED
    BY <1>4, <2>1 DEF Restart, TypeOK
<1>5. ASSUME NEW m \in Messages, Deliver(m)
      PROVE  Typed'
  <2>1. Cardinality(unacked \cup {m}) <= Prefetch
    <3>1. Cardinality(unacked \cup {m}) <= Cardinality(unacked) + 1
      <4>1. IsFiniteSet(unacked) /\ Cardinality(unacked) \in Nat
        BY MessageSets
      <4>2. Cardinality(unacked \cup {m})
               = IF m \in unacked THEN Cardinality(unacked) ELSE Cardinality(unacked) + 1
        BY <4>1, FS_AddElement, Zenon
      <4> QED
        BY <4>1, <4>2
    <3>2. Cardinality(unacked) < Prefetch
      BY <1>5 DEF Deliver, WithinPrefetch
    <3> QED
      <4>1. IsFiniteSet(unacked \cup {m})
        BY MessageSets, FS_AddElement
      <4>2. Cardinality(unacked \cup {m}) \in Nat
        BY <4>1, FS_CardinalityType
      <4> QED
        BY <3>1, <3>2, <4>2, MessageSets
  <2> QED
    BY <1>5, <2>1, Delivered DEF Deliver, TypeOK
<1>6. CASE ChannelCloses
  <2>1. Cardinality(unacked') <= Prefetch
    BY <1>6, FS_EmptySet, ProcessAssumption DEF ChannelCloses
  <2> QED
    BY <1>6, <2>1 DEF ChannelCloses, TypeOK
<1>7. CASE BufferDropped
  BY <1>7, EmptySeq DEF BufferDropped, TypeOK
<1>8. CASE FeederReceives
  BY <1>8, Received, NoneIsNoMessage DEF FeederReceives, TypeOK
<1>9. CASE DeliveriesClosed
  BY <1>9 DEF DeliveriesClosed, TypeOK
<1>10. CASE RunReturns
  BY <1>10 DEF RunReturns, Returned, TypeOK
<1>11. CASE FeederStops
  BY <1>11 DEF FeederStops, TypeOK
<1>12. CASE WatcherReturns
  BY <1>12 DEF WatcherReturns, Returned, TypeOK
<1>13. ASSUME NEW g \in Goroutines, HandOff(g)
       PROVE  Typed'
  BY <1>13 DEF HandOff, TypeOK
<1>14. ASSUME NEW g \in Goroutines, Ack(g) \/ Nack(g)
       PROVE  Typed'
  <2>1. /\ unacked' \subseteq unacked /\ acked' \subseteq Messages /\ queue' \subseteq Messages
        /\ pool' = [pool EXCEPT ![g] = Idle]
        /\ UNCHANGED <<buffer, channel, connection, unread, feeder, loops, group, process>>
    BY <1>14 DEF Ack, Nack, TypeOK
  <2>2. Cardinality(unacked') <= Cardinality(unacked) /\ IsFiniteSet(unacked')
    BY <2>1, MessageSets, FS_Subset
  <2>3. Cardinality(unacked') \in Nat
    BY <2>2, FS_CardinalityType
  <2>4. Cardinality(unacked) <= Prefetch
    BY DEF TypeOK
  <2>5. Cardinality(unacked') <= Prefetch
    BY <2>2, <2>3, <2>4, MessageSets
  <2> QED
    BY <2>1, <2>5 DEF TypeOK, Idle, None
<1>15. ASSUME NEW g \in Goroutines, GoroutineReturns(g)
       PROVE  Typed'
  BY <1>15 DEF GoroutineReturns, TypeOK
<1>16. ASSUME NEW l \in Loops, LoopPasses(l) \/ LoopReturns(l)
       PROVE  Typed'
  BY <1>16 DEF LoopPasses, LoopReturns, TypeOK
<1>17. CASE UNCHANGED vars
  BY <1>17 DEF vars, TypeOK
<1>18. CASE AnswerLeftUnread
  BY <1>18 DEF AnswerLeftUnread, MaxUnread, TypeOK
<1>19. CASE WaitReturns
  BY <1>19 DEF WaitReturns, TypeOK
<1> QED
  BY <1>1, <1>2, <1>3, <1>4, <1>5, <1>6, <1>7, <1>8, <1>9, <1>10, <1>11, <1>12, <1>13,
     <1>14, <1>15, <1>16, <1>17, <1>18, <1>19 DEF Next, FromLibrary

-------------------------------------------------------------------------------
(* How the process starts and ends.                                        *)
LEMMA LifecycleInit == Init => Lifecycle
  BY DEF Init, Lifecycle, Stopped, Drained, Reasons, CleanExitOnlyOnSignal, Idle

LEMMA LifecycleStep ==
    ASSUME Typed, Lifecycle, [Next]_vars
    PROVE  Lifecycle'
<1> USE DEF Typed, TypeOK, Lifecycle, Stopped, Drained, Reasons, CleanExitOnlyOnSignal,
            broker, group, process
<1>1. CASE Start
  BY <1>1 DEF Start
<1>2. CASE StartFails \/ Signal
  BY <1>2 DEF StartFails, Signal
<1>3. CASE Exit
  BY <1>3 DEF Exit
<1>4. CASE Restart
  BY <1>4 DEF Restart
<1>5. ASSUME NEW m \in Messages, Deliver(m)
      PROVE  Lifecycle'
  BY <1>5 DEF Deliver
<1>6. CASE ChannelCloses \/ BufferDropped
  BY <1>6 DEF ChannelCloses, BufferDropped
<1>7. CASE FeederReceives
  BY <1>7 DEF FeederReceives
<1>8. CASE DeliveriesClosed
  BY <1>8 DEF DeliveriesClosed
<1>9. CASE RunReturns
  BY <1>9 DEF RunReturns, Returned
<1>10. CASE FeederStops
  BY <1>10 DEF FeederStops
<1>11. CASE WatcherReturns
  BY <1>11 DEF WatcherReturns, Returned
<1>12. ASSUME NEW g \in Goroutines, HandOff(g)
       PROVE  Lifecycle'
  BY <1>12 DEF HandOff
<1>13. ASSUME NEW g \in Goroutines, Ack(g) \/ Nack(g)
       PROVE  Lifecycle'
  <2>1. feeder.pc # "done"
    BY <1>13 DEF Ack, Nack
  <2> QED
    BY <1>13, <2>1 DEF Ack, Nack
<1>14. ASSUME NEW g \in Goroutines, GoroutineReturns(g)
       PROVE  Lifecycle'
  BY <1>14 DEF GoroutineReturns
<1>15. ASSUME NEW l \in Loops, LoopPasses(l) \/ LoopReturns(l)
       PROVE  Lifecycle'
  <2>1. main = "waiting"
    BY <1>15 DEF LoopPasses, LoopReturns
  <2> QED
    BY <1>15, <2>1 DEF LoopPasses, LoopReturns
<1>16. CASE UNCHANGED vars
  BY <1>16 DEF vars
<1>17. CASE AnswerLeftUnread
  BY <1>17 DEF AnswerLeftUnread
<1>18. CASE WaitReturns
  BY <1>18 DEF WaitReturns, AllReturned
<1> QED
  BY <1>1, <1>2, <1>3, <1>4, <1>5, <1>6, <1>7, <1>8, <1>9, <1>10, <1>11, <1>12, <1>13,
     <1>14, <1>15, <1>16, <1>17, <1>18 DEF Next, FromLibrary

-------------------------------------------------------------------------------
(* Where a message is, and who has it.                                     *)
LEMMA Taken ==
    ASSUME Typed, Custody, channel = "open", NEW g \in Goroutines, pool[g].pc = "handling"
    PROVE  pool[g].message \in unacked /\ pool[g].message \in Messages
  BY DEF Custody, Handling, Typed, TypeOK

LEMMA InOnePlaceStep ==
    ASSUME Typed, Lifecycle, Custody, InOnePlace, [Next]_vars
    PROVE  InOnePlace'
<1> USE DEF InOnePlace, broker, group, process
<1>1. ASSUME NEW g \in Goroutines, Ack(g) \/ Nack(g)
      PROVE  InOnePlace'
  <2>1. CASE channel = "open"
    <3>1. pool[g].message \in unacked
      BY <1>1, <2>1, Taken DEF Ack, Nack
    <3> QED
      BY <1>1, <2>1, <3>1 DEF Ack, Nack
  <2>2. CASE channel # "open"
    BY <1>1, <2>2 DEF Ack, Nack
  <2> QED
    BY <2>1, <2>2
<1>2. ASSUME NEW m \in Messages, Deliver(m)
      PROVE  InOnePlace'
  BY <1>2 DEF Deliver
<1>3. CASE ChannelCloses \/ Exit
  BY <1>3 DEF ChannelCloses, Exit
<1>4. CASE UNCHANGED <<queue, unacked, acked>>
  BY <1>4
<1> QED
  BY <1>1, <1>2, <1>3, <1>4
     DEF Next, Start, StartFails, Signal, WaitReturns, AnswerLeftUnread, Restart,
         BufferDropped, FromLibrary, FeederReceives, DeliveriesClosed, RunReturns, FeederStops, WatcherReturns, HandOff,
         GoroutineReturns, LoopPasses, LoopReturns, vars

LEMMA CustodyStep ==
    ASSUME Typed, Lifecycle, InOnePlace, Custody, [Next]_vars
    PROVE  Custody'
<1> USE DEF broker, group, process
<1>1. CASE channel' = "closed"
  BY <1>1 DEF Custody
<1>2. CASE Start
  <2>1. unacked = {} /\ buffer = <<>>
    BY <1>2 DEF Start, Lifecycle, Stopped, Drained
  <2>2. Handling' = {} /\ feeder'.pc = "receive" /\ buffer' = <<>>
    BY <1>2, <2>1 DEF Start, Handling, Idle
  <2> QED
    BY <2>2 DEF Custody
<1>3. ASSUME NEW m \in Messages, Deliver(m)
      PROVE  Custody'
  <2>1. /\ UNCHANGED <<feeder, pool>> /\ channel = "open"
        /\ m \notin unacked /\ unacked' = unacked \cup {m}
    BY <1>3 DEF Deliver, InOnePlace
  <2>2. Handling' = Handling
    BY <2>1 DEF Handling
  <2>3. feeder.message # m
    BY <2>1, NoneIsNoMessage DEF Custody, Typed, TypeOK
  <2>4. \A g \in Handling : pool[g].message # m
    BY <2>1 DEF Custody
  <2>5. \A i \in 1..Len(buffer) : buffer[i] # m
    BY <2>1 DEF Custody
  <2>6. \A i \in 1..Len(buffer') : \/ i \in 1..Len(buffer) /\ buffer'[i] = buffer[i]
                                   \/ i = Len(buffer) + 1 /\ buffer'[i] = m
    BY <1>3, Delivered
  <2>7. \A i, j \in 1..Len(buffer') : buffer'[i] = buffer'[j] => i = j
    BY <2>1, <2>5, <2>6 DEF Custody
  <2>8. \A i \in 1..Len(buffer') :
           /\ buffer'[i] \in unacked'
           /\ buffer'[i] # feeder.message
           /\ \A g \in Handling : pool[g].message # buffer'[i]
    BY <2>1, <2>3, <2>4, <2>6 DEF Custody
  <2> QED
    BY <2>1, <2>2, <2>7, <2>8 DEF Custody
<1>4. CASE FeederReceives /\ channel = "open"
  <2>1. /\ UNCHANGED <<pool, unacked, channel>> /\ Handling' = Handling
    BY <1>4 DEF FeederReceives, Handling
  <2>2. \A i \in 1..Len(buffer') : i + 1 \in 1..Len(buffer) /\ buffer'[i] = buffer[i + 1]
    BY <1>4, Received
  <2>3. 1 \in 1..Len(buffer) /\ feeder'.message = buffer[1]
    BY <1>4, Received
  <2>4. \A i \in 1..Len(buffer') :
           /\ buffer'[i] \in unacked
           /\ buffer'[i] # feeder'.message
           /\ \A g \in Handling : pool[g].message # buffer'[i]
    <3>1. \A i \in 1..Len(buffer') : i + 1 # 1
      OBVIOUS
    <3> QED
      BY <1>4, <2>2, <2>3, <3>1 DEF Custody
  <2>5. \A i, j \in 1..Len(buffer') : buffer'[i] = buffer'[j] => i = j
    <3>1. \A i, j \in 1..Len(buffer') : i + 1 = j + 1 => i = j
      OBVIOUS
    <3> QED
      BY <1>4, <2>2, <3>1 DEF Custody
  <2>6. /\ feeder'.message \in unacked
        /\ \A g \in Handling : pool[g].message # feeder'.message
    BY <1>4, <2>3 DEF Custody
  <2> QED
    BY <2>1, <2>4, <2>5, <2>6 DEF Custody
<1>5. ASSUME NEW g \in Goroutines, HandOff(g), channel = "open"
      PROVE  Custody'
  <2>1. /\ UNCHANGED <<buffer, unacked, channel>>
        /\ feeder.pc = "handoff"
        /\ \A h \in Goroutines : pool'[h] =
              IF h = g THEN [pc |-> "handling", message |-> feeder.message] ELSE pool[h]
        /\ feeder'.pc = "receive" /\ feeder'.message = None
    BY <1>5 DEF HandOff, Typed, TypeOK
  <2>2. Handling' = Handling \cup {g} /\ g \notin Handling
    BY <1>5, <2>1 DEF HandOff, Handling
  <2>3. \A i \in 1..Len(buffer) : buffer[i] # None
    BY <1>5, <2>1, NoneIsNoMessage DEF Custody, Typed, TypeOK
  <2>4. \A h \in Handling : pool'[h] = pool[h]
    BY <2>1, <2>2 DEF Handling
  <2>5. pool'[g].message = feeder.message
    BY <2>1
  <2> QED
    BY <1>5, <2>1, <2>2, <2>3, <2>4, <2>5 DEF Custody
<1>6. ASSUME NEW g \in Goroutines, Ack(g) \/ Nack(g), channel = "open"
      PROVE  Custody'
  <2>1. /\ UNCHANGED <<buffer, feeder, channel>> /\ pool[g].pc = "handling"
        /\ unacked' = unacked \ {pool[g].message}
        /\ pool' = [pool EXCEPT ![g] = Idle]
    BY <1>6 DEF Ack, Nack
  <2>2. Handling' = Handling \ {g} /\ g \in Handling
    BY <2>1 DEF Handling, Idle, Typed, TypeOK
  <2>3. \A h \in Handling' : h \in Handling /\ pool'[h] = pool[h] /\ h # g
    BY <2>1, <2>2 DEF Handling, Typed, TypeOK
  <2> QED
    BY <1>6, <2>1, <2>2, <2>3 DEF Custody
<1>7. CASE /\ UNCHANGED <<unacked, channel>> /\ Handling' = Handling
           /\ \A g \in Handling : pool'[g] = pool[g]
           /\ buffer' \in {buffer, <<>>}
           /\ \/ feeder' = feeder
              \/ feeder'.pc # "handoff" /\ feeder'.message = None
           /\ channel = "open"
  <2>1. \A i \in 1..Len(buffer) : buffer[i] # None
    BY <1>7, NoneIsNoMessage DEF Custody, Typed, TypeOK
  <2>2. \A i \in 1..Len(buffer') : i \in 1..Len(buffer) /\ buffer'[i] = buffer[i]
    BY <1>7
  <2>3. \A i \in 1..Len(buffer') : buffer'[i] # feeder'.message
    BY <1>7, <2>1, <2>2 DEF Custody
  <2> QED
    BY <1>7, <2>2, <2>3 DEF Custody
<1>8. CASE channel = "open"
  <2>1. ASSUME NEW g \in Goroutines, GoroutineReturns(g)
        PROVE  Custody'
    <3>1. Handling' = Handling /\ \A h \in Handling : pool'[h] = pool[h]
      BY <2>1 DEF GoroutineReturns, Handling, Typed, TypeOK
    <3> QED
      BY <1>7, <1>8, <2>1, <3>1 DEF GoroutineReturns
  <2>2. CASE FeederStops \/ DeliveriesClosed \/ RunReturns
    <3>1. \/ feeder' = feeder
          \/ feeder'.pc # "handoff" /\ feeder'.message = None
      <4>1. CASE FeederStops
        BY <4>1 DEF FeederStops, Typed, TypeOK
      <4>2. CASE DeliveriesClosed \/ RunReturns
        <5>1. feeder.message = None
          BY <4>2 DEF DeliveriesClosed, RunReturns, Typed, TypeOK
        <5> QED
          BY <4>2, <5>1 DEF DeliveriesClosed, RunReturns, Typed, TypeOK
      <4> QED
        BY <2>2, <4>1, <4>2
    <3>2. UNCHANGED <<buffer, unacked, channel, pool>> /\ Handling' = Handling
      BY <2>2 DEF FeederStops, DeliveriesClosed, RunReturns, Handling
    <3> QED
      BY <1>7, <1>8, <3>1, <3>2
  <2>3. CASE UNCHANGED <<buffer, unacked, channel, pool, feeder>>
    <3>1. Handling' = Handling
      BY <2>3 DEF Handling
    <3> QED
      BY <1>7, <1>8, <2>3, <3>1
  <2>4. channel' = "closed" \/ channel' = "open"
    BY TypedStep DEF Typed, TypeOK
  <2> QED
    BY <1>1, <1>2, <1>3, <1>4, <1>5, <1>6, <1>8, <2>1, <2>2, <2>3
       DEF Next, Start, StartFails, Signal, WaitReturns, AnswerLeftUnread, Restart, Exit,
           ChannelCloses, BufferDropped, FromLibrary, WatcherReturns, LoopPasses, LoopReturns, vars
<1>9. CASE channel # "open"
  <2>1. channel = "closed"
    BY <1>9 DEF Typed, TypeOK
  <2>2. channel' = "closed" \/ Start
    BY <2>1 DEF Next, StartFails, Signal, WaitReturns, AnswerLeftUnread, Restart, Exit,
        Deliver, ChannelCloses, BufferDropped, FromLibrary, FeederReceives, DeliveriesClosed, RunReturns, FeederStops,
        WatcherReturns, HandOff, Ack, Nack, GoroutineReturns, LoopPasses, LoopReturns, vars
  <2> QED
    BY <1>1, <1>2, <2>2
<1> QED
  BY <1>8, <1>9

-------------------------------------------------------------------------------
(* Counting what is in hand.                                               *)
LEMMA HandlingIsFinite ==
    /\ IsFiniteSet(Handling) /\ Cardinality(Handling) \in Nat
    /\ IsFiniteSet(Handling') /\ Cardinality(Handling') \in Nat
<1>1. /\ IsFiniteSet(Goroutines)
      /\ Handling \in SUBSET Goroutines /\ Handling' \in SUBSET Goroutines
  BY ProcessAssumption DEF Handling
<1>2. IsFiniteSet(Handling) /\ IsFiniteSet(Handling')
  BY <1>1, FS_Subset
<1> QED
  BY <1>2, FS_CardinalityType

LEMMA WhatIsInHand ==
    ASSUME Typed
    PROVE  \A m : m \in InHand <=> \/ m = feeder.message
                                   \/ \E g \in Goroutines : pool[g].message = m
                                   \/ \E i \in 1..Len(buffer) : buffer[i] = m
<1>1. DOMAIN buffer = 1..Len(buffer)
  BY LenProperties DEF Typed, TypeOK
<1> QED
  BY <1>1 DEF InHand

Offered == IF feeder.pc = "handoff" THEN 1 ELSE 0

LEMMA HandsAreCounted ==
    /\ HandsTaken = Len(buffer) + Cardinality(Handling) + Offered
    /\ HandsTaken' = Len(buffer') + Cardinality(Handling') + Offered'
  BY DEF HandsTaken, Handling, Offered

LEMMA NothingForgottenStep ==
    ASSUME Typed, Lifecycle, InOnePlace, Custody, NothingForgotten, [Next]_vars
    PROVE  NothingForgotten'
<1> USE DEF broker, group, process
<1> SUFFICES ASSUME channel' = "open", ~ cancelled'
             PROVE  (unacked \subseteq InHand /\ HandsTaken = Cardinality(unacked))'
  BY DEF NothingForgotten
<1>0. Typed'
  BY TypedStep
<1> DEFINE Hand(m) == \/ m = feeder.message
                      \/ \E g \in Goroutines : pool[g].message = m
                      \/ \E i \in 1..Len(buffer) : buffer[i] = m
           NewHand(m) == \/ m = feeder'.message
                         \/ \E g \in Goroutines : pool'[g].message = m
                         \/ \E i \in 1..Len(buffer') : buffer'[i] = m
<1>1. \A m : m \in InHand <=> Hand(m)
  BY WhatIsInHand
<1>2. \A m : m \in InHand' <=> NewHand(m)
  <2>1. DOMAIN buffer' = 1..Len(buffer')
    BY <1>0, LenProperties DEF Typed, TypeOK
  <2> QED
    BY <2>1 DEF InHand
<1>3. Len(buffer) \in Nat /\ Offered \in {0, 1}
  BY LenProperties DEF Typed, TypeOK, Offered
<1>4. IsFiniteSet(unacked) /\ Cardinality(unacked) \in Nat
  BY MessageSets DEF Typed
<1>5. HandsTaken' = Len(buffer') + Cardinality(Handling') + Offered'
  BY HandsAreCounted
<1>6. CASE Start
  <2>1. unacked' = {} /\ buffer' = <<>> /\ Handling' = {} /\ Offered' = 0
    BY <1>6 DEF Start, Lifecycle, Stopped, Drained, Handling, Idle, Offered
  <2>2. Cardinality(unacked') = 0 /\ Cardinality(Handling') = 0 /\ Len(buffer') = 0
    BY <2>1, FS_EmptySet
  <2> QED
    BY <1>5, <2>1, <2>2
<1>7. CASE channel = "open" /\ ~ cancelled
  <2>1. /\ unacked \subseteq InHand
        /\ Len(buffer) + Cardinality(Handling) + Offered = Cardinality(unacked)
    BY <1>7, HandsAreCounted DEF NothingForgotten
  <2>2. None \notin unacked
    BY NoneIsNoMessage DEF Typed, TypeOK
  <2>3. ASSUME NEW m \in Messages, Deliver(m)
        PROVE  (unacked \subseteq InHand /\ HandsTaken = Cardinality(unacked))'
    <3>1. /\ UNCHANGED <<feeder, pool>>
          /\ m \notin unacked /\ unacked' = unacked \cup {m}
      BY <2>3 DEF Deliver, InOnePlace
    <3>2. Handling' = Handling /\ Offered' = Offered
      BY <3>1 DEF Handling, Offered
    <3>3. Cardinality(unacked') = Cardinality(unacked) + 1
      BY <1>4, <3>1, FS_AddElement
    <3>4. /\ \A i \in 1..Len(buffer) : i \in 1..Len(buffer') /\ buffer'[i] = buffer[i]
          /\ Len(buffer') \in 1..Len(buffer') /\ buffer'[Len(buffer')] = m
          /\ Len(buffer') = Len(buffer) + 1
      BY <2>3, Delivered
    <3>5. \A x : Hand(x) \/ x = m => NewHand(x)
      BY <3>1, <3>4
    <3>6. unacked' \subseteq InHand'
      BY <1>1, <1>2, <2>1, <3>1, <3>5
    <3> QED
      BY <1>3, <1>5, <2>1, <3>2, <3>3, <3>4, <3>6, HandlingIsFinite
  <2>4. CASE FeederReceives
    <3>1. /\ UNCHANGED <<pool, unacked>> /\ Handling' = Handling
          /\ Offered = 0 /\ Offered' = 1 /\ feeder.message = None
      BY <2>4 DEF FeederReceives, Handling, Offered, Typed, TypeOK
    <3>2. /\ Len(buffer') = Len(buffer) - 1
          /\ feeder'.message = buffer[1]
      BY <2>4, Received
    <3>3. \A i \in 1..Len(buffer) : i = 1 \/ (i - 1 \in 1..Len(buffer') /\ buffer'[i - 1] = buffer[i])
      <4> SUFFICES ASSUME NEW i \in 1..Len(buffer), i # 1
                   PROVE  i - 1 \in 1..Len(buffer') /\ buffer'[i - 1] = buffer[i]
        OBVIOUS
      <4>1. i - 1 \in 1..Len(buffer') /\ (i - 1) + 1 = i
        BY <1>3, <3>2
      <4> QED
        BY <2>4, <4>1, Received
    <3>4. \A x : Hand(x) /\ x # None => NewHand(x)
      BY <3>1, <3>2, <3>3
    <3>5. unacked' \subseteq InHand'
      BY <1>1, <1>2, <2>1, <2>2, <3>1, <3>4
    <3> QED
      BY <1>3, <1>5, <2>1, <3>1, <3>2, <3>5, HandlingIsFinite
  <2>5. ASSUME NEW g \in Goroutines, HandOff(g)
        PROVE  (unacked \subseteq InHand /\ HandsTaken = Cardinality(unacked))'
    <3>1. /\ UNCHANGED <<buffer, unacked>>
          /\ \A h \in Goroutines : pool'[h] =
                IF h = g THEN [pc |-> "handling", message |-> feeder.message] ELSE pool[h]
          /\ Offered = 1 /\ Offered' = 0
      BY <2>5 DEF HandOff, Offered, Typed, TypeOK
    <3>2. Handling' = Handling \cup {g} /\ g \notin Handling
      BY <2>5, <3>1 DEF HandOff, Handling
    <3>3. Cardinality(Handling') = Cardinality(Handling) + 1
      BY <3>2, HandlingIsFinite, FS_AddElement
    <3>4. pool[g].message = None
      BY <2>5 DEF HandOff, Typed, HandsAreFull
    <3>5. \A x : Hand(x) /\ x # None => NewHand(x)
      BY <3>1, <3>4
    <3>6. unacked' \subseteq InHand'
      BY <1>1, <1>2, <2>1, <2>2, <3>1, <3>5
    <3> QED
      BY <1>3, <1>5, <2>1, <3>1, <3>3, <3>6, HandlingIsFinite
  <2>6. ASSUME NEW g \in Goroutines, Ack(g) \/ Nack(g)
        PROVE  (unacked \subseteq InHand /\ HandsTaken = Cardinality(unacked))'
    <3> DEFINE m == pool[g].message
    <3>1. /\ UNCHANGED <<buffer, feeder>> /\ pool[g].pc = "handling"
          /\ unacked' = unacked \ {m}
          /\ pool' = [pool EXCEPT ![g] = Idle]
      BY <1>7, <2>6 DEF Ack, Nack
    <3>2. Handling' = Handling \ {g} /\ g \in Handling /\ Offered' = Offered
      BY <3>1 DEF Handling, Idle, Offered, Typed, TypeOK
    <3>3. m \in unacked
      BY <1>7, <3>1, Taken
    <3>4. Cardinality(Handling') = Cardinality(Handling) - 1
      BY <3>2, HandlingIsFinite, FS_RemoveElement
    <3>5. Cardinality(unacked') = Cardinality(unacked) - 1
      BY <1>4, <3>1, <3>3, FS_RemoveElement
    <3>6. \A h \in Goroutines : h = g \/ pool'[h] = pool[h]
      BY <3>1 DEF Typed, TypeOK
    <3>7. \A x : Hand(x) /\ x # m => NewHand(x)
      BY <3>1, <3>6
    <3>8. unacked' \subseteq InHand'
      BY <1>1, <1>2, <2>1, <3>1, <3>7
    <3> HIDE DEF m
    <3> QED
      BY <1>3, <1>4, <1>5, <2>1, <3>1, <3>2, <3>4, <3>5, <3>8, HandlingIsFinite
  <2>7. CASE /\ UNCHANGED <<buffer, unacked>> /\ feeder'.message = feeder.message
             /\ Handling' = Handling /\ Offered' = Offered
             /\ \A g \in Goroutines : pool'[g].message = pool[g].message
    <3>1. unacked' \subseteq InHand'
      BY <1>1, <1>2, <2>1, <2>7
    <3> QED
      BY <1>5, <2>1, <2>7, <3>1
  <2>8. ASSUME NEW g \in Goroutines, GoroutineReturns(g)
        PROVE  (unacked \subseteq InHand /\ HandsTaken = Cardinality(unacked))'
    <3>1. \A h \in Goroutines : /\ pool'[h].message = pool[h].message
                                /\ pool'[h].pc = "handling" <=> pool[h].pc = "handling"
      BY <2>8 DEF GoroutineReturns, Typed, TypeOK
    <3>2. Handling' = Handling
      BY <3>1 DEF Handling
    <3> QED
      BY <2>7, <2>8, <3>1, <3>2 DEF GoroutineReturns, Offered
  <2>9. CASE RunReturns
    <3>1. /\ UNCHANGED <<buffer, unacked, pool>> /\ feeder'.message = feeder.message
          /\ Handling' = Handling /\ Offered' = Offered
      BY <2>9 DEF RunReturns, Handling, Offered, Typed, TypeOK
    <3> QED
      BY <2>7, <3>1
  <2>10. CASE UNCHANGED <<buffer, unacked, pool, feeder>>
    BY <2>7, <2>10 DEF Handling, Offered
  <2> QED
    BY <1>6, <1>7, <2>3, <2>4, <2>5, <2>6, <2>8, <2>9, <2>10
       DEF Next, StartFails, Signal, WaitReturns, AnswerLeftUnread, Restart, Exit,
           ChannelCloses, BufferDropped, FromLibrary, DeliveriesClosed, FeederStops, WatcherReturns, LoopPasses, LoopReturns, vars
<1>8. Start \/ (channel = "open" /\ ~ cancelled)
  BY DEF Typed, TypeOK, Lifecycle, Stopped, Next, StartFails, Signal, WaitReturns,
         AnswerLeftUnread, Restart, Exit, Deliver, ChannelCloses, BufferDropped, FromLibrary, FeederReceives, DeliveriesClosed, RunReturns,
         Returned, FeederStops, WatcherReturns, HandOff, Ack, Nack, GoroutineReturns,
         LoopPasses, LoopReturns, vars
<1> QED
  BY <1>6, <1>7, <1>8

-------------------------------------------------------------------------------
LEMMA DisjointUnion ==
    ASSUME NEW S, NEW T, IsFiniteSet(S), IsFiniteSet(T), S \cap T = {}
    PROVE  /\ IsFiniteSet(S \cup T)
           /\ Cardinality(S \cup T) = Cardinality(S) + Cardinality(T)
<1>1. Cardinality(S) \in Nat /\ Cardinality(T) \in Nat
  BY FS_CardinalityType
<1>2. Cardinality(S \cap T) = 0
  BY FS_EmptySet
<1>3. /\ IsFiniteSet(S \cup T)
      /\ Cardinality(S \cup T) = Cardinality(S) + Cardinality(T) - Cardinality(S \cap T)
  BY FS_Union
<1> QED
  BY <1>1, <1>2, <1>3

LEMMA ProcessSafety == Spec => []IInv
<1>1. Init => IInv
  <2> SUFFICES ASSUME Init
               PROVE  IInv
    OBVIOUS
  <2>1. InOnePlace /\ Custody /\ NothingForgotten
    BY DEF Init, InOnePlace, Custody, NothingForgotten
  <2> QED
    BY <2>1, TypedInit, LifecycleInit DEF IInv
<1>2. IInv /\ [Next]_vars => IInv'
  BY TypedStep, LifecycleStep, InOnePlaceStep, CustodyStep, NothingForgottenStep DEF IInv
<1> QED
  BY <1>1, <1>2, PTL DEF Spec

(* TypeOK, in every reachable state: with it, never more than              *)
(* RABBITMQ_PREFETCH deliveries, and one with the feeder exactly while it  *)
(* hands it over.                                                          *)
THEOREM ProcessTypeCorrect == Spec => []TypeOK
<1>1. IInv => TypeOK
  BY DEF IInv, Typed
<1> QED
  BY <1>1, ProcessSafety, PTL

(* Every message is in one place, and until the context is done every      *)
(* delivery is in exactly one pair of hands, through lost channels and     *)
(* restarts.                                                               *)
THEOREM NoDeliveryIsLostOrDoubled == Spec => []DeliveriesAccountedFor
<1>1. IInv => DeliveriesAccountedFor
  <2> SUFFICES ASSUME IInv
               PROVE  DeliveriesAccountedFor
    OBVIOUS
  <2>1. /\ IsFiniteSet(queue) /\ IsFiniteSet(unacked) /\ IsFiniteSet(acked)
        /\ Cardinality(queue) \in Nat /\ Cardinality(unacked) \in Nat
        /\ Cardinality(acked) \in Nat
    BY MessageSets DEF IInv, Typed
  <2>2. /\ queue \cup unacked \cup acked = Messages
        /\ queue \cap unacked = {} /\ (queue \cup unacked) \cap acked = {}
    BY DEF IInv, InOnePlace
  <2>3. /\ IsFiniteSet(queue \cup unacked)
        /\ Cardinality(queue \cup unacked) = Cardinality(queue) + Cardinality(unacked)
    BY <2>1, <2>2, DisjointUnion
  <2>4. Cardinality((queue \cup unacked) \cup acked)
           = Cardinality(queue \cup unacked) + Cardinality(acked)
    BY <2>1, <2>2, <2>3, DisjointUnion
  <2>5. ASSUME channel = "open", ~ cancelled
        PROVE  unacked = InHand \ {None} /\ HandsTaken = Cardinality(unacked)
    <3>1. unacked \subseteq InHand /\ HandsTaken = Cardinality(unacked)
      BY <2>5 DEF IInv, NothingForgotten
    <3>2. None \notin unacked
      BY NoneIsNoMessage DEF IInv, Typed, TypeOK
    <3>3. feeder.message # None => feeder.message \in unacked
      BY <2>5 DEF IInv, Typed, TypeOK, Custody
    <3>4. \A g \in Goroutines : pool[g].message # None => pool[g].message \in unacked
      BY <2>5 DEF IInv, Typed, HandsAreFull, Custody, Handling
    <3>5. \A i \in 1..Len(buffer) : buffer[i] \in unacked
      BY <2>5 DEF IInv, Custody
    <3>6. InHand \ {None} \subseteq unacked
      BY <3>3, <3>4, <3>5, WhatIsInHand DEF IInv
    <3> QED
      BY <3>1, <3>2, <3>6
  <2> QED
    BY <2>2, <2>3, <2>4, <2>5 DEF DeliveriesAccountedFor
<1> QED
  BY <1>1, ProcessSafety, PTL

(* When run returns and its defers close the connection and the pool, no   *)
(* goroutine and no loop is left that uses them.                           *)
THEOREM NothingIsClosedInUse == Spec => []ResourcesOutliveTheirUsers
<1>1. IInv => ResourcesOutliveTheirUsers
  BY DEF IInv, Lifecycle, Stopped, Drained, ResourcesOutliveTheirUsers
<1> QED
  BY <1>1, ProcessSafety, PTL

(* The process ends with status 0 only after a signal.                     *)
THEOREM StatusZeroOnlyOnSignal == Spec => []CleanExitOnlyOnSignal
<1>1. IInv => CleanExitOnlyOnSignal
  BY DEF IInv, Lifecycle
<1> QED
  BY <1>1, ProcessSafety, PTL

===============================================================================
