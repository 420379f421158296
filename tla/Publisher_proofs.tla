--------------------------- MODULE Publisher_proofs ---------------------------
(***************************************************************************)
(* What the shared channel keeps for any number of callers and messages:   *)
(* the mutex, the order of answers until something puts them out of step,  *)
(* and the count of acks after that.                                       *)
(***************************************************************************)
EXTENDS Publisher, FiniteSetTheorems, SequenceTheorems, TLAPS

(* Messages are numbered as they are sent, and publish has returned for    *)
(* all of them but the one of whoever holds the mutex.                     *)
TagsAreInOrder ==
    /\ \A n \in Tags : fate[n] = "unsent" <=> n > published
    /\ \A n \in Tags : n > published => result[n] = "none"
    /\ \A c \in Callers : callers[c].pc \in {"wait", "check"} =>
          /\ callers[c].tag = published
          /\ published \in Tags
          /\ result[published] = "none"

Quiet == /\ wire = <<>> /\ confirms = <<>> /\ returns = <<>>
         /\ \A m \in Tags : fate[m] # "sent"

(* Where the answer to message n is: with the broker, on the wire, in its  *)
(* Go channel, or with the goroutine that has read it.                     *)
AnswerOnItsWay(n, kind) ==
    /\ returns = <<>>
    /\ \/ wire = <<Frame(kind, n)>> /\ confirms = <<>>
       \/ wire = <<>> /\ confirms = <<Frame(kind, n)>>

ReturnOnItsWay(n) ==
    \/ wire = <<Frame("return", n), Frame("ack", n)>> /\ returns = <<>> /\ confirms = <<>>
    \/ wire = <<Frame("ack", n)>> /\ returns = <<Frame("return", n)>> /\ confirms = <<>>
    \/ wire = <<>> /\ returns = <<Frame("return", n)>> /\ confirms = <<Frame("ack", n)>>

Waiting(n) ==
    \/ fate[n] = "sent" /\ wire = <<>> /\ confirms = <<>> /\ returns = <<>>
    \/ fate[n] = "routed" /\ AnswerOnItsWay(n, "ack")
    \/ fate[n] = "refused" /\ AnswerOnItsWay(n, "nack")
    \/ fate[n] = "unroutable" /\ ReturnOnItsWay(n)

Checking(n) ==
    /\ wire = <<>> /\ confirms = <<>>
    /\ \/ fate[n] = "routed" /\ returns = <<>>
       \/ fate[n] = "unroutable" /\ returns = <<Frame("return", n)>>

(* Until answers and messages are out of step: nothing is left over while  *)
(* the mutex is free, and while it is held all there is answers its owner. *)
InStep ==
    ~ closed =>
        /\ mutex = Nobody /\ InStepBefore(published + 1) => Quiet
        /\ mutex # Nobody /\ InStepBefore(published) =>
              /\ \A m \in Tags : m < published => fate[m] # "sent"
              /\ callers[mutex].pc = "wait" => Waiting(published)
              /\ callers[mutex].pc = "check" => Checking(published)

IInv == TypeOK /\ TagsAreInOrder /\ InStep /\ OkMeansConfirmedInStep

(* Acks on the wire and in the Go channel, by the tag of their message.    *)
WireAcks == {i \in 1..Len(wire) : wire[i].kind = "ack"}

InFlight == {wire[i].tag : i \in WireAcks}
            \cup {confirms[i].tag : i \in {k \in 1..Len(confirms) : confirms[k].kind = "ack"}}

Oks     == {n \in Tags : result[n] = "ok"}
Acked   == {n \in Tags : fate[n] \in {"routed", "unroutable"}}
Spent   == Acked \ InFlight

(* Every ack is about a message of its own.                                *)
AcksAreDistinct ==
    /\ InFlight \subseteq Acked
    /\ \A i, j \in WireAcks : wire[i].tag = wire[j].tag => i = j
    /\ \A i \in WireAcks, k \in 1..Len(confirms) :
          confirms[k].kind = "ack" => wire[i].tag # confirms[k].tag

(* An ack that has been read made one success, or is about to.             *)
Checkers == IF \E c \in Callers : callers[c].pc = "check" THEN 1 ELSE 0

AcksCoverOks == Cardinality(Oks) + Checkers <= Cardinality(Spent)

CountInv == AcksAreDistinct /\ AcksCoverOks
-------------------------------------------------------------------------------
(* The Go channels hold one element.                                       *)
LEMMA TailFits ==
    ASSUME NEW S, NEW s \in Seq(S), Len(s) <= Capacity, s # <<>>
    PROVE  Tail(s) \in Seq(S) /\ Tail(s) = <<>> /\ Len(Tail(s)) <= Capacity
<1>1. Len(s) = 1
  <2>1. Len(s) \in Nat \ {0}
    BY EmptySeq
  <2> QED
    BY <2>1 DEF Capacity
<1>2. Tail(s) \in Seq(S) /\ Len(Tail(s)) = 0
  BY <1>1, HeadTailProperties
<1>3. Tail(s) = <<>>
  BY <1>2, EmptySeq
<1> QED
  BY <1>2, <1>3 DEF Capacity

LEMMA AppendFits ==
    ASSUME NEW S, NEW s \in Seq(S), Len(s) < Capacity, NEW e \in S
    PROVE  /\ s = <<>>
           /\ Append(s, e) = <<e>>
           /\ Append(s, e) \in Seq(S) /\ Len(Append(s, e)) <= Capacity
<1>1. s = <<>>
  BY EmptySeq, LenProperties DEF Capacity
<1>2. Append(s, e) \in Seq(S) /\ Len(Append(s, e)) = 1
  BY <1>1, AppendProperties, EmptySeq
<1>3. Append(s, e) = <<e>>
  BY <1>1
<1> QED
  BY <1>1, <1>2, <1>3 DEF Capacity

(* What each action does to the mutex, the callers and the numbers.        *)
LEMMA PublisherInit == Init => IInv
<1> SUFFICES ASSUME Init
             PROVE  IInv
  OBVIOUS
<1> USE DEF Init, Tags
<1>1. TypeOK
  <2>1. /\ wire \in Seq(Frames)
        /\ confirms \in Seq([kind : {"ack", "nack"}, tag : Tags]) /\ Len(confirms) <= Capacity
        /\ returns \in Seq([kind : {"return"}, tag : Tags]) /\ Len(returns) <= Capacity
    BY EmptySeq DEF Capacity
  <2>2. \A c \in Callers : mutex = c <=> callers[c].pc \in {"wait", "check"}
    BY PublisherAssumption
  <2> QED
    BY <2>1, <2>2, PublisherAssumption DEF TypeOK
<1>2. TagsAreInOrder
  BY PublisherAssumption DEF TagsAreInOrder
<1>3. InStep
  BY DEF InStep, Quiet
<1>4. OkMeansConfirmedInStep
  BY DEF OkMeansConfirmedInStep
<1> QED
  BY <1>1, <1>2, <1>3, <1>4 DEF IInv

Typed == TypeOK /\ TagsAreInOrder

LEMMA OnlyOneHolds ==
    ASSUME TypeOK, NEW c \in Callers, NEW d \in Callers,
           callers[c].pc \in {"wait", "check"}, callers[d].pc \in {"wait", "check"}
    PROVE  c = d /\ mutex = c /\ mutex # Nobody
  BY PublisherAssumption DEF TypeOK

LEMMA ReturnStep ==
    ASSUME Typed, NEW c \in Callers, callers[c].pc \in {"wait", "check"},
           NEW answer \in {"ok", "error", "timeout"}, Return(c, answer),
           UNCHANGED <<published, fate>>
    PROVE  /\ mutex' = Nobody
           /\ callers' \in [Callers -> [pc : {"idle", "lock", "wait", "check"},
                                        tag : {0} \cup Tags]]
           /\ \A d \in Callers : callers'[d].pc \notin {"wait", "check"} /\ mutex' # d
           /\ result' \in [Tags -> {"none", "ok", "error", "timeout"}]
           /\ result'[published] = answer
           /\ \A n \in Tags : n # published => result'[n] = result[n]
           /\ TagsAreInOrder'
<1>1. callers[c].tag = published /\ published \in Tags
  BY DEF Typed, TagsAreInOrder
<1>2. \A d \in Callers : callers'[d].pc \notin {"wait", "check"}
  BY OnlyOneHolds DEF Typed, TypeOK, Return
<1>3. callers' \in [Callers -> [pc : {"idle", "lock", "wait", "check"}, tag : {0} \cup Tags]]
  BY DEF Typed, TypeOK, Return
<1>4. result' = [result EXCEPT ![published] = answer]
  BY <1>1 DEF Return
<1> QED
  BY <1>1, <1>2, <1>3, <1>4, PublisherAssumption DEF Typed, TypeOK, TagsAreInOrder, Return

LEMMA TypedStep ==
    ASSUME Typed, [Next]_vars
    PROVE  Typed'
<1> USE DEF Typed
<1>1. ASSUME NEW c \in Callers, Call(c)
      PROVE  Typed'
  <2>1. TypeOK'
    BY <1>1 DEF Call, TypeOK, At
  <2>2. TagsAreInOrder'
    BY <1>1 DEF Call, TypeOK, At, TagsAreInOrder
  <2> QED
    BY <2>1, <2>2
<1>2. ASSUME NEW c \in Callers, Send(c)
      PROVE  Typed'
  <2>1. published' \in Tags /\ published' = published + 1
    BY <1>2, PublisherAssumption DEF Send, TypeOK, Tags
  <2>2. \A d \in Callers : callers[d].pc \notin {"wait", "check"}
    BY <1>2, PublisherAssumption DEF Send, TypeOK
  <2>3. \A d \in Callers : callers'[d] = IF d = c THEN [pc |-> "wait", tag |-> published']
                                                  ELSE callers[d]
    BY <1>2 DEF Send, TypeOK
  <2>4. TypeOK'
    BY <1>2, <2>1, <2>2, <2>3 DEF Send, TypeOK
  <2>5. TagsAreInOrder'
    BY <1>2, <2>1, <2>2, <2>3 DEF Send, TypeOK, TagsAreInOrder, Tags
  <2> QED
    BY <2>4, <2>5
<1>3. ASSUME NEW c \in Callers, SendFails(c)
      PROVE  Typed'
  <2>1. TypeOK'
    BY <1>3 DEF SendFails, TypeOK, At
  <2>2. TagsAreInOrder'
    BY <1>3 DEF SendFails, TypeOK, At, TagsAreInOrder
  <2> QED
    BY <2>1, <2>2
<1>4. ASSUME NEW c \in Callers, ReadReturn(c)
      PROVE  Typed'
  <2>1. Return(c, "error") /\ UNCHANGED <<published, fate, wire, confirms, closed>>
    BY <1>4 DEF ReadReturn
  <2>2. returns' \in Seq([kind : {"return"}, tag : Tags]) /\ Len(returns') <= Capacity
    BY <1>4, TailFits DEF ReadReturn, TypeOK
  <2> QED
    BY <1>4, <2>1, <2>2, ReturnStep DEF ReadReturn, At, TypeOK
<1>5. ASSUME NEW c \in Callers, ReadConfirm(c)
      PROVE  Typed'
  <2>1. confirms' \in Seq([kind : {"ack", "nack"}, tag : Tags]) /\ Len(confirms') <= Capacity
    BY <1>5, TailFits DEF ReadConfirm, TypeOK
  <2>2. CASE Return(c, "error")
    BY <1>5, <2>1, <2>2, ReturnStep DEF ReadConfirm, At, TypeOK
  <2>3. CASE callers' = [callers EXCEPT ![c].pc = "check"] /\ UNCHANGED <<mutex, result>>
    <3>1. \A d \in Callers : /\ callers'[d].tag = callers[d].tag
                             /\ callers'[d].pc = IF d = c THEN "check" ELSE callers[d].pc
      BY <2>3 DEF TypeOK
    <3>2. TypeOK'
      BY <1>5, <2>1, <2>3, <3>1 DEF ReadConfirm, At, TypeOK
    <3>3. TagsAreInOrder'
      BY <1>5, <2>3, <3>1 DEF ReadConfirm, At, TypeOK, TagsAreInOrder
    <3> QED
      BY <3>2, <3>3
  <2> QED
    BY <1>5, <2>2, <2>3 DEF ReadConfirm
<1>6. ASSUME NEW c \in Callers, ConfirmsClosed(c)
      PROVE  Typed'
  BY <1>6, ReturnStep DEF ConfirmsClosed, At, TypeOK
<1>7. ASSUME NEW c \in Callers, CheckReturn(c)
      PROVE  Typed'
  <2>1. returns' \in Seq([kind : {"return"}, tag : Tags]) /\ Len(returns') <= Capacity
    BY <1>7, TailFits DEF CheckReturn, TypeOK
  <2>2. PICK answer \in {"ok", "error", "timeout"} : Return(c, answer)
    BY <1>7 DEF CheckReturn
  <2> QED
    BY <1>7, <2>1, <2>2, ReturnStep DEF CheckReturn, At, TypeOK
<1>8. ASSUME NEW c \in Callers, TimeOut(c)
      PROVE  Typed'
  BY <1>8, ReturnStep DEF TimeOut, At, TypeOK
<1>9. ASSUME NEW n \in Tags, BrokerAnswers(n)
      PROVE  Typed'
  <2>1. \A kind \in {"ack", "nack", "return"} : Frame(kind, n) \in Frames
    BY DEF Frame, Frames
  <2>2. <<Frame("return", n), Frame("ack", n)>> \in Seq(Frames)
    BY <2>1
  <2>3. wire' \in Seq(Frames)
    <3>1. \A kind \in {"ack", "nack"} : Append(wire, Frame(kind, n)) \in Seq(Frames)
      BY <2>1, AppendProperties DEF TypeOK
    <3>2. wire \o <<Frame("return", n), Frame("ack", n)>> \in Seq(Frames)
      BY <2>2, ConcatProperties DEF TypeOK
    <3> QED
      BY <1>9, <3>1, <3>2 DEF BrokerAnswers
  <2>4. TypeOK'
    BY <1>9, <2>3 DEF BrokerAnswers, TypeOK
  <2>5. TagsAreInOrder'
    BY <1>9 DEF BrokerAnswers, TypeOK, TagsAreInOrder
  <2> QED
    BY <2>4, <2>5
<1>10. CASE ReaderDelivers
  <2>1. wire' \in Seq(Frames) /\ Head(wire) \in Frames
    BY <1>10, HeadTailProperties DEF ReaderDelivers, TypeOK
  <2>2. CASE Head(wire).kind = "return"
    <3>1. /\ returns' = Append(returns, Head(wire)) /\ Len(returns) < Capacity
          /\ confirms' = confirms
      BY <1>10, <2>2 DEF ReaderDelivers
    <3>2. Head(wire) \in [kind : {"return"}, tag : Tags]
      BY <2>1, <2>2 DEF Frames
    <3>3. returns' \in Seq([kind : {"return"}, tag : Tags]) /\ Len(returns') <= Capacity
      BY <3>1, <3>2, AppendFits DEF TypeOK
    <3> QED
      BY <1>10, <2>1, <3>1, <3>3 DEF ReaderDelivers, TypeOK, TagsAreInOrder
  <2>3. CASE Head(wire).kind # "return"
    <3>1. /\ confirms' = Append(confirms, Head(wire)) /\ Len(confirms) < Capacity
          /\ returns' = returns
      BY <1>10, <2>3 DEF ReaderDelivers
    <3>2. Head(wire) \in [kind : {"ack", "nack"}, tag : Tags]
      BY <2>1, <2>3 DEF Frames
    <3>3. confirms' \in Seq([kind : {"ack", "nack"}, tag : Tags]) /\ Len(confirms') <= Capacity
      BY <3>1, <3>2, AppendFits DEF TypeOK
    <3> QED
      BY <1>10, <2>1, <3>1, <3>3 DEF ReaderDelivers, TypeOK, TagsAreInOrder
  <2> QED
    BY <2>2, <2>3
<1>11. CASE Close
  BY <1>11, EmptySeq DEF Close, TypeOK, TagsAreInOrder
<1>12. CASE UNCHANGED vars
  BY <1>12 DEF vars, TypeOK, TagsAreInOrder
<1> QED
  BY <1>1, <1>2, <1>3, <1>4, <1>5, <1>6, <1>7, <1>8, <1>9, <1>10, <1>11, <1>12
     DEF Next, WaitForPublish

-------------------------------------------------------------------------------
(* What the broker and publish have decided is final, so that a message    *)
(* that is in step was in step before.                                     *)
LEMMA DecisionsAreFinal ==
    ASSUME Typed, [Next]_vars, NEW m \in Tags
    PROVE  /\ result'[m] = result[m] \/ result[m] = "none"
           /\ fate'[m] = fate[m] \/ fate[m] \in {"unsent", "sent"}
<1> USE DEF Typed, TypeOK
<1>1. ASSUME NEW c \in Callers, Call(c) \/ SendFails(c)
      PROVE  UNCHANGED <<result, fate>>
  BY <1>1 DEF Call, SendFails
<1>2. ASSUME NEW c \in Callers, Send(c)
      PROVE  /\ result' = result
             /\ fate'[m] = fate[m] \/ fate[m] = "unsent"
  BY <1>2 DEF Send, TagsAreInOrder, Tags
<1>3. ASSUME NEW c \in Callers, WaitForPublish(c)
      PROVE  /\ fate' = fate
             /\ result'[m] = result[m] \/ result[m] = "none"
  <2>1. fate' = fate /\ (result' = result \/ \E answer : Return(c, answer))
    BY <1>3 DEF WaitForPublish, ReadReturn, ReadConfirm, ConfirmsClosed, CheckReturn, TimeOut
  <2>2. callers[c].pc \in {"wait", "check"}
    BY <1>3 DEF WaitForPublish, ReadReturn, ReadConfirm, ConfirmsClosed, CheckReturn,
                TimeOut, At
  <2>3. callers[c].tag = published /\ published \in Tags /\ result[published] = "none"
    BY <2>2 DEF TagsAreInOrder
  <2> QED
    BY <2>1, <2>3 DEF Return
<1>4. ASSUME NEW n \in Tags, BrokerAnswers(n)
      PROVE  /\ result' = result
             /\ fate'[m] = fate[m] \/ fate[m] = "sent"
  BY <1>4 DEF BrokerAnswers
<1>5. CASE ReaderDelivers \/ Close \/ UNCHANGED vars
  BY <1>5 DEF ReaderDelivers, Close, vars
<1> QED
  BY <1>1, <1>2, <1>3, <1>4, <1>5 DEF Next

LEMMA InStepBack ==
    ASSUME Typed, [Next]_vars, NEW n, InStepBefore(n)'
    PROVE  InStepBefore(n)
<1> SUFFICES ASSUME NEW m \in Tags, m < n
             PROVE  result[m] # "timeout" /\ fate[m] # "unroutable"
  BY DEF InStepBefore
<1>1. result'[m] # "timeout" /\ fate'[m] # "unroutable"
  BY DEF InStepBefore
<1> QED
  BY <1>1, DecisionsAreFinal

(* In step before the next message: also the last one is.                  *)
LEMMA InStepNext ==
    ASSUME Typed, InStepBefore(published + 1)
    PROVE  /\ InStepBefore(published)
           /\ published \in Tags => /\ result[published] # "timeout"
                                    /\ fate[published] # "unroutable"
  BY DEF InStepBefore, Typed, TypeOK, Tags

-------------------------------------------------------------------------------
(* Answers stay in step, action by action.                                 *)
LEMMA SendInStep ==
    ASSUME Typed, InStep, [Next]_vars, NEW c \in Callers, Send(c)
    PROVE  InStep'
<1> SUFFICES ASSUME ~ closed', mutex' # Nobody, InStepBefore(published)'
             PROVE  /\ \A m \in Tags : m < published' => fate'[m] # "sent"
                    /\ callers'[mutex'].pc = "wait"
                    /\ Waiting(published)'
  BY PublisherAssumption DEF InStep, Send
<1>1. /\ mutex = Nobody /\ mutex' = c /\ ~ closed
      /\ published' = published + 1
      /\ fate' = [fate EXCEPT ![published'] = "sent"]
      /\ callers'[c].pc = "wait"
      /\ UNCHANGED <<wire, confirms, returns>>
  BY DEF Send, Typed, TypeOK
<1>2. published' \in Tags
  BY PublisherAssumption DEF Send, Typed, TypeOK, Tags
<1>3. InStepBefore(published + 1)
  <2>1. InStepBefore(published')
    BY InStepBack DEF InStepBefore
  <2> QED
    BY <1>1, <2>1
<1>4. Quiet
  BY <1>1, <1>3 DEF InStep
<1>5. fate'[published'] = "sent" /\ \A m \in Tags : m # published' => fate'[m] = fate[m]
  BY <1>1, <1>2 DEF Typed, TypeOK
<1> QED
  BY <1>1, <1>4, <1>5 DEF Quiet, Waiting, Tags, Typed, TypeOK

(* publish returns in step only from what Waiting and Checking describe.   *)
LEMMA ReturnInStep ==
    ASSUME Typed, InStep, [Next]_vars, NEW c \in Callers,
           callers[c].pc \in {"wait", "check"},
           NEW answer \in {"ok", "error", "timeout"}, Return(c, answer),
           UNCHANGED <<published, fate, closed>>,
           \/ closed \/ answer = "timeout"
           \/ /\ wire' = <<>> /\ confirms' = <<>> /\ returns' = <<>>
              /\ fate[published] # "sent"
           \/ fate[published] = "unroutable"
    PROVE  InStep'
<1>1. /\ mutex = c /\ mutex # Nobody
      /\ mutex' = Nobody /\ result'[published] = answer
      /\ published \in Tags
  BY OnlyOneHolds, ReturnStep DEF Typed, TagsAreInOrder
<1> SUFFICES ASSUME ~ closed, InStepBefore(published + 1)'
             PROVE  Quiet'
  BY <1>1 DEF InStep
<1>2. result'[published] # "timeout" /\ fate[published] # "unroutable"
  BY <1>1 DEF InStepBefore, Tags
<1>3. InStepBefore(published)
  <2>1. InStepBefore(published + 1)
    BY InStepBack DEF InStepBefore
  <2> QED
    BY <2>1, InStepNext
<1>4. \A m \in Tags : m < published => fate[m] # "sent"
  BY <1>1, <1>3 DEF InStep
<1>5. \A m \in Tags : m > published => fate[m] # "sent"
  BY DEF Typed, TagsAreInOrder
<1> QED
  BY <1>1, <1>2, <1>4, <1>5 DEF Quiet, Tags

LEMMA ReadInStep ==
    ASSUME Typed, InStep, [Next]_vars, NEW c \in Callers, WaitForPublish(c)
    PROVE  InStep'
<1>1. callers[c].pc \in {"wait", "check"}
  BY DEF WaitForPublish, ReadReturn, ReadConfirm, ConfirmsClosed, CheckReturn, TimeOut, At
<1>2. mutex = c /\ mutex # Nobody
  BY <1>1, OnlyOneHolds DEF Typed
<1>3. CASE closed
  BY <1>3 DEF InStep, WaitForPublish, ReadReturn, ReadConfirm, ConfirmsClosed, CheckReturn,
              TimeOut
<1>4. CASE ~ closed /\ InStepBefore(published)
  <2>1. callers[c].pc = "wait" => Waiting(published)
    BY <1>2, <1>4 DEF InStep
  <2>2. callers[c].pc = "check" => Checking(published)
    BY <1>2, <1>4 DEF InStep
  <2>3. CASE ReadReturn(c)
    <3>1. returns # <<>> /\ Waiting(published)
      BY <1>4, <2>1, <2>3 DEF ReadReturn, At
    <3>2. fate[published] = "unroutable"
      BY <3>1 DEF Waiting, AnswerOnItsWay
    <3> QED
      BY <1>1, <2>3, <3>2, ReturnInStep DEF ReadReturn
  <2>4. CASE ReadConfirm(c)
    <3>1. /\ Waiting(published)
          /\ confirms # <<>> /\ confirms' = Tail(confirms)
          /\ UNCHANGED <<published, fate, wire, returns, closed>>
      BY <2>1, <2>4 DEF ReadConfirm, At
    <3>2. /\ wire = <<>> /\ confirms' = <<>>
          /\ \/ fate[published] = "routed" /\ Head(confirms).kind = "ack" /\ returns = <<>>
             \/ fate[published] = "refused" /\ Head(confirms).kind = "nack" /\ returns = <<>>
             \/ /\ fate[published] = "unroutable" /\ Head(confirms).kind = "ack"
                /\ returns = <<Frame("return", published)>>
      BY <3>1 DEF Waiting, AnswerOnItsWay, ReturnOnItsWay, Frame
    <3>3. CASE Head(confirms).kind = "nack" /\ Return(c, "error")
      BY <1>1, <3>1, <3>2, <3>3, ReturnInStep
    <3>4. CASE /\ Head(confirms).kind = "ack"
               /\ callers' = [callers EXCEPT ![c].pc = "check"]
               /\ UNCHANGED <<mutex, result>>
      <4>1. callers'[mutex'].pc = "check" /\ mutex' = mutex
        BY <1>2, <3>4 DEF Typed, TypeOK
      <4>2. Checking(published)'
        BY <3>1, <3>2, <3>4 DEF Checking
      <4>3. \A m \in Tags : m < published' => fate'[m] # "sent"
        BY <1>2, <1>4, <3>1 DEF InStep
      <4> QED
        BY <1>2, <3>1, <4>1, <4>2, <4>3 DEF InStep
    <3> QED
      BY <2>4, <3>3, <3>4 DEF ReadConfirm
  <2>5. CASE CheckReturn(c)
    <3>1. Checking(published)
      BY <2>2, <2>5 DEF CheckReturn, At
    <3>2. PICK answer \in {"ok", "error", "timeout"} :
             /\ Return(c, answer)
             /\ returns' = IF returns = <<>> THEN <<>> ELSE Tail(returns)
             /\ UNCHANGED <<published, fate, wire, confirms, closed>>
      BY <2>5 DEF CheckReturn
    <3>3. \/ wire' = <<>> /\ confirms' = <<>> /\ returns' = <<>> /\ fate[published] # "sent"
          \/ fate[published] = "unroutable"
      BY <3>1, <3>2 DEF Checking
    <3> QED
      BY <1>1, <3>2, <3>3, ReturnInStep
  <2>6. CASE TimeOut(c)
    BY <1>1, <2>6, ReturnInStep DEF TimeOut
  <2> QED
    BY <1>4, <2>3, <2>4, <2>5, <2>6 DEF WaitForPublish, ConfirmsClosed
<1>5. CASE ~ closed /\ ~ InStepBefore(published)
  <2>1. ~ InStepBefore(published)' /\ published' = published
    <3>1. published' = published
      BY DEF WaitForPublish, ReadReturn, ReadConfirm, ConfirmsClosed, CheckReturn, TimeOut
    <3>2. InStepBefore(published)' => InStepBefore(published)
      BY <3>1, InStepBack DEF InStepBefore
    <3> QED
      BY <1>5, <3>1, <3>2
  <2>2. ~ InStepBefore(published + 1)'
    BY <2>1, TypedStep, InStepNext DEF InStepBefore, Typed, TypeOK, Tags
  <2> QED
    BY <2>1, <2>2 DEF InStep
<1> QED
  BY <1>3, <1>4, <1>5

LEMMA BrokerInStep ==
    ASSUME Typed, InStep, [Next]_vars, NEW n \in Tags, BrokerAnswers(n)
    PROVE  InStep'
<1>1. /\ UNCHANGED <<mutex, callers, published, result, confirms, returns, closed>>
      /\ ~ closed /\ fate[n] = "sent"
      /\ \A m \in Tags : m < n => fate[m] # "sent"
      /\ \A m \in Tags : m # n => fate'[m] = fate[m]
      /\ fate'[n] # "sent"
  BY DEF BrokerAnswers, Typed, TypeOK
<1>2. CASE mutex = Nobody
  <2>1. ASSUME InStepBefore(published + 1)'
        PROVE  FALSE
    <3>1. InStepBefore(published + 1)
      BY <1>1, <2>1, InStepBack DEF InStepBefore
    <3> QED
      BY <1>1, <1>2, <3>1 DEF InStep, Quiet
  <2> QED
    BY <1>1, <1>2, <2>1 DEF InStep
<1>3. CASE mutex # Nobody
  <2> SUFFICES ASSUME InStepBefore(published)'
               PROVE  /\ \A m \in Tags : m < published => fate'[m] # "sent"
                      /\ callers[mutex].pc = "wait" => Waiting(published)'
                      /\ callers[mutex].pc = "check" => Checking(published)'
    BY <1>1, <1>3 DEF InStep
  <2>1. InStepBefore(published)
    BY <1>1, InStepBack DEF InStepBefore
  <2>2. \A m \in Tags : m < published => fate[m] # "sent"
    BY <1>1, <1>3, <2>1 DEF InStep
  <2>3. n = published
    BY <1>1, <2>2 DEF Typed, TypeOK, TagsAreInOrder, Tags
  <2>4. callers[mutex].pc = "wait" => Waiting(published)
    BY <1>1, <1>3, <2>1 DEF InStep
  <2>5. callers[mutex].pc # "check"
    BY <1>1, <1>3, <2>1, <2>3 DEF InStep, Checking
  <2>6. ASSUME callers[mutex].pc = "wait"
        PROVE  Waiting(published)'
    <3>1. wire = <<>> /\ confirms = <<>> /\ returns = <<>>
      BY <1>1, <2>3, <2>4, <2>6 DEF Waiting
    <3>2. \A kind : Append(wire, Frame(kind, n)) = <<Frame(kind, n)>>
      BY <3>1
    <3>3. wire \o <<Frame("return", n), Frame("ack", n)>>
             = <<Frame("return", n), Frame("ack", n)>>
      BY <3>1
    <3>4. \/ fate'[n] = "routed" /\ wire' = <<Frame("ack", n)>>
          \/ fate'[n] = "refused" /\ wire' = <<Frame("nack", n)>>
          \/ fate'[n] = "unroutable" /\ wire' = <<Frame("return", n), Frame("ack", n)>>
      BY <3>2, <3>3 DEF BrokerAnswers, Typed, TypeOK
    <3> QED
      BY <1>1, <2>3, <3>1, <3>4 DEF Waiting, AnswerOnItsWay, ReturnOnItsWay
  <2> QED
    BY <1>1, <2>2, <2>5, <2>6
<1> QED
  BY <1>2, <1>3

LEMMA ReaderInStep ==
    ASSUME Typed, InStep, ReaderDelivers
    PROVE  InStep'
<1>1. /\ UNCHANGED <<mutex, callers, published, fate, result, closed>>
      /\ wire # <<>> /\ wire' = Tail(wire)
  BY DEF ReaderDelivers
<1>2. /\ Head(wire).kind = "return" => /\ returns' = Append(returns, Head(wire))
                                       /\ confirms' = confirms
      /\ Head(wire).kind # "return" => /\ confirms' = Append(confirms, Head(wire))
                                       /\ returns' = returns
  BY DEF ReaderDelivers
<1>3. InStepBefore(published)' <=> InStepBefore(published)
  BY <1>1 DEF InStepBefore
<1>4. ASSUME ~ closed, mutex = Nobody, InStepBefore(published + 1)'
      PROVE  FALSE
  BY <1>1, <1>4 DEF InStep, Quiet, InStepBefore
<1>5. ASSUME Waiting(published)
      PROVE  Waiting(published)'
  <2>1. \A kind : /\ Head(<<Frame(kind, published)>>) = Frame(kind, published)
                  /\ Tail(<<Frame(kind, published)>>) = <<>>
                  /\ Append(<<>>, Frame(kind, published)) = <<Frame(kind, published)>>
    OBVIOUS
  <2>2. CASE fate[published] \in {"routed", "refused"}
    <3>1. PICK kind \in {"ack", "nack"} :
             /\ wire = <<Frame(kind, published)>> /\ confirms = <<>> /\ returns = <<>>
             /\ fate[published] = "routed" => kind = "ack"
             /\ fate[published] = "refused" => kind = "nack"
      BY <1>1, <1>5, <2>2 DEF Waiting, AnswerOnItsWay
    <3>2. /\ wire' = <<>> /\ returns' = <<>>
          /\ confirms' = <<Frame(kind, published)>>
      BY <1>1, <1>2, <2>1, <3>1 DEF Frame
    <3> QED
      BY <1>1, <2>2, <3>1, <3>2 DEF Waiting, AnswerOnItsWay
  <2>3. CASE fate[published] = "unroutable"
    <3>1. CASE wire = <<Frame("return", published), Frame("ack", published)>>
      <4>1. Head(wire) = Frame("return", published) /\ Tail(wire) = <<Frame("ack", published)>>
        BY <3>1
      <4>2. returns = <<>> /\ confirms = <<>>
        BY <1>5, <2>3, <3>1 DEF Waiting, ReturnOnItsWay
      <4>3. /\ wire' = <<Frame("ack", published)>> /\ confirms' = <<>>
            /\ returns' = <<Frame("return", published)>>
        BY <1>1, <1>2, <2>1, <4>1, <4>2 DEF Frame
      <4> QED
        BY <1>1, <2>3, <4>3 DEF Waiting, ReturnOnItsWay
    <3>2. CASE /\ wire = <<Frame("ack", published)>> /\ confirms = <<>>
               /\ returns = <<Frame("return", published)>>
      <4>1. /\ wire' = <<>> /\ returns' = returns
            /\ confirms' = <<Frame("ack", published)>>
        BY <1>1, <1>2, <2>1, <3>2 DEF Frame
      <4> QED
        BY <1>1, <2>3, <3>2, <4>1 DEF Waiting, ReturnOnItsWay
    <3> QED
      BY <1>1, <1>5, <2>3, <3>1, <3>2 DEF Waiting, ReturnOnItsWay
  <2> QED
    BY <1>1, <1>5, <2>2, <2>3 DEF Waiting
<1>6. Checking(published) => FALSE
  BY <1>1 DEF Checking
<1> QED
  BY <1>1, <1>3, <1>4, <1>5, <1>6 DEF InStep

LEMMA InStepStep ==
    ASSUME Typed, InStep, [Next]_vars
    PROVE  InStep'
<1>1. ASSUME NEW c \in Callers, Call(c)
      PROVE  InStep'
  <2>1. mutex # c
    BY <1>1 DEF Call, At, Typed, TypeOK
  <2>2. mutex # Nobody => callers'[mutex] = callers[mutex]
    BY <1>1, <2>1 DEF Call, Typed, TypeOK
  <2>3. UNCHANGED <<mutex, published, fate, result, wire, confirms, returns, closed>>
    BY <1>1 DEF Call
  <2> QED
    BY <2>2, <2>3 DEF InStep, InStepBefore, Quiet, Waiting, Checking, AnswerOnItsWay,
                      ReturnOnItsWay
<1>2. ASSUME NEW c \in Callers, SendFails(c)
      PROVE  InStep'
  BY <1>2 DEF SendFails, InStep
<1>3. CASE Close
  BY <1>3 DEF Close, InStep
<1>4. CASE UNCHANGED vars
  BY <1>4 DEF vars, InStep, InStepBefore, Quiet, Waiting, Checking, AnswerOnItsWay,
              ReturnOnItsWay
<1> QED
  BY <1>1, <1>2, <1>3, <1>4, SendInStep, ReadInStep, BrokerInStep, ReaderInStep DEF Next

-------------------------------------------------------------------------------
(* A new success comes from an ack with no return, and the channel open.   *)
LEMMA ConfirmedStep ==
    ASSUME Typed, InStep, OkMeansConfirmedInStep, [Next]_vars
    PROVE  OkMeansConfirmedInStep'
<1> SUFFICES ASSUME NEW n \in Tags, result'[n] = "ok", InStepBefore(n)'
             PROVE  fate'[n] = "routed"
  BY DEF OkMeansConfirmedInStep
<1>1. InStepBefore(n)
  BY InStepBack
<1>2. CASE result[n] = "ok"
  BY <1>1, <1>2, DecisionsAreFinal DEF OkMeansConfirmedInStep
<1>3. CASE result[n] # "ok"
  <2>1. PICK c \in Callers : CheckReturn(c) /\ returns = <<>> /\ ~ closed
    <3>1. ASSUME NEW c \in Callers, NEW answer \in {"error", "timeout"}, Return(c, answer)
          PROVE  FALSE
      BY <1>3, <3>1 DEF Return, Typed, TypeOK
    <3>2. result' # result
      BY <1>3
    <3>3. \E c \in Callers : WaitForPublish(c)
      BY <3>2 DEF Next, vars, Call, Send, SendFails, BrokerAnswers, ReaderDelivers, Close
    <3> QED
      BY <3>1, <3>2, <3>3
         DEF WaitForPublish, ReadReturn, ReadConfirm, ConfirmsClosed, CheckReturn, TimeOut
  <2>2. callers[c].pc = "check" /\ mutex = c /\ mutex # Nobody /\ callers[c].tag = published
    BY <2>1, OnlyOneHolds DEF CheckReturn, At, Typed, TagsAreInOrder
  <2>3. n = published
    BY <1>3, <2>1, <2>2 DEF CheckReturn, Return, Typed, TypeOK
  <2>4. Checking(published)
    BY <1>1, <2>1, <2>2, <2>3 DEF InStep
  <2> QED
    BY <2>1, <2>3, <2>4 DEF Checking, CheckReturn
<1> QED
  BY <1>2, <1>3

LEMMA PublisherSafety == Spec => []IInv
<1>1. IInv /\ [Next]_vars => IInv'
  BY TypedStep, InStepStep, ConfirmedStep DEF IInv, Typed
<1> QED
  BY <1>1, PublisherInit, PTL DEF Spec

(* Types, the capacity of the Go channels, and mutual exclusion: whoever   *)
(* is between Lock and Unlock, and nobody else, holds publisherMu.         *)
THEOREM PublisherTypeCorrect == Spec => []TypeOK
  BY PublisherSafety, PTL DEF IInv

(* Until a timeout or an unroutable message has put the answers out of     *)
(* step, publish returns nil only for a message the broker has accepted.   *)
THEOREM NilMeansConfirmed == Spec => []OkMeansConfirmedInStep
  BY PublisherSafety, PTL DEF IInv

(* Until then nothing is left over while the mutex is free, and whatever   *)
(* comes while it is held answers the message of its owner.                *)
THEOREM AnswersStayInStep == Spec => []AnswersInStep
<1>1. IInv => AnswersInStep
  <2> SUFFICES ASSUME IInv, ~ closed, InStepBefore(published + 1)
               PROVE  AnswersInStep
    BY DEF AnswersInStep
  <2>1. CASE mutex = Nobody
    BY <2>1 DEF IInv, InStep, Quiet, AnswersInStep
  <2>2. CASE mutex # Nobody
    <3>1. /\ mutex \in Callers /\ callers[mutex].pc \in {"wait", "check"}
          /\ callers[mutex].tag = published /\ published \in Tags
      BY <2>2 DEF IInv, TypeOK, TagsAreInOrder
    <3>2. fate[published] # "unroutable" /\ InStepBefore(published)
      BY <3>1, InStepNext DEF IInv, Typed
    <3>3. Waiting(published) \/ Checking(published)
      BY <2>2, <3>1, <3>2 DEF IInv, InStep
    <3>4. /\ returns = <<>>
          /\ \/ wire = <<>>
             \/ Len(wire) = 1 /\ wire[1].tag = published
          /\ \/ confirms = <<>>
             \/ Len(confirms) = 1 /\ confirms[1].tag = published
      BY <3>2, <3>3 DEF Waiting, Checking, AnswerOnItsWay, Frame
    <3>5. /\ \A i \in 1..Len(wire) : wire[i].tag = published
          /\ \A i \in 1..Len(confirms) : confirms[i].tag = published
      BY <3>4
    <3> QED
      BY <2>2, <3>1, <3>4, <3>5 DEF AnswersInStep
  <2> QED
    BY <2>1, <2>2
<1> QED
  BY <1>1, PublisherSafety, PTL

-------------------------------------------------------------------------------
(* Counting.  However far answers and messages have drifted apart, an ack  *)
(* is on the wire, in the Go channel, with a goroutine, or has made a      *)
(* success or an error.                                                    *)
LEMMA SetsOfTags ==
    /\ IsFiniteSet(Oks) /\ IsFiniteSet(Acked) /\ IsFiniteSet(Spent)
    /\ Cardinality(Oks) \in Nat /\ Cardinality(Acked) \in Nat /\ Cardinality(Spent) \in Nat
    /\ IsFiniteSet(Oks') /\ IsFiniteSet(Spent')
    /\ Cardinality(Oks)' \in Nat /\ Cardinality(Spent)' \in Nat
<1>1. IsFiniteSet(Tags)
  BY PublisherAssumption, FS_Interval DEF Tags
<1>2. /\ Oks \subseteq Tags /\ Acked \subseteq Tags /\ Spent \subseteq Tags
      /\ Oks' \subseteq Tags /\ Spent' \subseteq Tags
  BY DEF Oks, Acked, Spent
<1>3. IsFiniteSet(Oks) /\ IsFiniteSet(Acked) /\ IsFiniteSet(Spent)
  BY <1>1, <1>2, FS_Subset
<1>4. IsFiniteSet(Oks') /\ IsFiniteSet(Spent')
  BY <1>1, <1>2, FS_Subset
<1> QED
  BY <1>3, <1>4, FS_CardinalityType

Confirmations == [kind : {"ack", "nack"}, tag : Tags]

(* Frames as they travel: a step that leaves wire and confirms alone.      *)
LEMMA FramesStay ==
    ASSUME AcksAreDistinct, UNCHANGED <<wire, confirms>>, Acked' = Acked
    PROVE  AcksAreDistinct' /\ Spent' = Spent
  BY DEF AcksAreDistinct, InFlight, WireAcks, Spent

LEMMA CoverKept ==
    ASSUME AcksCoverOks, Spent \subseteq Spent', Oks' = Oks, Checkers' <= Checkers
    PROVE  AcksCoverOks'
<1>1. Cardinality(Spent) <= Cardinality(Spent')
  BY SetsOfTags, FS_Subset
<1>2. Checkers \in Nat /\ Checkers' \in Nat
  BY DEF Checkers
<1> QED
  BY <1>1, <1>2, SetsOfTags DEF AcksCoverOks

(* An error is not a success, and nobody checks after publish returned.    *)
LEMMA ErrorKeepsCover ==
    ASSUME Typed, AcksCoverOks, NEW c \in Callers, callers[c].pc \in {"wait", "check"},
           NEW answer \in {"error", "timeout"}, Return(c, answer),
           UNCHANGED <<published, fate>>, Spent' = Spent
    PROVE  AcksCoverOks'
<1>1. /\ \A n \in Tags : n # published => result'[n] = result[n]
      /\ result'[published] = answer
      /\ \A d \in Callers : callers'[d].pc \notin {"wait", "check"}
  BY ReturnStep
<1>2. result[published] = "none"
  BY DEF Typed, TagsAreInOrder
<1>3. Oks' = Oks
  BY <1>1, <1>2 DEF Oks
<1>4. Checkers' <= Checkers
  BY <1>1 DEF Checkers
<1> QED
  BY <1>3, <1>4, CoverKept

LEMMA CheckKeepsCover ==
    ASSUME Typed, CountInv, NEW c \in Callers, CheckReturn(c)
    PROVE  CountInv'
<1>1. /\ UNCHANGED <<published, fate, wire, confirms>>
      /\ callers[c].pc = "check"
      /\ \/ Return(c, "ok") \/ Return(c, "error")
  BY DEF CheckReturn, At
<1>2. AcksAreDistinct' /\ Spent' = Spent
  BY <1>1, FramesStay DEF CountInv, Acked
<1>3. CASE Return(c, "error")
  BY <1>1, <1>2, <1>3, ErrorKeepsCover DEF CountInv
<1>4. CASE Return(c, "ok")
  <2>1. /\ \A n \in Tags : n # published => result'[n] = result[n]
        /\ result'[published] = "ok"
        /\ \A d \in Callers : callers'[d].pc \notin {"wait", "check"}
        /\ published \in Tags
    BY <1>1, <1>4, ReturnStep DEF Typed, TagsAreInOrder
  <2>2. Oks' = Oks \cup {published}
    BY <2>1 DEF Oks
  <2>3. Cardinality(Oks') <= Cardinality(Oks) + 1
    BY <2>2, SetsOfTags, FS_AddElement
  <2>4. Checkers = 1 /\ Checkers' = 0
    BY <1>1, <2>1 DEF Checkers
  <2> QED
    BY <1>2, <2>3, <2>4, SetsOfTags DEF CountInv, AcksCoverOks
<1> QED
  BY <1>1, <1>3, <1>4

LEMMA ConfirmKeepsCover ==
    ASSUME Typed, CountInv, NEW c \in Callers, ReadConfirm(c)
    PROVE  CountInv'
<1>1. /\ confirms \in Seq([kind : {"ack", "nack"}, tag : Tags])
      /\ confirms # <<>> /\ confirms' = <<>> /\ Len(confirms) = 1
      /\ UNCHANGED <<published, fate, wire>>
      /\ callers[c].pc = "wait"
  <2>1. confirms \in Seq(Confirmations) /\ confirms # <<>>
    BY DEF ReadConfirm, Typed, TypeOK, Confirmations
  <2>2. Len(confirms) <= Capacity
    BY DEF Typed, TypeOK
  <2>3. Len(confirms) \in Nat \ {0}
    BY <2>1, EmptySeq
  <2>4. Tail(confirms) = <<>>
    BY <2>1, <2>2, TailFits
  <2>5. Len(confirms) = 1
    BY <2>2, <2>3 DEF Capacity
  <2> QED
    BY <2>1, <2>4, <2>5 DEF ReadConfirm, At, Return, Confirmations
<1>2. Head(confirms) = confirms[1]
  BY <1>1
<1> DEFINE t == confirms[1].tag
<1>3. Acked' = Acked
  BY <1>1 DEF Acked
<1>4. InFlight' = {wire[i].tag : i \in WireAcks} /\ WireAcks' = WireAcks
  BY <1>1 DEF InFlight, WireAcks
<1>5. InFlight' \subseteq InFlight /\ (confirms[1].kind # "ack" => InFlight' = InFlight)
  BY <1>1, <1>4 DEF InFlight
<1>6. AcksAreDistinct'
  BY <1>1, <1>3, <1>4, <1>5 DEF CountInv, AcksAreDistinct
<1>7. CASE confirms[1].kind = "nack" /\ Return(c, "error")
  <2>1. Spent' = Spent
    BY <1>3, <1>5, <1>7 DEF Spent
  <2> QED
    BY <1>1, <1>6, <1>7, <2>1, ErrorKeepsCover DEF CountInv
<1>8. CASE /\ confirms[1].kind = "ack"
           /\ callers' = [callers EXCEPT ![c].pc = "check"]
           /\ UNCHANGED <<mutex, result>>
  <2>1. t \in InFlight /\ t \in Acked /\ t \notin InFlight'
    BY <1>1, <1>4, <1>8 DEF InFlight, CountInv, AcksAreDistinct
  <2>2. t \notin Spent /\ Spent \cup {t} \subseteq Spent'
    BY <1>3, <1>5, <2>1 DEF Spent
  <2>3. /\ Cardinality(Spent \cup {t}) = Cardinality(Spent) + 1
        /\ IsFiniteSet(Spent \cup {t})
    BY <2>2, SetsOfTags, FS_AddElement
  <2>4. Cardinality(Spent) + 1 <= Cardinality(Spent')
    BY <2>2, <2>3, SetsOfTags, FS_Subset
  <2>5. Checkers = 0 /\ Checkers' \in {0, 1}
    BY <1>1, OnlyOneHolds DEF Checkers, Typed
  <2>6. Oks' = Oks
    BY <1>8 DEF Oks
  <2> QED
    BY <1>6, <2>4, <2>5, <2>6, SetsOfTags DEF CountInv, AcksCoverOks
<1> QED
  BY <1>2, <1>7, <1>8 DEF ReadConfirm

(* The broker's ack is new, and on the wire it is not spent.               *)
LEMMA BrokerKeepsCover ==
    ASSUME Typed, CountInv, NEW n \in Tags, BrokerAnswers(n)
    PROVE  CountInv'
<1>1. /\ fate[n] = "sent" /\ \A m \in Tags : m # n => fate'[m] = fate[m]
      /\ UNCHANGED <<callers, result, confirms>>
  BY DEF BrokerAnswers, Typed, TypeOK
<1>2. wire \in Seq(Frames) /\ Len(wire) \in Nat
  BY LenProperties DEF Typed, TypeOK
<1>3. n \notin Acked /\ n \notin InFlight
  BY <1>1 DEF Acked, CountInv, AcksAreDistinct
<1>4. \A kind \in {"ack", "nack", "return"} :
         /\ Frame(kind, n) \in Frames
         /\ Frame(kind, n).kind = kind /\ Frame(kind, n).tag = n
  BY DEF Frame, Frames
<1>5. Oks' = Oks /\ Checkers' = Checkers
  BY <1>1 DEF Oks, Checkers
<1>6. CASE fate'[n] = "refused" /\ wire' = Append(wire, Frame("nack", n))
  <2>1. /\ Len(wire') = Len(wire) + 1
        /\ \A i \in 1..Len(wire) : wire'[i] = wire[i]
        /\ wire'[Len(wire) + 1] = Frame("nack", n)
    BY <1>2, <1>4, <1>6, AppendProperties
  <2>2. WireAcks' = WireAcks /\ \A i \in WireAcks : wire'[i] = wire[i]
    BY <1>2, <1>4, <2>1 DEF WireAcks
  <2>3. Acked' = Acked
    BY <1>1, <1>6 DEF Acked
  <2>4. InFlight' = InFlight
    BY <1>1, <2>2 DEF InFlight
  <2>5. AcksAreDistinct'
    BY <1>1, <2>2, <2>3, <2>4 DEF CountInv, AcksAreDistinct
  <2> QED
    BY <1>5, <2>3, <2>4, <2>5, CoverKept DEF CountInv, Spent, Checkers
<1>7. ASSUME NEW k \in Nat, k > Len(wire),
             fate'[n] \in {"routed", "unroutable"},
             WireAcks' = WireAcks \cup {k},
             wire'[k] = Frame("ack", n),
             \A i \in WireAcks : wire'[i] = wire[i]
      PROVE  CountInv'
  <2>1. Acked' = Acked \cup {n}
    BY <1>1, <1>7 DEF Acked
  <2>2. InFlight' = InFlight \cup {n}
    BY <1>1, <1>4, <1>7 DEF InFlight
  <2>3. Spent' = Spent
    BY <1>3, <2>1, <2>2 DEF Spent
  <2>4. \A i \in WireAcks : wire[i].tag # n
    BY <1>3 DEF InFlight
  <2>5. \A i, j \in WireAcks' : wire'[i].tag = wire'[j].tag => i = j
    BY <1>4, <1>7, <2>4 DEF CountInv, AcksAreDistinct
  <2>6. \A j \in 1..Len(confirms) : confirms[j].kind = "ack" => confirms[j].tag # n
    BY <1>3 DEF InFlight
  <2>7. \A i \in WireAcks', j \in 1..Len(confirms') :
           confirms'[j].kind = "ack" => wire'[i].tag # confirms'[j].tag
    BY <1>1, <1>4, <1>7, <2>6 DEF CountInv, AcksAreDistinct
  <2>8. AcksAreDistinct'
    BY <2>1, <2>2, <2>5, <2>7 DEF CountInv, AcksAreDistinct
  <2> QED
    BY <1>5, <2>3, <2>8, CoverKept DEF CountInv, Checkers
<1>8. CASE fate'[n] = "routed" /\ wire' = Append(wire, Frame("ack", n))
  <2>1. /\ Len(wire') = Len(wire) + 1
        /\ \A i \in 1..Len(wire) : wire'[i] = wire[i]
        /\ wire'[Len(wire) + 1] = Frame("ack", n)
    BY <1>2, <1>4, <1>8, AppendProperties
  <2>2. WireAcks' = WireAcks \cup {Len(wire) + 1}
    BY <1>2, <1>4, <2>1 DEF WireAcks
  <2> QED
    BY <1>2, <1>7, <1>8, <2>1, <2>2 DEF WireAcks
<1>9. CASE /\ fate'[n] = "unroutable"
           /\ wire' = wire \o <<Frame("return", n), Frame("ack", n)>>
  <2> DEFINE both == <<Frame("return", n), Frame("ack", n)>>
  <2>1. /\ both \in Seq(Frames) /\ Len(both) = 2
        /\ both[1] = Frame("return", n) /\ both[2] = Frame("ack", n)
    BY <1>4
  <2>2. /\ Len(wire') = Len(wire) + 2
        /\ \A i \in 1..Len(wire) : wire'[i] = wire[i]
        /\ wire'[Len(wire) + 1] = Frame("return", n)
        /\ wire'[Len(wire) + 2] = Frame("ack", n)
    <3>1. /\ Len(wire \o both) = Len(wire) + Len(both)
          /\ \A i \in 1 .. Len(wire) + Len(both) : (wire \o both)[i] =
                     IF i <= Len(wire) THEN wire[i] ELSE both[i - Len(wire)]
      BY <1>2, <2>1, ConcatProperties
    <3> HIDE DEF both
    <3>2. \A i \in 1..Len(wire) + 2 : wire'[i] =
                     IF i <= Len(wire) THEN wire[i] ELSE both[i - Len(wire)]
      BY <1>9, <2>1, <3>1 DEF both
    <3> QED
      BY <1>2, <1>9, <2>1, <3>1, <3>2 DEF both
  <2>3. WireAcks' = WireAcks \cup {Len(wire) + 2}
    BY <1>2, <1>4, <2>2 DEF WireAcks
  <2>4. Len(wire) + 2 \in Nat /\ Len(wire) + 2 > Len(wire)
    BY <1>2
  <2>5. \A i \in WireAcks : wire'[i] = wire[i]
    BY <2>2 DEF WireAcks
  <2>6. fate'[n] \in {"routed", "unroutable"}
    BY <1>9
  <2> HIDE DEF both
  <2> QED
    BY <1>7, <2>2, <2>3, <2>4, <2>5, <2>6
<1> QED
  BY <1>6, <1>8, <1>9 DEF BrokerAnswers, Typed, TypeOK

(* The reader moves a frame from the wire to a Go channel.                 *)
LEMMA ReaderKeepsCover ==
    ASSUME Typed, CountInv, ReaderDelivers
    PROVE  CountInv'
<1>1. /\ UNCHANGED <<callers, fate, result>>
      /\ wire \in Seq(Frames) /\ wire # <<>> /\ wire' = Tail(wire)
      /\ confirms \in Seq([kind : {"ack", "nack"}, tag : Tags])
  BY DEF ReaderDelivers, Typed, TypeOK
<1>2. /\ Head(wire) = wire[1] /\ wire[1] \in Frames
      /\ Len(wire) \in Nat \ {0} /\ Len(wire') = Len(wire) - 1
      /\ \A i \in 1..Len(wire') : wire'[i] = wire[i + 1]
  BY <1>1, HeadTailProperties, EmptySeq
<1>3. Oks' = Oks /\ Checkers' = Checkers /\ Acked' = Acked
  BY <1>1 DEF Oks, Checkers, Acked
<1>4. \A i : i \in WireAcks' <=> i \in Nat \ {0} /\ i + 1 \in WireAcks
  BY <1>2 DEF WireAcks
<1>5. \A i \in WireAcks' : wire'[i] = wire[i + 1] /\ i \in Nat \ {0} /\ i + 1 \in WireAcks
  BY <1>2, <1>4 DEF WireAcks
<1>6. \A i \in WireAcks : i = 1 \/ (i - 1 \in WireAcks' /\ wire'[i - 1] = wire[i])
  <2> SUFFICES ASSUME NEW i \in WireAcks, i # 1
               PROVE  i - 1 \in WireAcks' /\ wire'[i - 1] = wire[i]
    OBVIOUS
  <2>1. i \in 2..Len(wire) /\ i - 1 \in Nat \ {0} /\ (i - 1) + 1 = i
    BY <1>2 DEF WireAcks
  <2>2. i - 1 \in WireAcks'
    BY <1>4, <2>1
  <2> QED
    BY <1>5, <2>1, <2>2
<1>7. 1 \in WireAcks <=> wire[1].kind = "ack"
  BY <1>2 DEF WireAcks
<1>8. \A i, j \in WireAcks' : wire'[i].tag = wire'[j].tag => i = j
  <2> SUFFICES ASSUME NEW i \in WireAcks', NEW j \in WireAcks', wire'[i].tag = wire'[j].tag
               PROVE  i = j
    OBVIOUS
  <2>1. i + 1 = j + 1
    BY <1>5 DEF CountInv, AcksAreDistinct
  <2> QED
    BY <1>5, <2>1
<1>9. CASE wire[1].kind = "ack"
  <2>1. confirms = <<>> /\ confirms' = <<wire[1]>>
    <3>1. wire[1] \in [kind : {"ack", "nack"}, tag : Tags]
      BY <1>2, <1>9 DEF Frames
    <3>2. Len(confirms) < Capacity /\ confirms' = Append(confirms, wire[1])
      BY <1>2, <1>9 DEF ReaderDelivers
    <3>3. confirms \in Seq(Confirmations) /\ wire[1] \in Confirmations
      BY <1>1, <3>1 DEF Confirmations
    <3>4. confirms = <<>> /\ Append(confirms, wire[1]) = <<wire[1]>>
      BY <3>2, <3>3, AppendFits
    <3> QED
      BY <3>2, <3>4
  <2>2. InFlight = {wire[i].tag : i \in WireAcks}
    BY <2>1 DEF InFlight
  <2>3. InFlight' = {wire'[i].tag : i \in WireAcks'} \cup {wire[1].tag}
    BY <1>9, <2>1 DEF InFlight
  <2>4. InFlight' = InFlight
    BY <1>5, <1>6, <1>7, <1>9, <2>2, <2>3
  <2>5. \A i \in WireAcks' : wire'[i].tag # wire[1].tag
    BY <1>5, <1>7, <1>9 DEF CountInv, AcksAreDistinct
  <2>6. AcksAreDistinct'
    BY <1>3, <1>8, <2>1, <2>4, <2>5 DEF CountInv, AcksAreDistinct
  <2> QED
    BY <1>3, <2>4, <2>6, CoverKept DEF CountInv, Spent, Checkers
<1>10. CASE wire[1].kind # "ack"
  <2>1. \/ confirms' = confirms
        \/ confirms = <<>> /\ confirms' = <<wire[1]>>
    <3>1. CASE wire[1].kind = "return"
      BY <1>2, <3>1 DEF ReaderDelivers
    <3>2. CASE wire[1].kind = "nack"
      <4>1. wire[1] \in [kind : {"ack", "nack"}, tag : Tags]
        BY <1>2, <3>2 DEF Frames
      <4>2. Len(confirms) < Capacity /\ confirms' = Append(confirms, wire[1])
        BY <1>2, <3>2 DEF ReaderDelivers
      <4>3. confirms \in Seq(Confirmations) /\ wire[1] \in Confirmations
        BY <1>1, <4>1 DEF Confirmations
      <4>4. confirms = <<>> /\ Append(confirms, wire[1]) = <<wire[1]>>
        BY <4>2, <4>3, AppendFits
      <4> QED
        BY <4>2, <4>4
    <3> QED
      BY <1>2, <1>10, <3>1, <3>2 DEF Frames
  <2>2. {wire'[i].tag : i \in WireAcks'} = {wire[i].tag : i \in WireAcks}
    BY <1>5, <1>6, <1>7, <1>10
  <2>3. /\ {confirms'[i].tag : i \in {k \in 1..Len(confirms') : confirms'[k].kind = "ack"}}
            = {confirms[i].tag : i \in {k \in 1..Len(confirms) : confirms[k].kind = "ack"}}
        /\ \A k \in 1..Len(confirms') : confirms'[k].kind = "ack" =>
              k \in 1..Len(confirms) /\ confirms'[k] = confirms[k]
    BY <1>10, <2>1
  <2>4. InFlight' = InFlight
    BY <2>2, <2>3 DEF InFlight
  <2>5. \A i \in WireAcks', k \in 1..Len(confirms') :
           confirms'[k].kind = "ack" => wire'[i].tag # confirms'[k].tag
    BY <1>5, <2>3 DEF CountInv, AcksAreDistinct
  <2>6. AcksAreDistinct'
    BY <1>3, <1>8, <2>4, <2>5 DEF CountInv, AcksAreDistinct
  <2> QED
    BY <1>3, <2>4, <2>6, CoverKept DEF CountInv, Spent, Checkers
<1> QED
  BY <1>9, <1>10

LEMMA CloseKeepsCover ==
    ASSUME Typed, CountInv, Close
    PROVE  CountInv'
<1>1. UNCHANGED <<callers, fate, result, confirms>> /\ wire' = <<>>
  BY DEF Close
<1>2. WireAcks' = {}
  BY <1>1 DEF WireAcks
<1>3. InFlight' \subseteq InFlight
  BY <1>1, <1>2 DEF InFlight
<1>4. Oks' = Oks /\ Checkers' = Checkers /\ Acked' = Acked
  BY <1>1 DEF Oks, Checkers, Acked
<1>5. AcksAreDistinct'
  BY <1>2, <1>3, <1>4 DEF CountInv, AcksAreDistinct
<1>6. Spent \subseteq Spent'
  BY <1>3, <1>4 DEF Spent
<1> QED
  BY <1>4, <1>5, <1>6, CoverKept DEF CountInv, Checkers

LEMMA SendKeepsCover ==
    ASSUME Typed, CountInv, NEW c \in Callers, Send(c)
    PROVE  CountInv'
<1>1. /\ UNCHANGED <<result, wire, confirms>>
      /\ callers' = [callers EXCEPT ![c] = [pc |-> "wait", tag |-> published']]
      /\ published' = published + 1 /\ published' \in Tags
      /\ fate' = [fate EXCEPT ![published'] = "sent"]
  BY PublisherAssumption DEF Send, Typed, TypeOK, Tags
<1>2. fate[published'] = "unsent"
  BY <1>1 DEF Typed, TypeOK, TagsAreInOrder, Tags
<1>3. Acked' = Acked
  BY <1>1, <1>2 DEF Acked, Typed, TypeOK
<1>4. AcksAreDistinct' /\ Spent' = Spent
  BY <1>1, <1>3, FramesStay DEF CountInv
<1>5. Oks' = Oks
  BY <1>1 DEF Oks
<1>6. Checkers' <= Checkers
  <2>1. \A d \in Callers : callers'[d].pc = "check" => callers[d].pc = "check"
    BY <1>1 DEF Typed, TypeOK
  <2> QED
    BY <2>1 DEF Checkers
<1> QED
  BY <1>4, <1>5, <1>6, CoverKept DEF CountInv

(* The caller asks for the mutex, or gives up: no frame moves.             *)
LEMMA IdleKeepsCover ==
    ASSUME Typed, CountInv, NEW c \in Callers, Call(c) \/ SendFails(c)
    PROVE  CountInv'
<1>1. UNCHANGED <<fate, result, wire, confirms>>
  BY DEF Call, SendFails
<1>2. \A d \in Callers : callers'[d].pc = "check" => callers[d].pc = "check"
  BY DEF Call, SendFails, Typed, TypeOK
<1>3. Oks' = Oks /\ Acked' = Acked /\ Checkers' <= Checkers
  BY <1>1, <1>2 DEF Oks, Acked, Checkers
<1>4. AcksAreDistinct' /\ Spent' = Spent
  BY <1>1, <1>3, FramesStay DEF CountInv
<1> QED
  BY <1>3, <1>4, CoverKept DEF CountInv

LEMMA CountInit == Init => CountInv
<1> SUFFICES ASSUME Init
             PROVE  CountInv
  OBVIOUS
<1>1. Oks = {} /\ Acked = {} /\ Spent = {} /\ WireAcks = {} /\ InFlight = {}
  BY DEF Init, Oks, Acked, Spent, WireAcks, InFlight
<1>2. Checkers = 0
  BY DEF Init, Checkers
<1> QED
  BY <1>1, <1>2, FS_EmptySet DEF CountInv, AcksAreDistinct, AcksCoverOks

LEMMA CountStep ==
    ASSUME Typed, CountInv, [Next]_vars
    PROVE  CountInv'
<1>1. ASSUME NEW c \in Callers, ReadReturn(c) \/ ConfirmsClosed(c) \/ TimeOut(c)
      PROVE  CountInv'
  <2>1. /\ UNCHANGED <<published, fate, wire, confirms>>
        /\ callers[c].pc = "wait"
        /\ Return(c, "error") \/ Return(c, "timeout")
    BY <1>1 DEF ReadReturn, ConfirmsClosed, TimeOut, At
  <2>2. AcksAreDistinct' /\ Spent' = Spent
    BY <2>1, FramesStay DEF CountInv, Acked
  <2> QED
    BY <2>1, <2>2, ErrorKeepsCover DEF CountInv
<1>2. CASE UNCHANGED vars
  <2>1. UNCHANGED <<callers, fate, result, wire, confirms>>
    BY <1>2 DEF vars
  <2>2. AcksAreDistinct' /\ Spent' = Spent
    BY <2>1, FramesStay DEF CountInv, Acked
  <2> QED
    BY <2>1, <2>2 DEF CountInv, AcksCoverOks, Oks, Checkers
<1> QED
  BY <1>1, <1>2, IdleKeepsCover, SendKeepsCover, ConfirmKeepsCover, CheckKeepsCover,
     BrokerKeepsCover, ReaderKeepsCover, CloseKeepsCover DEF Next, WaitForPublish

(* However far answers and messages have drifted apart, publish has not    *)
(* returned nil more often than the broker has sent an ack.                *)
THEOREM NilsNeverExceedAcks == Spec => []OksNeverExceedAcks
<1>1. Typed /\ CountInv => OksNeverExceedAcks
  <2> SUFFICES ASSUME CountInv
               PROVE  OksNeverExceedAcks
    OBVIOUS
  <2>1. Cardinality(Oks) <= Cardinality(Spent)
    <3>1. Checkers \in Nat
      BY DEF Checkers
    <3> QED
      BY <3>1, SetsOfTags DEF CountInv, AcksCoverOks
  <2>2. Cardinality(Spent) <= Cardinality(Acked)
    BY SetsOfTags, FS_Subset DEF Spent
  <2>3. /\ CountOf(result, {"ok"}) = Cardinality(Oks)
        /\ CountOf(fate, {"routed", "unroutable"}) = Cardinality(Acked)
    BY DEF CountOf, Oks, Acked
  <2> QED
    BY <2>1, <2>2, <2>3, SetsOfTags DEF OksNeverExceedAcks
<1>2. Init => Typed /\ CountInv
  BY PublisherInit, CountInit DEF IInv, Typed
<1>3. Typed /\ CountInv /\ [Next]_vars => (Typed /\ CountInv)'
  BY TypedStep, CountStep
<1> QED
  BY <1>1, <1>2, <1>3, PTL DEF Spec

===============================================================================
