------------------------------ MODULE Publisher ------------------------------
(***************************************************************************)
(* rabbitmq.Client.publish and waitForPublish: the dispatcher and the      *)
(* consumer goroutines share one channel in confirm mode, one mutex, one   *)
(* Go channel of confirmations and one of returns, each of capacity 1.     *)
(* waitForPublish does not look at the delivery tag of what it receives,   *)
(* so all that ties an answer to a message is the order of things.         *)
(*                                                                         *)
(* The broker answers messages in the order of their delivery tags; for a  *)
(* mandatory message it cannot route it sends a return and then an ack.    *)
(* The amqp library's reader hands each frame over with a blocking send.   *)
(***************************************************************************)
EXTENDS Naturals, Sequences, FiniteSets

CONSTANTS
    Callers,        \* goroutines that publish: the dispatcher, the consumers
    Nobody,         \* the mutex is free
    MaxPublishes,   \* bound: how many messages are published in all
    Faults          \* which of FaultKinds the environment may exhibit

(* "timeout": publishCtx ends before the answer (RABBITMQ_PUBLISH_TIMEOUT_ *)
(* MS, or shutdown); "refuse": basic.nack; "unroutable": basic.return;     *)
(* "close": the connection or the channel closes.                          *)
FaultKinds == {"timeout", "refuse", "unroutable", "close"}

ASSUME PublisherAssumption ==
    /\ MaxPublishes \in Nat \ {0}
    /\ Nobody \notin Callers
    /\ Faults \subseteq FaultKinds

Tags == 1..MaxPublishes

(* What comes back for a message, on the wire and in the Go channels.      *)
Frames == [kind : {"ack", "nack", "return"}, tag : Tags]

VARIABLES
    mutex,          \* who holds publisherMu
    callers,        \* where each goroutine is in publish, and with which tag
    published,      \* messages sent on the channel so far
    fate,           \* what the broker did with each message
    result,         \* what publish returned for each message
    wire,           \* frames on their way to the reader
    confirms,       \* the buffered Go channel of NotifyPublish
    returns,        \* the buffered Go channel of NotifyReturn
    closed          \* both have been closed

vars == <<mutex, callers, published, fate, result, wire, confirms, returns, closed>>

Capacity == 1

Init == /\ mutex = Nobody
        /\ callers = [c \in Callers |-> [pc |-> "idle", tag |-> 0]]
        /\ published = 0
        /\ fate = [n \in Tags |-> "unsent"]
        /\ result = [n \in Tags |-> "none"]
        /\ wire = <<>>
        /\ confirms = <<>>
        /\ returns = <<>>
        /\ closed = FALSE

At(c, pc) == callers[c].pc = pc

-------------------------------------------------------------------------------
(* An operator whose name ends in a Bug is not part of the specification:  *)
(* it is the way the next definition could have been written wrong, and    *)
(* some run must notice.                                                   *)

(* publish is called and asks for the mutex.                               *)
Call(c) ==
    /\ At(c, "idle")
    /\ callers' = [callers EXCEPT ![c].pc = "lock"]
    /\ UNCHANGED <<mutex, published, fate, result, wire, confirms, returns, closed>>

SendBug(c) ==   \* publishes without holding the mutex
    /\ At(c, "lock")
    /\ published < MaxPublishes
    /\ published' = published + 1
    /\ fate' = [fate EXCEPT ![published'] = "sent"]
    /\ callers' = [callers EXCEPT ![c] = [pc |-> "wait", tag |-> published']]
    /\ UNCHANGED <<mutex, result, wire, confirms, returns, closed>>

(* It gets the mutex and hands the message to the channel.                 *)
Send(c) ==
    /\ At(c, "lock")
    /\ mutex = Nobody
    /\ ~ closed
    /\ published < MaxPublishes
    /\ mutex' = c
    /\ published' = published + 1
    /\ fate' = [fate EXCEPT ![published'] = "sent"]
    /\ callers' = [callers EXCEPT ![c] = [pc |-> "wait", tag |-> published']]
    /\ UNCHANGED <<result, wire, confirms, returns, closed>>

(* PublishWithContext on a closed channel: an error, and nothing was sent. *)
SendFails(c) ==
    /\ At(c, "lock")
    /\ mutex = Nobody
    /\ closed
    /\ callers' = [callers EXCEPT ![c] = [pc |-> "idle", tag |-> 0]]
    /\ UNCHANGED <<mutex, published, fate, result, wire, confirms, returns, closed>>

ReturnBug(c, answer) ==     \* an early return forgets to unlock
    /\ result' = [result EXCEPT ![callers[c].tag] = answer]
    /\ callers' = [callers EXCEPT ![c] = [pc |-> "idle", tag |-> 0]]
    /\ mutex' = IF answer = "ok" THEN Nobody ELSE mutex

(* publish returns and the deferred Unlock runs.                           *)
Return(c, answer) ==
    /\ result' = [result EXCEPT ![callers[c].tag] = answer]
    /\ callers' = [callers EXCEPT ![c] = [pc |-> "idle", tag |-> 0]]
    /\ mutex' = Nobody

(* case returned, ok := <-returns: an error, with a return or closed.      *)
ReadReturn(c) ==
    /\ At(c, "wait")
    /\ returns # <<>> \/ closed
    /\ returns' = IF returns = <<>> THEN <<>> ELSE Tail(returns)
    /\ Return(c, "error")
    /\ UNCHANGED <<published, fate, wire, confirms, closed>>

ReadConfirmBug(c) ==    \* takes any confirmation for an ack
    /\ At(c, "wait")
    /\ confirms # <<>>
    /\ confirms' = Tail(confirms)
    /\ callers' = [callers EXCEPT ![c].pc = "check"]
    /\ UNCHANGED <<mutex, result, published, fate, wire, returns, closed>>

(* case confirmation, ok := <-confirms: a nack is an error, and for an ack *)
(* there is still a return to look for.                                    *)
ReadConfirm(c) ==
    /\ At(c, "wait")
    /\ confirms # <<>>
    /\ confirms' = Tail(confirms)
    /\ \/ /\ Head(confirms).kind = "nack"
          /\ Return(c, "error")
       \/ /\ Head(confirms).kind = "ack"
          /\ callers' = [callers EXCEPT ![c].pc = "check"]
          /\ UNCHANGED <<mutex, result>>
    /\ UNCHANGED <<published, fate, wire, returns, closed>>

(* The confirmations are closed: the same error.                           *)
ConfirmsClosed(c) ==
    /\ At(c, "wait")
    /\ confirms = <<>> /\ closed
    /\ Return(c, "error")
    /\ UNCHANGED <<published, fate, wire, confirms, returns, closed>>

CheckReturnBug(c) ==    \* does not look for a return after the ack
    /\ At(c, "check")
    /\ Return(c, "ok")
    /\ UNCHANGED <<published, fate, wire, confirms, returns, closed>>

(* select with default, after the ack: a return, or a closed channel,      *)
(* turns it into an error.                                                 *)
CheckReturn(c) ==
    /\ At(c, "check")
    /\ returns' = IF returns = <<>> THEN <<>> ELSE Tail(returns)
    /\ Return(c, IF returns = <<>> /\ ~ closed THEN "ok" ELSE "error")
    /\ UNCHANGED <<published, fate, wire, confirms, closed>>

(* case <-ctx.Done(): whatever comes later finds nobody waiting for it.    *)
(* The caller sees an error like any other; "timeout" is for the           *)
(* properties to tell.                                                     *)
TimeOut(c) ==
    /\ "timeout" \in Faults
    /\ At(c, "wait")
    /\ Return(c, "timeout")
    /\ UNCHANGED <<published, fate, wire, confirms, returns, closed>>

-------------------------------------------------------------------------------
Frame(kind, n) == [kind |-> kind, tag |-> n]

(* The broker decides about the oldest message it has not answered.        *)
BrokerAnswers(n) ==
    /\ ~ closed
    /\ fate[n] = "sent"
    /\ \A m \in Tags : m < n => fate[m] # "sent"
    /\ \/ /\ fate' = [fate EXCEPT ![n] = "routed"]
          /\ wire' = Append(wire, Frame("ack", n))
       \/ /\ "refuse" \in Faults
          /\ fate' = [fate EXCEPT ![n] = "refused"]
          /\ wire' = Append(wire, Frame("nack", n))
       \/ /\ "unroutable" \in Faults
          /\ fate' = [fate EXCEPT ![n] = "unroutable"]
          /\ wire' = wire \o <<Frame("return", n), Frame("ack", n)>>
    /\ UNCHANGED <<mutex, callers, published, result, confirms, returns, closed>>

(* The library's reader passes the next frame on, if there is room for it. *)
ReaderDelivers ==
    /\ wire # <<>>
    /\ wire' = Tail(wire)
    /\ IF Head(wire).kind = "return"
         THEN /\ Len(returns) < Capacity
              /\ returns' = Append(returns, Head(wire))
              /\ UNCHANGED confirms
         ELSE /\ Len(confirms) < Capacity
              /\ confirms' = Append(confirms, Head(wire))
              /\ UNCHANGED returns
    /\ UNCHANGED <<mutex, callers, published, fate, result, closed>>

(* The connection goes down: frames on the wire are lost, what is buffered *)
(* in the Go channels can still be read.                                   *)
Close ==
    /\ "close" \in Faults
    /\ ~ closed
    /\ closed' = TRUE
    /\ wire' = <<>>
    /\ UNCHANGED <<mutex, callers, published, fate, result, confirms, returns>>

-------------------------------------------------------------------------------
WaitForPublish(c) == \/ ReadReturn(c) \/ ReadConfirm(c) \/ ConfirmsClosed(c)
                     \/ CheckReturn(c) \/ TimeOut(c)

Next == \/ \E c \in Callers : Call(c) \/ Send(c) \/ SendFails(c) \/ WaitForPublish(c)
        \/ \E n \in Tags : BrokerAnswers(n)
        \/ ReaderDelivers
        \/ Close

Spec == Init /\ [][Next]_vars

-------------------------------------------------------------------------------
(* Every variable has its type, neither Go channel holds more than it was  *)
(* made for, and whoever is between Lock and Unlock holds the mutex.       *)
TypeOK ==
    /\ mutex \in Callers \cup {Nobody}
    /\ callers \in [Callers -> [pc : {"idle", "lock", "wait", "check"},
                                tag : {0} \cup Tags]]
    /\ published \in {0} \cup Tags
    /\ fate \in [Tags -> {"unsent", "sent", "routed", "refused", "unroutable"}]
    /\ result \in [Tags -> {"none", "ok", "error", "timeout"}]
    /\ wire \in Seq(Frames)
    /\ confirms \in Seq([kind : {"ack", "nack"}, tag : Tags])
    /\ returns \in Seq([kind : {"return"}, tag : Tags])
    /\ Len(confirms) <= Capacity /\ Len(returns) <= Capacity
    /\ closed \in BOOLEAN
    /\ \A c \in Callers : mutex = c <=> callers[c].pc \in {"wait", "check"}

(* README.md:115 and 117: an event is marked published after confirmation, *)
(* so publish returns nil only for a message the broker has accepted.      *)
OkMeansConfirmed ==
    \A n \in Tags : result[n] = "ok" => fate[n] = "routed"

(* What puts answers and messages out of step: a publication that gave up  *)
(* before its answer, or a return, whose ack nobody reads.                 *)
InStepBefore(n) ==
    \A m \in Tags : m < n => result[m] # "timeout" /\ fate[m] # "unroutable"

(* That a message of its own is unroutable does not fool publish: until    *)
(* an earlier one has put the answers out of step, nil means that the      *)
(* broker has accepted this message.                                       *)
OkMeansConfirmedInStep ==
    \A n \in Tags : result[n] = "ok" /\ InStepBefore(n) => fate[n] = "routed"

(* Until then answers keep step with messages: when the mutex is free      *)
(* nothing is left over for the next message to find, and while a          *)
(* goroutine waits every frame in sight answers its own message.           *)
AnswersInStep ==
    \/ closed
    \/ ~ InStepBefore(published + 1)
    \/ mutex = Nobody /\ wire = <<>> /\ confirms = <<>> /\ returns = <<>>
    \/ /\ mutex # Nobody
       /\ \A i \in 1..Len(wire) : wire[i].tag = callers[mutex].tag
       /\ \A i \in 1..Len(confirms) : confirms[i].tag = callers[mutex].tag
       /\ returns = <<>>

(* However far answers and messages have drifted apart, a success is never *)
(* made out of nothing: every nil uses up an ack of its own.               *)
CountOf(f, values) == Cardinality({n \in Tags : f[n] \in values})

OksNeverExceedAcks ==
    CountOf(result, {"ok"}) <= CountOf(fate, {"routed", "unroutable"})

===============================================================================
