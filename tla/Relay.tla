-------------------------------- MODULE Relay --------------------------------
(***************************************************************************)
(* What the transactional outbox promises for an event, with no table, no  *)
(* lock and no dispatcher: it is delivered to the broker any number of     *)
(* times, it is called published only once it has been delivered, and what *)
(* it has been called it stays.                                            *)
(***************************************************************************)
EXTENDS Naturals

CONSTANTS
    Events,         \* the rows of outbox_eventos
    Poison,         \* those whose type or payload cannot be published
    CopyCeiling     \* copies are counted up to here

VARIABLES
    fate,           \* "open", "published" or "failed"
    copies          \* how often the broker took a message for it

vars == <<fate, copies>>

Init == /\ fate = [e \in Events |-> "open"]
        /\ copies = [e \in Events |-> 0]

(* Delivery is at least once, and a slow dispatcher may be late.           *)
Deliver(e) == /\ e \notin Poison
              /\ copies' = [copies EXCEPT ![e] =
                                IF @ < CopyCeiling THEN @ + 1 ELSE @]
              /\ UNCHANGED fate

Publish(e) == /\ fate[e] = "open"
              /\ copies[e] > 0
              /\ fate' = [fate EXCEPT ![e] = "published"]
              /\ UNCHANGED copies

GiveUp(e) == /\ fate[e] = "open"
             /\ fate' = [fate EXCEPT ![e] = "failed"]
             /\ UNCHANGED copies

Next == \E e \in Events : Deliver(e) \/ Publish(e) \/ GiveUp(e)

Spec == Init /\ [][Next]_vars

===============================================================================
