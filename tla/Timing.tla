-------------------------------- MODULE Timing --------------------------------
(***************************************************************************)
(* The timing rules of config.Load and what they buy: a batch of events    *)
(* claimed with OUTBOX_LOCK_SECONDS and published one by one through the   *)
(* shared mutex, and an attempt claimed with                               *)
(* INSIGHT_PROCESSING_LEASE_SECONDS that calls the AI provider.            *)
(*                                                                         *)
(* Of the time since a claim, a publication and an AI call are limited by  *)
(* their timeouts.  Nothing in the code limits the rest, which is counted  *)
(* in "outside".  One claim is followed at a time: a batch and an attempt  *)
(* share nothing but the mutex, and what a consumer goroutine does with    *)
(* that is in ConsumerPublishes.                                           *)
(***************************************************************************)
EXTENDS Integers

CONSTANTS
    Environments,   \* values of the environment; a setting may be missing
    Default,        \* what getEnvInt falls back to
    Unset, Invalid, \* no value, and a value strconv.Atoi rejects
    LeaseMargin,    \* minInsightLeaseMargin, in the unit of all durations
    MaxAge          \* bound: time is not followed further

Names == {"request", "lease", "concurrency", "timeout", "batch", "lock", "others"}

ASSUME TimingAssumption ==
    /\ Environments \subseteq [Names \cup {"prefetch"} -> Int \cup {Unset, Invalid}]
    /\ Default \in [Names -> Int]
    /\ Unset \notin Int /\ Invalid \notin Int
    /\ LeaseMargin \in Nat
    /\ MaxAge \in Nat

VARIABLES
    env,        \* the environment Load reads
    pc,         \* the claim that is followed and where it is
    left,       \* events of the batch not yet marked
    age,        \* time since the claim
    outside,    \* of it: neither in a publication's timeout nor in an AI call
    mutex,      \* publisherMu: "free", "dispatcher", "consumer"
    call        \* what is left of the timeout of the call in flight

clock == <<age, outside>>
vars  == <<env, pc, left, clock, mutex, call>>

Batch   == {"waiting", "publishing", "marking"}
Attempt == {"querying", "asking", "saving"}

-------------------------------------------------------------------------------
(* getEnvInt.                                                              *)
Setting(value, fallback) == IF value = Unset THEN fallback ELSE value

Config == [n \in Names |-> Setting(env[n], Default[n])]

Prefetch == Setting(env["prefetch"], Config["concurrency"])

LeaseRuleBug(c) == c["lease"] > c["request"]    \* longer than a call will do

LeaseRule(c) == c["lease"] >= c["request"] + LeaseMargin

OutboxRuleBug(c) ==     \* the publications fit, with nothing to spare
    c["batch"] * c["timeout"] < c["lock"]

OutboxRule(c) == /\ c["timeout"] < c["lock"]
                 /\ (c["batch"] + 1) * c["timeout"] < c["lock"]

Accepted == /\ \A n \in Names : Config[n] \in Int /\ Config[n] > 0
            /\ Prefetch \in Int /\ Prefetch >= Config["concurrency"]
            /\ LeaseRule(Config)
            /\ OutboxRule(Config)

-------------------------------------------------------------------------------
Init == /\ env \in Environments
        /\ pc = "loading"
        /\ left = 0 /\ age = 0 /\ outside = 0
        /\ mutex = "free" /\ call = 0

Load == /\ pc = "loading"
        /\ pc' = IF Accepted THEN "idle" ELSE "refused"
        /\ UNCHANGED <<env, left, clock, mutex, call>>

(* The clock of a claim starts with the NOW() of its UPDATE.               *)
Claimed == /\ age' = 0
           /\ outside' = 0

ClaimPendingOutboxEvents ==
    /\ pc = "idle"
    /\ pc' = "waiting"
    /\ left' \in 1..Config["batch"]
    /\ Claimed
    /\ UNCHANGED <<env, mutex, call>>

(* The timeout of publish starts when it has the mutex.                    *)
Publish == /\ pc = "waiting"
           /\ mutex = "free"
           /\ pc' = "publishing"
           /\ mutex' = "dispatcher"
           /\ call' = Config["timeout"]
           /\ UNCHANGED <<env, left, clock>>

(* An event Dispatcher.publish rejects never gets to the publisher.        *)
RejectPoison == /\ pc = "waiting"
                /\ pc' = "marking"
                /\ UNCHANGED <<env, left, clock, mutex, call>>

PublishedBug == /\ pc = "publishing"    \* returns without unlocking
                /\ pc' = "marking"
                /\ call' = 0
                /\ UNCHANGED <<env, left, clock, mutex>>

Published == /\ pc = "publishing"
             /\ pc' = "marking"
             /\ mutex' = "free"
             /\ call' = 0
             /\ UNCHANGED <<env, left, clock>>

(* MarkOutboxEventPublished or MarkOutboxEventFailed; then the next event. *)
Mark == /\ pc = "marking"
        /\ left' = left - 1
        /\ pc' = IF left = 1 THEN "idle" ELSE "waiting"
        /\ UNCHANGED <<env, clock, mutex, call>>

(* A goroutine of the consumer sends an unreadable message to the DLQ      *)
(* through the same mutex.                                                 *)
ConsumerPublishes == /\ pc \in Batch
                     /\ mutex = "free"
                     /\ mutex' = "consumer"
                     /\ call' = Config["timeout"]
                     /\ UNCHANGED <<env, pc, left, clock>>

ConsumerPublished == /\ mutex = "consumer"
                     /\ mutex' = "free"
                     /\ call' = 0
                     /\ UNCHANGED <<env, pc, left, clock>>

-------------------------------------------------------------------------------
BeginProcessing == /\ pc = "idle"
                   /\ mutex = "free"
                   /\ pc' = "querying"
                   /\ Claimed
                   /\ UNCHANGED <<env, left, mutex, call>>

(* http.Client.Timeout covers the whole exchange, the body included.       *)
Complete == /\ pc = "querying"
            /\ pc' = "asking"
            /\ call' = Config["request"]
            /\ UNCHANGED <<env, left, clock, mutex>>

Completed == /\ pc = "asking"
             /\ pc' = "saving"
             /\ call' = 0
             /\ UNCHANGED <<env, left, clock, mutex>>

(* The attempt ends with SaveInsightResult or RegisterFailure; the latter  *)
(* also follows a failed query.                                            *)
Resolve == /\ pc \in {"querying", "saving"}
           /\ pc' = "idle"
           /\ UNCHANGED <<env, left, clock, mutex, call>>

-------------------------------------------------------------------------------
(* Time passes.  A publication may outlast its timeout, because            *)
(* PublishWithContext does not give up a blocked write to the socket: what *)
(* it takes too long is outside.                                           *)
InCall == pc \in {"publishing", "asking"} /\ call > 0

Tick == /\ pc \in Batch \cup Attempt
        /\ age < MaxAge
        /\ pc = "asking" => call > 0
        /\ age' = age + 1
        /\ outside' = IF InCall THEN outside ELSE outside + 1
        /\ call' = IF call > 0 THEN call - 1 ELSE 0
        /\ UNCHANGED <<env, pc, left, mutex>>

Next == \/ Load \/ Tick
        \/ ClaimPendingOutboxEvents \/ Publish \/ RejectPoison \/ Published \/ Mark
        \/ ConsumerPublishes \/ ConsumerPublished
        \/ BeginProcessing \/ Complete \/ Completed \/ Resolve

Spec == Init /\ [][Next]_vars

-------------------------------------------------------------------------------
(* Every variable has its type, what runs was accepted, and the mutex is   *)
(* the dispatcher's exactly while it publishes.                            *)
TypeOK ==
    /\ env \in Environments
    /\ pc \in {"loading", "refused", "idle"} \cup Batch \cup Attempt
    /\ left \in Nat /\ age \in Nat /\ outside \in Nat /\ call \in Nat
    /\ mutex \in {"free", "dispatcher", "consumer"}
    /\ mutex = "dispatcher" <=> pc = "publishing"
    /\ pc \notin {"loading", "refused"} => Accepted

(* config.go:181, README.md:116.  A batch is published and marked before   *)
(* its lock runs out, unless marking, waiting for the mutex and blocked    *)
(* writes together took longer than the one publication that is spared.    *)
(* Outbox has no "slow" fault as long as this is so.                       *)
LockCoversBatch ==
    pc \in Batch /\ age >= Config["lock"] => outside > Config["timeout"]

(* config.go:150, README.md:100.  The lease does not run out during the    *)
(* AI call, nor before its outcome is in the database, unless the queries  *)
(* of the attempt took the margin of 30 seconds by themselves.             *)
LeaseCoversCall ==
    pc \in Attempt /\ age >= Config["lease"] => outside >= LeaseMargin

===============================================================================
