------------------------------- MODULE MCTiming -------------------------------
(* Constants of the TLC run of Timing, in units of 5 seconds. *)
EXTENDS Timing, TLC

(* config.go:19-38 *)
Defaults == [request |-> 4, lease |-> 24, concurrency |-> 1, timeout |-> 1,
             batch |-> 4, lock |-> 6, others |-> 1]
Margin   == 6

Nothing == [n \in Names \cup {"prefetch"} |-> Unset]

(* Around both rules, the boundaries of the tests of config_test.go among  *)
(* them, and what getEnvInt and the other checks reject.                   *)
OutboxSettings ==
    {[Nothing EXCEPT !["timeout"] = t, !["batch"] = b, !["lock"] = l] :
        t \in 1..3, b \in {1, 2, 5}, l \in 4..9}
LeaseSettings ==
    {[Nothing EXCEPT !["request"] = r, !["lease"] = l] :
        r \in {1, 2, 12}, l \in 7..18}
Rejected ==
    {[Nothing EXCEPT ![n] = v] : n \in DOMAIN Nothing, v \in {0, Invalid}}
    \cup {[Nothing EXCEPT !["concurrency"] = 2, !["prefetch"] = p] : p \in {1, 2}}

Settings == {Nothing} \cup OutboxSettings \cup LeaseSettings \cup Rejected

===============================================================================
