------------------------------ MODULE Limiter ------------------------------
(***************************************************************************)
(* What the rate limiter promises its callers (the doc comments of         *)
(* adapters/inbound/grpc/ratelimit.go): every key has an allowance that    *)
(* refills by one token per tick up to a ceiling, and a request goes       *)
(* through exactly if its cost is available, which it then consumes.       *)
(***************************************************************************)
EXTENDS Integers

CONSTANTS Keys, Burst, Costs

VARIABLES avail,     \* [Keys -> tokens a request would find now]
          verdict    \* the last request and its answer

Lesser(a, b) == IF a <= b THEN a ELSE b

\* A cost above the ceiling is clamped to it, so that it is never refused for ever.
Charge(cost) == Lesser(cost, Burst)

NoVerdict == [key |-> "none", ok |-> TRUE]

Init ==
    /\ avail = [k \in Keys |-> Burst]
    /\ verdict = NoVerdict

Refill ==
    /\ avail' = [k \in Keys |-> Lesser(Burst, avail[k] + 1)]
    /\ UNCHANGED verdict

Ask(k, cost) ==
    /\ verdict' = [key |-> k, ok |-> avail[k] >= Charge(cost)]
    /\ avail' = IF avail[k] >= Charge(cost)
                THEN [avail EXCEPT ![k] = @ - Charge(cost)] ELSE avail

Next == Refill \/ \E k \in Keys, cost \in Costs : Ask(k, cost)

=============================================================================
