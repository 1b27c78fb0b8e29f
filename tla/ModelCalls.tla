----------------------------- MODULE ModelCalls -----------------------------
(***************************************************************************)
(* A call of the language model, through the layers wiring.go stacks:      *)
(* DecodeJSON re-asks (app/llmjson.go), Audited records every call with    *)
(* its cost (llm/audited.go, app/cost.go), Guarded consults the request    *)
(* limiter and the budget and takes a slot (llm/guarded.go).  Prices are   *)
(* small numbers; warming the model is a call that costs nothing.          *)
(***************************************************************************)
EXTENDS Integers, FiniteSets

CONSTANTS Callers,     \* goroutines that call the model
          Slots,       \* WithConcurrency
          MaxAttempts, \* DefaultLLMAttempts
          Budget,      \* the spend budget (positive: a limit is configured)
          Thresholds,  \* amounts at which an alert is due
          MaxCost,     \* bound: the dearest call
          Ceiling      \* bound: spend is counted up to here

ASSUME ModelCallsAssumption ==
    /\ {Slots, MaxAttempts, Budget, MaxCost} \subseteq Nat \ {0}
    /\ IsFiniteSet(Callers)
    /\ Thresholds \subseteq 1..Budget
    /\ Ceiling \in Nat /\ Ceiling >= Budget

VARIABLES
    stage,     \* [Callers -> where the call is]
    tries,     \* [Callers -> attempts made]
    cost,      \* [Callers -> cost of the call to be recorded]
    again,     \* [Callers -> the answer was not valid JSON]
    spent,     \* CostTracker.spentUSD
    alerts,    \* [Thresholds -> alerts raised]
    billed     \* history: what the provider was made to do

callVars == <<stage, tries, cost, again, spent, alerts, billed>>

Stages == {"idle", "limiter", "budget", "waiting", "calling", "recording"}

ModelCallsTypeOK ==
    /\ stage \in [Callers -> Stages]
    /\ tries \in [Callers -> 0..MaxAttempts]
    /\ cost \in [Callers -> 0..MaxCost]
    /\ again \in [Callers -> BOOLEAN]
    /\ spent \in 0..Ceiling
    /\ alerts \in [Thresholds -> Nat]
    /\ billed \in Nat

ModelCallsInit ==
    /\ stage = [c \in Callers |-> "idle"]
    /\ tries = [c \in Callers |-> 0]
    /\ cost = [c \in Callers |-> 0]
    /\ again = [c \in Callers |-> FALSE]
    /\ spent = 0
    /\ alerts = [t \in Thresholds |-> 0]
    /\ billed = 0

-----------------------------------------------------------------------------
Move(c, from, to) == stage[c] = from /\ stage' = [stage EXCEPT ![c] = to]

Begin(c) ==
    /\ Move(c, "idle", "limiter")
    /\ tries' = [tries EXCEPT ![c] = 1]
    /\ UNCHANGED <<cost, again, spent, alerts, billed>>

\* The bucket of requests has a token, or the call is refused.
PassLimiter(c) ==
    /\ Move(c, "limiter", "budget")
    /\ UNCHANGED <<tries, cost, again, spent, alerts, billed>>

\* A faulty WithinBudget: a budget is taken for an unlimited one.
Unlimited == TRUE

WithinBudget == spent < Budget

\* The check and what is spent later are not one step.
PassBudget(c) ==
    /\ WithinBudget
    /\ Move(c, "budget", "waiting")
    /\ UNCHANGED <<tries, cost, again, spent, alerts, billed>>

\* A call that never reaches the provider (no token, no budget, cancelled while it
\* waits) is recorded all the same, with the size of its prompt.
Refused(c) ==
    /\ \/ Move(c, "limiter", "recording")
       \/ ~WithinBudget /\ Move(c, "budget", "recording")
       \/ Move(c, "waiting", "recording")
    /\ \E amount \in 0..1 : cost' = [cost EXCEPT ![c] = amount]
    /\ again' = [again EXCEPT ![c] = FALSE]
    /\ UNCHANGED <<tries, spent, alerts, billed>>

InFlight == {c \in Callers : stage[c] = "calling"}

Acquire(c) ==
    /\ Cardinality(InFlight) < Slots
    /\ Move(c, "waiting", "calling")
    /\ UNCHANGED <<tries, cost, again, spent, alerts, billed>>

\* The provider answers, with JSON or not, or fails; the slot is released.
Answer(c) ==
    /\ Move(c, "calling", "recording")
    /\ \E amount \in 0..MaxCost, malformed \in BOOLEAN :
          /\ cost' = [cost EXCEPT ![c] = amount]
          /\ again' = [again EXCEPT ![c] = malformed]
          /\ billed' = billed + amount
    /\ UNCHANGED <<tries, spent, alerts>>

Capped(n) == IF n <= Ceiling THEN n ELSE Ceiling

\* CostTracker.Record, under its lock; then DecodeJSON re-asks if it may.
Record(c) ==
    /\ stage[c] = "recording"
    /\ spent' = Capped(spent + cost[c])
    /\ alerts' = [t \in Thresholds |->
                    IF spent' >= t /\ cost[c] > 0 /\ alerts[t] = 0 THEN 1 ELSE alerts[t]]
    /\ LET more == again[c] /\ tries[c] < MaxAttempts IN
       /\ stage' = [stage EXCEPT ![c] = IF more THEN "limiter" ELSE "idle"]
       /\ tries' = [tries EXCEPT ![c] = IF more THEN @ + 1 ELSE 0]
    /\ cost' = [cost EXCEPT ![c] = 0]
    /\ again' = [again EXCEPT ![c] = FALSE]
    /\ UNCHANGED billed

CallerStep(c) ==
    \/ Begin(c) \/ PassLimiter(c) \/ PassBudget(c) \/ Refused(c)
    \/ Acquire(c) \/ Answer(c) \/ Record(c)

ModelCallsNext == \E c \in Callers : CallerStep(c)

ModelCallsSpec == ModelCallsInit /\ [][ModelCallsNext]_callVars

-----------------------------------------------------------------------------
(* The budget is checked before a call and charged after it, so it can be      *)
(* overspent; but at most by one call of each caller, however long they go on. *)
(* (Not by Slots calls: the check comes before the wait for a slot.)           *)
OverspendIsBounded == billed < Budget + Cardinality(Callers) * MaxCost

(* "Each threshold alerts at most once" - and exactly once when the spend has  *)
(* reached it, although records come from many goroutines (CostTracker.Record).*)
AlertedExactlyOnce == \A t \in Thresholds : alerts[t] = IF spent >= t THEN 1 ELSE 0

=============================================================================
