--------------------------- MODULE ExecutionLadder ---------------------------
(***************************************************************************)
(* One approved signal, the circumstances of its execution, and the order  *)
(* the execution job would place in each.                                  *)
(***************************************************************************)
EXTENDS TradingCases

CONSTANT MaxTroubles     \* bound: circumstances away from the usual ones

VARIABLES x, tick, outcome

Away(y, t) ==
    {f \in DOMAIN Others : y[f] # Usual[f]} \cup {f \in DOMAIN OtherRuns : t[f] # Running[f]}

TypeOK ==
    /\ DOMAIN x = DOMAIN Usual /\ DOMAIN tick = DOMAIN Running
    /\ Cardinality(Away(x, tick)) <= MaxTroubles
    /\ outcome.reason = "submitted" => outcome.plan.price \in 1..1000

Placed(y, t) ==
    /\ x = y /\ tick = t /\ outcome = Execution(y, t)

Init == \E y \in Requests : Placed(y, Running)

Vary ==
    /\ Cardinality(Away(x, tick)) < MaxTroubles
    /\ \/ \E f \in DOMAIN Others \ Away(x, tick) : \E v \in Others[f] :
             \E y \in {[x EXCEPT ![f] = v]} :
                x' = y /\ tick' = tick /\ outcome' = Execution(y, tick)
       \/ \E f \in DOMAIN OtherRuns \ Away(x, tick) : \E v \in OtherRuns[f] :
             \E t \in {[tick EXCEPT ![f] = v]} :
                x' = x /\ tick' = t /\ outcome' = Execution(x, t)

vars == <<x, tick, outcome>>
Spec == Init /\ [][Vary]_vars

Submitted == outcome.reason = "submitted"

(***************************************************************************)
(* An entry that toxicity or the safety state allows only as a passive one *)
(* never takes liquidity at once: not when its policy prefers to, and not  *)
(* when too little time is left for an order with a deadline.              *)
(***************************************************************************)
PassiveRespected == Submitted /\ PassiveOnly(x, tick) => outcome.plan.type \in Resting

(***************************************************************************)
(* No order spends more than its decision allowed, whatever the tick, the  *)
(* urgency and the book make of its price; half a tick is lost to rounding.*)
(***************************************************************************)
SpendsWithinDecision ==
    Submitted => outcome.plan.price * outcome.plan.size <= 1000 * x.decision
=============================================================================
