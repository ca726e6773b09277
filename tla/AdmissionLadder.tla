--------------------------- MODULE AdmissionLadder ---------------------------
(***************************************************************************)
(* One pending signal whose circumstances worsen, and the verdict the      *)
(* evaluation job would give on it in each.  It starts from the best ones, *)
(* or from one of those that are neither better nor worse.                 *)
(***************************************************************************)
EXTENDS TradingCases

CONSTANT MaxTroubles     \* bound: circumstances away from their best

VARIABLES x, tick, verdict

Place(level, value) == CHOOSE i \in DOMAIN level : level[i] = value

Away(y, t) ==
    {f \in DOMAIN Levels : y[f] # Best[f]} \cup {f \in DOMAIN TickLevels : t[f] # Opened[f]}
    \cup {f \in DOMAIN Neutral : y[f] # Best[f]}

TypeOK ==
    /\ DOMAIN x = DOMAIN Best /\ DOMAIN tick = DOMAIN Opened
    /\ Cardinality(Away(x, tick)) <= MaxTroubles
    /\ verdict.wanted \in 0..RiskBudget(tick) /\ verdict.size \in 0..verdict.wanted

Starts == {Best} \cup UNION {{[Best EXCEPT ![f] = v] : v \in Range(Neutral[f])} : f \in DOMAIN Neutral}

Init ==
    \E y \in Starts : x = y /\ tick = Opened /\ verdict = Verdict(y, Opened)

Judge(y, t) == x' = y /\ tick' = t /\ verdict' = Verdict(y, t)

\* The circumstances that may worsen: every one, or those that are away already.
Movable ==
    IF Cardinality(Away(x, tick)) < MaxTroubles
    THEN DOMAIN Levels \cup DOMAIN TickLevels ELSE Away(x, tick)

\* The circumstance f of a record, one step worse.
Worse(record, levels, f) ==
    LET i == Place(levels[f], record[f]) + 1
    IN  IF i \in DOMAIN levels[f] THEN {[record EXCEPT ![f] = levels[f][i]]} ELSE {}

\* The circumstances of the signal and of the tick with one of them a step worse.
Worsened ==
    {<<y, tick>> : y \in UNION {Worse(x, Levels, f) : f \in DOMAIN Levels \cap Movable}}
    \cup {<<x, t>> : t \in UNION {Worse(tick, TickLevels, f) : f \in DOMAIN TickLevels \cap Movable}}

Worsen == \E w \in Worsened : Judge(w[1], w[2])

vars == <<x, tick, verdict>>
Spec == Init /\ [][Worsen]_vars

(***************************************************************************)
(* Worse evidence never buys more: when one circumstance worsens, all else *)
(* equal, a rejected signal stays rejected and an approved one is not      *)
(* approved for more money.  Only an order refused for its size may pass   *)
(* once its size is reduced.                                               *)
(***************************************************************************)
Granted(v) == IF v.approved THEN v.size ELSE 0

TooLarge == verdict.reasons \cap {"position_limit", "insufficient_top_level_liquidity"} # {}

NeverMore == Granted(verdict') > Granted(verdict) => TooLarge
=============================================================================
