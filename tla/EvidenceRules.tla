---------------------------- MODULE EvidenceRules ----------------------------
(***************************************************************************)
(* The risk engine's judgement of a strategy's record: the trust score of  *)
(* its resolved trades, the evidence band, the regime's rank and capital,  *)
(* the live sizing feedback, the regime-local and benchmark-relative       *)
(* multipliers and the capital allocation of the daily review.             *)
(*                                                                         *)
(* Multipliers are per mille, scores and ratios per cent, edges basis      *)
(* points.  An absent number is None, larger than every threshold; where   *)
(* the code gives it another value, Or does.                               *)
(***************************************************************************)
EXTENDS Integers, Sequences, SequencesExt, FiniteSetsExt

None == 1000000
Or(x, default) == IF x = None THEN default ELSE x

Clamp(x, low, high) == IF x < low THEN low ELSE IF x > high THEN high ELSE x
Scale(a, b) == (a * b) \div 1000
Product(factors) ==
    LET of[i \in 0..Len(factors)] == IF i = 0 THEN 1000 ELSE Scale(of[i - 1], factors[i])
    IN  of[Len(factors)]

\* The product of the factors whose condition holds: rows of <<when, factor>>.
Downshift(rows) ==
    Product([i \in DOMAIN rows |-> IF rows[i][1] THEN rows[i][2] ELSE 1000])

\* A score by steps: the first row whose condition holds, else the default.
Steps(rows, default) ==
    LET held == {i \in DOMAIN rows : rows[i][1]}
    IN  IF held = {} THEN default ELSE rows[Min(held)][2]

Total(values) ==
    LET sum[i \in 0..Len(values)] == IF i = 0 THEN 0 ELSE sum[i - 1] + values[i]
    IN  sum[Len(values)]

(***************************************************************************)
(* Trust in a strategy, from its resolved trades.                          *)
(***************************************************************************)
SampleScore(n) == Steps(<< <<n <= 0, 0>>, <<n < 3, 15>>, <<n < 6, 35>>,
                           <<n < 10, 55>>, <<n < 20, 75>> >>, 100)

ExpectancyScore(edges) ==
    LET n == Len(edges)
        sum == Total(edges)
    IN  IF n = 0 THEN 0
        ELSE Steps(<< <<sum <= -25 * n, 0>>, <<sum <= 0, 20>>, <<sum <= 20 * n, 45>>,
                      <<sum <= 60 * n, 70>>, <<sum <= 120 * n, 88>> >>, 100)

\* The deepest fall of the running sum below its highest point so far.
MaxDrawdown(edges) ==
    LET after[i \in 0..Len(edges)] ==
            IF i = 0 THEN [sum |-> 0, peak |-> 0, fall |-> 0]
            ELSE LET last == after[i - 1]
                     sum == last.sum + edges[i]
                     peak == Max({last.peak, sum})
                 IN  [sum |-> sum, peak |-> peak, fall |-> Max({last.fall, peak - sum})]
    IN  after[Len(edges)].fall

DrawdownScore(edges) ==
    LET fall == MaxDrawdown(edges)
    IN  IF edges = <<>> THEN 0
        ELSE Steps(<< <<fall <= 20, 100>>, <<fall <= 60, 80>>, <<fall <= 120, 55>>,
                      <<fall <= 200, 30>> >>, 10)

\* Thresholds on the standard deviation, compared as variances times n * n.
VarianceScore(deltas) ==
    LET n == Len(deltas)
        spread == n * Total([i \in DOMAIN deltas |-> deltas[i] * deltas[i]])
                  - Total(deltas) * Total(deltas)
    IN  IF n = 0 THEN 35
        ELSE Steps(<< <<spread <= 100 * n * n, 100>>, <<spread <= 625 * n * n, 82>>,
                      <<spread <= 2500 * n * n, 62>>, <<spread <= 8100 * n * n, 38>> >>, 18)

\* How completely each trade was reconciled with venue and portfolio truth.
ReconciliationOf(t) ==
    40 + (CASE t.lifecycle = "portfolio_truth" -> 30
            [] t.lifecycle = "resolved" -> 15
            [] OTHER -> 0)
       + (IF t.priced THEN 10 ELSE 0) + (IF t.timed THEN 10 ELSE 0)
       + (IF t.venueId THEN 5 ELSE 0) + (IF t.attributed THEN 5 ELSE 0)

ReconciliationScore(trades) ==
    IF trades = <<>> THEN 0
    ELSE Total([i \in DOMAIN trades |-> ReconciliationOf(trades[i])]) \div Len(trades)

BenchmarkScore(trades) ==
    LET score == [outperforming |-> 100, neutral |-> 55, underperforming |-> 15,
                  context_missing |-> 30]
        compared == SelectSeq(trades, LAMBDA t : t.benchmark \in DOMAIN score)
    IN  IF compared = <<>> THEN 35
        ELSE Total([i \in DOMAIN compared |-> score[compared[i].benchmark]]) \div Len(compared)

\* The weighted score, in hundredths of a per cent of full trust.
Trust(trades) ==
    LET edges == [i \in DOMAIN trades |-> trades[i].realized]
        deltas == [i \in DOMAIN trades |-> trades[i].realized - trades[i].expected]
    IN  [score |-> 20 * SampleScore(Len(trades)) + 24 * ExpectancyScore(edges)
                   + 16 * DrawdownScore(edges) + 14 * VarianceScore(deltas)
                   + 12 * ReconciliationScore(trades) + 14 * BenchmarkScore(trades),
         samples |-> Len(trades),
         benchmark |-> BenchmarkScore(trades),
         clean |-> ReconciliationScore(trades)]

\* The share of the size the evidence supports.
EvidenceFactor(trust) ==
    Min({Steps(<< <<trust.score < 2500, 0>>, <<trust.score < 4500, 250>>,
                  <<trust.score < 6500, 500>>, <<trust.score < 8000, 750>> >>, 1000),
         IF trust.samples >= 6 THEN 1000 ELSE 250,
         IF trust.benchmark >= 50 THEN 1000 ELSE 500,
         IF trust.clean >= 70 THEN 1000 ELSE 500})

(***************************************************************************)
(* The rank of a regime and the capital it gets.                           *)
(***************************************************************************)
Health == <<"healthy", "watch", "degraded", "quarantine_candidate">>
Worst == "quarantine_candidate"

HealthStep(health, watch, degraded, quarantine) ==
    CASE health = "watch" -> watch
      [] health = "degraded" -> degraded
      [] health = "quarantine_candidate" -> quarantine
      [] OTHER -> 1000

HealthScore(health, healthy) ==
    CASE health = "watch" -> 65 [] health = "degraded" -> 35
      [] health = "quarantine_candidate" -> 5 [] OTHER -> healthy

NetEvScore(ev) == Steps(<< <<ev >= 200, 100>>, <<ev > 0, 70>>, <<ev > -100, 40>> >>, 10)

RetentionScore(r) ==
    IF r = None THEN 45
    ELSE Steps(<< <<r >= 100, 100>>, <<r >= 90, 80>>, <<r >= 75, 60>>, <<r >= 50, 35>> >>, 10)

LossScore(drawdown) ==
    Steps(<< <<drawdown >= 100, 10>>, <<drawdown >= 60, 35>>, <<drawdown >= 30, 60>> >>, 90)

\* The quality of recent trades decides; without any, the execution context's
\* health, slippage (tenths of a basis point) and fill rate.
ExecutionScore(e) ==
    IF e.quality # None THEN e.quality
    ELSE Clamp(HealthScore(e.execution, 85)
               - Steps(<< <<e.slippage > 400, 20>>, <<e.slippage > 250, 10>> >>, 0)
               - Steps(<< <<e.fillRate < 65, 20>>, <<e.fillRate < 80, 10>> >>, 0), 0, 100)

HistoryScore(n) ==
    Steps(<< <<n >= 12, 100>>, <<n >= 8, 80>>, <<n >= 5, 60>>, <<n >= 3, 40>> >>, 15)

LeakScore(share) ==
    IF share = None THEN 55
    ELSE Steps(<< <<share >= 45, 15>>, <<share >= 30, 35>>, <<share >= 15, 60>> >>, 85)

QualityScore(e) ==
    Clamp(Or(e.quality, 55)
          - Steps(<< <<e.destructive >= 50, 35>>, <<e.destructive >= 30, 20>>,
                     <<e.destructive >= 15, 10>> >>, 0), 0, 100)

\* The mean of the eight components, in eighths of a per cent.
RegimeScore(e) ==
    Total(<<NetEvScore(e.netEv), RetentionScore(e.retained), LossScore(e.drawdown),
            HealthScore(e.calibration, 100), ExecutionScore(e), HistoryScore(e.samples),
            LeakScore(e.leak), QualityScore(e)>>)

RegimeRank(e) ==
    LET score == RegimeScore(e)
        avoid == \/ score < 8 * 38
                 \/ e.samples >= 5 /\ e.netEv <= 0 /\ Or(e.retained, 0) < 70
                 \/ Worst \in {e.calibration, e.execution}
                 \/ e.destructive >= 50
        marginal == score < 8 * 60 \/ e.netEv <= 0 \/ e.retained < 85
        strong == /\ score >= 8 * 82 /\ e.netEv > 0
                  /\ Or(e.retained, 0) >= 95 /\ e.samples >= 8
    IN  Steps(<< <<avoid, "avoid_regime">>, <<marginal, "marginal_regime">>,
                 <<strong, "strong_regime">> >>, "tradable_regime")

\* Capital for the regime, capped by the evidence factor.
RegimeCapital(e, evidenceFactor) ==
    LET rank == RegimeRank(e)
        score == RegimeScore(e)
        base == CASE rank = "strong_regime" ->
                       Steps(<< <<score >= 8 * 90, 1150>>, <<score >= 8 * 88, 1050>> >>, 1000)
                  [] rank = "tradable_regime" -> 1000
                  [] rank = "marginal_regime" -> 450
                  [] rank = "avoid_regime" -> 0
        multiplier == Min({base, Clamp(evidenceFactor, 0, 1000)})
    IN  [multiplier |-> multiplier, block |-> multiplier <= 10]

RegimeDisable(e) ==
    LET destructive == /\ e.samples >= 6 /\ RegimeRank(e) = "avoid_regime"
                       /\ Or(e.retained, 0) < 65 \/ e.netEv <= 0
                       /\ Or(e.quality, 100) < 45 \/ e.destructive >= 35 \/ Or(e.leak, 0) >= 40
        restrictive == /\ RegimeRank(e) = "marginal_regime"
                       /\ Or(e.quality, 100) < 55 \/ Or(e.leak, 0) >= 30 \/ e.destructive >= 25
    IN  [multiplier |-> Steps(<< <<destructive, 0>>, <<restrictive, 350>> >>, 1000),
         block |-> destructive]

(***************************************************************************)
(* How often and how eagerly to trade.                                     *)
(***************************************************************************)
TradeFrequency(e) ==
    LET rank == RegimeRank(e)
        base == Steps(<< <<rank = "avoid_regime" \/ e.class = "weak_edge", 0>>,
                         <<rank = "strong_regime" /\ e.class = "strong_edge", 3>>,
                         <<rank = "marginal_regime" \/ e.class = "marginal_edge", 1>> >>, 2)
        quality == Or(e.quality, 100)
        leak == Or(e.leak, 0)
        lowered == base - (IF quality < 55 THEN 1 ELSE 0) - (IF quality < 40 THEN 1 ELSE 0)
                        - (IF leak >= 30 THEN 1 ELSE 0)
        allowed == Steps(<< <<e.drawdown >= 100, 0>>,
                            <<e.drawdown >= 60, Min({lowered, 1})>> >>, lowered)
        size == Downshift(<< <<quality < 55, 800>>, <<quality < 40, 750>>, <<leak >= 30, 750>>,
                             <<e.drawdown >= 60, 600>>, <<e.drawdown >= 100, 0>> >>)
        block == Max({0, allowed}) <= e.recentTrades
    IN  [multiplier |-> IF block THEN 0 ELSE size, block |-> block]

MarginalCooldown(e) ==
    LET exempt == e.class = "strong_edge" /\ e.margin >= 40
        active == /\ e.margin <= 15 /\ e.marginals >= 2
                  /\ e.marginals + e.weakRejects >= 4 \/ e.lowQuality >= 35
        watch == e.margin <= 30 /\ (e.marginals >= 1 \/ e.lowQuality >= 25)
    IN  [multiplier |-> Steps(<< <<exempt, 1000>>, <<active, 0>>, <<watch, 500>> >>, 1000),
         block |-> ~exempt /\ active]

Saturation(e) ==
    LET forcing == e.marginals > e.strongs /\ e.weakRejects >= 3
        weak == /\ Or(e.averageMargin, 0) < 20
                /\ Or(e.quality, 100) < 55 \/ Or(e.leak, 0) >= 30
        saturated == forcing /\ weak /\ e.marginals + e.strongs >= 3
    IN  [multiplier |-> Steps(<< <<saturated, 0>>, <<forcing \/ weak, 650>> >>, 1000),
         block |-> saturated]
=============================================================================
