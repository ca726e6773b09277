--------------------------- MODULE PromotionRules ---------------------------
(***************************************************************************)
(* The decisions of the learning cycle about one strategy variant, as      *)
(* functions of its evidence: the live evidence packet of its resolved     *)
(* trades, the live promotion and demotion gates, the shadow evaluation,   *)
(* the stability and capital growth gates, the quarantine assessment and   *)
(* the promotion decision.  Edges are in basis points, ratios in percent,  *)
(* variances in the squares of those; averages are compared by their sums. *)
(***************************************************************************)
EXTENDS Integers, Sequences, FiniteSets, SequencesExt

Absent == -1000000  \* null
OrElse(x, default) == IF x = Absent THEN default ELSE x

Healths == <<"healthy", "watch", "degraded", "quarantine_candidate">>
Health == ToSet(Healths)
Rank(h) == CHOOSE i \in DOMAIN Healths : Healths[i] = h

(* worstHealth, healthy when there is nothing to compare. *)
WorstHealth(hs) ==
  IF hs = {} THEN "healthy" ELSE CHOOSE h \in hs : \A o \in hs : Rank(o) <= Rank(h)

Weak == {"degraded", "quarantine_candidate"}

Total(s) == FoldLeft(LAMBDA sum, x : sum + x, 0, s)
Largest(a, b) == IF a >= b THEN a ELSE b
CountIf(s, Test(_)) == Len(SelectSeq(s, Test))

(* n * sum of squares - square of the sum: n * n times the variance. *)
Spread(s) == Len(s) * Total([i \in DOMAIN s |-> s[i] * s[i]]) - Total(s) * Total(s)

(* computeMaxDrawdown of the running total from its peak. *)
MaxDrawdown(edges) ==
  FoldLeft(LAMBDA a, x :
             LET sum == a.sum + x  peak == Largest(a.peak, sum)
             IN  [sum |-> sum, peak |-> peak, worst |-> Largest(a.worst, peak - sum)],
           [sum |-> 0, peak |-> 0, worst |-> 0], edges).worst

(* buildLivePromotionEvidencePacket.  A trade has its realized and expected net *)
(* edge (expected may be Absent), its benchmark comparison, whether it is clean *)
(* of reconciliation anomalies and whether it was an adverse selection spike.   *)
LivePacket(trades, unhealthyRegimes, regimes) ==
  LET Gap(t) == t.realized - t.expected
      known == SelectSeq(trades, LAMBDA t : t.expected # Absent)
      edges == [i \in DOMAIN trades |-> trades[i].realized]
  IN  [trades |-> Len(trades),
       edge |-> Total(edges),
       drawdown |-> MaxDrawdown(edges),
       gaps |-> [i \in DOMAIN known |-> Gap(known[i])],
       outperforming |-> CountIf(trades, LAMBDA t : t.benchmark = "outperforming"),
       underperforming |-> CountIf(trades, LAMBDA t : t.benchmark = "underperforming"),
       anomalies |-> CountIf(trades, LAMBDA t : ~t.clean),
       spikes |-> CountIf(trades, LAMBDA t : t.spike),
       unhealthy |-> unhealthyRegimes, regimes |-> regimes]

(* The standard deviation of the gaps is at most, or at least, some bound. *)
GapsWithin(p, bound) == Spread(p.gaps) <= bound * bound * Len(p.gaps) * Len(p.gaps)
GapsBeyond(p, bound) == Spread(p.gaps) >= bound * bound * Len(p.gaps) * Len(p.gaps)

(* Mutant: a trade beaten by its benchmark is accepted. *)
LivePromotionGateLenient(p) ==
  /\ p.trades >= 8 /\ p.edge > 0
  /\ 2 * p.outperforming >= p.trades
  /\ p.drawdown <= 120
  /\ p.gaps # <<>> /\ GapsWithin(p, 50)
  /\ p.anomalies = 0

(* LivePromotionGate.evaluate *)
LivePromotionGate(p) ==
  /\ p.trades >= 8 /\ p.edge > 0
  /\ 2 * p.outperforming >= p.trades /\ p.underperforming = 0
  /\ p.drawdown <= 120
  /\ p.gaps # <<>> /\ GapsWithin(p, 50)
  /\ p.anomalies = 0

(* The five triggers of LiveDemotionGate.evaluate. *)
DemotionTriggers(p) ==
  {t \in {"gap", "variance", "benchmark", "instability", "spikes"} :
     CASE t = "gap" -> p.gaps # <<>> /\ Total(p.gaps) <= -18 * Len(p.gaps)
       [] t = "variance" -> p.gaps # <<>> /\ GapsBeyond(p, 65)
       [] t = "benchmark" -> \/ p.underperforming >= 2
                             \/ p.trades = 0 \/ 100 * p.outperforming < 35 * p.trades
       [] t = "instability" -> p.regimes > 0 /\ 2 * p.unhealthy >= p.regimes
       [] t = "spikes" -> p.trades > 0 /\ 10 * p.spikes >= 3 * p.trades}

LiveDemotionAction(p) ==
  LET n == Cardinality(DemotionTriggers(p))
  IN  CASE n >= 4 -> "quarantine" [] n = 3 -> "demote" [] n \in 1 .. 2 -> "probation"
        [] OTHER -> "none"

-----------------------------------------------------------------------------
(* ShadowEvaluationEngine: the execution health of a variant from its contexts,  *)
(* its regime snapshots and their average fill rate (percent) and slippage.      *)
ExecutionHealth(contexts, snapshots, fillRate, slippageBps) ==
  WorstHealth(contexts \cup snapshots \cup
    (IF OrElse(fillRate, 100) < 35 \/ OrElse(slippageBps, 0) > 120 THEN {"quarantine_candidate"}
     ELSE IF OrElse(fillRate, 100) < 55 \/ OrElse(slippageBps, 0) > 60 THEN {"degraded"}
     ELSE {}))

(* Realized over expected value in whole percent, unless nothing was expected. *)
Retained(expected, realized) ==
  CASE expected = 0 -> Absent
    [] expected > 0 -> (100 * realized) \div expected
    [] expected < 0 -> (-100 * realized) \div (-expected)

ShadowEvidence(snapshotSamples, calibrationSamples, retained, incumbentRetained, calibration, execution) ==
  [samples |-> Largest(snapshotSamples, calibrationSamples),
   calibration |-> calibration, execution |-> execution, retained |-> retained,
   improvement |-> IF Absent \in {retained, incumbentRetained} THEN Absent
                   ELSE retained - incumbentRetained]

(* maxShare: one weight is more than this percent of their sum. *)
ShareExceeds(weights, percent) ==
  LET positive == [i \in DOMAIN weights |-> Largest(0, weights[i])]
  IN  \E i \in DOMAIN positive : 100 * positive[i] > percent * Total(positive)

(* PromotionStabilityCheck on contexts [contribution, samples]; the consistency *)
(* of the ratios and the variance of the returns come as numbers.               *)
StabilityReasons(contexts, consistency, varianceHigh, retained, growthScore) ==
  LET contributions == [i \in DOMAIN contexts |-> contexts[i].contribution]
      samples == [i \in DOMAIN contexts |-> contexts[i].samples]
  IN  {x \in {"concentration", "luck", "consistency", "variance", "growth"} :
         CASE x = "concentration" -> ShareExceeds(contributions, 72) \/ ShareExceeds(samples, 75)
           [] x = "luck" -> ShareExceeds(contributions, 62)
           [] x = "consistency" -> consistency < 55
           [] x = "variance" -> varianceHigh /\ OrElse(retained, 0) < 100
           [] x = "growth" -> OrElse(growthScore, 0) < 62}

(* CapitalGrowthPromotionGate *)
CapitalGrowthPassed(e, controls) ==
  /\ e.samples >= 5
  /\ OrElse(controls.netEdge, 0) > 0
  /\ OrElse(controls.drawdown, 0) <= 8
  /\ e.calibration \notin Weak /\ e.execution \notin Weak
  /\ OrElse(controls.retention, 0) >= 90
  /\ OrElse(controls.leakage, 0) <= 35
  /\ OrElse(controls.regimeStability, 0) >= 55
  /\ OrElse(controls.growthScore, 0) >= 62

(* StrategyQuarantinePolicy: a high record for each label that says so; the live *)
(* demotion gate quarantines without leaving a record.                           *)
QuarantineRecorded(regimeHealths, calibrations, e) ==
  "quarantine_candidate" \in regimeHealths \cup calibrations \cup {e.execution}

QuarantineStatus(recorded, action, e) ==
  CASE recorded \/ action = "quarantine" -> "quarantined"
    [] action \in {"probation", "demote"} -> "probation"
    [] "degraded" \in {e.calibration, e.execution} -> "probation"
    [] OTHER -> "none"

-----------------------------------------------------------------------------
(* nextRolloutStage over the ladder of stages 0 .. 4. *)
NextRolloutStage(stage) == IF stage = 4 THEN 4 ELSE stage + 1

Decision(verdict, target) == [verdict |-> verdict, target |-> target]

(* PromotionDecisionEngine.evaluate: the first check that fails decides. *)
PromotionDecision(e, stage, action, livePassed, stable, growth) ==
  LET held == Decision("shadow_only", 0)
      out  == Decision(IF stage # 0 THEN "rollback" ELSE "reject", 0)
      next == NextRolloutStage(stage)
  IN  CASE e.samples < 5 -> held
        [] e.samples >= 5 /\ action = "quarantine" -> Decision("rollback", 0)
        [] e.samples >= 5 /\ action = "demote" -> Decision("rollback", 1)
        [] OTHER ->
             IF "quarantine_candidate" \in {e.calibration, e.execution} THEN out
             ELSE IF e.retained = Absent \/ OrElse(e.retained, 0) < 90 THEN held
             ELSE IF OrElse(e.improvement, 0) < 0 THEN held
             ELSE IF ~livePassed THEN held
             ELSE IF ~stable THEN out
             ELSE IF ~growth THEN held
             ELSE IF "degraded" \in {e.calibration, e.execution} THEN Decision("canary", next)
             ELSE Decision(IF next = 4 THEN "promote" ELSE "canary", next)
=============================================================================
