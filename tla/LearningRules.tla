--------------------------- MODULE LearningRules ---------------------------
(***************************************************************************)
(* What one learning cycle makes of the resolved trades: the regime        *)
(* snapshots and their decay (RegimeEdgeAttribution, EdgeDecayDetector),   *)
(* the calibration of each context (LiveCalibrationUpdater), the health of *)
(* a variant and the status of the cycle (LearningCycleRunner), and what   *)
(* the execution updater reads from the orders (AdverseSelectionMonitor,   *)
(* inferExecutionHealth, inferExecutionPolicyMode).                        *)
(*                                                                         *)
(* Probabilities, rates and ratios are in percent, prices and slippage in  *)
(* basis points, delays in seconds, scores in thousandths.                 *)
(***************************************************************************)
EXTENDS PromotionRules

(* The first bound of the sequence that x does not exceed names its bucket. *)
Bucket(x, bounds, names, last) ==
  LET fits == {i \in DOMAIN bounds : x <= bounds[i]}
  IN  IF x < 0 THEN "unknown"
      ELSE IF fits = {} THEN last
      ELSE names[CHOOSE i \in fits : \A j \in fits : i <= j]

BucketLiquidity(depth) ==
  CASE depth <= 0 -> "unknown" [] depth \in 1 .. 19 -> "thin"
    [] depth \in 20 .. 99 -> "balanced" [] OTHER -> "deep"
BucketSpread(bps) == Bucket(bps, <<100, 300, 600>>, <<"tight", "normal", "wide">>, "stressed")
BucketTimeToExpiry(s) ==
  Bucket(s, <<300, 900, 3600>>, <<"under_5m", "under_15m", "under_60m">>, "over_60m")
BucketEntryTiming(ms) ==
  Bucket(ms, <<1500, 5000, 15000>>, <<"instant", "early", "delayed">>, "late")

(* The key of the slice a trade is attributed to. *)
SliceOf(t) ==
  <<t.variant, t.regime, BucketLiquidity(t.depth), BucketSpread(t.spread),
    BucketTimeToExpiry(t.expiry), BucketEntryTiming(t.delay), t.style, t.side>>

Mean(s) == IF s = <<>> THEN 0 ELSE Total(s) \div Len(s)
Each(s, Value(_)) == [i \in DOMAIN s |-> Value(s[i])]
Present(s) == SelectSeq(s, LAMBDA x : x # Absent)

(* inferBaselineHealth: what a snapshot says before the decay detector looked. *)
BaselineHealth(n) == IF n \in 3 .. 4 THEN "watch" ELSE "healthy"

(* RegimeEdgeAttribution.attribute: one snapshot per slice. *)
Snapshot(trades) ==
  LET expected == Total(Each(trades, LAMBDA t : t.expected))
      realized == Total(Each(trades, LAMBDA t : t.realized))
  IN  [n |-> Len(trades), expected |-> expected, realized |-> realized,
       wins |-> CountIf(trades, LAMBDA t : t.realized > 0),
       ratio |-> IF expected # 0 THEN OrElse(Retained(expected, realized), 0)
                 ELSE IF realized > 0 THEN 100 ELSE 0,
       fill |-> Mean(Present(Each(trades, LAMBDA t : t.fill))),
       slippage |-> Mean(Present(Each(trades, LAMBDA t : t.slippage))),
       health |-> BaselineHealth(Len(trades))]

Attribute(trades) ==
  LET slices == {SliceOf(trades[i]) : i \in DOMAIN trades}
  IN  [k \in slices |-> Snapshot(SelectSeq(trades, LAMBDA t : SliceOf(t) = k))]

(* EdgeDecayDetector.assess *)
Assess(s) ==
  LET under == s.realized < 0 /\ s.expected > 0
      weak  == 100 * s.wins < 45 * s.n
  IN  IF s.n < 3 THEN "healthy"
      ELSE IF s.n >= 8 /\ (s.ratio <= 15 \/ (under /\ weak)) THEN "quarantine_candidate"
      ELSE IF s.n >= 5 /\ (s.ratio <= 40 \/ under) THEN "degraded"
      ELSE IF s.ratio <= 75 \/ weak \/ s.fill < 50 THEN "watch" ELSE "healthy"

-----------------------------------------------------------------------------
(* inferCalibrationHealth and inferShrinkageFactor of the mean Brier score, log  *)
(* loss and overconfidence of a context, all in hundredths; the factor is in     *)
(* thousandths.                                                                  *)
CalibrationHealth(n, brier, logLoss, over) ==
  LET Beyond(b, l, o) == brier >= b \/ logLoss >= l \/ over >= o
  IN  IF n >= 8 /\ Beyond(35, 90, 35) THEN "quarantine_candidate"
      ELSE IF n >= 5 /\ Beyond(25, 75, 20) THEN "degraded"
      ELSE IF n >= 3 /\ Beyond(18, 60, 12) THEN "watch" ELSE "healthy"

Smallest(a, b) == IF a <= b THEN a ELSE b
Clamp(x, low, high) == Largest(low, Smallest(high, x))

ShrinkageFactor(health, brier, logLoss, over) ==
  LET penalty == Largest(0, brier - 10) + Largest(0, logLoss - 40) \div 2 + over
      base == CASE health = "quarantine_candidate" -> 350 [] health = "degraded" -> 600
                [] health = "watch" -> 820 [] OTHER -> 1000
  IN  Clamp(base - Smallest(250, penalty), 200, 1000)

DriftSignals(brier, logLoss, over) ==
  {s \in {"brier_deterioration", "log_loss_deterioration", "overconfidence_detected"} :
     CASE s = "brier_deterioration" -> brier >= 18
       [] s = "log_loss_deterioration" -> logLoss >= 60
       [] s = "overconfidence_detected" -> over >= 12}

(* One context of LiveCalibrationUpdater.update: the window replaces what an     *)
(* earlier one said, whatever the numbers of their samples.                      *)
Calibrate(previous, n, brier, logLoss, over) ==
  LET health == CalibrationHealth(n, brier, logLoss, over)
  IN  [n |-> n, health |-> health, version |-> previous.version + 1,
       factor |-> ShrinkageFactor(health, brier, logLoss, over),
       drift |-> DriftSignals(brier, logLoss, over)]

(* reconcileVariantHealth: the worst of every regime ever seen and every context. *)
VariantHealth(snapshots, calibrations) == WorstHealth(snapshots \cup calibrations)

(* The status of LearningCycleRunner.run. *)
CycleStatus(errors, samples, slices, updates) ==
  CASE errors > 0 /\ slices = 0 /\ updates = 0 -> "failed"
    [] errors = 0 /\ samples > 0 /\ slices > 0 -> "completed"
    [] OTHER -> "completed_with_warnings"

-----------------------------------------------------------------------------
(* AdverseSelectionMonitor.assess of the maker and taker orders of a context. *)
AdverseSelection(makers, takers) ==
  LET fill  == Mean(Each(makers, LAMBDA o : o.fill))
      delay == Present(Each(makers, LAMBDA o : o.delay))
      score == 5 * Largest(0, 55 - fill)
               + (IF delay = <<>> THEN 0 ELSE 15 * Largest(0, Mean(delay) - 12))
               + 2 * Largest(0, Mean(Each(makers, LAMBDA o : o.slippage))
                                 - Mean(Each(takers, LAMBDA o : o.slippage)))
  IN  IF Len(makers) < 3 THEN [punished |-> FALSE, score |-> 0, health |-> "healthy"]
      ELSE [punished |-> score >= 450, score |-> score,
            health |-> CASE score >= 700 -> "quarantine_candidate"
                         [] score \in 450 .. 699 -> "degraded"
                         [] score \in 250 .. 449 -> "watch" [] OTHER -> "healthy"]

(* The window of a context: the rates an absent side has are 0, and a window     *)
(* without cancels succeeded in all of them.                                     *)
ExecutionWindow(orders) ==
  LET makers == SelectSeq(orders, LAMBDA o : o.route = "maker")
      takers == SelectSeq(orders, LAMBDA o : o.route = "taker")
      cancels == SelectSeq(orders, LAMBDA o : o.cancel # "none")
  IN  [n |-> Len(orders), makers |-> Len(makers), takers |-> Len(takers),
       makerFill |-> Mean(Each(makers, LAMBDA o : o.fill)),
       takerFill |-> Mean(Each(takers, LAMBDA o : o.fill)),
       makerSlippage |-> Mean(Each(makers, LAMBDA o : o.slippage)),
       takerSlippage |-> Mean(Each(takers, LAMBDA o : o.slippage)),
       slippage |-> Mean(Each(orders, LAMBDA o : o.slippage)),
       delay |-> LET known == Present(Each(orders, LAMBDA o : o.delay))
                 IN  IF known = <<>> THEN Absent ELSE Mean(known),
       cancel |-> IF cancels = <<>> THEN 100
                  ELSE (100 * CountIf(cancels, LAMBDA o : o.cancel = "ok")) \div Len(cancels),
       partial |-> IF orders = <<>> THEN 0
                   ELSE (100 * CountIf(orders, LAMBDA o : o.partial)) \div Len(orders),
       adverse |-> AdverseSelection(makers, takers)]

(* inferExecutionHealth *)
ExecutionHealthOf(w) ==
  LET collapsed == w.adverse.health = "quarantine_candidate" \/ w.slippage >= 200
                   \/ w.cancel < 40 \/ w.takerFill < 50
      weak == w.adverse.health = "degraded" \/ w.slippage >= 100
              \/ w.cancel < 70 \/ w.makerFill < 30
      soft == w.adverse.health = "watch" \/ w.slippage >= 60
              \/ w.cancel < 85 \/ w.makerFill < 45
  IN  IF w.n >= 6 /\ collapsed THEN "quarantine_candidate"
      ELSE IF w.n >= 4 /\ weak THEN "degraded"
      ELSE IF w.n >= 3 /\ soft THEN "watch" ELSE "healthy"

(* inferExecutionPolicyMode *)
ExecutionMode(w) ==
  IF w.adverse.punished \/ (w.makerFill \in 1 .. 34 /\ w.takerFill >= w.makerFill)
  THEN "taker_preferred"
  ELSE IF w.makerFill >= 55 /\ w.makerSlippage <= w.takerSlippage + 30
  THEN "maker_preferred" ELSE "balanced"
=============================================================================
