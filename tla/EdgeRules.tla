------------------------------ MODULE EdgeRules ------------------------------
(***************************************************************************)
(* From a signal's forecast edge to the edge that can be executed: its     *)
(* decay with age, the cost stack of the net-edge estimate, the cost       *)
(* calibration from live executions, the thresholds and the no-trade zone, *)
(* the no-trade classifier, the timing of the entry and the admission      *)
(* gate.                                                                   *)
(*                                                                         *)
(* Edges and spreads are tenths of a basis point (0.01 is 1000), times are *)
(* seconds, rates and multipliers per mille; None is an absent number,     *)
(* Least an absent one where only small values matter.                     *)
(***************************************************************************)
EXTENDS EvidenceRules

Least == -1
MinimumNetEdge == 250        \* admissionThresholdPolicy
MinimumConfidence == 350

Highest(S) == IF S = {} THEN None ELSE Max(S)
Mean(values) == IF values = <<>> THEN Least ELSE Total(values) \div Len(values)

ByVenue(label, degraded, unsafe) ==
    CASE label = "degraded" -> degraded [] label = "unsafe" -> unsafe [] OTHER -> 0

ByMode(mode, reduced, cancel, reconcile) ==
    CASE mode = "size-reduced" -> reduced [] mode = "cancel-only" -> cancel
      [] mode = "reconciliation-only" -> reconcile [] OTHER -> 0

ByHealth(health, watch, degraded, quarantine) ==
    CASE health = "watch" -> watch [] health = "degraded" -> degraded
      [] health = Worst -> quarantine [] OTHER -> 0

(***************************************************************************)
(* Decay.  Powers of e in steps of a tenth: what is left of the edge.      *)
(***************************************************************************)
Decayed == <<1000, 904, 818, 740, 670, 606, 548, 496, 449, 406, 367, 332>>

HalfLife(x) == Max({15, 105 - (50 * x.pressure) \div 1000 - (20 * x.convexity) \div 1000})

DecayMultiplier(x) == Decayed[Min({Len(Decayed), 1 + (10 * x.age) \div HalfLife(x)})]

HalfLifeExpired(x) == DecayMultiplier(x) < 350 \/ x.expiry <= HalfLife(x)

(***************************************************************************)
(* Classes of the context.                                                 *)
(***************************************************************************)
SpreadBucket(spread) ==
    IF spread = None \/ spread <= 0 THEN "unknown"
    ELSE Steps(<< <<spread <= 1000, "tight">>, <<spread <= 2500, "normal">>,
                  <<spread <= 5000, "wide">> >>, "stressed")

LiquidityBucket(depth) ==
    IF depth = None \/ depth <= 0 THEN "unknown"
    ELSE Steps(<< <<depth < 20, "thin">>, <<depth < 100, "balanced">> >>, "deep")

Urgency(x) == IF x.expiry <= 300 \/ x.age >= 45 THEN "high"
              ELSE IF x.age <= 10 THEN "low" ELSE "normal"

Style(x) == IF x.passive THEN "maker"
            ELSE IF x.route \in {"maker", "taker"} THEN x.route ELSE "hybrid"

FillFraction(x) ==
    CASE Style(x) = "maker" -> Or(x.makerFill, 650)
      [] Style(x) = "taker" -> Or(x.takerFill, 850)
      [] Style(x) = "hybrid" ->
           LET known == SelectSeq(<<x.makerFill, x.takerFill>>, LAMBDA r : r # None)
           IN  Clamp(IF known = <<>> THEN 750 ELSE Mean(known), 250, 1000)

PartialPenalty(x) ==
    Scale(Scale(Max({0, x.gross}),
                Or(x.partials, CASE Style(x) = "maker" -> 220 [] Style(x) = "hybrid" -> 160
                                 [] OTHER -> 80)), 180)

CancelPenalty(x) ==
    Scale(1000 - Or(x.cancels, 850), 120) + ByVenue(x.venue, 40, 120) + ByMode(x.mode, 0, 80, 120)

(***************************************************************************)
(* The net edge: the forecast edge less each cost and penalty.             *)
(***************************************************************************)
SizePressure(units, depth) ==
    IF units = None \/ depth = None \/ depth <= 0 THEN 250
    ELSE Steps(<< <<10 * units <= depth, 150>>, <<4 * units <= depth, 300>>,
                  <<2 * units <= depth, 600>> >>, 1000)

SlippageCost(x) == x.spread \div 2 + Scale(x.spread, SizePressure(x.units, x.depth))

AdverseSelectionCost(x) ==
    x.spread \div 4 + Min({400, 333 * x.age}) + Scale(1000 - DecayMultiplier(x), 400)
    + ByVenue(x.venue, 100, 300)

QueueCost(x) ==
    Min({400, (Max({20, Scale(x.gross, 80)}) * Or(x.delay, 15)) \div 15})
    + PartialPenalty(x) + CancelPenalty(x) + ByVenue(x.venue, 30, 100)

UncertaintyPenalty(x) ==
    ByHealth(x.calibration, 50, 150, 300) + Scale(1000 - x.shrinkage, 150)
    + ByHealth(x.regimeHealth, 40, 120, 250) + Min({300, 83 * x.age})
    + Scale(x.gross, 1000 - DecayMultiplier(x))

VenuePenalty(x) == ByVenue(x.venue, 100, 400) + ByMode(x.mode, 50, 200, 400)

NetEdge(x) == x.gross - x.fee - SlippageCost(x) - AdverseSelectionCost(x) - QueueCost(x)
              - UncertaintyPenalty(x) - VenuePenalty(x)

NetEdgeConfidence(x) ==
    LET evidence == Clamp((1000 * x.ev) \div Max({10, x.gross}), 0, 1000)
        drag == Clamp((1000 * UncertaintyPenalty(x)) \div Max({100, x.gross}), 0, 600)
    IN  Clamp(Scale(evidence, 1000 - drag), 100, 950)

PaperEdge(x) == x.gross > 0 /\ NetEdge(x) <= 0
StaleInputs(x) == x.age > 30 \/ DecayMultiplier(x) < 800

(***************************************************************************)
(* The threshold, raised by calibration, the regime's health and the venue.*)
(***************************************************************************)
Shrinkage(x) ==
    CASE x.calibration = Worst ->
           [threshold |-> Max({1500, 2000 - x.shrinkage}), size |-> Min({400, x.shrinkage})]
      [] x.calibration = "degraded" ->
           [threshold |-> Max({1250, 1000 + Scale(1000 - x.shrinkage, 800)}),
            size |-> Min({700, x.shrinkage})]
      [] x.calibration = "watch" ->
           [threshold |-> Max({1080, 1000 + Scale(1000 - x.shrinkage, 500)}),
            size |-> Clamp(x.shrinkage, 750, 900)]
      [] x.calibration = "healthy" -> [threshold |-> 1000, size |-> Clamp(x.shrinkage, 900, 1000)]
      [] x.calibration = "none" -> [threshold |-> 1000, size |-> 1000]

Threshold(x) ==
    LET raised == Scale(1000 + ByHealth(x.regimeHealth, 100, 350, 750),
                        1000 + ByVenue(x.venue, 250, 1000))
    IN  Scale(Scale(MinimumNetEdge, Shrinkage(x).threshold), raised)

Margin(x) == NetEdge(x) - Threshold(x)
ThresholdPassed(x) ==
    Margin(x) >= Max({100, Threshold(x) \div 4}) /\ NetEdge(x) > Threshold(x)

(***************************************************************************)
(* Costs calibrated from recent executions; what exceeds the estimate is   *)
(* taken off the edge once more.                                           *)
(***************************************************************************)
BucketPenalty(x) ==
    LET spread == SpreadBucket(x.spread)
        depth == LiquidityBucket(x.depth)
        sum == Total(<<1000,
                  CASE spread = "wide" -> 120 [] spread = "stressed" -> 280 [] OTHER -> 0,
                  CASE depth = "thin" -> 180 [] depth = "unknown" -> 80 [] OTHER -> 0,
                  IF Urgency(x) = "high" THEN 120 ELSE 0,
                  CASE Style(x) = "taker" -> 60 [] Style(x) = "maker" -> -30 [] OTHER -> 0,
                  ByMode(x.mode, 60, 140, 180)>>)
    IN  Clamp(sum, 850, 1700)

\* Of an observation only a positive number raises a cost; absent ones are
\* Least.  The caller that knows the context adds its penalty and its urgency.
CostsAt(x, penalty, urgent) ==
    LET fill == Clamp((1000 * Clamp(Max({x.observedFill, 100}
                                        \cup ({x.makerFill, x.takerFill} \ {None})), 100, 1000))
                        \div Max({1000, Scale(penalty, 300)}), 80, 1000)
        delay == Scale(Or(x.delay, 20), penalty)
    IN  [fee       |-> Max({x.observedFee, 50, x.policySlippage \div 5}),
         slippage  |-> Scale(Max({x.observedSlippage, x.policySlippage, 100}), penalty),
         adverse   |-> Scale(Max({x.observedAdverse, 80,
                                  IF x.adverseScore = None THEN 0
                                  ELSE 80 + Scale(Clamp(x.adverseScore, 0, 1000), 800)}),
                             penalty),
         delay     |-> delay,
         overhead  |-> Max({0, Scale(x.cancelFailures, 150)
                               + (IF Or(x.cancels, 1000) < 700 THEN 80 ELSE 0)
                               + ByVenue(x.venue, 50, 150) + Scale(penalty - 1000, 100)}),
         missed    |-> Scale(1000 - fill, 300) + (IF delay > 30 THEN 100 ELSE 0)
                       + (IF urgent THEN 40 ELSE 0)]

CostCalibration(x) == CostsAt(x, BucketPenalty(x), Urgency(x) = "high")

\* Delay costs of an edge that waits the expected time on top of its age.
DelayCosts(edge, age, expected) ==
    LET reference == Max({10, expected})
        late == Max({0, age + expected - reference})
        queue == Max({5, expected})
    IN  [decay |-> Min({600, (Max({40, Scale(edge, 80)}) * Min({4000, 1000 + (1000 * late) \div reference}))
                              \div 1000}),
         queue |-> Min({400, (Max({20, Scale(edge, 40)}) * Max({0, age + expected - queue})) \div queue})]

AdditionalCost(x) ==
    LET cost == CostCalibration(x)
        delayed == DelayCosts(NetEdge(x), x.age, cost.delay)
        Excess(a, b) == Max({0, a - b})
    IN  Excess(cost.fee, x.fee) + Excess(cost.slippage, SlippageCost(x))
        + Excess(cost.adverse, AdverseSelectionCost(x))
        + Excess(delayed.queue, QueueCost(x))
        + delayed.decay + cost.overhead + cost.missed

ExecutableEdge(x) == NetEdge(x) - AdditionalCost(x)

(***************************************************************************)
(* When not to trade.  The empirical part is the share of recent decisions *)
(* the classifier itself refused, and their dominant reasons.              *)
(***************************************************************************)
Experienced(x, rate) == x.history.samples >= 6 /\ x.history.rate >= rate

\* The part that needs no net edge, which a newly built signal has not yet.
MarketZone(x) ==
    \/ x.expiry <= x.window \/ ~x.bookFresh
    \/ x.spread > 5000 \/ x.depth < 20
    \/ x.pressure >= 800 \/ x.convexity >= 750
    \/ ~x.governed \/ HalfLifeExpired(x)
    \/ x.transition >= 620 /\ (x.history.samples = 0 \/ x.history.rate >= 450)
    \/ /\ Experienced(x, 600)
       /\ \/ "spread_too_wide" \in x.history.dominant /\ x.spread > 4000
          \/ "low_depth" \in x.history.dominant /\ x.depth < 28
          \/ "high_toxicity" \in x.history.dominant /\ x.pressure >= 600
          \/ "venue_uncertainty_elevated" \in x.history.dominant /\ x.venue = "degraded"

NoTradeZone(x) ==
    \/ MarketZone(x) \/ ~ThresholdPassed(x)
    \/ UncertaintyPenalty(x) >= Max({200, Scale(x.gross, 350)})
    \/ x.calibration = Worst \/ x.regimeHealth = Worst
    \/ "degraded" \in {x.calibration, x.regimeHealth} /\ Margin(x) < 200
    \/ ~x.contextHealthy
    \/ x.venue = "unsafe" \/ (x.venue = "degraded" /\ Margin(x) < 150)

\* The reasons the classifier gives; it allows a trade when there is none.
NoTradeReasons(n) ==
    LET because(reason, holds) == IF holds THEN {reason} ELSE {}
        seen == n.history.samples > 0
        often(rate) == n.history.samples >= 6 /\ n.history.rate >= rate
        tightened == IF n.history.samples < 6 THEN 0
                     ELSE Clamp(n.history.rate * Min({n.history.samples, 24}), 0, 18000) \div 100
    IN  because("spread_too_wide", n.spread > n.limit)
        \cup because("orderbook_stale", ~n.bookFresh)
        \cup because("low_depth", n.depth < 20)
        \cup because("high_toxicity", n.toxicityScore >= 720 \/ n.toxicity = "blocked")
        \cup because("venue_uncertainty_elevated",
                     \/ n.venue = "unsafe"
                     \/ /\ n.venue = "degraded"
                        /\ \/ 100 * n.edge <= 135 * n.threshold
                           \/ seen /\ n.history.rate >= 550)
        \cup because("regime_unstable",
                     \/ n.regimeConfidence < 580
                     \/ n.transition >= 620
                     \/ often(600) /\ "regime_unstable" \in n.history.dominant)
        \cup because("edge_too_marginal_after_costs",
                     100 * n.edge <= Max({100 * n.threshold, 115 * n.threshold + tightened}))
        \cup because("event_window_too_noisy",
                     \/ n.expiry <= n.window + 5
                     \/ often(550) /\ "event_window_too_noisy" \in n.history.dominant)

(***************************************************************************)
(* The timing of the entry, and the gate that admits a trade.              *)
(***************************************************************************)
Timing(age, expiry, delay, multiplier, expired, pressure) ==
    Steps(<< <<expired \/ multiplier < 450 \/ age >= 3 * delay \/ expiry <= delay, 0>>,
             <<2 * age >= 3 * delay \/ pressure >= 750 \/ multiplier < 700, 450>>,
             <<age <= 5 /\ pressure <= 200 /\ delay >= 30, 750>> >>, 1000)

EntryTiming(x) == Timing(x.age, x.expiry, Max({10, CostCalibration(x).delay}),
                         DecayMultiplier(x), HalfLifeExpired(x), x.pressure)

\* The first failing check names the rejection; "trade_permitted" admits.
AdmissionReason(g) ==
    Steps(<< <<~g.present, "no_signal">>,
             <<g.zone \/ g.reasons # {}, "no_trade_zone">>,
             <<g.expired, "edge_half_life_expired">>,
             <<~g.regimeAllowed, "regime_blocked">>,
             <<g.regimeConfidence < 580, "regime_confidence_too_low">>,
             <<g.regimeSamples < 6, "regime_evidence_insufficient">>,
             <<g.missing, "friction_input_missing">>,
             <<~g.liquid, "bad_liquidity">>,
             <<~g.fresh, "stale_data">>,
             <<~g.venueHealthy, "venue_unhealthy">>,
             <<~g.reconciled, "reconciliation_unhealthy">>,
             <<~g.riskHealthy, "risk_blocked">>,
             <<g.gross < 250, "weak_signal">>,
             <<g.paper /\ g.edge <= g.threshold, "paper_edge_only">>,
             <<g.edge <= g.threshold, "positive_direction_but_negative_ev">>,
             <<g.confidence < MinimumConfidence, "positive_ev_but_below_confidence">> >>,
          "trade_permitted")

OpportunityClass(edge, threshold) ==
    Steps(<< <<edge - threshold >= Max({400, threshold}), "strong_edge">>,
             <<edge - threshold >= 150, "tradable_edge">>,
             <<edge >= threshold, "marginal_edge">> >>, "weak_edge")
=============================================================================
