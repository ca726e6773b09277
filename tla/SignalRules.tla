----------------------------- MODULE SignalRules -----------------------------
(***************************************************************************)
(* The market of a signal: whether it belongs to the tradeable universe,   *)
(* the regime its features put it in, the toxicity of its flow and book    *)
(* with its trend, the microstructure near expiry, the research gates, and *)
(* the admission of a newly built signal.                                  *)
(*                                                                         *)
(* Scores, biases, returns and confidences are per mille (a return of      *)
(* 0.003 is 3), spreads tenths of a basis point, ticks hundredths of a     *)
(* cent, times seconds.                                                    *)
(***************************************************************************)
EXTENDS EdgeRules

Unit(x) == Clamp(x, 0, 1000)
Size(x) == IF x < 0 THEN -x ELSE x
Sign(x) == IF x > 0 THEN 1 ELSE IF x < 0 THEN -1 ELSE 0

Chaos == "near_resolution_microstructure_chaos"
Illiquid == "illiquid_noisy_book"

(***************************************************************************)
(* The tradeable universe: the first failing check rejects the market.     *)
(***************************************************************************)
Discovery(m, duplicates) ==
    Steps(<< <<~m.active, "market_inactive">>, <<m.closed, "market_closed">>,
             <<~m.tradable, "market_not_tradable">>, <<~m.btc, "non_btc_market">>,
             <<m.mixed, "ambiguous_market_identity">>,
             <<~(m.duration \in 240..360 \/ m.says), "non_five_minute_market">>,
             <<~m.tokens, "token_metadata_incomplete">>,
             <<m.expiry = None, "expiry_missing">>,
             <<m.expiry <= 0 \/ m.expiry > 1200, "outside_trade_window">>,
             <<m.expiry <= m.window, "near_resolution_blocked">>,
             <<m.negativeRisk, "negative_risk_unsupported">>,
             <<m.key \in duplicates, "duplicate_candidate">> >>, "passed")

Continuation(m, spreadLimit) ==
    IF Discovery(m, {}) # "passed" THEN Discovery(m, {})
    ELSE Steps(<< <<m.bookAge > m.maxBookAge \/ m.marketAge > m.maxMarketAge, "stale_venue_state">>,
                  <<m.bidDepth + m.askDepth < 50 \/ m.depth < 20, "insufficient_orderbook_support">>,
                  <<m.spread > spreadLimit, "market_quality_insufficient">>,
                  <<m.trades < 1, "insufficient_recent_activity">> >>, "passed")

Eligible(m) ==
    m.bookEnabled /\ Continuation(m, 5000) = "passed" /\ m.tick \in 1..500

(***************************************************************************)
(* The regime.                                                             *)
(***************************************************************************)
ToxicityBias(s) == Unit(Scale(s.stress, 450) + Scale(s.decay, 300) + Scale(s.noise, 250))

InstabilityBias(s) ==
    Unit(Scale(s.stress, 550) + Scale(s.noise, 200) + Scale(Unit(s.spread \div 5), 150)
         + Scale(Unit((1000 * (18 - s.depth)) \div 18), 100))

TransitionRisk(s) ==
    Unit(Scale(s.shiftStrength, 280) + Scale(s.decay, 200) + Scale(ToxicityBias(s), 220)
         + Scale(InstabilityBias(s), 200) + (IF s.shift = "mean_reversion" THEN 80 ELSE 0)
         + (IF s.expiry <= 120 THEN 120 ELSE 0))

RegimeLabel(s) ==
    LET aligned == Sign(s.lastReturn) = Sign(s.rollingReturn)
    IN  Steps(<< <<s.expiry <= 45 \/ (s.archetype = "expiry_pressure" /\ s.decay >= 800), Chaos>>,
                 <<\/ s.spread > 3000 \/ s.noise > 650 \/ s.depth < 16 \/ s.stress > 720
                   \/ s.archetype = "stressed_microstructure", Illiquid>>,
                 <<\/ s.shift = "mean_reversion" \/ s.archetype = "mean_reversion_trap"
                   \/ Size(s.lastReturn) > 3 /\ ~aligned, "spike_and_revert">>,
                 <</\ s.shift = "trend_acceleration" \/ s.archetype = "trend_follow_through"
                   /\ Size(s.rollingReturn) > 2 /\ aligned /\ s.volatility > 1
                   /\ s.decay < 650 /\ s.transmission > -150, "momentum_continuation">> >>,
              "low_volatility_drift")

Regime(s) ==
    LET label == RegimeLabel(s)
    IN  [label |-> label,
         allowed |-> label \notin {Chaos, Illiquid},
         confidence |->
            CASE label = Chaos -> 950 [] label = Illiquid -> 880
              [] label = "spike_and_revert" -> Unit(700 + Scale(s.archetypeConfidence, 150))
              [] label = "momentum_continuation" ->
                   Unit(720 + Scale(s.shiftStrength, 100) + Scale(s.archetypeConfidence, 80))
              [] OTHER -> Unit(650 + (IF s.archetype = "balanced_rotation" THEN 80 ELSE 0)
                               - Scale(s.decay, 120)),
         transition |->
            CASE label = Chaos -> Max({920, TransitionRisk(s)})
              [] label = Illiquid -> Max({740, TransitionRisk(s)})
              [] label = "spike_and_revert" -> Max({580, TransitionRisk(s)})
              [] label = "momentum_continuation" -> Scale(TransitionRisk(s), 750)
              [] OTHER -> Scale(TransitionRisk(s), 700)]

(***************************************************************************)
(* Toxicity of the flow and of the book, and the risk of being picked off. *)
(***************************************************************************)
FlowToxicity(s) ==
    Unit(Scale(Size(s.imbalance), 450) + Scale(s.intensity, 200)
         + Scale(Unit(6 * Size(s.microprice)), 150) + Scale(Unit(-2 * s.transmission), 80)
         + Scale(s.decay, 120))

BookInstability(s) ==
    Unit(Scale(s.stress, 380) + Scale(s.noise, 240) + Scale(Unit(s.spread \div 5), 160)
         + Scale(Unit((8 * s.spread) \div Max({1, s.bidDepth + s.askDepth})), 120)
         + Scale(Unit(50 * (20 - s.depth)), 60) + Scale(Unit((1000 * (120 - s.expiry)) \div 120), 40))

AdverseSelectionRisk(s) ==
    LET diverging == /\ Sign(s.lastReturn) # Sign(s.rollingReturn)
                     /\ 2 * Size(s.lastReturn) >= 3 /\ 2 * Size(s.rollingReturn) >= 3
    IN  Unit(Scale(FlowToxicity(s), 360) + Scale(BookInstability(s), 340)
             + Scale(Unit(8 * Size(s.microprice)), 100) + Scale(s.decay, 100)
             + (CASE s.shift = "stress_transition" -> 180 [] s.shift = "mean_reversion" -> 120
                  [] s.shift = "trend_exhaustion" -> 80 [] OTHER -> 30)
             + Scale(Unit((1000 * (75 - s.expiry)) \div 75), 80) + (IF diverging THEN 70 ELSE 0))

RegimeToxicity(label, bias) ==
    Max({Scale(Unit(bias), 120),
         CASE label = Chaos -> 120 [] label = Illiquid -> 80 [] OTHER -> 0})

BaseToxicity(s, label, bias) ==
    Unit(Scale(FlowToxicity(s), 340) + Scale(BookInstability(s), 330)
         + Scale(AdverseSelectionRisk(s), 330) + Scale(Unit((1000 * s.age) \div 45), 80)
         + RegimeToxicity(label, bias))

\* How one remembered point weighs: its recorded state first, else its score.
Persistence(point) ==
    CASE point.state = "blocked" -> 1000 [] point.state = "high" -> 800
      [] point.state = "elevated" -> 550
      [] OTHER -> Steps(<< <<point.score >= 820, 1000>>, <<point.score >= 500, 800>>,
                           <<point.score >= 320, 550>> >>, 0)

\* Momentum against the last four points, shock against those before them
\* and the peak, persistence weighted towards the latest of the last eight.
TrendPenalty(current, points) ==
    LET history == SubSeq(points, Max({1, Len(points) - 7}), Len(points))
        n == Len(history)
        scores == [i \in 1..n |-> history[i].score]
        trailing == SubSeq(scores, Max({1, n - 3}), n)
        baseline == SubSeq(scores, 1, Max({1, n - Len(trailing)}))
        momentum == Unit(Max({(1000 * (current - Mean(trailing))) \div 180,
                              (1000 * (current - scores[n])) \div 120}))
        shock == Unit(Max({(1000 * (current - Mean(baseline))) \div 220,
                           (1000 * (current - Max({scores[i] : i \in 1..n}))) \div 100}))
        share(level) == (1000 * Len(SelectSeq(scores, LAMBDA v : v >= level))) \div n
        weighted == (2 * Total([i \in 1..n |-> i * Persistence(history[i])])) \div (n * (n + 1))
        persistence == Unit(Scale(weighted, 720) + Scale(share(320), 120)
                            + Scale(share(500), 100) + Scale(share(820), 60))
    IN  IF n = 0 THEN 0
        ELSE Scale(momentum, 80) + Scale(shock, 100) + Scale(persistence, 120)

\* The states of toxicity with what each does to an entry.
ToxicityTreatment(score) ==
    LET row(state, threshold, size, passive, block) ==
            [state |-> state, threshold |-> threshold, size |-> size,
             passive |-> passive, block |-> block]
    IN  Steps(<< <<score >= 820, row("blocked", 1800, 200, TRUE, TRUE)>>,
                 <<score >= 680, row("high", 1450, 550, TRUE, FALSE)>>,
                 <<score >= 500, row("high", 1250, 720, FALSE, FALSE)>>,
                 <<score >= 320, row("elevated", 1120, 950, FALSE, FALSE)>> >>,
              row("normal", 1000, 1000, FALSE, FALSE))

ToxicityScore(s, label, bias) ==
    LET base == BaseToxicity(s, label, bias)
    IN  Unit(base + TrendPenalty(base, s.toxicHistory))

(***************************************************************************)
(* The microstructure of a contract close to its expiry.                   *)
(***************************************************************************)
Convexity(s) == Unit(1000 - (1000 * s.expiry) \div 300)
DecayPressure(s) ==
    Unit(Scale(Convexity(s), 450) + Scale(s.noise, 350) + (8 * Max({0, s.spread - 2000})) \div 100)

StrategyFamily(s) ==
    Steps(<< <<Convexity(s) >= 650, "expiry_window_behavior">>,
             <<s.volatility >= 3 \/ s.mispricing >= 550, "volatility_expansion">>,
             <<s.spread <= 2000 /\ s.depth >= 40 /\ s.clustering >= 450,
               "spread_liquidity_opportunism">>,
             <<Size(s.lastReturn) > 3 /\ Sign(s.lastReturn) # Sign(s.rollingReturn),
               "mean_reversion_after_overshoot">> >>, "momentum_continuation")

(***************************************************************************)
(* Research gates over the walk-forward validation w of the strategy.      *)
(***************************************************************************)
PromotionEligible(w) ==
    /\ w.enough /\ ~w.leaking /\ w.tradeable
    /\ w.realized > 0 /\ w.gap <= 180 /\ w.coverage >= 200

RobustnessScore(w) ==
    Total(<<Unit(w.realized), Unit(1000 + (10 * w.worst) \div 2),
            Unit(1000 - (1000 * w.gap) \div 180), Unit(w.coverage)>>) \div 4

Robust(w) == w.realized > 450 /\ w.worst > -200 /\ w.gap <= 180 /\ w.coverage >= 200

PromotionScore(w) ==
    Scale(Unit(w.confidence), 280) + Scale(RobustnessScore(w), 270) + Scale(Unit(w.realized), 200)
    + Scale(Unit(1000 - 5 * w.gap), 150) + 100

Promoted(w) ==
    /\ w.confidence >= 550 /\ RobustnessScore(w) >= 550 /\ 1000 - 5 * w.gap >= 400
    /\ PromotionScore(w) >= 620

(***************************************************************************)
(* The gate of a newly built signal: s its features, m its market, w the   *)
(* validation, e the forecast (edge, executable edge, confidence).         *)
(***************************************************************************)
BuildReason(s, m, w, e) ==
    LET regime == Regime(s)
        score == ToxicityScore(s, regime.label, ToxicityBias(s))
        toxicity == ToxicityTreatment(score)
        threshold == Scale(MinimumNetEdge, toxicity.threshold)
        admissible == Continuation(m, 6000) = "passed" /\ Eligible(m)
        near == [expiry |-> s.expiry, window |-> m.window, bookFresh |-> TRUE,
                 spread |-> s.spread, depth |-> s.depth, pressure |-> DecayPressure(s),
                 convexity |-> Convexity(s), age |-> 0, governed |-> PromotionEligible(w),
                 transition |-> regime.transition, history |-> s.history, venue |-> "none"]
    IN  AdmissionReason(
          [present |-> regime.allowed, zone |-> MarketZone(near),
           reasons |-> NoTradeReasons(
             [spread |-> s.spread, limit |-> 6000, bookFresh |-> TRUE, depth |-> s.depth,
              toxicityScore |-> score, toxicity |-> toxicity.state,
              venue |-> IF admissible THEN "healthy" ELSE "degraded",
              regimeConfidence |-> regime.confidence, transition |-> regime.transition,
              edge |-> e.edge, threshold |-> threshold, expiry |-> s.expiry,
              window |-> m.window, history |-> s.history]),
           expired |-> HalfLifeExpired(near),
           regimeAllowed |-> regime.allowed /\ ~toxicity.block,
           regimeConfidence |-> regime.confidence, regimeSamples |-> None, missing |-> FALSE,
           liquid |-> /\ admissible /\ s.spread <= 6000
                      /\ s.bidDepth >= 25 /\ s.askDepth >= 25 /\ s.depth >= 20,
           fresh |-> TRUE, venueHealthy |-> admissible,
           reconciled |-> PromotionEligible(w) /\ Robust(w) /\ Promoted(w),
           riskHealthy |-> s.expiry >= m.window + 5 /\ s.volatile,
           gross |-> e.gross, paper |-> e.raw > threshold /\ e.edge <= threshold,
           edge |-> e.edge, threshold |-> threshold,
           confidence |-> Min({e.confidence, w.confidence})])
=============================================================================
