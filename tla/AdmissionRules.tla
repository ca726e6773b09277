---------------------------- MODULE AdmissionRules ----------------------------
(***************************************************************************)
(* The verdict of the evaluation job on one pending signal: the reasons to *)
(* reject it and, when there is none, the money an order may spend.        *)
(*                                                                         *)
(* x is what is known of the signal: its forecast, its market's book and   *)
(* features, the regime's and the venue's record, the last reviews.  t is  *)
(* what the tick has established: tier, ramp, safety controls, venue mode, *)
(* account, slots and the entries it has approved so far.  Units are those *)
(* of EdgeRules and SizingRules.                                           *)
(***************************************************************************)
EXTENDS SignalRules, CapitalRules, SizingRules

Because(reason, holds) == IF holds THEN {reason} ELSE {}

Entry(x) == x.intent = "increase"
Fresh(x) == x.book => x.bookAge <= x.maxBookAge
Staged(t) == t.tier \notin {"paper", "research"}

\* What the venue's health label does to entries.
VenueMode(label, lagging) ==
    CASE label = "healthy" -> [mode |-> "normal", size |-> 1000, submit |-> TRUE]
      [] label = "degraded" -> [mode |-> "size-reduced", size |-> 500, submit |-> TRUE]
      [] label = "unsafe" -> [mode |-> IF lagging THEN "reconciliation-only" ELSE "cancel-only",
                              size |-> 0, submit |-> FALSE]

Mode(t) == VenueMode(t.venue, t.lagging)

(***************************************************************************)
(* The first reasons: the signal, its inputs, the deployment, the tick.    *)
(***************************************************************************)
EntryReasons(x, t) ==
    Because("deployment_tier_blocks_entries", ~t.newEntries)
    \cup Because("capital_ramp_frozen", t.ramp <= 0)
    \cup Because("research_governance_blocked", ~x.governed /\ Staged(t))
    \cup Because("robustness_evidence_missing", ~t.robust /\ Staged(t))
    \cup Because("chaos_harness_not_green", t.tier = "scaled_live" /\ ~t.chaos)
    \cup Because("safety_state_no_new_entries", ~t.safety.entries)
    \cup Because("safety_reduced_frequency_entry_budget_exhausted",
                 t.safety.budget >= 0 /\ t.approved >= t.safety.budget)
    \cup Because("max_open_positions_reached", ~SlotFree(t.maxOpen - t.slots, t.maxOpen))
    \cup Because("portfolio_allocation_blocks_scaling", x.allocation <= 0)
    \cup Because("venue_mode", ~Mode(t).submit)

SignalReasons(x, t) ==
    Because("market_missing", ~x.known)
    \cup Because("ambiguous_execution_intent", ~x.known \/ x.intent = "ambiguous")
    \cup Because("signal_stale", x.age > t.maxAge)
    \cup Because("safety_halt", t.safety.halt)
    \cup Because("audit_coverage_unhealthy", ~t.audited /\ Staged(t))
    \cup Because("negative_ev", x.ev <= 0)
    \cup Because("strategy_version_missing", ~x.version)
    \cup Because("orderbook_missing", ~x.book)
    \cup Because("orderbook_stale", ~Fresh(x))
    \cup Because("market_snapshot_missing", x.marketAge = None)
    \cup Because("market_snapshot_stale", x.marketAge # None /\ x.marketAge > x.maxMarketAge)
    \cup Because("expiry_unknown", x.expiry = None)
    \cup Because("no_trade_near_expiry", x.expiry <= x.window)
    \cup Because("rollout_blocked", x.rollout = 0)
    \cup (IF Entry(x) THEN EntryReasons(x, t) ELSE {})

(***************************************************************************)
(* A first size, and the reasons it gives.                                 *)
(***************************************************************************)
Kelly(x, t) == CappedKelly(Clamp(x.probability, 10, 990), Clamp(x.price, 10, 990), t.maxKelly)

Contracted(x, t) ==
    BankrollContraction(t.start, t.bankroll,
                        BetSizing(t, Scale(t.bankroll, Kelly(x, t)), <<>>))

ProvisionalSize(x, t) ==
    Scale(Contracted(x, t),
          IF Entry(x) THEN Product(<<t.safety.size, Shrinkage(x).size, x.allocation, x.rollout,
                                     Mode(t).size, t.risk, Max({0, t.ramp})>>)
          ELSE 1000)

EstimatedUnits(x, t) == IF x.reference > 0 THEN ProvisionalSize(x, t) \div x.reference ELSE None

SizeReasons(x, t) ==
    LET units == EstimatedUnits(x, t)
        placeable == x.known /\ x.intent # "ambiguous" /\ x.book
        candidate == [x.exposure EXCEPT !.notional = ProvisionalSize(x, t)]
    IN  Because("kelly_size_zero", Kelly(x, t) <= 0)
        \cup Because("risk_budget_exhausted", RiskBudget(t) <= 0)
        \cup Because("position_size_zero", ProvisionalSize(x, t) <= 0)
        \cup Because("top_level_liquidity_missing", placeable /\ x.depth <= 0)
        \cup Because("reference_price_missing", placeable /\ x.reference <= 0)
        \cup Because("insufficient_top_level_liquidity",
                     placeable /\ x.reference > 0 /\ x.depth > 0 /\ 10 * units > 8 * x.depth)
        \cup Because("position_limit",
                     /\ placeable /\ x.reference > 0 /\ Entry(x) /\ x.expiry # None
                     /\ ~WithinLimits(t.exposures, candidate, t.bankroll))
        \cup Because("market_not_eligible", ~Eligible(x))

EarlyReasons(x, t) == SignalReasons(x, t) \cup SizeReasons(x, t)

RiskReasons == {"safety_halt", "strategy_version_missing", "kelly_size_zero",
                "risk_budget_exhausted", "position_size_zero", "no_trade_near_expiry",
                "deployment_tier_blocks_entries", "capital_ramp_frozen",
                "research_governance_blocked", "robustness_evidence_missing",
                "audit_coverage_unhealthy"}
StaleReasons == {"signal_stale", "orderbook_stale", "market_snapshot_stale"}

BookHealthy(x) == x.book /\ x.spread <= 6000 /\ x.depth > 0

(***************************************************************************)
(* The context of the estimate: the microstructure and the toxicity of the *)
(* flow come from the book and three flat candles, the signal's regime is  *)
(* the one it was built with.                                              *)
(***************************************************************************)
Context(x, t, early) ==
    LET flat == [x EXCEPT !.lastReturn = 0, !.rollingReturn = 0, !.volatility = 0]
        score == ToxicityScore(flat, x.label, 0)
    IN  [flat EXCEPT !.pressure = DecayPressure(flat), !.convexity = Convexity(flat),
                     !.toxicityScore = score,
                     !.toxicity = ToxicityTreatment(score).state,
                     !.passive = ToxicityTreatment(score).passive,
                     !.venue = t.venue, !.mode = Mode(t).mode,
                     !.units = EstimatedUnits(x, t),
                     !.bookFresh = Fresh(x), !.evidence = EvidenceFactor(Trust(x.resolved)),
                     !.contextHealthy = /\ BookHealthy(x)
                                        /\ early \cap (StaleReasons \cup RiskReasons) = {}
                                        /\ t.venueHealthy /\ t.reconciled
                                        /\ Mode(t).submit]

Feedback(c) ==
    LiveSizingFeedback([retention |-> c.retention, realized |-> c.realized, drift |-> c.drift,
                        calibration |-> c.calibration, regime |-> c.regimeHealth,
                        toxicity |-> c.toxicity, venue |-> c.venue], c.evidence)

\* The edge an entry must clear: raised by toxicity and by the feedback.
SizingThreshold(c) ==
    Scale(Threshold(c), ToxicityTreatment(c.toxicityScore).threshold) + Feedback(c).threshold

SizingConfidence(c) ==
    Min({Clamp(2 * Size(c.probability - 500), 10, 990), NetEdgeConfidence(c)})

\* The regime's record with what this signal adds to it.
Ranked(c, edge) ==
    [c EXCEPT !.samples = Or(c.samples, 0), !.drawdown = Or(c.drawdown, 0),
              !.class = OpportunityClass(edge, SizingThreshold(c)), !.margin = Margin(c) \div 10]

RegimeLocal(c) ==
    RegimeLocalSizing([health |-> c.regimeHealth, realized |-> c.realized, samples |-> c.samples],
                      c.byRegime, c.byArchetype, c.evidence)

(***************************************************************************)
(* The size: Kelly's, contracted, times the factors of every reviewer, and *)
(* no more than the book absorbs or one opportunity may lose.              *)
(***************************************************************************)
\* The benchmark's gate holds the regime's capital to its plain size, which it never exceeds.
RegimeFactor(c, t, ranked) ==
    Product(<<RegimeCapital(ranked, c.evidence).multiplier, RegimeDisable(ranked).multiplier,
              TradeFrequency([ranked EXCEPT !.drawdown = Or(c.drawdown, t.dailyLoss)]).multiplier,
              MarginalCooldown(ranked).multiplier, Saturation(ranked).multiplier,
              RegimeLocal(c)>>)

Factors(c, t, edge) ==
    <<RegimeFactor(c, t, Ranked(c, edge)),
      Product(<<BenchmarkSizing(c.benchmark).size, ToxicityTreatment(c.toxicityScore).size,
                Feedback(c).size>>),
      Product(<<Shrinkage(c).size, c.allocation, c.rollout, t.risk, Max({0, t.ramp})>>),
      Scale(t.safety.size, Mode(t).size)>>

EdgeFactor(c, t, edge) ==
    LET u == [margin |-> edge - SizingThreshold(c), calibration |-> c.calibration,
              execution |-> c.execution, regime |-> c.regimeHealth, venue |-> c.venue,
              drawdown |-> Or(c.drawdown, t.dailyLoss),
              samples |-> IF c.executed # None THEN c.executed ELSE Or(c.samples, 0)]
    IN  Product(<<UncertaintyMultiplier(u), SizePenalty(u, c.concentration, c.correlation),
                  EntryTiming(c)>>)

PreLiquiditySize(c, t, edge) ==
    BetSizing(t, Contracted(c, t),
              <<EdgeFactor(c, t, edge)>> \o (IF Entry(c) THEN Factors(c, t, edge) ELSE <<>>))

LiquidSize(c, wanted) ==
    SizeVsLiquidity(wanted, c.reference, c.depth, c.spread,
                    Max({SlippageCost(c), CostCalibration(c).slippage}),
                    IF Entry(c) /\ c.passive THEN "maker"
                    ELSE IF c.route = "none" THEN "taker" ELSE c.route)

OpportunityCap(c, t, edge) ==
    MaxLossPerOpportunity(t, OpportunityClass(edge, SizingThreshold(c)),
                          SizingConfidence(c))

(***************************************************************************)
(* The last reasons, the gate and the verdict.  Each step of the verdict   *)
(* hands what it found to the next one.                                    *)
(***************************************************************************)
Retained(c, edge) == c.upstream = None \/ c.upstream = 0 \/ 100 * edge >= 35 * c.upstream

ReviewReasons(c, t, edge, size) ==
    LET ranked == Ranked(c, edge)
        feedback == Feedback(c)
        treatment == ToxicityTreatment(c.toxicityScore)
        benchmark == BenchmarkSizing(c.benchmark)
    IN  Because("regime_capital_policy", RegimeCapital(ranked, c.evidence).block)
        \cup Because("toxicity_temporarily_blocks_regime", treatment.block)
        \cup Because("toxicity_aggression_lock", treatment.passive)
        \cup Because("live_sizing_feedback_permission", feedback.permitted > 0)
        \cup Because("evidence_quality_band", c.evidence < 1000)
        \cup Because("threshold_not_met",
                     /\ feedback.threshold > 0 \/ treatment.state = "elevated"
                     /\ edge < SizingThreshold(c))
        \cup Because("recovery_probation", feedback.probation # "none" \/ ~feedback.upshift)
        \cup Because("retained_edge_below_build_expectation", ~Retained(c, edge))
        \cup Because("regime_disable_policy", RegimeDisable(ranked).block)
        \cup Because("trade_frequency_governor_blocked",
                     TradeFrequency([ranked EXCEPT !.drawdown = Or(c.drawdown, t.dailyLoss)]).block)
        \cup Because("marginal_edge_cooldown_active", MarginalCooldown(ranked).block)
        \cup Because("opportunity_saturation_detected", Saturation(ranked).block)
        \cup Because("regime_local_sizing_reduced", RegimeLocal(c) < 1000)
        \cup Because("benchmark_relative_sizing", benchmark.size < 1000)
        \cup Because("regime_benchmark_gate", PromotionBlockedByBenchmark(c.benchmark))
        \cup Because("wave4_position_size_zero", size <= 0)

BlockReasons(c, t, edge, wanted, size) ==
    Because("entry_timing_blocks_opportunity", EntryTiming(c) = 0)
    \cup Because("execution_cost_adjusted_edge_non_positive", edge <= 0)
    \cup Because("liquidity_policy_blocks_size", LiquidSize(c, wanted) <= 0)
    \cup Because("max_loss_per_opportunity_blocked", OpportunityCap(c, t, edge) <= 0)
    \cup (IF Entry(c) THEN ReviewReasons(c, t, edge, size) ELSE {})

Gate(c, t, early, edge, wanted) ==
    LET ranked == Ranked(c, edge)
        threshold == SizingThreshold(c)
    IN  AdmissionReason(
          [present |-> c.known, zone |-> NoTradeZone(c),
           reasons |-> NoTradeReasons(
             [spread |-> c.spread, limit |-> 5000, bookFresh |-> c.bookFresh, depth |-> c.depth,
              toxicityScore |-> c.toxicityScore, toxicity |-> c.toxicity, venue |-> c.venue,
              regimeConfidence |-> c.regimeConfidence, transition |-> c.transition,
              edge |-> edge, threshold |-> threshold, expiry |-> c.expiry,
              window |-> c.window, history |-> c.history]),
           expired |-> HalfLifeExpired(c),
           regimeAllowed |-> /\ c.label \notin {Chaos, Illiquid}
                             /\ ~RegimeDisable(ranked).block
                             /\ ~RegimeCapital(ranked, c.evidence).block
                             /\ ~ToxicityTreatment(c.toxicityScore).block
                             /\ Feedback(c).permitted = 0,
           regimeConfidence |-> c.regimeConfidence,
           regimeSamples |-> IF c.samples # None THEN c.samples ELSE c.history.samples,
           missing |-> ~c.book \/ c.spread = None,
           liquid |-> BookHealthy(c) /\ LiquidSize(c, wanted) > 0,
           fresh |-> early \cap StaleReasons = {} /\ ~StaleInputs(c),
           venueHealthy |-> t.venueHealthy /\ Eligible(c), reconciled |-> t.reconciled,
           riskHealthy |-> early \cap RiskReasons = {},
           gross |-> c.gross, paper |-> PaperEdge(c), edge |-> edge, threshold |-> threshold,
           confidence |-> Min({SizingConfidence(c),
                               IF c.ev > 0 /\ c.gross > 0
                               THEN Clamp((1000 * c.ev) \div c.gross, 10, 990) ELSE 0})])

Ruling(reasons, gate, wanted, size) ==
    [reasons |-> reasons, gate |-> gate, approved |-> reasons = {} /\ gate = "trade_permitted",
     wanted |-> wanted, size |-> size]

Reviewed(c, t, early, edge, wanted, size) ==
    Ruling(early \cup BlockReasons(c, t, edge, wanted, size), Gate(c, t, early, edge, wanted),
           wanted, size)

Capped(c, t, early, edge, wanted) ==
    Reviewed(c, t, early, edge, wanted,
             Max({0, Min({LiquidSize(c, wanted), OpportunityCap(c, t, edge)})}))

Sized(c, t, early, edge) == Capped(c, t, early, edge, PreLiquiditySize(c, t, edge))

Estimated(c, t, early) == Sized(c, t, early, ExecutableEdge(c))

Examined(x, t, early) == Estimated(Context(x, t, early), t, early)

Verdict(x, t) == Examined(x, t, EarlyReasons(x, t))
=============================================================================
