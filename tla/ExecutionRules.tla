---------------------------- MODULE ExecutionRules ----------------------------
(***************************************************************************)
(* What the execution job makes of an approved signal: the intent it       *)
(* resolves, the style, the limit price and the size of the order, the     *)
(* venue's rules it must satisfy, and the reason it is refused if it is.   *)
(*                                                                         *)
(* x is the signal with its latest approved decision, market, snapshot and *)
(* book, and the learned execution policy; t the safety state and the      *)
(* venue's mode of this run.  Prices are per mille, sizes thousandths of a *)
(* share, depths shares, money thousandths, edges and spreads tenths of a  *)
(* basis point, times seconds.                                             *)
(***************************************************************************)
EXTENDS AdmissionRules

(***************************************************************************)
(* The intent: from an explicit token or outcome, an explicit action or    *)
(* the side; what contradicts another field is refused.                    *)
(***************************************************************************)
Missing == "missing"

Inventory(action) == CASE action = "ENTER" -> "increase"
                       [] action \in {"REDUCE", "EXIT"} -> "decrease"
VenueSide(action) == IF action = "ENTER" THEN "BUY" ELSE "SELL"

ResolveIntent(market, s) ==
    LET named == IF s.token = Missing THEN Missing
                 ELSE IF s.token = market.yes THEN "YES"
                 ELSE IF s.token = market.no THEN "NO" ELSE "unknown"
        outcome == IF s.outcome # Missing THEN s.outcome ELSE named
        action == CASE s.action # Missing -> s.action
                    [] s.action = Missing /\ s.side = "BUY" -> "ENTER"
                    [] s.action = Missing /\ s.side = "SELL" -> "EXIT"
                    [] OTHER -> Missing
        token == CASE outcome = "YES" -> market.yes [] outcome = "NO" -> market.no
                   [] OTHER -> Missing
        failure ==
            Steps(<< <<{market.yes, market.no} = {Missing}, "market_token_missing">>,
                     <<named = "unknown", "signal_token_unknown">>,
                     <<s.outcome # Missing /\ token = Missing, "signal_outcome_unknown">>,
                     <<named # Missing /\ outcome # named, "signal_token_outcome_conflict">>,
                     <<outcome = Missing, "ambiguous_trade_intent">>,
                     <<action = Missing, "intent_missing">>,
                     <<action = "FLIP", "unsupported_flip_direct">>,
                     <<s.side # Missing /\ s.side # VenueSide(action), "intent_side_conflict">>,
                     <<action \in {"REDUCE", "EXIT"} /\ s.held <= 0, "intent_requires_inventory">> >>,
                  "resolved")
    IN  IF failure # "resolved" THEN [ok |-> FALSE, reason |-> failure]
        ELSE [ok |-> TRUE, token |-> token, outcome |-> outcome, action |-> action,
              side |-> VenueSide(action), effect |-> Inventory(action)]

(***************************************************************************)
(* Urgency, and the limit price: through the far side of the book by a few *)
(* basis points, rounded to the venue's tick (in hundredths of a cent).    *)
(***************************************************************************)
ExecutionUrgency(x) == Steps(<< <<x.expiry <= x.window + 20, "high">>,
                                <<x.expiry <= x.window + 90, "medium">> >>, "low")

Aggression(urgency) == CASE urgency = "high" -> 15 [] urgency = "medium" -> 8 [] OTHER -> 3

MarketablePrice(x) ==      \* ten-millionths
    LET buying == Entry(x)
        near == IF buying THEN x.bid ELSE x.ask
        far == IF buying THEN x.ask ELSE x.bid
        step == Aggression(ExecutionUrgency(x))
    IN  (IF far > 0 THEN far ELSE near) * (IF buying THEN 10000 + step ELSE 10000 - step)

QuantizeToTick(raw, tick) ==
    LET unit == 1000 * tick
    IN  (((2 * raw + unit) \div (2 * unit)) * tick) \div 10

LimitPrice(x) == QuantizeToTick(Clamp(MarketablePrice(x), 10000, 9990000), x.tick)

(***************************************************************************)
(* Maker or taker: what the learned policy, the urgency and the book ask   *)
(* for, and what toxicity and the live feedback make passive.              *)
(***************************************************************************)
LearnedStyle(x) ==
    LET p == x.policy
        urgent == ExecutionUrgency(x) = "high"
    IN  Steps(<< <<p.mode = "none", IF urgent THEN "cross" ELSE "rest">>,
                 <<\/ p.mode = "taker_preferred" \/ p.adverse >= 450
                   \/ (p.delay >= 20 /\ Entry(x)) \/ p.cancels < 650, "cross">>,
                 <<urgent \/ x.depth < 10 \/ x.spread > 4000 \/ p.slippage >= 1000, "cross">>,
                 <<p.mode = "maker_preferred", "rest">> >>,
              IF Entry(x) THEN "rest" ELSE "cross")

\* The features of the executor's own toxicity estimate, all from the book.
BookFeatures(x, t) ==
    LET total == x.bidDepth + x.askDepth
        imbalance == IF total > 0 THEN (1000 * (x.bidDepth - x.askDepth)) \div total ELSE 0
    IN  [lastReturn |-> (2 * imbalance) \div 1000, rollingReturn |-> imbalance \div 1000,
         microprice |-> Scale(imbalance, Unit(x.spread \div 2)), imbalance |-> imbalance,
         intensity |-> Unit(x.spread \div 4 + Size(imbalance) \div 2), transmission |-> 0,
         decay |-> Unit((1000 * x.age) \div t.maxAge), stress |-> Unit(x.spread \div 5),
         noise |-> Unit(x.spread \div 6), spread |-> x.spread,
         depth |-> Max({x.bidDepth, x.askDepth}), bidDepth |-> x.bidDepth,
         askDepth |-> x.askDepth, expiry |-> x.expiry, age |-> x.age,
         shift |-> IF x.spread >= 3000 THEN "stress_transition" ELSE "range_balance",
         toxicHistory |-> x.toxicHistory]

ExecutionToxicity(x, t) == ToxicityTreatment(ToxicityScore(BookFeatures(x, t), x.label, 0))

ExecutionFeedback(x, t) ==
    LiveSizingFeedback([retention |-> x.retention, realized |-> x.realized, drift |-> x.drift,
                        calibration |-> x.calibration, regime |-> x.regimeHealth,
                        toxicity |-> ExecutionToxicity(x, t).state, venue |-> t.venue], 1000)

ExecutionStyle(x, t) ==
    IF Entry(x) /\ (ExecutionToxicity(x, t).passive \/ ExecutionFeedback(x, t).passive)
    THEN "rest" ELSE LearnedStyle(x)

\* The reviewers that forbid an entry to take liquidity, and its refusal.
PassiveOnly(x, t) == Entry(x) /\ (ExecutionToxicity(x, t).passive \/ ~t.safety.aggressive)

\* A mutant: the safety state's lock was forgotten.
CrossesPassiveToxic(x, t, style) ==
    Entry(x) /\ ExecutionToxicity(x, t).passive /\ style = "cross"

CrossesPassive(x, t, style) == PassiveOnly(x, t) /\ style = "cross"

(***************************************************************************)
(* The size: the decision's money times the factors of the moment, bounded *)
(* by the book and by the loss of one opportunity, times the entry timing. *)
(***************************************************************************)
ExecutionCosts(x, t) ==
    CostsAt([x EXCEPT !.cancelFailures = 0, !.venue = t.venue, !.delay = x.policy.delay],
            1000, FALSE)

CapitalAware(x, t) ==
    Scale(x.decision, IF Entry(x)
                      THEN Product(<<t.safety.size, Mode(t).size, ExecutionToxicity(x, t).size,
                                     ExecutionFeedback(x, t).size>>)
                      ELSE 1000)

ExpectedSlippage(x, size) ==
    x.spread \div 2 + (IF x.depth > 0 THEN size \div x.depth ELSE 100000)

Units(money, price) == IF price <= 0 THEN 0 ELSE (1000 * money) \div price

EvClass(ev) == Steps(<< <<ev >= 3000, "strong_edge">>, <<ev >= 1500, "tradable_edge">>,
                        <<ev > 0, "marginal_edge">> >>, "weak_edge")

Absorbed(x, t, price) ==
    LET money == CapitalAware(x, t)
    IN  SizeVsLiquidity(money, price, x.depth, x.spread,
                        Max({ExecutionCosts(x, t).slippage,
                             ExpectedSlippage(x, Units(money, price))}),
                        IF ExecutionStyle(x, t) = "rest" THEN "maker" ELSE "taker")

LossCap(x, t) ==
    LET money == CapitalAware(x, t)
    IN  MaxLossPerOpportunity([bankroll |-> 100 * Max({x.decision, money, 1000}),
                               capital |-> 100 * money, maxRisk |-> t.maxRisk],
                              EvClass(x.ev), Size(2 * (x.probability - 500)))

\* How early or late the order is, with a half-life of the signal's maximum age.
ExecutionTiming(x, t) ==
    Timing(x.age, x.expiry, Max({10, ExecutionCosts(x, t).delay}),
           Max({100, 1000 - (1000 * x.age) \div t.maxAge}), x.age >= t.maxAge,
           Unit(x.spread \div 5))

\* A mutant: shares counted at the bid, paid at the limit price.
OrderSizeAtBid(x, t, price) ==
    Scale(Max({0, Min({Units(Absorbed(x, t, price), x.bid), Units(LossCap(x, t), x.bid)})}),
          ExecutionTiming(x, t))

OrderSize(x, t, price) ==
    Scale(Max({0, Min({Units(Absorbed(x, t, price), price), Units(LossCap(x, t), price)})}),
          ExecutionTiming(x, t))

(***************************************************************************)
(* The plan: a resting order without a deadline when nothing is urgent, a  *)
(* time-boxed one when a minute is left before the no-trade window, else   *)
(* an immediate one, all or nothing when the book can fill it.             *)
(***************************************************************************)
Lifetime(x) == Min({90, x.expiry - x.window})

OrderType(x, style, size) ==
    LET urgency == ExecutionUrgency(x)
        whole == x.action = "ENTER" /\ urgency = "high"
    IN  Steps(<< <<style = "rest" /\ urgency = "low", "GTC">>,
                 <<style = "rest" /\ Lifetime(x) >= 60, "GTD">>,
                 <<whole /\ x.depth > 0 /\ 1000 * x.depth >= size, "FOK">> >>, "FAK")

Resting == {"GTC", "GTD"}

PlanOf(x, price, size, type) ==
    [price |-> price, size |-> size, type |-> type,
     style |-> IF type \in Resting THEN "rest" ELSE "cross",
     expiration |-> IF type = "GTD" THEN Lifetime(x) ELSE None]

PlanAt(x, t, price, size) ==
    PlanOf(x, price, size, OrderType(x, ExecutionStyle(x, t), size))

Plan(x, t) == PlanAt(x, t, LimitPrice(x), OrderSize(x, t, LimitPrice(x)))

\* The venue's own rules, as the adapter checks them before sending.
OrderValidity(plan, x) ==
    Steps(<< <<plan.price <= 0, "invalid_price">>, <<plan.size <= 0, "invalid_size">>,
             <<x.tick <= 0, "tick_size_missing">>, <<x.minSize <= 0, "min_order_size_missing">>,
             <<x.negRisk = Missing, "neg_risk_missing">>,
             <<(10 * plan.price) % x.tick # 0, "price_not_on_tick">>,
             <<plan.size < x.minSize, "size_below_min_order_size">>,
             <<plan.type \notin Resting /\ plan.style = "rest",
               "market_order_type_requires_immediate_execution">>,
             <<plan.type \in Resting /\ plan.style = "cross",
               "resting_order_type_requires_resting_execution">>,
             <<plan.type = "GTD" /\ plan.expiration = None, "invalid_gtd_expiration">>,
             <<plan.type = "GTD" /\ plan.expiration < 60, "gtd_expiration_below_security_threshold">>,
             <<plan.type \notin Resting /\ plan.expiration # None,
               "unexpected_expiration_for_immediate_order">> >>, "valid")

(***************************************************************************)
(* The edge left after the costs of this order.                            *)
(***************************************************************************)
ExecutionEdge(x, t, plan) ==
    LET cost == ExecutionCosts(x, t)
        delayed == DelayCosts(x.ev, x.age, cost.delay)
    IN  x.ev - Max({0, Total(<<Max({ExpectedSlippage(x, plan.size), cost.slippage}), cost.adverse,
                               delayed.decay, delayed.queue, cost.overhead, cost.missed>>)})

FeePerUnit(plan, feeBps) == (plan.price * Max({0, feeBps})) \div 100

(***************************************************************************)
(* The reasons, in the order of the job: the first one that holds.         *)
(***************************************************************************)
InputReason(x, t) ==
    Steps(<< <<x.working, "order_working">>,
             <<x.decision <= 0, "position_size_missing">>,
             <<~x.version, "strategy_version_missing">>, <<~x.known, "market_missing">>,
             <<x.intent = "ambiguous", "ambiguous_execution_intent">>,
             <<~Mode(t).submit, "venue_mode">>,
             <<Entry(x) /\ ~t.safety.entries, "safety_state_no_new_entries">>,
             <<x.age > t.maxAge, "signal_stale">>,
             <<x.marketAge = None, "market_snapshot_missing">>,
             <<x.marketAge > x.maxMarketAge, "market_snapshot_stale">>,
             <<x.expiry = None, "expiry_unknown">>,
             <<x.expiry <= x.window, "no_trade_near_expiry">>,
             <<~x.book, "orderbook_missing">>, <<~Fresh(x), "orderbook_stale">>,
             <<x.tick <= 0, "orderbook_tick_size_missing">>,
             <<x.minSize <= 0, "orderbook_min_order_size_missing">>,
             <<x.negRisk = Missing, "orderbook_neg_risk_missing">>,
             <<x.negRisk = "yes", "negative_risk_market_excluded">>,
             <<~Eligible(x), "market_not_eligible">>,
             <<~x.running, "bot_not_running">>, <<~x.signer, "credentials_unhealthy">> >>, "clear")

\* What is left of the edge.
EdgeReason(x, t, plan) ==
    LET feedback == ExecutionFeedback(x, t)
        edge == ExecutionEdge(x, t, plan)
    IN  Steps(<< <<feedback.threshold > 0 /\ edge <= feedback.threshold,
                   "live_sizing_feedback_threshold_not_met">>,
                 <<~Retained(x, edge), "retained_edge_expectation_not_met">>,
                 <<edge <= 0, "execution_cost_adjusted_edge_non_positive">>,
                 <<x.ev <= ExpectedSlippage(x, plan.size) + FeePerUnit(plan, x.feeBps),
                   "fee_adjusted_edge_non_positive">> >>,
              "submitted")

\* The order and what the venue would make of it, then its edge.
PlanReason(x, t, plan) ==
    LET slippage == ExpectedSlippage(x, plan.size)
    IN  Steps(<< <<plan.price <= 0, "invalid_price">>, <<plan.size <= 0, "invalid_size">>,
                 <<plan.size < x.minSize, "size_below_min_order_size">>,
                 <<ExecutionTiming(x, t) = 0, "entry_timing_blocks_opportunity">>,
                 <<Absorbed(x, t, plan.price) <= 0, "liquidity_policy_blocks_size">>,
                 <<LossCap(x, t) <= 0, "max_loss_per_opportunity_blocked">>,
                 <<slippage >= 5000 /\ x.ev <= slippage, "expected_slippage_exceeds_edge">>,
                 <<CrossesPassive(x, t, plan.style), "passive_only">>,
                 <<OrderValidity(plan, x) # "valid", "venue_order_validation_failed">>,
                 <<plan.style = "cross" /\ x.depth <= 0, "immediate_execution_liquidity_missing">> >>,
              EdgeReason(x, t, plan))

\* The permission of the reviewers, then the order.
OrderReason(x, t, plan) ==
    LET feedback == ExecutionFeedback(x, t)
    IN  Steps(<< <<Entry(x) /\ ExecutionToxicity(x, t).block, "toxicity_temporarily_blocks_regime">>,
                 <<Entry(x) /\ feedback.permitted = 2, "live_sizing_feedback_blocks_new_entries">>,
                 <<Entry(x) /\ feedback.permitted = 1, "live_sizing_feedback_reduce_only">>,
                 <<CrossesPassive(x, t, ExecutionStyle(x, t)), "passive_only">> >>,
              PlanReason(x, t, plan))

Ordered(x, t, plan) == [reason |-> OrderReason(x, t, plan), plan |-> plan]

Execution(x, t) ==
    IF t.safety.halt THEN [reason |-> "safety_halt"]
    ELSE IF InputReason(x, t) # "clear" THEN [reason |-> InputReason(x, t)]
    ELSE Ordered(x, t, Plan(x, t))
=============================================================================
