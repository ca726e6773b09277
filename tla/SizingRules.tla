----------------------------- MODULE SizingRules -----------------------------
(***************************************************************************)
(* From the Kelly fraction of a forecast to the money an order may spend:  *)
(* the risk budget, the factors that scale it, what the book can absorb,   *)
(* the cap on the loss of one opportunity and the position limits.         *)
(*                                                                         *)
(* Money is in thousandths, fractions, probabilities, prices and           *)
(* multipliers per mille, edges and spreads tenths of a basis point, depth *)
(* and size in shares.  An account is a record of its bankroll, the capital*)
(* left to deploy and the share of the bankroll one trade may risk.        *)
(***************************************************************************)
EXTENDS EvidenceRules

CappedKelly(probability, price, cap) ==
    IF price <= 0 \/ price >= 1000 THEN 0
    ELSE Min({cap, Max({0, (1000 * (probability - price)) \div (1000 - price)})})

RiskBudget(account) ==
    Max({0, Min({account.capital, Scale(account.bankroll, account.maxRisk)})})

\* The base risk, within the budget, times factors of at most 1.5 each.
BetSizing(account, base, factors) ==
    LET risk == Max({0, Min({RiskBudget(account), base})})
    IN  Min({RiskBudget(account),
             Scale(risk, Product([i \in DOMAIN factors |-> Clamp(factors[i], 0, 1500)]))})

\* A mutant: the two losses' multipliers changed places.
BankrollContractionSwapped(start, bankroll, size) ==
    IF start <= 0 THEN 0
    ELSE Scale(size, Steps(<< <<10 * (start - bankroll) >= start, 750>>,
                              <<20 * (start - bankroll) >= start, 500>> >>, 1000))

BankrollContraction(start, bankroll, size) ==
    IF start <= 0 THEN 0
    ELSE Scale(size, Steps(<< <<10 * (start - bankroll) >= start, 500>>,
                              <<20 * (start - bankroll) >= start, 750>> >>, 1000))

UncertaintyMultiplier(u) ==
    Min({1200,
         Product(<<Steps(<< <<u.margin <= 0, 0>>, <<u.margin < 150, 750>>,
                            <<u.margin < 400, 900>> >>, 1000),
                   HealthStep(u.calibration, 950, 850, 450),
                   HealthStep(u.execution, 950, 850, 450),
                   HealthStep(u.regime, 950, 850, 450),
                   CASE u.venue = "degraded" -> 900 [] u.venue = "unsafe" -> 400 [] OTHER -> 1000,
                   Steps(<< <<u.drawdown >= 80, 550>>, <<u.drawdown >= 40, 850>> >>, 1000),
                   Steps(<< <<u.samples < 5, 900>>, <<u.samples < 10, 950>> >>, 1000)>>)})

SizePenalty(u, concentration, correlation) ==
    Product(<<HealthStep(u.calibration, 950, 850, 650), HealthStep(u.execution, 950, 850, 650),
              HealthStep(u.regime, 950, 850, 650),
              CASE u.venue = "degraded" -> 900 [] u.venue = "unsafe" -> 650 [] OTHER -> 1000,
              Clamp(Min({Or(concentration, 1000), Or(correlation, 1000)}), 0, 1000)>>)

\* What the top of the book absorbs of a wanted size.
SizeVsLiquidity(wanted, price, depth, spread, slippage, route) ==
    IF price <= 0 \/ depth <= 0 THEN 0
    ELSE LET units == (1000 * wanted) \div price     \* thousandths of a share
             capPerMille == IF route = "maker" THEN 350
                            ELSE IF slippage >= 1000 \/ spread >= 4000 THEN 400 ELSE 600
             room == IF units <= 0 THEN 1000
                     ELSE Clamp((1000 * depth * capPerMille) \div units, 0, 1000)
             Above(share) == units > depth * share
             limit == Steps(<< <<slippage >= 2000 \/ spread >= 6000, 0>>,
                               <<slippage >= 1000 \/ Above(600), 350>>,
                               <<slippage >= 600 \/ Above(400), 600>>,
                               <<slippage >= 300 \/ Above(250), 800>> >>, 1000)
         IN  Scale(Max({0, wanted}), Min({room, limit}))

MaxLossPerOpportunity(account, class, confidence) ==
    LET quality == CASE class = "strong_edge" -> 1000 [] class = "tradable_edge" -> 800
                     [] class = "marginal_edge" -> 450 [] OTHER -> 150
    IN  Scale(RiskBudget(account), Scale(quality, Clamp(confidence, 200, 1000)))

(***************************************************************************)
(* Position limits: exposures are records of market, outcome, expiry       *)
(* bucket, thesis and notional; a limit is a share of the bankroll.        *)
(***************************************************************************)
Together(exposures, candidate, same(_, _)) ==
    candidate.notional
    + Total([i \in DOMAIN exposures |->
               IF same(exposures[i], candidate) THEN exposures[i].notional ELSE 0])

WithinLimits(exposures, c, bankroll) ==
    /\ Together(exposures, c, LAMBDA a, b : a.market = b.market) <= Scale(bankroll, 200)
    /\ Together(exposures, c, LAMBDA a, b : a.outcome = b.outcome) <= Scale(bankroll, 250)
    /\ Together(exposures, c, LAMBDA a, b : a.bucket = b.bucket) <= Scale(bankroll, 350)
    /\ Together(exposures, c, LAMBDA a, b : TRUE) <= Scale(bankroll, 750)
    /\ Together(exposures, c, LAMBDA a, b : a.thesis = b.thesis) <= Scale(bankroll, 250)

SlotFree(used, maxOpen) == Max({0, used}) < maxOpen
=============================================================================
