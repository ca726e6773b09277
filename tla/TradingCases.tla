---------------------------- MODULE TradingCases ----------------------------
(***************************************************************************)
(* The circumstances of the signals the ladders follow: the best ones for  *)
(* an admission and what each may become, the usual ones for an execution  *)
(* and what each may also be.                                              *)
(***************************************************************************)
EXTENDS ExecutionRules

Safety == INSTANCE SafetyStates

Benchmark(context, realized, retention) ==
    [context |-> context, samples |-> 9, trades |-> 5, overall |-> 0, losing |-> realized < 0,
     gaps |-> << [realized |-> realized, expected |-> 2, retention |-> retention],
                 [realized |-> realized + 5, expected |-> 1, retention |-> retention] >>]

LocalRecord(samples, retention, gap, rank) ==
    [samples |-> samples, retention |-> retention, gap |-> gap, rank |-> rank]

\* Trades resolved in the signal's regime, all with the same edge.
Traded(n, realized) ==
    [i \in 1..n |-> [realized |-> realized, expected |-> 130, lifecycle |-> "portfolio_truth",
                     priced |-> TRUE, timed |-> TRUE, venueId |-> TRUE, attributed |-> TRUE,
                     benchmark |-> "outperforming"]]

Calm == [samples |-> 8, rate |-> 100, dominant |-> {}]

Best == [known |-> TRUE, intent |-> "increase", version |-> TRUE, book |-> TRUE,
         rollout |-> 1000, probability |-> 900, price |-> 500, reference |-> 500,
         allocation |-> 1000, label |-> "momentum_continuation", evidence |-> 1000, resolved |-> Traded(20, 150),
         retention |-> 98, realized |-> 102, drift |-> 0, upstream |-> None,
         byRegime |-> LocalRecord(12, 98, 0, 0), byArchetype |-> LocalRecord(12, 98, 0, 0),
         benchmark |-> Benchmark(TRUE, 20, 2), concentration |-> 1000, correlation |-> 1000,
         executed |-> 14, exposure |-> [market |-> "m1", outcome |-> "YES", bucket |-> 1,
                                        thesis |-> "YES", notional |-> 0],
         expiry |-> 280, age |-> 2, noise |-> 100, spread |-> 300, depth |-> 400,
         bidDepth |-> 400, askDepth |-> 400, imbalance |-> 100, intensity |-> 200,
         microprice |-> 0, transmission |-> 0, decay |-> 60, stress |-> 60, shift |-> "none",
         shiftStrength |-> 0, archetype |-> "balanced_rotation", archetypeConfidence |-> 600,
         lastReturn |-> 0, rollingReturn |-> 0, volatility |-> 0, volatile |-> TRUE,
         mispricing |-> 0, clustering |-> 0, toxicHistory |-> <<>>, history |-> Calm,
         active |-> TRUE, closed |-> FALSE, tradable |-> TRUE, btc |-> TRUE, mixed |-> FALSE,
         duration |-> 300, says |-> TRUE, tokens |-> TRUE, window |-> 30,
         negativeRisk |-> FALSE, key |-> "m1", bookAge |-> 1, marketAge |-> 1,
         maxBookAge |-> 10, maxMarketAge |-> 10, trades |-> 5, tick |-> 100,
         bookEnabled |-> TRUE,
         pressure |-> 0, convexity |-> 0, gross |-> 6000, passive |-> FALSE, route |-> "taker",
         makerFill |-> None, takerFill |-> 950, partials |-> 50, cancels |-> 950,
         venue |-> "healthy", mode |-> "normal", delay |-> 10, units |-> 0,
         calibration |-> "none", shrinkage |-> 1000, regimeHealth |-> "healthy", fee |-> 20,
         ev |-> 5000, observedFill |-> 950, observedFee |-> 10, policySlippage |-> 20,
         observedSlippage |-> 20, observedAdverse |-> 10, adverseScore |-> 50,
         cancelFailures |-> 0, bookFresh |-> TRUE, governed |-> TRUE, transition |-> 200,
         contextHealthy |-> TRUE, regimeConfidence |-> 760, toxicityScore |-> 0,
         toxicity |-> "normal",
         netEv |-> 260, retained |-> 102, drawdown |-> 0, execution |-> "healthy",
         quality |-> 88, slippage |-> 20, fillRate |-> 95, samples |-> 14, leak |-> 5,
         destructive |-> 0, class |-> "strong_edge", recentTrades |-> 0, margin |-> 0,
         marginals |-> 0, weakRejects |-> 0, lowQuality |-> 0, strongs |-> 4,
         averageMargin |-> 60]

Opened == [tier |-> "canary", newEntries |-> TRUE, risk |-> 1000, ramp |-> 1000, robust |-> TRUE,
           chaos |-> TRUE, audited |-> TRUE, approved |-> 0, slots |-> 2, maxOpen |-> 2,
           safety |-> Safety!Controls["normal"], venue |-> "healthy", lagging |-> FALSE,
           venueHealthy |-> TRUE, reconciled |-> TRUE, dailyLoss |-> 0, start |-> 100000,
           maxKelly |-> 100, maxAge |-> 60, exposures |-> <<>>,
           bankroll |-> 100000, capital |-> 80000, maxRisk |-> 20]

\* What each circumstance may become, each step worse than the one before.
Levels == [age |-> <<2, 12, 35>>, expiry |-> <<280, 140, 30>>,
           noise |-> <<100, 900>>, spread |-> <<300, 2600, 5500>>,
           imbalance |-> <<100, 1000>>, stress |-> <<60, 900>>,
           toxicHistory |-> << <<>>, << [score |-> 400, state |-> "elevated"] >>,
                               << [score |-> 700, state |-> "high"] >> >>,
           history |-> <<Calm, [samples |-> 8, rate |-> 500, dominant |-> {}],
                         [samples |-> 8, rate |-> 700, dominant |-> {"low_depth", "regime_unstable"}]>>,
           probability |-> <<900, 680, 480>>, ev |-> <<5000, 1500, 0>>,
           transition |-> <<200, 700>>, regimeConfidence |-> <<760, 500>>,
           label |-> <<"momentum_continuation", Illiquid, Chaos>>,
           regimeHealth |-> Health, execution |-> Health,
           resolved |-> <<Traded(20, 150), Traded(5, 150), Traded(4, -60)>>,
           retention |-> <<98, 70, 30>>, realized |-> <<102, 90, 60>>,
           drift |-> <<0, -120, -300>>, upstream |-> <<None, 9000>>,
           byRegime |-> <<LocalRecord(12, 98, 0, 0), LocalRecord(5, 80, -200, 0)>>,
           byArchetype |-> <<LocalRecord(12, 98, 0, 0), LocalRecord(2, 50, 0, -400)>>,
           benchmark |-> <<Benchmark(TRUE, 20, 2), Benchmark(TRUE, 0, 0), Benchmark(TRUE, -20, -9)>>,
           concentration |-> <<1000, 800>>, correlation |-> <<1000, 600>>,
           allocation |-> <<1000, 650, 0>>, rollout |-> <<1000, 200, 0>>,
           netEv |-> <<260, -150>>, retained |-> <<102, 60>>,
           drawdown |-> <<0, 50, 110>>, quality |-> <<88, 30>>, leak |-> <<5, 50>>,
           destructive |-> <<0, 60>>, samples |-> <<14, 0>>, recentTrades |-> <<0, 4>>,
           marginals |-> <<0, 6>>, weakRejects |-> <<0, 3>>, lowQuality |-> <<0, 40>>,
           adverseScore |-> <<50, 600>>, observedSlippage |-> <<20, 500>>,
           cancelFailures |-> <<0, 600>>,
           bookAge |-> <<1, 11>>, marketAge |-> <<1, 11, None>>, governed |-> <<TRUE, FALSE>>,
           version |-> <<TRUE, FALSE>>, known |-> <<TRUE, FALSE>>, trades |-> <<5, 0>>]

TickLevels == [ramp |-> <<1000, 250, 0>>, risk |-> <<1000, 200>>,
               newEntries |-> <<TRUE, FALSE>>, robust |-> <<TRUE, FALSE>>,
               audited |-> <<TRUE, FALSE>>, approved |-> <<0, 4>>, slots |-> <<2, 0>>,
               safety |-> [i \in 1..5 |-> Safety!Controls[<<"normal", "reduced_size",
                             "passive_only", "no_new_entries", "halt">>[i]]],
               venue |-> <<"healthy", "degraded", "unsafe">>, venueHealthy |-> <<TRUE, FALSE>>,
               reconciled |-> <<TRUE, FALSE>>, dailyLoss |-> <<0, 50, 90>>,
               capital |-> <<80000, 1500, 0>>, bankroll |-> <<100000, 94000, 89000>>,
               exposures |-> <<  <<>>, << [Best.exposure EXCEPT !.notional = 19500] >> >>]

\* Circumstances for which the code makes no promise of this kind: a slower
\* fill makes an aged signal less late, a deeper book is also a fuller one, of
\* a smaller forecast edge the same expected value is a larger share.
Neutral == [gross |-> <<6000, 1200, 200>>, delay |-> <<10, 25>>, depth |-> <<400, 30, 12>>, route |-> <<"taker", "maker", "none">>,
            executed |-> <<14, None>>, reference |-> <<500, 700>>, intent |-> <<"increase", "decrease">>]

Policy(mode, delay) ==
    [mode |-> mode, delay |-> delay, adverse |-> 100, slippage |-> 20, cancels |-> 950]

Usual == [working |-> FALSE, decision |-> 2000, version |-> TRUE, known |-> TRUE,
          intent |-> "increase", action |-> "ENTER", age |-> 4, expiry |-> 280, window |-> 30,
          book |-> TRUE, bookAge |-> 1, maxBookAge |-> 10, marketAge |-> 1, maxMarketAge |-> 10,
          tick |-> 100, minSize |-> 1000, negRisk |-> "no", running |-> TRUE, signer |-> TRUE,
          bid |-> 490, ask |-> 500, spread |-> 1000, depth |-> 400, bidDepth |-> 400,
          askDepth |-> 400, trades |-> 5, bookEnabled |-> TRUE, active |-> TRUE, closed |-> FALSE,
          tradable |-> TRUE, btc |-> TRUE, mixed |-> FALSE, duration |-> 300, says |-> TRUE,
          tokens |-> TRUE, negativeRisk |-> FALSE, key |-> "m1",
          label |-> "momentum_continuation", toxicHistory |-> <<>>,
          policy |-> Policy("none", 15), retention |-> 98, realized |-> 102, drift |-> 0,
          calibration |-> "none", regimeHealth |-> "healthy", upstream |-> None,
          ev |-> 5000, probability |-> 900, feeBps |-> 20, delay |-> 15, venue |-> "healthy",
          observedFill |-> 950, observedFee |-> 10, policySlippage |-> 20,
          observedSlippage |-> 20, observedAdverse |-> 10, adverseScore |-> 50,
          cancelFailures |-> 0, cancels |-> 950, makerFill |-> None, takerFill |-> 950]

Running == [safety |-> Safety!Controls["normal"], venue |-> "healthy", lagging |-> FALSE,
            maxAge |-> 60, maxRisk |-> 20]

\* What each circumstance may also be.
Others == [working |-> {TRUE}, decision |-> {0, 150, 40000}, version |-> {FALSE},
           age |-> {25, 45, 61}, expiry |-> {25, 45, 85, 110, None}, bookAge |-> {11},
           marketAge |-> {11, None}, tick |-> {0, 10, 500}, minSize |-> {0, 5000},
           negRisk |-> {"yes", Missing}, running |-> {FALSE}, signer |-> {FALSE},
           ask |-> {495, 999}, bid |-> {1, 300}, spread |-> {3500, 4500, 5500},
           depth |-> {0, 4, 12}, bidDepth |-> {20},
           toxicHistory |-> {<< [score |-> 700, state |-> "high"] >>},
           label |-> {Chaos, Illiquid},
           policy |-> {Policy("maker_preferred", 15), Policy("taker_preferred", 15),
                       Policy("balanced", 40)},
           retention |-> {70, 50, 30}, regimeHealth |-> {"degraded", Worst},
           upstream |-> {9000}, ev |-> {1800, 400, 0}, probability |-> {560},
           feeBps |-> {300}, observedSlippage |-> {700, 1500}]

OtherRuns == [safety |-> {Safety!Controls[s] : s \in DOMAIN Safety!Controls \ {"normal"}},
              venue |-> {"degraded", "unsafe"}]

\* What a signal's row may say of its intent; no job passes its inventory.
Asks == [token : {Missing, "t1", "t9"}, outcome : {Missing, "YES", "NO"},
         action : {Missing, "ENTER", "REDUCE", "FLIP"}, side : {Missing, "BUY", "SELL"},
         held : {None}]

Intended(s) ==
    LET r == ResolveIntent([yes |-> "t1", no |-> "t2"], s)
    IN  IF r.ok THEN [Usual EXCEPT !.intent = r.effect, !.action = r.action]
        ELSE [Usual EXCEPT !.intent = "ambiguous"]

Requests == {Intended(s) : s \in Asks}
=============================================================================
