---------------------------- MODULE CapitalRules ----------------------------
(***************************************************************************)
(* How live evidence becomes multipliers of an order's size: the live      *)
(* sizing feedback with its recovery caps, the regime-local and the        *)
(* benchmark-relative sizing, the portfolio's allocation to a variant, the *)
(* deployment tier and the capital ramp.                                   *)
(*                                                                         *)
(* Multipliers are per mille, ratios per cent, drifts and edges basis      *)
(* points; an absent number is None, larger than every threshold.          *)
(***************************************************************************)
EXTENDS EvidenceRules

(***************************************************************************)
(* Live sizing feedback: rows of <<condition, size, threshold in tenths of *)
(* a basis point, passive only, entries still permitted>>.                 *)
(***************************************************************************)
FeedbackRows(f) ==
    << <<f.retention < 75, 900, 40, FALSE, "unchanged">>,
       <<f.retention < 55, 750, 100, TRUE, "unchanged">>,
       <<f.retention < 35, 550, 180, FALSE, "reduce_only">>,
       <<f.realized < 95, 900, 50, FALSE, "unchanged">>,
       <<f.realized < 80, 720, 130, TRUE, "unchanged">>,
       <<f.realized < 65, 500, 220, FALSE, "block_new_entries">>,
       <<f.drift < 0, 920, 40, FALSE, "unchanged">>,
       <<f.drift < -100, 800, 120, TRUE, "unchanged">>,
       <<f.drift < -250, 550, 200, FALSE, "reduce_only">>,
       <<f.calibration = "watch", 950, 30, FALSE, "unchanged">>,
       <<f.calibration = "degraded", 820, 100, FALSE, "unchanged">>,
       <<f.calibration = Worst, 550, 180, FALSE, "reduce_only">>,
       <<f.regime = "watch", 960, 20, FALSE, "unchanged">>,
       <<f.regime = "degraded", 800, 110, FALSE, "unchanged">>,
       <<f.regime = Worst, 450, 220, FALSE, "block_new_entries">>,
       <<f.toxicity = "elevated", 920, 60, FALSE, "unchanged">>,
       <<f.toxicity = "high", 700, 160, TRUE, "unchanged">>,
       <<f.toxicity = "blocked", 300, 280, TRUE, "block_new_entries">>,
       <<f.venue = "degraded", 900, 70, FALSE, "unchanged">>,
       <<f.venue = "unsafe", 550, 180, TRUE, "block_new_entries">> >>

PermissionRank == [unchanged |-> 0, reduce_only |-> 1, block_new_entries |-> 2]

\* What the evidence allows to be raised again: all of it at once, or under
\* a cap; with nothing lowered the cap is the only limit.
FullyRecovered(f) ==
    /\ f.retention >= 95 /\ f.realized >= 98 /\ f.drift >= -25
    /\ {f.calibration, f.regime} \subseteq {"none", "healthy"}
    /\ f.toxicity = "normal" /\ f.venue = "healthy"

SoftlyRecovered(f) ==
    /\ f.retention >= 85 /\ f.realized >= 92 /\ f.drift >= -80
    /\ {f.calibration, f.regime} \subseteq {"none", "healthy", "watch"}
    /\ f.toxicity \in {"normal", "elevated"} /\ f.venue # "unsafe"

LiveSizingFeedback(f, evidenceFactor) ==
    LET fired == {r \in ToSet(FeedbackRows(f)) : r[1]}
        downshift == Downshift(FeedbackRows(f))
        cap == IF downshift < 1000 \/ FullyRecovered(f) THEN 1000
               ELSE IF SoftlyRecovered(f) THEN 900 ELSE 800
        ranks == {PermissionRank[r[5]] : r \in fired}
    IN  [downshift |-> downshift,
         size      |-> Min({downshift, cap, Clamp(evidenceFactor, 0, 1000)}),
         threshold |-> IF fired = {} THEN 0 ELSE Max({r[3] : r \in fired}),
         passive   |-> \E r \in fired : r[4],
         permitted |-> IF fired = {} THEN 0 ELSE Max(ranks),
         probation |-> IF downshift < 1000
                       THEN IF downshift <= 550 THEN "extended" ELSE "active"
                       ELSE IF FullyRecovered(f) THEN "none"
                       ELSE IF SoftlyRecovered(f) THEN "active" ELSE "extended",
         upshift   |-> downshift = 1000 /\ (FullyRecovered(f) \/ SoftlyRecovered(f))]

(***************************************************************************)
(* Regime-local sizing: the regime's snapshot and the recent retention of  *)
(* the regime and of the market archetype.                                 *)
(***************************************************************************)
LocalEntry(entry, factors) ==
    IF entry.samples = None THEN 1000
    ELSE Downshift(<< <<entry.samples < 6, factors[1]>>, <<entry.samples < 3, factors[2]>>,
                      <<entry.retention < 90, factors[3]>>, <<entry.retention < 75, factors[4]>>,
                      <<entry.retention < 55, factors[5]>>, <<entry.gap < -100, factors[6]>>,
                      <<entry.gap < -300, factors[7]>>, <<entry.rank < 0, factors[8]>>,
                      <<entry.rank < -300, factors[9]>> >>)

RegimeFactors == <<970, 920, 900, 750, 580, 940, 800, 940, 860>>
ArchetypeFactors == <<980, 940, 930, 820, 680, 960, 840, 960, 900>>

RegimeLocalSizing(snapshot, regime, archetype, evidenceFactor) ==
    LET own == Product(<<HealthStep(snapshot.health, 960, 820, 600),
                         IF snapshot.realized < 85 THEN 920 ELSE 1000,
                         IF snapshot.realized < 70 THEN 780 ELSE 1000,
                         IF snapshot.samples \in 1..5 THEN 960 ELSE 1000,
                         LocalEntry(regime, RegimeFactors)>>)
    IN  Min({Clamp(Scale(Clamp(own, 350, 1000),
                         Clamp(LocalEntry(archetype, ArchetypeFactors), 400, 1000)), 200, 1000),
             Clamp(evidenceFactor, 0, 1000)})

(***************************************************************************)
(* Benchmark-relative sizing: how the strategy's regime compares with each *)
(* benchmark's, as gaps in tenths of a basis point and per cent.           *)
(***************************************************************************)
Underperforms(gap) == gap.realized < -15 \/ gap.expected < -5 \/ gap.retention < -5
Outperforms(gap) ==
    ~Underperforms(gap) /\ gap.realized > 15 /\ gap.expected >= 0 /\ gap.retention >= -2

BenchmarkSizing(b) ==
    LET n == Len(b.gaps)
        under == Len(SelectSeq(b.gaps, Underperforms))
        over == Len(SelectSeq(b.gaps, Outperforms))
        comparable == b.samples >= 8 /\ b.trades >= 4 /\ n >= 2
    IN  CASE ~b.context \/ n = 0 -> IF b.overall < 0 THEN [state |-> "underperforming", size |-> 920]
                                                  ELSE [state |-> "context_missing", size |-> 1000]
          [] b.context /\ n > 0 /\ ~comparable -> [state |-> "context_missing", size |-> 1000]
          [] b.context /\ comparable /\ under >= Max({2, n - 1}) ->
               [state |-> "underperforming", size |-> IF b.losing THEN 720 ELSE 820]
          [] b.context /\ comparable /\ under < Max({2, n - 1}) /\ under > over ->
               [state |-> "underperforming", size |-> 900]
          [] b.context /\ comparable /\ over = n -> [state |-> "outperforming", size |-> 1000]
          [] OTHER -> [state |-> "neutral", size |-> 1000]

PromotionBlockedByBenchmark(b) == BenchmarkSizing(b).state # "outperforming"

(***************************************************************************)
(* The portfolio's allocation to a variant (the daily review decides it).  *)
(***************************************************************************)
ScaleAllowed(a) ==
    /\ a.calibration = "healthy" /\ a.execution = "healthy" /\ a.samples >= 8
    /\ a.drawdown <= 300 /\ a.concentration >= 950 /\ a.correlation >= 950

AllocationTarget(a) ==
    IF a.status \in {"quarantined", "retired"} \/ a.stage = "shadow_only" THEN 0
    ELSE Clamp(Product(<<IF a.realizedVsExpected = None THEN 900
                         ELSE IF a.realizedVsExpected < 80 \/ a.realizedEv < -200 THEN 650
                         ELSE IF a.realizedVsExpected > 105 /\ a.realizedEv > 0 THEN 1150
                         ELSE 1000,
                         HealthStep(a.calibration, 900, 650, 250),
                         HealthStep(a.execution, 900, 650, 250),
                         Steps(<< <<a.samples >= 10, 1050>>, <<a.samples >= 5, 1000>> >>, 750),
                         Steps(<< <<a.maxDrawdown >= 800, 400>>,
                                  <<a.maxDrawdown >= 400, 750>> >>, 1000),
                         a.concentration, a.correlation>>), 0, 1500)

CapitalAllocation(a) ==
    LET target == AllocationTarget(a)
    IN  IF target <= 1000 \/ ScaleAllowed(a) THEN target ELSE Min({target, 1000})

(***************************************************************************)
(* The deployment tier and the capital ramp.                               *)
(***************************************************************************)
Tiers == <<"research", "paper", "canary", "cautious_live", "scaled_live">>
LiveTiers == {"canary", "cautious_live", "scaled_live"}

DeploymentTier(t) ==
    LET proven == t.tier \in {"cautious_live", "scaled_live"} => t.robust /\ t.audited
        blocked == /\ t.tier \in LiveTiers
                   /\ ~t.ready \/ ~proven \/ ~t.liveEnabled
        table == [research |-> <<0, 0>>, paper |-> <<250, 100>>, canary |-> <<350, 200>>,
                  cautious_live |-> <<650, 500>>, scaled_live |-> <<1000, 1000>>]
    IN  [live       |-> t.tier \in LiveTiers /\ ~blocked,
         newEntries |-> t.tier # "research" /\ ~blocked,
         positions  |-> IF blocked THEN 0 ELSE table[t.tier][1],
         risk       |-> IF blocked THEN 0 ELSE table[t.tier][2]]

\* Any missing threshold freezes the ramp; else the promotion score decides.
RampAllowed(r) ==
    /\ r.tierScales /\ r.robust /\ r.chaos /\ r.audited /\ r.exposureValidated
    /\ r.attribution >= 60 /\ r.trust.score >= 6500 /\ r.trust.samples >= 8
    /\ r.trust.benchmark >= 50 /\ r.trust.clean >= 70

CapitalRamp(r) ==
    IF ~RampAllowed(r) THEN 0
    ELSE Steps(<< <<r.promotion >= 80, 1000>>, <<r.promotion >= 68, 600>>,
                  <<r.promotion >= 55, 250>> >>, 0)
=============================================================================
