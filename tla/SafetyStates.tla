---------------------------- MODULE SafetyStates ----------------------------
(***************************************************************************)
(* The risk engine's safety ladder: the kill switches that turn evidence   *)
(* into triggers, the loss attribution, the execution-state anomalies and  *)
(* the state machine that holds a state for its cooldown.                  *)
(*                                                                         *)
(* Ratios are per cent of the configured limit, confidences are per cent,  *)
(* and one unit of the clock is the five minutes of the shortest cooldown. *)
(***************************************************************************)
EXTENDS Integers, FiniteSets, FiniteSetsExt

\* config.maxConsecutiveLosses
MaxLosses == 2

States == {"normal", "reduced_size", "reduced_frequency", "passive_only",
           "no_new_entries", "halt"}

Rank == [normal |-> 0, reduced_size |-> 1, reduced_frequency |-> 2,
         passive_only |-> 3, no_new_entries |-> 4, halt |-> 5]

\* The most severe state of a set: maxSafetyState folded over it.
Severest(S) == CHOOSE s \in S \cup {"normal"} :
                  \A t \in S : Rank[s] >= Rank[t]

\* What a state allows: the size multiplier in per mille, aggressive and new
\* entries, whether a halt is asked for, and the entries of one tick.
Control(size, aggressive, entries, halt, budget) ==
    [size |-> size, aggressive |-> aggressive, entries |-> entries,
     halt |-> halt, budget |-> budget]

Controls == [normal            |-> Control(1000, TRUE, TRUE, FALSE, 4),
             reduced_size      |-> Control(650, TRUE, TRUE, FALSE, 2),
             reduced_frequency |-> Control(800, TRUE, TRUE, FALSE, 1),
             passive_only      |-> Control(550, FALSE, TRUE, FALSE, 1),
             no_new_entries    |-> Control(0, FALSE, FALSE, FALSE, 0),
             halt              |-> Control(0, FALSE, FALSE, TRUE, 0)]

Cooldown == [normal |-> 0, reduced_size |-> 1, reduced_frequency |-> 2,
             passive_only |-> 2, no_new_entries |-> 3, halt |-> 6]

RuntimeRank == [running |-> 0, degraded |-> 1, reconciliation_only |-> 2,
                cancel_only |-> 3, halted_hard |-> 4]
StrictestRuntime(S) == CHOOSE s \in S \cup {"running"} :
                          \A t \in S : RuntimeRank[s] >= RuntimeRank[t]

(***************************************************************************)
(* Kill switches.  A trigger carries a severity, the safety state it asks  *)
(* for and whether it blocks entries or forces a reduction.                *)
(***************************************************************************)
Trigger(severity, state, block, reduce) ==
    [severity |-> severity, state |-> state, block |-> block, reduce |-> reduce]

When(condition, trigger) == IF condition THEN {trigger} ELSE {}

\* One operator per trigger: of the account, ...
DrawdownTriggers(e) ==
    When(e.drawdown >= 100,
         IF e.drawdown >= 150 THEN Trigger(5, "halt", TRUE, TRUE)
                              ELSE Trigger(4, "no_new_entries", TRUE, FALSE))
HourlyTriggers(e) ==
    When(e.hourly >= 100,
         IF e.hourly >= 150 THEN Trigger(4, "no_new_entries", TRUE, FALSE)
                            ELSE Trigger(3, "passive_only", TRUE, FALSE))
LossTriggers(e) ==
    When(e.losses >= MaxLosses,
         IF e.losses > MaxLosses THEN Trigger(5, "halt", TRUE, TRUE)
                                 ELSE Trigger(4, "no_new_entries", TRUE, FALSE))
ConcentrationTriggers(e) ==
    When(e.concentration >= 100,
         IF e.concentration >= 125 THEN Trigger(4, "no_new_entries", TRUE, TRUE)
                                   ELSE Trigger(3, "no_new_entries", TRUE, FALSE))
FreshnessTriggers(e) ==
    When(e.freshness # "fresh",
         IF e.freshness = "stale" THEN Trigger(5, "halt", TRUE, TRUE)
                                  ELSE Trigger(3, "no_new_entries", TRUE, FALSE))

\* ... of the fills and their cost, ...
SlippageTriggers(e) ==
    When(e.slippageDrifts >= 3,
         IF e.slippageDrifts >= 5 THEN Trigger(5, "halt", TRUE, TRUE)
                                  ELSE Trigger(3, "passive_only", TRUE, FALSE))
PartialTriggers(e) ==
    When(e.toxicPartials >= 2,
         IF e.toxicPartials >= 4 THEN Trigger(5, "halt", TRUE, TRUE)
                                 ELSE Trigger(3, "no_new_entries", TRUE, FALSE))
QualityTriggers(e) ==
    When(e.qualityDrifts >= 2,
         IF e.qualityDrifts >= 4 THEN Trigger(4, "no_new_entries", TRUE, FALSE)
                                 ELSE Trigger(3, "passive_only", FALSE, FALSE))
CostTriggers(e) ==
    When(e.costBlowouts >= 2,
         IF e.costBlowouts >= 4 THEN Trigger(5, "halt", TRUE, TRUE)
                                ELSE Trigger(4, "no_new_entries", TRUE, TRUE))

\* ... and of the venue.
PostTriggers(e) ==
    When(e.postFailures >= 2,
         IF e.postFailures >= 6 THEN Trigger(5, "halt", TRUE, FALSE)
         ELSE IF e.postFailures >= 4 THEN Trigger(4, "no_new_entries", TRUE, FALSE)
         ELSE Trigger(2, "reduced_frequency", FALSE, FALSE))
CancelTriggers(e) ==
    When(e.cancelFailures >= 1,
         IF e.cancelsWorking >= 3 THEN Trigger(5, "halt", TRUE, TRUE)
         ELSE IF e.cancelsWorking >= 1 \/ e.cancelFailures >= 3
         THEN Trigger(4, "no_new_entries", TRUE, FALSE)
         ELSE Trigger(3, "passive_only", TRUE, FALSE))
LatencyTriggers(e) ==
    When(e.slowCancels >= 1,
         IF e.slowCancels >= 3 THEN Trigger(4, "no_new_entries", TRUE, FALSE)
                               ELSE Trigger(3, "passive_only", FALSE, FALSE))
HeartbeatTriggers(e) ==
    When(e.heartbeats >= 1,
         IF e.heartbeats >= 2 THEN Trigger(5, "halt", TRUE, TRUE)
                              ELSE Trigger(4, "no_new_entries", TRUE, FALSE))
DivergenceTriggers(e) ==
    When(e.divergence # "none",
         IF e.divergence = "critical" THEN Trigger(5, "halt", TRUE, TRUE)
                                      ELSE Trigger(3, "no_new_entries", TRUE, FALSE))
StaleTriggers(e) ==
    When(e.staleRejects >= 3 /\ e.staleRejects * 10 >= 4 * e.decisions,
         IF e.staleRejects * 10 >= 7 * e.decisions
         THEN Trigger(4, "no_new_entries", TRUE, FALSE)
         ELSE Trigger(2, "reduced_frequency", FALSE, FALSE))

Triggers(e) ==
    UNION {DrawdownTriggers(e), HourlyTriggers(e), LossTriggers(e), ConcentrationTriggers(e),
           FreshnessTriggers(e), SlippageTriggers(e), PartialTriggers(e), QualityTriggers(e),
           CostTriggers(e), PostTriggers(e), CancelTriggers(e), LatencyTriggers(e),
           HeartbeatTriggers(e), DivergenceTriggers(e), StaleTriggers(e)}

(***************************************************************************)
(* Execution-state anomalies: each is critical or not and asks for a       *)
(* runtime state.                                                          *)
(***************************************************************************)
Anomaly(critical, runtime) == [critical |-> critical, runtime |-> runtime]

Graded(severe) == Anomaly(FALSE, IF severe THEN "cancel_only" ELSE "reconciliation_only")

Anomalies(x) ==
    When(x.staleWithOrders,
         LET critical == ~x.connected \/ x.reconnects >= 2
         IN  Anomaly(critical, IF critical THEN "cancel_only" ELSE "reconciliation_only"))
    \cup When(x.disagreements > 0 \/ x.diverged,
         Graded(x.disagreements >= 3 \/ x.ghostMismatch))
    \cup When(x.retries >= 3, Graded(x.retries >= 6))
    \cup When(x.slowCancels > 0, Graded(x.slowCancels >= 2))
    \cup When(x.ghost \/ x.unresolved > 0,
         Anomaly(x.unresolved > 0, IF x.unresolved > 0 THEN "halted_hard" ELSE "cancel_only"))
    \cup When(x.absentFills > 0 /\ x.absentLong,
         Anomaly(x.absentFills >= 2,
                 IF x.absentFills >= 2 THEN "halted_hard" ELSE "reconciliation_only"))

\* The detector's own summary: two critical anomalies halt.  (An anomaly is
\* one element here, so two equal critical ones count once; the detector's
\* critical anomalies that do not halt on their own are all of one kind.)
AnomalyRuntime(A) ==
    IF Cardinality({a \in A : a.critical}) >= 2 THEN "halted_hard"
    ELSE StrictestRuntime({a.runtime : a \in A})

\* Mutants: the mildest trigger decides; severity 5 asks only for cancels.
RuntimeOfLowest(T) ==
    LET lowest == IF T = {} THEN 0 ELSE Min({t.severity : t \in T})
    IN  IF lowest = 0 THEN "running" ELSE IF lowest <= 2 THEN "degraded"
        ELSE IF lowest = 3 THEN "reconciliation_only"
        ELSE IF lowest = 4 THEN "cancel_only" ELSE "halted_hard"

RuntimeOfSeverityCapped(T) ==
    IF T = {} THEN "running"
    ELSE IF \E t \in T : t.severity >= 4 THEN "cancel_only"
    ELSE IF \E t \in T : t.severity = 3 THEN "reconciliation_only" ELSE "degraded"

RuntimeOfSeverity(T) ==
    LET highest == IF T = {} THEN 0 ELSE Max({t.severity : t \in T})
    IN  CASE highest >= 5 -> "halted_hard"
          [] highest = 4  -> "cancel_only"
          [] highest = 3  -> "reconciliation_only"
          [] highest \in 1..2 -> "degraded"
          [] highest = 0  -> "running"

\* The portfolio kill switch: triggers and anomalies joined.
KillSwitch(e, A) ==
    LET T == Triggers(e)
        runtime == StrictestRuntime({RuntimeOfSeverity(T)} \cup {a.runtime : a \in A})
    IN  [triggers |-> T,
         state    |-> Severest({t.state : t \in T}),
         runtime  |-> runtime,
         block    |-> (\E t \in T : t.block) \/ runtime # "running",
         reduce   |-> (\E t \in T : t.reduce) \/ runtime \in {"cancel_only", "halted_hard"}]

(***************************************************************************)
(* Loss attribution of one losing episode, as confidences by cause, and    *)
(* the dominant cause over episodes.                                       *)
(***************************************************************************)
Causes == {"model_error", "execution_error", "stale_data", "venue_rejection",
           "liquidity_decay", "regime_mismatch"}

Attribute(p) ==
    LET found == [c \in Causes |->
            CASE c = "stale_data"      -> IF p.stale THEN 88 ELSE 0
              [] c = "venue_rejection" -> IF p.venue THEN 80 ELSE 0
              [] c = "execution_error" -> IF p.execution THEN 76 ELSE 0
              [] c = "liquidity_decay" -> IF p.liquidity THEN 70 ELSE 0
              [] c = "regime_mismatch" -> IF p.regimeMoved THEN 72 ELSE 0
              [] c = "model_error"     -> 0]
    IN  IF \E c \in Causes : found[c] > 0 THEN found
        ELSE [found EXCEPT !["model_error"] = IF p.expectedGain THEN 68 ELSE 50]

\* Several losing episodes of two kinds: n of one and m of the other.
Dominant(p, n, q, m) ==
    LET weight == [c \in Causes |-> n * Attribute(p)[c] + m * Attribute(q)[c]]
        top == CHOOSE c \in Causes : \A d \in Causes : weight[c] >= weight[d]
    IN  IF n + m = 0 THEN [cause |-> "none", confidence |-> 0]
        ELSE [cause |-> top, confidence |-> weight[top] \div (n + m)]

CauseStates(cause, confidence) ==
    IF confidence < 55 THEN {}
    ELSE CASE cause = "execution_error" -> {"passive_only"}
           [] cause \in {"stale_data", "venue_rejection"} -> {"no_new_entries"}
           [] cause = "liquidity_decay" -> {"reduced_frequency"}
           [] cause \in {"regime_mismatch", "model_error"} -> {"reduced_size"}
           [] OTHER -> {}

(***************************************************************************)
(* The state machine.                                                      *)
(***************************************************************************)
DailyLossStates(ratio) ==
    CASE ratio >= 125 -> {"halt"}
      [] ratio \in 100..124 -> {"no_new_entries"}
      [] ratio \in 75..99 -> {"passive_only"}
      [] ratio \in 50..74 -> {"reduced_size"}
      [] ratio < 50 -> {}

LossStreakStates(losses) ==
    CASE losses > MaxLosses -> {"halt"}
      [] losses = MaxLosses -> {"no_new_entries"}
      [] losses < MaxLosses /\ losses >= Max({1, MaxLosses - 1}) -> {"reduced_frequency"}
      [] OTHER -> {}

Recommended(e) ==
    Severest(DailyLossStates(e.dailyLoss) \cup LossStreakStates(e.losses)
             \cup {t.state : t \in Triggers(e)}
             \cup CauseStates(e.cause, e.confidence))

CooldownElapsed(s, now) == now - s.entered >= Cooldown[s.state]

\* Mutant: waits for the cooldown of the state that is entered.
EvaluateByTarget(s, e, now) ==
    LET recommended == Recommended(e)
        held == Rank[recommended] < Rank[s.state] /\ now - s.entered < Cooldown[recommended]
        next == IF held THEN s.state ELSE recommended
    IN  [state |-> next, entered |-> IF next = s.state THEN s.entered ELSE now]

\* One evaluation: a milder state waits for the cooldown of the state it
\* leaves; the entry time moves only when the state does.
Evaluate(s, e, now) ==
    LET recommended == Recommended(e)
        held == Rank[recommended] < Rank[s.state] /\ ~CooldownElapsed(s, now)
        next == IF held THEN s.state ELSE recommended
    IN  [state |-> next, entered |-> IF next = s.state THEN s.entered ELSE now]

Clean == [dailyLoss |-> 0, losses |-> 0, drawdown |-> 0, hourly |-> 0,
          concentration |-> 0, freshness |-> "fresh", slippageDrifts |-> 0,
          toxicPartials |-> 0, qualityDrifts |-> 0, costBlowouts |-> 0,
          postFailures |-> 0, cancelFailures |-> 0, cancelsWorking |-> 0,
          slowCancels |-> 0, heartbeats |-> 0, divergence |-> "none",
          staleRejects |-> 0, decisions |-> 10, cause |-> "none", confidence |-> 0]

\* The levels at which a field of the evidence changes what it triggers.
Levels == [dailyLoss |-> <<0, 50, 75, 100, 125>>, losses |-> <<0, 1, 2, 3>>,
           drawdown |-> <<0, 100, 150>>, hourly |-> <<0, 100, 150>>,
           concentration |-> <<0, 100, 125>>,
           freshness |-> <<"fresh", "degraded", "stale">>,
           slippageDrifts |-> <<0, 3, 5>>, toxicPartials |-> <<0, 2, 4>>,
           qualityDrifts |-> <<0, 2, 4>>, costBlowouts |-> <<0, 2, 4>>,
           postFailures |-> <<0, 2, 4, 6>>, cancelFailures |-> <<0, 1, 3>>,
           cancelsWorking |-> <<0, 1, 3>>, slowCancels |-> <<0, 1, 3>>,
           heartbeats |-> <<0, 1, 2>>, divergence |-> <<"none", "warning", "critical">>,
           staleRejects |-> <<0, 4, 7>>]

\* Losing episodes of two kinds, as the evaluation job reads them.
Episodes == [stale : BOOLEAN, venue : BOOLEAN, execution : BOOLEAN, liquidity : BOOLEAN,
             regimeMoved : {FALSE}, expectedGain : BOOLEAN]

Blames == {Dominant(p, n, q, m) : p \in Episodes, q \in Episodes, n \in 0..1, m \in 0..1}
=============================================================================
