---------------------------- MODULE RolloutRules ----------------------------
(***************************************************************************)
(* The strategy deployment registry as a value, and the functions that     *)
(* change it: ChampionChallengerManager.sync, the mutations of             *)
(* StrategyRolloutController and of RollbackController, and the two        *)
(* questions the trading jobs ask it (which variant a signal is built for, *)
(* how large its orders may be).  Stages are numbered by their place in    *)
(* the ladder; allocations are in percent.                                 *)
(***************************************************************************)
EXTENDS Integers, FiniteSets

CONSTANT Variants  \* strategy variants, one per strategy version; numbered

NoVariant == 0
NoRollout == [challenger |-> NoVariant]

RolloutAssumption == Variants \subseteq Nat \ {0} /\ IsFiniteSet(Variants)

ShadowOnly == 0
Paper == 1
Canary == 2
CautiousLive == 3
ScaledLive == 4
Stages == ShadowOnly .. ScaledLive

Unregistered == [status |-> "none", stage |-> ShadowOnly, alloc |-> 0]
Blocking == {"quarantined", "retired"}

(* stageAllocationPct *)
Allocation(stage) ==
  CASE stage = ScaledLive -> 100 [] stage = CautiousLive -> 25
    [] stage = Canary -> 5 [] OTHER -> 0

(* Mutant: the requested stage is taken as it is. *)
NextAllowedStageUnclamped(current, requested) == requested

(* nextAllowedStage: one rung up at most, any number of rungs down. *)
NextAllowedStage(current, requested) ==
  IF requested <= current + 1 THEN requested ELSE current + 1

PreviousAllowedStage(current) == IF current = ShadowOnly THEN ShadowOnly ELSE current - 1

(* clampProbationStage *)
ProbationStage(current) == IF current \in {CautiousLive, ScaledLive} THEN current - 1 ELSE current

Rollout(incumbent, challenger, stage) ==
  [incumbent |-> incumbent, challenger |-> challenger, stage |-> stage]

(* A variant moved to a stage, with the stage's allocation. *)
Placed(r, v, status, stage) ==
  [r EXCEPT !.variants[v] = [status |-> status, stage |-> stage, alloc |-> Allocation(stage)]]

IsChallenger(r, v) == r.active.challenger = v

Registered(r) == {v \in Variants : r.variants[v].status # "none"}

EmptyRegistry ==
  [incumbent |-> NoVariant, active |-> NoRollout, high |-> {}, retired |-> {},
   variants |-> [v \in Variants |-> Unregistered]]

(* sync: the active version becomes the first incumbent, new versions become   *)
(* challengers, and a variant whose version is gone is retired, once.          *)
Sync(r, versions, activeVersion) ==
  LET first == r.incumbent = NoVariant /\ activeVersion # NoVariant
      gone  == (Registered(r) \ versions) \ r.retired
      placed == [v \in Variants |->
        IF first /\ v = activeVersion
        THEN [status |-> "incumbent", stage |-> ScaledLive, alloc |-> 100]
        ELSE IF v \in versions /\ r.variants[v].status = "none"
        THEN [status |-> "shadow", stage |-> ShadowOnly, alloc |-> 0]
        ELSE IF v \in gone
        THEN [status |-> "retired", stage |-> ShadowOnly, alloc |-> 0]
        ELSE r.variants[v]]
  IN  [r EXCEPT !.incumbent = IF first THEN activeVersion ELSE @,
                !.retired = @ \cup gone, !.variants = placed]

(* The variants a cycle evaluates, whatever it does to the registry meanwhile. *)
Challengers(r) ==
  {v \in Registered(r) : v # r.incumbent /\ r.variants[v].status # "retired"}

-----------------------------------------------------------------------------
(* applyLiveDemotionDecision *)
ApplyLiveDemotion(r, v, action) ==
  LET variant == r.variants[v]
      stage == IF action = "demote" THEN PreviousAllowedStage(variant.stage)
               ELSE ProbationStage(variant.stage)
  IN  CASE action = "none" -> r
        [] action = "quarantine" ->
             [Placed(r, v, "quarantined", ShadowOnly) EXCEPT
                !.active = IF IsChallenger(r, v) THEN NoRollout ELSE @]
        [] OTHER ->
             [Placed(r, v, "probation", stage) EXCEPT
                !.active = IF IsChallenger(r, v) THEN Rollout(@.incumbent, v, stage) ELSE @]

(* reject and shadow_only *)
BackToShadow(r, v) ==
  [Placed(r, v, IF r.variants[v].status = "retired" THEN "retired" ELSE "shadow", ShadowOnly)
     EXCEPT !.active = IF IsChallenger(r, v) THEN NoRollout ELSE @]

(* canary: the candidate's rollout replaces whichever rollout was active. *)
EnterCanary(r, v, target) ==
  LET stage == NextAllowedStage(r.variants[v].stage, target)
  IN  [Placed(r, v, "canary", stage) EXCEPT !.active = Rollout(r.incumbent, v, stage)]

(* Mutant: the previous incumbent keeps its stage. *)
PromoteBeside(r, v, target) ==
  LET stage == NextAllowedStage(r.variants[v].stage, target)
  IN  [Placed(r, v, "incumbent", stage) EXCEPT
         !.incumbent = v, !.active = Rollout(r.incumbent, v, stage)]

(* promote: the previous incumbent goes to shadow. *)
Promote(r, v, target) ==
  LET stage == NextAllowedStage(r.variants[v].stage, target)
      before == IF r.incumbent = NoVariant THEN r
                ELSE Placed(r, r.incumbent, "shadow", ShadowOnly)
  IN  [Placed(before, v, "incumbent", stage) EXCEPT
         !.incumbent = v, !.active = Rollout(r.incumbent, v, stage)]

(* applyPromotionDecision *)
ApplyPromotion(r, v, verdict, target) ==
  CASE verdict \in {"reject", "shadow_only"} -> BackToShadow(r, v)
    [] verdict = "canary" -> EnterCanary(r, v, target)
    [] verdict = "promote" -> Promote(r, v, target)
    [] verdict = "rollback" -> ApplyLiveDemotion(r, v, "demote")

(* runWaveTwoGovernance on a quarantine assessment: the rollout is left alone. *)
Quarantine(r, v) == Placed(r, v, "quarantined", ShadowOnly)

(* RollbackController: any high record of the active challenger, however old,   *)
(* or its evidence of this cycle.                                              *)
RollbackDue(r, collapsed) ==
  /\ r.active # NoRollout
  /\ r.active.challenger \in r.high \/ r.active.challenger \in collapsed

(* applyRollback: the incumbent of the rollout's start takes everything back,   *)
(* whatever became of it since.                                                *)
ApplyRollback(r) ==
  LET failed == r.active.challenger
      target == r.active.incumbent
      shadowed == Placed(r, failed, IF r.variants[failed].status = "quarantined"
                                    THEN "quarantined" ELSE "shadow", ShadowOnly)
      restored == IF target = NoVariant THEN shadowed
                  ELSE [Placed(shadowed, target, "incumbent", ScaledLive) EXCEPT
                          !.incumbent = target]
  IN  [restored EXCEPT !.active = NoRollout]

-----------------------------------------------------------------------------
Blocked(r, v) == r.variants[v].status \in Blocking

(* resolveSignalAssignment: the percent of the signals built for each variant. *)
ChallengerShare(r) ==
  IF \/ r.active = NoRollout \/ Blocked(r, r.active.challenger)
     \/ Allocation(r.active.stage) = 0
  THEN 0 ELSE Allocation(r.active.stage)

SignalShare(r, v) ==
  IF r.incumbent = NoVariant \/ Blocked(r, r.incumbent) THEN 0
  ELSE (IF r.active # NoRollout /\ v = r.active.challenger THEN ChallengerShare(r) ELSE 0)
       + (IF v = r.incumbent THEN 100 - ChallengerShare(r) ELSE 0)

(* getExecutionControls: sizeMultiplier in percent, 0 when blocked. *)
SizeMultiplier(r, v) ==
  IF r.variants[v].status = "none" THEN 100
  ELSE IF Blocked(r, v) THEN 0
  ELSE IF r.active # NoRollout /\ IsChallenger(r, v)
  THEN Allocation(r.active.stage)
  ELSE IF r.variants[v].stage \in {ShadowOnly, Paper} THEN 0
  ELSE r.variants[v].alloc
=============================================================================
