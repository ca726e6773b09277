------------------------- MODULE StrategyGovernance -------------------------
(***************************************************************************)
(* The daily learning cycle (DailyReviewJob) over the two documents it     *)
(* keeps: the learning state, with what it learned and when it completed,  *)
(* and the strategy deployment registry, which the trading jobs read.  A   *)
(* cycle loads both, judges every challenger and the incumbent by this     *)
(* cycle's evidence, and saves first one and then the other; it may fail   *)
(* or die between any two of these steps.  The bot's process runs it when  *)
(* it is due, and the command line may run it in a process of its own.     *)
(* The clock counts Day ticks to a day; trade t is finalized between t     *)
(* and t + 1.                                                              *)
(***************************************************************************)
EXTENDS RolloutRules, PromotionRules

CONSTANTS
  Processes,    \* the processes that run cycles
  Day,          \* ticks of the clock in a day
  MaxTime,      \* ticks followed
  MaxCycles,    \* cycles begun
  MaxFailures,  \* cycles that fail or die
  MaxChanges,   \* changes of the strategy versions
  Evidence      \* names of the evidence a cycle may find

VARIABLES
  learning,  \* the learning state document
  registry,  \* the deployment registry document
  versions,  \* the strategy versions in the database, and the active one
  traded,    \* variants some live trade of which has been resolved
  clock,
  cycle,     \* process -> its cycle
  bounds

vars == <<learning, registry, versions, traded, clock, cycle, bounds>>

Times == 0 .. MaxTime
Never == -1
Idle == [pc |-> "idle"]

(* What the gates make of a variant's trades: the shadow evidence, the outcome of *)
(* the live gates, and whether the rollback controller finds it collapsed.        *)
Finding(samples, retained, action, live, stable, recorded, collapsed) ==
  [samples |-> samples, retained |-> retained, improvement |-> Absent,
   calibration |-> "healthy", execution |-> IF recorded THEN "quarantine_candidate" ELSE "healthy",
   action |-> action, live |-> live, stable |-> stable, growth |-> stable,
   recorded |-> recorded, collapsed |-> collapsed]

Found(name) ==
  CASE name = "untraded"  -> Finding(0, Absent, "probation", FALSE, FALSE, FALSE, FALSE)
    [] name = "strong"    -> Finding(10, 110, "none", TRUE, TRUE, FALSE, FALSE)
    [] name = "toxic"     -> Finding(10, 110, "demote", TRUE, TRUE, FALSE, FALSE)
    [] name = "unstable"  -> Finding(10, 110, "none", TRUE, FALSE, FALSE, FALSE)
    [] name = "weak"      -> Finding(10, 80, "probation", FALSE, FALSE, FALSE, FALSE)
    [] name = "collapsed" -> Finding(10, 40, "demote", FALSE, FALSE, FALSE, TRUE)
    [] name = "beaten"    -> Finding(10, 95, "quarantine", FALSE, FALSE, FALSE, FALSE)
    [] name = "decayed"   -> Finding(10, 95, "none", TRUE, TRUE, TRUE, FALSE)

GovernanceAssumption ==
  /\ RolloutAssumption
  /\ IsFiniteSet(Processes)
  /\ Evidence \subseteq {"untraded", "strong", "toxic", "unstable", "weak", "collapsed", "beaten",
                        "decayed"}
  /\ Day \in Nat \ {0} /\ MaxTime \in Nat /\ Day <= MaxTime
  /\ MaxCycles \in Nat /\ MaxFailures \in Nat /\ MaxChanges \in Nat

Init ==
  /\ learning = [completed |-> Never, learned |-> [t \in Times |-> 0]]
  /\ registry = EmptyRegistry
  /\ versions \in [present : {Variants}, active : Variants]
  /\ traded \in SUBSET Variants
  /\ clock = Day
  /\ cycle = [p \in Processes |-> Idle]
  /\ bounds = [cycles |-> 0, failures |-> 0, changes |-> 0]

(* Time passes, and the variants the trading jobs may trade have traded. *)
Tick ==
  /\ clock < MaxTime
  /\ clock' = clock + 1
  /\ traded' = traded \cup
       {v \in Variants : SignalShare(registry, v) > 0 /\ SizeMultiplier(registry, v) > 0}
  /\ UNCHANGED <<learning, registry, versions, cycle, bounds>>

(* An operator adds, removes or activates a strategy version. *)
ChangeVersions ==
  /\ bounds.changes < MaxChanges
  /\ versions' \in [present : SUBSET Variants \ {{}}, active : Variants]
  /\ versions'.active \in versions'.present /\ versions' # versions
  /\ bounds' = [bounds EXCEPT !.changes = @ + 1]
  /\ UNCHANGED <<learning, registry, traded, clock, cycle>>

(* isLearningCycleDue *)
Due == learning.completed = Never \/ clock - learning.completed >= Day

(* Mutant: the window is always the last day. *)
WindowLastDay(completed, now) == now - Day .. now - 1

(* determineLearningWindow: the trades finalized since the last completed cycle. *)
Window(completed, now) ==
  IF completed = Never \/ completed >= now THEN now - Day .. now - 1 ELSE completed .. now - 1

(* run: the prior state is saved back, with the time the cycle started.  The    *)
(* command line may force a cycle that is not due, at a later instant.          *)
Begin(p) ==
  /\ cycle[p].pc = "idle" /\ bounds.cycles < MaxCycles
  /\ Due \/ (p # "bot" /\ learning.completed < clock)
  /\ cycle' = [cycle EXCEPT ![p] = [pc |-> "load", now |-> clock, prior |-> learning]]
  /\ bounds' = [bounds EXCEPT !.cycles = @ + 1]
  /\ UNCHANGED <<learning, registry, versions, traded, clock>>

(* loadRealizedOutcomeSamples, and the time the cycle will say it completed. *)
LoadSamples(p) ==
  /\ cycle[p].pc = "load"
  /\ LET c == cycle[p]
         samples == Window(c.prior.completed, c.now) \cap Times
     IN  cycle' = [cycle EXCEPT ![p] =
           [pc |-> "govern", now |-> c.now, prior |-> c.prior,
            next |-> [completed |-> clock,
                      learned |-> [t \in Times |->
                        c.prior.learned[t] + (IF t \in samples THEN 1 ELSE 0)]]]]
  /\ UNCHANGED <<learning, registry, versions, traded, clock, bounds>>

(* One challenger of runWaveTwoGovernance. *)
Judge(r, v, e) ==
  LET noted == IF e.recorded THEN [r EXCEPT !.high = @ \cup {v}] ELSE r
      stage == IF IsChallenger(r, v) THEN r.active.stage ELSE r.variants[v].stage
      d == PromotionDecision(e, stage, e.action, e.live, e.stable, e.growth)
  IN  IF QuarantineStatus(e.recorded, e.action, e) = "quarantined"
      THEN Quarantine(noted, v)
      ELSE ApplyPromotion(noted, v, d.verdict, d.target)

(* The live demotion gate of whichever variant is the incumbent by now. *)
JudgeIncumbent(r, found) ==
  IF r.incumbent = NoVariant THEN r
  ELSE ApplyLiveDemotion(r, r.incumbent, found[r.incumbent].action)

(* runWaveTwoGovernance: the challengers are judged one after the other. *)
Governed(r, found) ==
  LET synced == Sync(r, versions.present, versions.active)
      judged == MapThenFoldSet(LAMBDA v, r1 : Judge(r1, v, found[v]), synced,
                               LAMBDA v : v, Max, Challengers(synced))
      gated  == JudgeIncumbent(judged, found)
  IN  IF RollbackDue(gated, {v \in Variants : found[v].collapsed})
      THEN ApplyRollback(gated) ELSE gated

(* Only what has traded can have evidence. *)
Govern(p) ==
  /\ cycle[p].pc = "govern"
  /\ \E names \in [Variants -> Evidence] :
       /\ \A v \in Variants \ traded : names[v] = "untraded"
       /\ cycle' = [cycle EXCEPT ![p] =
            [pc |-> "learn", now |-> @.now, prior |-> @.prior, next |-> @.next,
             registry |-> Governed(registry, [v \in Variants |-> Found(names[v])])]]
  /\ UNCHANGED <<learning, registry, versions, traded, clock, bounds>>

(* learningStateStore.save(finalState) *)
SaveLearning(p) ==
  /\ cycle[p].pc = "learn"
  /\ learning' = cycle[p].next
  /\ cycle' = [cycle EXCEPT ![p].pc = "register"]
  /\ UNCHANGED <<registry, versions, traded, clock, bounds>>

(* strategyDeploymentRegistry.save, and the report of the cycle after it. *)
SaveRegistry(p) ==
  /\ cycle[p].pc = "register"
  /\ registry' = cycle[p].registry
  /\ cycle' = [cycle EXCEPT ![p].pc = "report"]
  /\ UNCHANGED <<learning, versions, traded, clock, bounds>>

Report(p) ==
  /\ cycle[p].pc = "report"
  /\ cycle' = [cycle EXCEPT ![p] = Idle]
  /\ UNCHANGED <<learning, registry, versions, traded, clock, bounds>>

(* Something throws: the state the cycle started from is saved as a failed, and *)
(* completed, cycle.                                                            *)
Fail(p) ==
  /\ cycle[p].pc # "idle" /\ bounds.failures < MaxFailures
  /\ learning' = [cycle[p].prior EXCEPT !.completed = clock]
  /\ cycle' = [cycle EXCEPT ![p] = Idle]
  /\ bounds' = [bounds EXCEPT !.failures = @ + 1]
  /\ UNCHANGED <<registry, versions, traded, clock>>

(* The process dies; the documents stay as they are. *)
Crash(p) ==
  /\ cycle[p].pc # "idle" /\ bounds.failures < MaxFailures
  /\ cycle' = [cycle EXCEPT ![p] = Idle]
  /\ bounds' = [bounds EXCEPT !.failures = @ + 1]
  /\ UNCHANGED <<learning, registry, versions, traded, clock>>

Step(p) ==
  \/ Begin(p) \/ LoadSamples(p) \/ Govern(p) \/ SaveLearning(p) \/ SaveRegistry(p)
  \/ Report(p) \/ Fail(p) \/ Crash(p)

Next == Tick \/ ChangeVersions \/ \E p \in Processes : Step(p)

Spec == Init /\ [][Next]_vars

-----------------------------------------------------------------------------
VariantRecord ==
  [status : {"none", "shadow", "canary", "incumbent", "probation", "quarantined", "retired"},
   stage : Stages, alloc : 0 .. 100]

RegistryOK(r) ==
  /\ r.incumbent \in Variants \cup {NoVariant}
  /\ r.active = NoRollout \/
     r.active \in [incumbent : Variants \cup {NoVariant}, challenger : Variants, stage : Stages]
  /\ r.high \subseteq Variants /\ r.retired \subseteq Variants
  /\ r.variants \in [Variants -> VariantRecord]

TypeOK ==
  /\ learning.completed \in Times \cup {Never}
  /\ learning.learned \in [Times -> Nat]
  /\ RegistryOK(registry)
  /\ traded \subseteq Variants /\ clock \in Times
  /\ \A p \in Processes : cycle[p].pc \in
       {"idle", "load", "govern", "learn", "register", "report"}

(* Only the incumbent may be trusted with the whole of the capital: a variant at *)
(* full allocation that is not the incumbent would be sized as one.              *)
FullShare ==
  \A v \in Variants : registry.variants[v].alloc = 100 => v = registry.incumbent

(* A variant rises one rung of the ladder per saved cycle, unless it is the      *)
(* incumbent a rollback restores or the first one ("rollout controller refuses   *)
(* rollout tier skips").                                                         *)
ClimbsOneRung ==
  \A v \in Variants :
    LET before == registry.variants[v]  after == registry'.variants[v]
    IN  \/ after.stage <= before.stage + 1
        \/ before.status = "none" /\ v = registry'.incumbent
        \/ registry'.incumbent = v /\ registry'.active = NoRollout
StageLadder == [][ClimbsOneRung]_registry

(* No trade is learned from twice, whatever fails, dies or runs beside it. *)
LearnedOnce == \A t \in Times : learning.learned[t] <= 1

(* What the cycle gives signals to it also lets trade: an incumbent that is not  *)
(* quarantined or retired is not left without any allocation.                    *)
AssignedMayTrade ==
  \A v \in Variants : SignalShare(registry, v) > 0 => SizeMultiplier(registry, v) > 0

(* Every trade finalized before the last completed cycle has been learned from. *)
NothingSkipped == \A t \in Times : t < learning.completed => learning.learned[t] > 0
=============================================================================
