----------------------------- MODULE MCLearning -----------------------------
(***************************************************************************)
(* The parts of the learning and rollout side, checked side by side: a     *)
(* behaviour follows one of them and the others stand still.  "store" is   *)
(* a document saved under its lock, "shared" one that is not, "rollout"    *)
(* the bot's cycles over two variants, "cycles" those of two processes,    *)
(* which may fail, while the strategy versions change, "execution" the     *)
(* execution policy of one context, "document" a document that is damaged  *)
(* and loaded.                                                             *)
(***************************************************************************)
EXTENDS Naturals, Sequences

CONSTANTS
  Parts,                                                \* the parts a behaviour may follow
  Callers, Decisions, MaxCrashes, MaxCorruptions, MaxCalls,          \* of "store"
  Variants, Processes, Day, MaxTime, MaxCycles, MaxFailures, MaxChanges,
  Evidence,                                                          \* of "cycles"
  Contexts, MaxUpdates,                                              \* of "execution"
  Damages, Ids, MaxLoads                                             \* of "document"

VARIABLES
  part,
  files, primary, tmp, snaps, call, acked, returned, sbounds,
  learning, registry, versions, traded, clock, cycle, gbounds,
  context, policies, active, updates,
  wrong, fallen, decisions, index, contexts, listed, spoiled, loads

Store == INSTANCE ArtifactStore WITH Serial <- TRUE, bounds <- sbounds

Shared == INSTANCE ArtifactStore WITH
  Serial <- FALSE, MaxCrashes <- 0, MaxCorruptions <- 0, MaxCalls <- 2, bounds <- sbounds

Rollout == INSTANCE StrategyGovernance WITH
  Variants <- {1, 2}, Processes <- {"bot"}, Day <- 1, MaxTime <- 6, MaxCycles <- 6,
  MaxFailures <- 0, MaxChanges <- 0, Evidence <- {"untraded", "strong", "collapsed", "beaten"},
  bounds <- gbounds

Cycles == INSTANCE StrategyGovernance WITH bounds <- gbounds

Order(route, fill, slippage, delay, cancel, partial) ==
  [route |-> route, fill |-> fill, slippage |-> slippage, delay |-> delay,
   cancel |-> cancel, partial |-> partial]

(* The windows of orders a cycle may see. *)
Windows ==
  LET Orders(n, o) == [i \in 1 .. n |-> o]
  IN  [made    |-> Orders(3, Order("maker", 100, 0, 2, "none", FALSE)),
       slower  |-> Orders(3, Order("maker", 96, 4, 3, "none", FALSE)),
       punished |-> Orders(4, Order("maker", 10, 120, 30, "failed", TRUE))
                    \o Orders(2, Order("taker", 90, 20, 1, "none", FALSE)),
       taken   |-> Orders(4, Order("taker", 90, 90, 1, "none", TRUE)),
       canceled |-> Orders(3, Order("maker", 40, 0, 9, "failed", FALSE))
                    \o Orders(2, Order("taker", 100, 10, 1, "ok", FALSE)),
       single  |-> Orders(1, Order("maker", 60, 10, 5, "ok", FALSE))]

Execution == INSTANCE ExecutionLearning WITH versions <- policies

Document == INSTANCE StateDocument

(* The constants are as the modules of the parts assume them. *)
ASSUME LearningAssumption ==
  /\ Store!ArtifactAssumption /\ Shared!ArtifactAssumption
  /\ Rollout!GovernanceAssumption /\ Cycles!GovernanceAssumption
  /\ Execution!ExecutionAssumption /\ Document!DocumentAssumption

svars == <<files, primary, tmp, snaps, call, acked, returned, sbounds>>
gvars == <<learning, registry, versions, traded, clock, cycle, gbounds>>
evars == <<context, policies, active, updates>>
dvars == <<wrong, fallen, decisions, index, contexts, listed, spoiled, loads>>

Init ==
  /\ part \in Parts
  /\ Store!Init /\ Execution!Init /\ Document!Init
  /\ IF part = "rollout" THEN Rollout!Init ELSE Cycles!Init
  /\ part \notin {"rollout", "cycles"} => traded = {} /\ versions.active = 1
  /\ part # "document" => \A i \in DOMAIN contexts : contexts[i] = "a"

Next ==
  /\ UNCHANGED part
  /\ \/ part = "store" /\ Store!Next /\ UNCHANGED <<gvars, evars, dvars>>
     \/ part = "shared" /\ Shared!Next /\ UNCHANGED <<gvars, evars, dvars>>
     \/ part = "rollout" /\ Rollout!Next /\ UNCHANGED <<svars, evars, dvars>>
     \/ part = "cycles" /\ Cycles!Next /\ UNCHANGED <<svars, evars, dvars>>
     \/ part = "execution" /\ Execution!Next /\ UNCHANGED <<svars, gvars, dvars>>
     \/ part = "document" /\ Document!Next /\ UNCHANGED <<svars, gvars, evars>>

Spec == Init /\ [][Next]_<<part, svars, gvars, evars, dvars>>

(* The types of the parts, and their properties, each about the part a behaviour *)
(* follows: they are stated in the modules of the parts.                         *)
TypeOK ==
  /\ Store!TypeOK /\ Execution!TypeOK /\ Document!TypeOK
  /\ IF part = "rollout" THEN Rollout!TypeOK ELSE Cycles!TypeOK
AcknowledgedKept == part = "store" => Store!AcknowledgedKept
RecoveredKept == part = "store" => Store!RecoveredKept
(* A registry is saved with one variant at full allocation at most, and no variant *)
(* has climbed more than a rung.                                                   *)
LadderKept ==
  [][IF part = "rollout" THEN Rollout!FullShare' /\ Rollout!ClimbsOneRung
     ELSE Cycles!ClimbsOneRung]_registry
LearnedOnce == part = "cycles" => Cycles!LearnedOnce
PartsAgree == [][Document!Agreed]_dvars
PolicyFollowsEvidence == Execution!PolicyFollowsEvidence
=============================================================================
