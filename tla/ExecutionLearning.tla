------------------------- MODULE ExecutionLearning -------------------------
(***************************************************************************)
(* What the learning cycles keep about the execution of each context (a    *)
(* strategy variant in a regime): averages weighted by the orders they     *)
(* stand for, the health the last window showed, and the execution policy  *)
(* versions (ExecutionPolicyUpdater, ExecutionPolicyVersionStore).  The    *)
(* planner reads the active version; a new one is made only when what the  *)
(* window says differs materially from the version in force.               *)
(***************************************************************************)
EXTENDS LearningRules

CONSTANTS
  Contexts,    \* the contexts traded
  Windows,     \* the windows of orders a cycle may see in a context
  MaxUpdates   \* cycles followed

(* A window counts its orders, and its rates, averages and scores are numbers;   *)
(* every order rested or took.                                                   *)
Figures ==
  [n : Nat, makers : Nat, takers : Nat, makerFill : Int, takerFill : Int, makerSlippage : Int,
   takerSlippage : Int, slippage : Int, delay : Int, cancel : Int, partial : Int,
   adverse : [punished : BOOLEAN, score : Int, health : Health]]

ExecutionAssumption ==
  /\ MaxUpdates \in Nat
  /\ \A name \in DOMAIN Windows :
       LET w == ExecutionWindow(Windows[name])
       IN  w \in Figures /\ w.makers + w.takers = w.n

VARIABLES
  context,   \* context -> its record
  versions,  \* context -> the sequence of its policy versions
  active,    \* context -> the number of the active one, 0 when there is none
  updates

vars == <<context, versions, active, updates>>

(* createDefaultExecutionLearningContext; the sums stand for averages over the  *)
(* orders counted beside them.                                                  *)
FreshContext ==
  [n |-> 0, makers |-> 0, takers |-> 0, makerFill |-> 0, takerFill |-> 0,
   slippage |-> 0, score |-> 0, cancel |-> 0, partial |-> 0, delay |-> Absent,
   punished |-> FALSE, health |-> "healthy"]

Init ==
  /\ context = [c \in Contexts |-> FreshContext]
  /\ versions = [c \in Contexts |-> <<>>]
  /\ active = [c \in Contexts |-> 0]
  /\ updates = 0

(* weightedAverageNullable, to the whole second. *)
MergedDelay(old, oldN, new, newN) ==
  IF old = Absent THEN new ELSE IF new = Absent THEN old
  ELSE IF oldN = 0 THEN new ELSE (old * oldN + new * newN) \div (oldN + newN)

MergedOver(c, w, n) ==
  [n |-> n, makers |-> c.makers + w.makers, takers |-> c.takers + w.takers,
   makerFill |-> c.makerFill + w.makerFill * w.makers,
   takerFill |-> c.takerFill + w.takerFill * w.takers,
   slippage |-> c.slippage + w.slippage * w.n,
   score |-> c.score + w.adverse.score * w.n,
   cancel |-> c.cancel + w.cancel * w.n,
   partial |-> c.partial + w.partial * w.n,
   delay |-> MergedDelay(c.delay, c.n, w.delay, w.n),
   punished |-> c.punished \/ w.adverse.punished,
   health |-> ExecutionHealthOf(w)]

(* Mutant: the orders of the earlier windows are not counted. *)
MergedUncounted(c, w) == MergedOver(c, w, w.n)

(* mergeExecutionContext; a context punished once stays punished, and its health *)
(* is the window's alone.                                                        *)
Merged(c, w) == MergedOver(c, w, c.n + w.n)

(* The average a sum stands for, as a fraction; 0 without orders. *)
Average(sum, n) == IF n = 0 THEN <<0, 1>> ELSE <<sum, n>>
Apart(x, y, bound) ==
  LET d == x[1] * y[2] - y[1] * x[2]
  IN  d >= bound * x[2] * y[2] \/ -d >= bound * x[2] * y[2]

(* The policy the updater proposes for a context. *)
Proposed(c, mode) ==
  [mode |-> mode, health |-> c.health,
   makerFill |-> Average(c.makerFill, c.makers), takerFill |-> Average(c.takerFill, c.takers),
   delay |-> <<OrElse(c.delay, 0), 1>>, slippage |-> Average(c.slippage, c.n),
   score |-> Average(c.score, c.n), cancel |-> Average(c.cancel, c.n),
   partial |-> Average(c.partial, c.n)]

(* hasMaterialPolicyChange; route and style follow from the mode. *)
MaterialChange(current, proposed) ==
  \/ current.mode # proposed.mode \/ current.health # proposed.health
  \/ Apart(current.makerFill, proposed.makerFill, 5)
  \/ Apart(current.takerFill, proposed.takerFill, 5)
  \/ Apart(current.delay, proposed.delay, 2)
  \/ Apart(current.slippage, proposed.slippage, 20)
  \/ Apart(current.score, proposed.score, 50)
  \/ Apart(current.cancel, proposed.cancel, 10)
  \/ Apart(current.partial, proposed.partial, 10)

(* Mutant: only a change of mode or health makes a version. *)
CreateVersionRarely(c, proposed) ==
  LET current == versions[c][active[c]]
  IN  IF active[c] # 0 /\ current.mode = proposed.mode /\ current.health = proposed.health
      THEN UNCHANGED <<versions, active>>
      ELSE /\ versions' = [versions EXCEPT ![c] = Append(@, proposed)]
           /\ active' = [active EXCEPT ![c] = Len(versions[c]) + 1]

(* createVersion *)
CreateVersion(c, proposed) ==
  IF active[c] # 0 /\ ~MaterialChange(versions[c][active[c]], proposed)
  THEN UNCHANGED <<versions, active>>
  ELSE /\ versions' = [versions EXCEPT ![c] = Append(@, proposed)]
       /\ active' = [active EXCEPT ![c] = Len(versions[c]) + 1]

(* ExecutionPolicyUpdater.update, for one context of the cycle. *)
Update(c) ==
  /\ updates < MaxUpdates
  /\ \E name \in DOMAIN Windows :
       LET w == ExecutionWindow(Windows[name])
           next == Merged(context[c], w)
       IN  /\ context' = [context EXCEPT ![c] = next]
           /\ CreateVersion(c, Proposed(next, ExecutionMode(w)))
  /\ updates' = updates + 1

Next == \E c \in Contexts : Update(c)

Spec == Init /\ [][Next]_vars

-----------------------------------------------------------------------------
TypeOK ==
  /\ \A c \in Contexts :
       /\ context[c].health \in Health /\ context[c].punished \in BOOLEAN
       /\ context[c].makers + context[c].takers = context[c].n
       /\ active[c] \in 0 .. Len(versions[c])
  /\ updates \in 0 .. MaxUpdates

(* However slowly the averages drift over the cycles, the version in force never *)
(* assumes anything materially different from what has been observed.            *)
PolicyFollowsEvidence ==
  \A c \in Contexts : active[c] # 0 =>
    ~MaterialChange(versions[c][active[c]],
                    Proposed(context[c], versions[c][active[c]].mode))
=============================================================================
