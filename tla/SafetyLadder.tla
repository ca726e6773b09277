---------------------------- MODULE SafetyLadder ----------------------------
(***************************************************************************)
(* The safety state over time: evidence worsens and improves, time passes, *)
(* and a tick of the evaluation job with pending signals evaluates the     *)
(* state machine and persists the result.  A tick without pending signals  *)
(* leaves the persisted state alone.                                       *)
(***************************************************************************)
EXTENDS SafetyStates, Sequences

CONSTANTS MaxClock,       \* bound: the clock
          MaxTroubles,    \* bound: kinds of trouble at one time, at first
          LongTroubles    \* bound: the same, once time has passed

VARIABLES evidence, safety, clock, changedAt

vars == <<evidence, safety, clock, changedAt>>

Level(e, f) == CHOOSE i \in DOMAIN Levels[f] : Levels[f][i] = e[f]

Troubles(e) == {f \in DOMAIN Levels \cup {"cause"} : e[f] # Clean[f]}

Possible(e) ==
    /\ e.cancelsWorking <= e.cancelFailures
    /\ Cardinality(Troubles(e)) <= IF clock = 0 THEN MaxTroubles ELSE LongTroubles

TypeOK ==
    /\ DOMAIN evidence = DOMAIN Clean
    /\ Possible(evidence)
    /\ evidence.cause \in Causes \cup {"none"} /\ evidence.confidence \in 0..100
    /\ safety.state \in States
    /\ safety.entered \in 0..clock /\ changedAt \in 0..clock /\ clock \in 0..MaxClock

Init ==
    /\ evidence = Clean
    /\ safety = [state |-> "normal", entered |-> 0]
    /\ clock = 0 /\ changedAt = 0

Move(f, by) ==
    /\ Level(evidence, f) + by \in DOMAIN Levels[f]
    /\ evidence' = [evidence EXCEPT ![f] = Levels[f][Level(evidence, f) + by]]
    /\ Possible(evidence')
    /\ UNCHANGED <<safety, clock, changedAt>>

Worsen == \E f \in DOMAIN Levels : Move(f, 1)
Improve == \E f \in DOMAIN Levels : Move(f, -1)

Blame ==
    /\ \E d \in Blames :
         evidence' = [evidence EXCEPT !.cause = d.cause, !.confidence = d.confidence]
    /\ Possible(evidence')
    /\ UNCHANGED <<safety, clock, changedAt>>

Wait ==
    /\ clock < MaxClock /\ Cardinality(Troubles(evidence)) <= LongTroubles
    /\ clock' = clock + 1
    /\ UNCHANGED <<evidence, safety, changedAt>>

Tick ==
    /\ safety' = Evaluate(safety, evidence, clock)
    /\ changedAt' = IF safety'.state # safety.state THEN clock ELSE changedAt
    /\ UNCHANGED <<evidence, clock>>

Next == Worsen \/ Improve \/ Blame \/ Wait \/ Tick

Spec == Init /\ [][Next]_vars

(***************************************************************************)
(* A safety state is left for a milder one only after the cooldown of the  *)
(* state that is left, counted from the tick that entered it.              *)
(***************************************************************************)
Relaxing == Rank[safety'.state] < Rank[safety.state]

KeepsCooldown == Relaxing => clock - changedAt >= Cooldown[safety.state]

\* Worse evidence of one kind, all else equal, never yields a milder verdict:
\* not of the state machine, not of the kill switch, in no part of it.
NeverMilder ==
    Worsen =>
        LET before == KillSwitch(evidence, {})
            after  == KillSwitch(evidence', {})
        IN  /\ Rank[Recommended(evidence')] >= Rank[Recommended(evidence)]
            /\ RuntimeRank[after.runtime] >= RuntimeRank[before.runtime]
            /\ before.block => after.block
            /\ before.reduce => after.reduce

\* The two halting verdicts of the kill switch agree: the safety machine is
\* told to halt exactly when the runtime is told to halt.
HaltsTogether ==
    LET k == KillSwitch(evidence, {})
    IN  k.state = "halt" <=> k.runtime = "halted_hard"

=============================================================================
