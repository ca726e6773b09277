------------------------ MODULE VenueHeartbeatProofs ------------------------
(***************************************************************************)
(* Proofs about VenueHeartbeat for any number of orders, of callers of     *)
(* sync, of beats under way, of moves and of stops.                        *)
(***************************************************************************)
EXTENDS VenueHeartbeat, TLAPS

-----------------------------------------------------------------------------
(* Type correctness                                                         *)

Points == {"idle", "beating", "beaten"}
Stages == {"none", "loading", "posting", "failed"}
Beat == [by : Syncers \cup {"none", "timer"}, at : Stages, rows : SUBSET Orders]

\* TypeOK with the types it leaves out; a handle has an interval behind it.
Typed ==
  /\ TypeOK
  /\ beats \in [Slots -> Beat]
  /\ pc \in [Syncers -> Points]
  /\ handle => timers > 0

LEMMA TypedInit == Init => Typed
<1> SUFFICES ASSUME Init PROVE Typed
  OBVIOUS
<1>1. health \in [failed : BOOLEAN, divergent : BOOLEAN, escalated : BOOLEAN]
  BY DEF Init, Unknown
<1>2. beats \in [Slots -> Beat] /\ pc \in [Syncers -> Points]
  BY DEF Init, Beat, Stages, Points, NoBeat
<1>3. rows \subseteq Orders /\ open \subseteq Orders /\ up \in BOOLEAN /\ handle = FALSE
  BY DEF Init
<1>4. timers \in Nat /\ degraded \in Nat
  BY DEF Init
<1> QED
  BY <1>1, <1>2, <1>3, <1>4 DEF Typed, TypeOK

\* Giving up the timer keeps the types (stop, resetSnapshot).
LEMMA StopTyped ==
  ASSUME Typed, StopAndReset
  PROVE  /\ handle' = FALSE /\ timers' \in Nat /\ degraded' \in Nat
         /\ health' \in [failed : BOOLEAN, divergent : BOOLEAN, escalated : BOOLEAN]
<1>1. health' \in [failed : BOOLEAN, divergent : BOOLEAN, escalated : BOOLEAN]
  BY DEF StopAndReset, Unknown
<1>2. timers' \in Nat
  BY DEF Typed, TypeOK, StopAndReset, Cleared
<1> QED
  BY <1>1, <1>2 DEF StopAndReset

LEMMA StartTyped ==
  ASSUME Typed, NEW by \in Syncers \cup {"timer"}, StartBeat(by)
  PROVE  beats' \in [Slots -> Beat]
BY DEF Typed, StartBeat, Beat, Stages

LEMMA ReturnTyped ==
  ASSUME Typed, NEW i \in Slots, Return(i)
  PROVE  beats' \in [Slots -> Beat] /\ pc' \in [Syncers -> Points]
BY DEF Typed, Return, Beat, Stages, Points, NoBeat

LEMMA TypedStep == Typed /\ [Next]_vars => Typed'
<1> SUFFICES ASSUME Typed, [Next]_vars PROVE Typed'
  OBVIOUS
<1> USE DEF Typed, TypeOK
<1>1. ASSUME NEW c \in Syncers, Sync(c) PROVE Typed'
  <2>1. CASE rows = {} /\ StopAndReset /\ UNCHANGED <<beats, pc>>
    BY <1>1, <2>1, StopTyped DEF Sync
  <2>2. CASE rows # {} /\ StartBeat(c)
    BY <1>1, <2>2, StartTyped DEF Sync, Points
  <2> QED
    BY <1>1, <2>1, <2>2 DEF Sync
<1>2. ASSUME NEW c \in Syncers, Arm(c) PROVE Typed'
  BY <1>2 DEF Arm, Points
<1>3. CASE Tick
  BY <1>3, StartTyped DEF Tick
<1>4. CASE LoopStop
  <2>1. Cleared \in Nat
    BY DEF Cleared
  <2>2. timers' \in Nat
    BY <1>4, <2>1 DEF LoopStop
  <2> QED
    BY <1>4, <2>2 DEF LoopStop
<1>5. CASE LoopStart
  BY <1>5 DEF LoopStart
<1>6. CASE World
  BY <1>6 DEF World
<1>7. ASSUME NEW i \in Slots, Load(i) PROVE Typed'
  <2>1. CASE rows = {}
    BY <1>7, <2>1, StopTyped, ReturnTyped DEF Load
  <2>2. CASE rows # {}
    BY <1>7, <2>2 DEF Load, Beat, Stages
  <2> QED
    BY <2>1, <2>2
<1>8. ASSUME NEW i \in Slots, Posted(i) PROVE Typed'
  BY <1>8, ReturnTyped DEF Posted
<1>9. ASSUME NEW i \in Slots, PostFails(i) PROVE Typed'
  BY <1>9 DEF PostFails, Beat, Stages
<1>10. ASSUME NEW i \in Slots, Escalate(i) PROVE Typed'
  <2>1. degraded' \in Nat
    BY <1>10 DEF Escalate
  <2>2. health' \in [failed : BOOLEAN, divergent : BOOLEAN, escalated : BOOLEAN]
    BY <1>10 DEF Escalate
  <2> QED
    BY <1>10, <2>1, <2>2, ReturnTyped DEF Escalate
<1>11. CASE UNCHANGED vars
  BY <1>11 DEF vars
<1> QED
  BY <1>1, <1>2, <1>3, <1>4, <1>5, <1>6, <1>7, <1>8, <1>9, <1>10, <1>11 DEF Next

\* Every variable keeps its type whatever the callers, beats and stops; an
\* interval is cleared at most once (intervalHandle).
THEOREM TypeCorrect == Spec => []TypeOK
<1>1. Typed => TypeOK
  BY DEF Typed
<1> QED
  BY <1>1, TypedInit, TypedStep, PTL DEF Spec

-----------------------------------------------------------------------------
(* One escalation per outage                                                *)

\* An escalation is remembered until the outage ends.
Remembered == EscalatedOnce /\ (degraded > 0 => health.escalated)

LEMMA RememberedStep == Typed /\ Remembered /\ [Next]_vars => Remembered'
<1> SUFFICES ASSUME Typed, Remembered, [Next]_vars PROVE Remembered'
  OBVIOUS
<1> USE DEF Typed, TypeOK, Remembered, EscalatedOnce
<1>1. ASSUME NEW c \in Syncers, Sync(c) PROVE Remembered'
  BY <1>1 DEF Sync, StopAndReset
<1>2. ASSUME NEW c \in Syncers, Arm(c) PROVE Remembered'
  BY <1>2 DEF Arm
<1>3. CASE Tick
  BY <1>3 DEF Tick
<1>4. CASE LoopStop \/ LoopStart \/ World
  BY <1>4 DEF LoopStop, LoopStart, World
<1>5. ASSUME NEW i \in Slots, Load(i) PROVE Remembered'
  BY <1>5 DEF Load, StopAndReset
<1>6. ASSUME NEW i \in Slots, Posted(i) PROVE Remembered'
  BY <1>6 DEF Posted
<1>7. ASSUME NEW i \in Slots, PostFails(i) PROVE Remembered'
  BY <1>7 DEF PostFails
<1>8. ASSUME NEW i \in Slots, Escalate(i) PROVE Remembered'
  BY <1>8 DEF Escalate
<1>9. CASE UNCHANGED vars
  BY <1>9 DEF vars
<1> QED
  BY <1>1, <1>2, <1>3, <1>4, <1>5, <1>6, <1>7, <1>8, <1>9 DEF Next

\* An outage escalates once, however many syncs, beats and stops interleave
\* (failureEscalated).
THEOREM OneEscalation == Spec => []EscalatedOnce
<1>1. Init => Remembered
  BY DEF Init, Remembered, EscalatedOnce
<1>2. Remembered => EscalatedOnce
  BY DEF Remembered
<1> QED
  BY <1>1, <1>2, TypedInit, TypedStep, RememberedStep, PTL DEF Spec

-----------------------------------------------------------------------------
(* One timer, and none after a stop                                         *)

\* What the code does not arrange by itself: one caller syncs at a time, and the
\* live loop is not stopped while it waits for its first beat.
SyncsAlone ==
  /\ Syncers \cap {"none", "timer"} = {}
  /\ \A c, d \in Syncers : c = d
  /\ ~AwaitStop

\* A sync under way holds no timer; its beat, if it has one, is the only one it
\* started; a loop that is down has neither.
Attended ==
  /\ OneTimer
  /\ \A c \in Syncers : pc[c] # "idle" => ~handle /\ up
  /\ \A i \in Slots : beats[i].by \in Syncers => pc[beats[i].by] = "beating"
  /\ \A i, k \in Slots : beats[i].by \in Syncers /\ beats[k].by = beats[i].by => i = k
  /\ \A i \in Slots : beats[i].at = "none" => beats[i].by = "none"
  /\ ~up => ~handle

LEMMA AttendedStep == SyncsAlone => (Typed /\ Attended /\ [Next]_vars => Attended')
<1> SUFFICES ASSUME SyncsAlone, Typed, Attended, [Next]_vars PROVE Attended'
  OBVIOUS
<1> USE DEF Typed, TypeOK, Attended, OneTimer, SyncsAlone, Beat
<1>0. ASSUME StopAndReset PROVE timers' = 0 /\ ~handle'
  BY <1>0 DEF StopAndReset, Cleared
<1>1. ASSUME NEW c \in Syncers, Sync(c) PROVE Attended'
  <2>1. CASE rows = {} /\ StopAndReset /\ UNCHANGED <<beats, pc>>
    BY <1>0, <1>1, <2>1 DEF Sync
  <2>2. CASE rows # {} /\ ~handle /\ StartBeat(c)
    BY <1>1, <2>2 DEF Sync, StartBeat, NoBeat
  <2> QED
    BY <1>1, <2>1, <2>2 DEF Sync
<1>2. ASSUME NEW c \in Syncers, Arm(c) PROVE Attended'
  BY <1>2 DEF Arm
<1>3. CASE Tick
  BY <1>3 DEF Tick, StartBeat, NoBeat
<1>4. CASE LoopStop
  BY <1>4 DEF LoopStop, Cleared
<1>5. CASE LoopStart
  BY <1>5 DEF LoopStart
<1>6. CASE World
  BY <1>6 DEF World
<1>7. ASSUME NEW i \in Slots, Load(i) PROVE Attended'
  <2>1. CASE rows = {}
    BY <1>0, <1>7, <2>1 DEF Load, Return, NoBeat
  <2>2. CASE rows # {}
    BY <1>7, <2>2 DEF Load
  <2> QED
    BY <2>1, <2>2
<1>8. ASSUME NEW i \in Slots, Posted(i) PROVE Attended'
  BY <1>8 DEF Posted, Return, NoBeat
<1>9. ASSUME NEW i \in Slots, PostFails(i) PROVE Attended'
  BY <1>9 DEF PostFails
<1>10. ASSUME NEW i \in Slots, Escalate(i) PROVE Attended'
  BY <1>10 DEF Escalate, Return, NoBeat
<1>11. CASE UNCHANGED vars
  BY <1>11 DEF vars
<1> QED
  BY <1>1, <1>2, <1>3, <1>4, <1>5, <1>6, <1>7, <1>8, <1>9, <1>10, <1>11 DEF Next

\* With one caller of sync and no stop during its await there is one interval
\* exactly when there is a handle (syncHeartbeat, stopHeartbeat).
THEOREM SingleTimer ==
  ASSUME SyncsAlone
  PROVE  Spec => []OneTimer
<1>1. Init => Attended
  BY DEF SyncsAlone, Init, Attended, OneTimer, NoBeat
<1>2. Attended => OneTimer
  BY DEF Attended
<1>3. Typed /\ Attended /\ [Next]_vars => Attended'
  BY AttendedStep
<1> QED
  BY <1>1, <1>2, <1>3, TypedInit, TypedStep, PTL DEF Spec

\* A stopped live loop posts no heartbeat (LiveLoop.stop).
THEOREM StoppedMeansSilent ==
  ASSUME SyncsAlone
  PROVE  Spec => []SilentWhenStopped
<1>1. Init => Attended
  BY DEF SyncsAlone, Init, Attended, OneTimer, NoBeat
<1>2. Attended => SilentWhenStopped
  BY DEF Attended, OneTimer, SilentWhenStopped
<1>3. Typed /\ Attended /\ [Next]_vars => Attended'
  BY AttendedStep
<1> QED
  BY <1>1, <1>2, <1>3, TypedInit, TypedStep, PTL DEF Spec
=============================================================================
