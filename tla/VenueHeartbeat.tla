--------------------------- MODULE VenueHeartbeat ---------------------------
(***************************************************************************)
(* VenueOpenOrderHeartbeatService: while orders work, a timer posts a      *)
(* heartbeat, compares the working rows with the venue's open orders and   *)
(* escalates once when posting fails.  sync() is called by the start of    *)
(* the live loop and by two ticks, stop() by its end; sync() awaits a      *)
(* first beat before it arms the timer.                                    *)
(***************************************************************************)
EXTENDS Naturals, FiniteSets

CONSTANTS
  Orders,      \* orders that may work
  Syncers,     \* the callers of sync that may interleave
  MaxBeats,    \* bound: beats under way at one time
  MaxMoves,    \* bound: changes of the rows or of the venue
  MaxStops,    \* bound: stops of the live loop
  AwaitStop    \* whether stop may come while a sync awaits its first beat

HeartbeatAssumption ==
  MaxBeats \in Nat \ {0} /\ MaxMoves \in Nat /\ MaxStops \in Nat /\ AwaitStop \in BOOLEAN

VARIABLES
  rows,      \* the rows that are submitted, acknowledged or partially filled
  open,      \* the orders open at the venue
  up,        \* the live loop runs
  handle,    \* intervalHandle is set
  timers,    \* intervals armed in the process, whether or not a handle is kept
  health,    \* what evaluateHealth reads
  beats,     \* beats under way: whose, how far, what they loaded and got
  pc,        \* of each syncer
  degraded,  \* history: calls of onDegraded since the last success or reset
  bounds

vars == <<rows, open, up, handle, timers, health, beats, pc, degraded, bounds>>

NoBeat == [by |-> "none", at |-> "none", rows |-> {}]
Slots == 1 .. MaxBeats
Unknown == [failed |-> FALSE, divergent |-> FALSE, escalated |-> FALSE]

Init ==
  /\ rows = {} /\ open = {} /\ up = TRUE
  /\ handle = FALSE /\ timers = 0
  /\ health = Unknown
  /\ beats = [i \in Slots |-> NoBeat]
  /\ pc = [c \in Syncers |-> "idle"]
  /\ degraded = 0
  /\ bounds = [moves |-> 0, stops |-> 0]

(* Mutant: the handle is dropped and its interval goes on. *)
ClearedNothing == timers

(* stop(): it clears the interval it has a handle of. *)
Cleared == IF handle THEN timers - 1 ELSE timers

(* resetSnapshot after stop(). *)
StopAndReset ==
  /\ handle' = FALSE /\ timers' = Cleared
  /\ health' = Unknown /\ degraded' = 0

StartBeat(by) ==
  \E i \in Slots :
    /\ beats[i] = NoBeat /\ \A k \in 1 .. i - 1 : beats[k] # NoBeat
    /\ beats' = [beats EXCEPT ![i] = [by |-> by, at |-> "loading", rows |-> {}]]

(* sync: count, then a first beat unless the timer is armed. *)
Sync(c) ==
  /\ pc[c] = "idle" /\ up
  /\ UNCHANGED <<rows, open, up, bounds>>
  /\ \/ rows = {} /\ StopAndReset /\ UNCHANGED <<beats, pc>>
     \/ /\ rows # {} /\ ~handle
        /\ StartBeat(c)
        /\ pc' = [pc EXCEPT ![c] = "beating"]
        /\ UNCHANGED <<handle, timers, health, degraded>>

(* Mutant: a handle without an interval behind it. *)
ArmNothing(c) ==
  /\ pc[c] = "beaten"
  /\ pc' = [pc EXCEPT ![c] = "idle"]
  /\ handle' = TRUE
  /\ UNCHANGED <<rows, open, up, timers, health, beats, degraded, bounds>>

(* The end of sync: the interval is armed whatever happened meanwhile. *)
Arm(c) ==
  /\ pc[c] = "beaten"
  /\ pc' = [pc EXCEPT ![c] = "idle"]
  /\ handle' = TRUE /\ timers' = timers + 1
  /\ UNCHANGED <<rows, open, up, health, beats, degraded, bounds>>

Tick ==
  /\ timers > 0
  /\ StartBeat("timer")
  /\ UNCHANGED <<rows, open, up, handle, timers, health, pc, degraded, bounds>>

Return(i) ==
  /\ beats' = [beats EXCEPT ![i] = NoBeat]
  /\ pc' = [c \in Syncers |-> IF c = beats[i].by THEN "beaten" ELSE pc[c]]

(* beatOnce: the working rows are read first. *)
Load(i) ==
  /\ beats[i].at = "loading"
  /\ UNCHANGED <<rows, open, up, bounds>>
  /\ IF rows = {}
     THEN StopAndReset /\ Return(i)
     ELSE /\ beats' = [beats EXCEPT ![i].at = "posting", ![i].rows = rows]
          /\ UNCHANGED <<handle, timers, health, pc, degraded>>

(* postHeartbeat succeeded; a failing listing counts as an empty one. *)
Posted(i) ==
  /\ beats[i].at = "posting"
  /\ \E listing \in {open, {}} :
       health' = [failed |-> FALSE, divergent |-> listing # beats[i].rows, escalated |-> FALSE]
  /\ degraded' = 0
  /\ Return(i)
  /\ UNCHANGED <<rows, open, up, handle, timers, bounds>>

PostFails(i) ==
  /\ beats[i].at = "posting"
  /\ health' = [health EXCEPT !.failed = TRUE]
  /\ beats' = [beats EXCEPT ![i].at = "failed"]
  /\ UNCHANGED <<rows, open, up, handle, timers, pc, degraded, bounds>>

(* Mutant: every failing beat escalates. *)
EscalateAlways(i) ==
  /\ beats[i].at = "failed"
  /\ health' = [health EXCEPT !.escalated = TRUE]
  /\ degraded' = degraded + 1
  /\ Return(i)
  /\ UNCHANGED <<rows, open, up, handle, timers, bounds>>

(* After the checkpoint was written: onDegraded once per outage. *)
Escalate(i) ==
  /\ beats[i].at = "failed"
  /\ health' = [health EXCEPT !.escalated = TRUE]
  /\ degraded' = degraded + (IF health.escalated THEN 0 ELSE 1)
  /\ Return(i)
  /\ UNCHANGED <<rows, open, up, handle, timers, bounds>>

(* LiveLoop.stop and LiveLoop.start, which syncs. *)
LoopStop ==
  /\ up /\ bounds.stops < MaxStops
  /\ AwaitStop \/ \A c \in Syncers : pc[c] = "idle"
  /\ up' = FALSE
  /\ handle' = FALSE /\ timers' = Cleared
  /\ bounds' = [bounds EXCEPT !.stops = @ + 1]
  /\ UNCHANGED <<rows, open, health, beats, pc, degraded>>

LoopStart ==
  /\ ~up
  /\ up' = TRUE
  /\ UNCHANGED <<rows, open, handle, timers, health, beats, pc, degraded, bounds>>

(* Jobs write the rows, the venue opens and ends orders. *)
World ==
  /\ bounds.moves < MaxMoves
  /\ bounds' = [bounds EXCEPT !.moves = @ + 1]
  /\ \E o \in Orders :
       \/ rows' = (rows \ {o}) \cup ({o} \ rows) /\ UNCHANGED open
       \/ open' = (open \ {o}) \cup ({o} \ open) /\ UNCHANGED rows
  /\ UNCHANGED <<up, handle, timers, health, beats, pc, degraded>>

Next ==
  \/ \E c \in Syncers : Sync(c) \/ Arm(c)
  \/ Tick \/ LoopStop \/ LoopStart \/ World
  \/ \E i \in Slots : Load(i) \/ Posted(i) \/ PostFails(i) \/ Escalate(i)

Spec == Init /\ [][Next]_vars

(* Ticks, timers and requests make progress. *)
Fairness ==
  /\ \A c \in Syncers : SF_vars(Sync(c)) /\ WF_vars(Arm(c))
  /\ SF_vars(Tick)
  /\ \A i \in Slots : WF_vars(Load(i)) /\ WF_vars(Posted(i) \/ PostFails(i)) /\ WF_vars(Escalate(i))

FairSpec == Spec /\ Fairness

(***************************************************************************)
(* Properties.                                                             *)
(***************************************************************************)
(* TypeOK: every variable keeps its type. *)
TypeOK ==
  /\ rows \subseteq Orders /\ open \subseteq Orders
  /\ up \in BOOLEAN /\ handle \in BOOLEAN /\ timers \in Nat /\ degraded \in Nat
  /\ health \in [failed : BOOLEAN, divergent : BOOLEAN, escalated : BOOLEAN]

(* OneTimer: there is never an interval that stop() cannot clear            *)
(* (sync sets its handle after an await).                                   *)
OneTimer == timers = IF handle THEN 1 ELSE 0

(* SilentWhenStopped: a stopped live loop leaves no timer that keeps        *)
(* posting heartbeats, unless a sync is still under way.                    *)
SilentWhenStopped == ~up /\ (\A c \in Syncers : pc[c] = "idle") => timers = 0

(* EscalatedOnce: an outage escalates once until a beat succeeds or the     *)
(* orders are gone (failureEscalated).                                      *)
EscalatedOnce == degraded <= 1

(* HeartbeatFollows: as long as orders work and the loop runs a beat comes  *)
(* again and again; when they are gone the timer goes away.                 *)
HeartbeatFollows ==
  /\ <>[](up /\ rows # {}) => []<>(\E i \in Slots : beats[i].at = "posting")
  /\ <>[](up /\ rows = {}) => <>[](timers = 0)
=============================================================================
