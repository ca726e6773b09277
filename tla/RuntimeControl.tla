---------------------------- MODULE RuntimeControl ----------------------------
(***************************************************************************)
(* The control plane of the bot: operators queue start, stop and halt      *)
(* commands through the API; one worker process claims them, drives the    *)
(* runtime state, runs the trading loops, mirrors its state to a file it   *)
(* shares with the API and to a database row, and may crash and restart.   *)
(*                                                                         *)
(* The worker is a single-threaded event loop, so a step of this module is *)
(* what runs between two awaits; "pc" says at which await each             *)
(* asynchronous activity is suspended.  Everything another activity does   *)
(* in the meantime is an interleaved step.                                 *)
(***************************************************************************)
EXTENDS RuntimeStates, Integers, Sequences, FiniteSets

CONSTANTS
  Clients,        \* API requests that may be in flight at the same time
  Loops,          \* the interval loops that are modelled
  MaxCommands,    \* bound: rows of the command table
  MaxCrashes,     \* bound: crashes of the worker process
  MaxSignals,     \* bound: SIGINT/SIGTERM deliveries
  MaxSwitches,    \* bound: operating-mode updates through the API
  MaxOrders,      \* bound: orders sent to the venue
  MaxInFlight,    \* bound: outstanding fire-and-forget writes, one per state
  Faults          \* whether what the command path awaits may throw

LoopNames == {"evaluation", "reconcile", "portfolio"}
Kinds == {"start", "stop", "halt"}
Modes == {"live_trading", "sentinel_simulation"}

ASSUME ControlAssumption ==
  /\ Loops \subseteq LoopNames
  /\ MaxCommands \in Nat /\ MaxCrashes \in Nat /\ MaxSignals \in Nat
  /\ MaxSwitches \in Nat /\ MaxOrders \in Nat /\ MaxInFlight \in Nat \ {0}
  /\ Faults \in BOOLEAN

\* The activities of the worker: its main program, the command processor,
\* the signal handler, the heartbeat and the interval loops.
Procs == {"main", "command", "signal", "heartbeat"} \cup Loops

NoRequest == [type |-> "none", cancel |-> FALSE]
NoModeUpdate == [state |-> "none", mode |-> "none"]

VARIABLES
  dbState,     \* bot_runtime_status.state
  cmds,        \* bot_runtime_command rows, in creation order
  file,        \* bot-state.latest.json: state and operating mode
  request,     \* Clients -> the checked, not yet enqueued API request
  modeUpdate,  \* the file content an API mode update is about to write
  mem,         \* BotStateStore.state
  memMode,     \* BotStateStore.operatingMode
  writes,      \* the states whose fire-and-forget status write has not landed
  timers,      \* the loops whose interval handle is set
  pc,          \* where each activity is suspended
  held,        \* the state captured by each activity's pending write or request
  row,         \* the command being processed (0: none)
  verdict,     \* how the processed command is about to be acknowledged
  execMode,    \* the operating mode captured by the running execution job
  orders,      \* orders sent to the venue
  late,        \* orders sent since the runtime last was "running"
  vetoed,      \* a venue decision against new entries was recorded since start
  latched,     \* the runtime was halted and no operator start came since
  used         \* how often the bounded environment events happened

apiVars   == <<request, modeUpdate>>
stateVars == <<mem, file, writes, late, latched>>
cmdVars   == <<cmds, row, verdict>>
tradeVars == <<execMode, orders, vetoed>>
vars == <<dbState, cmds, file, request, modeUpdate, mem, memMode, writes, timers,
          pc, held, row, verdict, execMode, orders, late, vetoed, latched, used>>

Statuses == {"pending", "processing", "applied", "failed", "blocked"}
Row == [type : Kinds, cancel : BOOLEAN, status : Statuses]
Active(r) == r.status \in {"pending", "processing"}
ActiveStart == \E i \in DOMAIN cmds : cmds[i].type = "start" /\ Active(cmds[i])

\* Where an activity may be suspended.
Labels ==
  {"idle", "down", "syncing", "recovering", "gate", "arming", "resumeFailed", "up",
   "closing", "dispatch", "complete", "startWrite", "startFailed", "signalled",
   "stopWrite", "drain", "escalate", "exitWrite", "haltDrain", "haltAudit",
   "haltWrite", "fallback", "closeWrite", "exit", "beat", "truth", "watchdog",
   "watchdogWrite", "streams", "userStream", "liquidation", "liquidationWrite",
   "rest", "analysis", "risk", "kill", "execution", "posting", "venueWrite",
   "tickError"}

\* The points at which an activity waits for a status write it has issued.
Writing == {"resumeFailed", "startWrite", "startFailed", "stopWrite", "exitWrite",
            "haltWrite", "closeWrite", "beat", "watchdogWrite", "liquidationWrite",
            "venueWrite"}

Goto(p, l) == pc' = [pc EXCEPT ![p] = l]
Hold(p, s) == held' = [held EXCEPT ![p] = s]
Release(p) == Hold(p, "stopped")
-----------------------------------------------------------------------------
(* BotStateStore and the runtime status row                                 *)

\* setState(s): legality check, memory, state file, and a status write that
\* nobody awaits.
Move(s) ==
  /\ CanTransition(mem, s)
  /\ s \notin writes /\ Cardinality(writes) < MaxInFlight
  /\ mem' = s
  /\ file' = [state |-> s, mode |-> memMode]
  /\ writes' = writes \cup {s}
  /\ late' = IF s = "running" THEN 0 ELSE late

\* ... by anyone but an operator's start.
Enter(s) == Move(s) /\ latched' = (latched \/ s = "halted_hard")

\* A fire-and-forget write reaches the row, in any order.
LandWrite(s) ==
  /\ s \in writes
  /\ writes' = writes \ {s}
  /\ dbState' = s
  /\ UNCHANGED <<cmdVars, mem, file, late, latched, apiVars, memMode, timers,
                 pc, held, tradeVars, used>>

\* An awaited write of p reaches the row; p goes on at label l.
LandHeld(p, at, l) ==
  /\ pc[p] = at
  /\ dbState' = held[p]
  /\ Goto(p, l) /\ Release(p)
  /\ UNCHANGED <<stateVars, apiVars, memMode, timers, used>>

\* refreshOperatingModeFromDisk
RefreshMode == memMode' = file.mode
-----------------------------------------------------------------------------
(* The API process                                                          *)

\* What start, stop and halt require of the status row they have read.
Admissible(type) ==
  CASE type = "start" -> dbState \in Idle
    [] type = "stop"  -> dbState # "stopped" \/ ActiveStart
    [] type = "halt"  -> dbState \notin Idle \/ ActiveStart

Append1(type, cancel, status) ==
  /\ Len(cmds) < MaxCommands
  /\ cmds' = Append(cmds, [type |-> type, cancel |-> cancel, status |-> status])

\* The handler has validated the request and is about to open its transaction.
ApiAdmit(c, type, cancel) ==
  /\ request[c] = NoRequest
  /\ Len(cmds) < MaxCommands
  /\ Admissible(type)
  /\ type = "start" => ~cancel
  /\ request' = [request EXCEPT ![c] = [type |-> type, cancel |-> cancel]]
  /\ UNCHANGED <<dbState, cmdVars, stateVars, modeUpdate, memMode, timers, pc,
                 held, tradeVars, used>>

\* recordBlockedCommand: a start that is not ready, a stop or halt that is not
\* admissible.
ApiBlock(type, cancel) ==
  /\ type = "start" => Admissible(type) /\ ~cancel
  /\ type # "start" => ~Admissible(type)
  /\ Append1(type, cancel, "blocked")
  /\ UNCHANGED <<dbState, row, verdict, stateVars, apiVars, memMode, timers, pc,
                 held, tradeVars, used>>

\* Mutant of ApiEnqueue: no look at the active commands.
EnqueueUnchecked(c) ==
  /\ request[c] # NoRequest
  /\ Append1(request[c].type, request[c].cancel, "pending")
  /\ request' = [request EXCEPT ![c] = NoRequest]
  /\ UNCHANGED <<dbState, row, verdict, stateVars, modeUpdate, memMode, timers,
                 pc, held, tradeVars, used>>

\* enqueueCommand: the serializable transaction under the status row's lock.
ApiEnqueue(c) ==
  LET r == request[c]
      conflict == \E i \in DOMAIN cmds : cmds[i].type = r.type /\ Active(cmds[i])
  IN /\ r # NoRequest
     /\ Append1(r.type, r.cancel, IF conflict THEN "blocked" ELSE "pending")
     /\ request' = [request EXCEPT ![c] = NoRequest]
     /\ UNCHANGED <<dbState, row, verdict, stateVars, modeUpdate, memMode, timers,
                    pc, held, tradeVars, used>>

\* setOperatingMode reads the whole state file ...
ApiReadMode(m) ==
  /\ modeUpdate = NoModeUpdate
  /\ used.switches < MaxSwitches
  /\ used' = [used EXCEPT !.switches = @ + 1]
  /\ modeUpdate' = [state |-> file.state, mode |-> m]
  /\ UNCHANGED <<dbState, cmdVars, stateVars, request, memMode, timers, pc, held,
                 tradeVars>>

\* ... and later renames a new one over it.
ApiWriteMode ==
  /\ modeUpdate # NoModeUpdate
  /\ file' = modeUpdate
  /\ modeUpdate' = NoModeUpdate
  /\ UNCHANGED <<dbState, cmdVars, mem, writes, late, latched, request, memMode,
                 timers, pc, held, tradeVars, used>>
-----------------------------------------------------------------------------
(* Boot, crash, exit                                                        *)

\* The process is gone, with every activity and every write it waited for.
Gone ==
  /\ writes' = {}
  /\ pc' = [p \in Procs |-> IF p = "main" THEN "down" ELSE "idle"]
  /\ held' = [p \in Procs |-> "stopped"]
  /\ timers' = {} /\ row' = 0 /\ verdict' = "none" /\ late' = 0
  /\ UNCHANGED <<cmds, file, apiVars, mem, memMode, tradeVars, latched>>

\* Writes on the wire may or may not have landed.
Die ==
  /\ Gone
  /\ dbState' \in {dbState} \cup writes
                 \cup {held[p] : p \in {q \in Procs : pc[q] \in Writing}}

Crash ==
  /\ pc["main"] # "down"
  /\ used.crashes < MaxCrashes
  /\ used' = [used EXCEPT !.crashes = @ + 1]
  /\ Die

\* The BotStateStore constructor loads the file.
Boot ==
  /\ pc["main"] = "down"
  /\ mem' = file.state /\ memMode' = file.mode
  /\ Goto("main", "syncing")
  /\ UNCHANGED <<dbState, cmdVars, file, writes, late, latched, apiVars, timers,
                 held, tradeVars, used>>

\* Mutant of BootSync: the row is believed whatever the state file says.
SyncUnchecked ==
  /\ pc["main"] = "syncing"
  /\ mem' = dbState /\ file' = [state |-> dbState, mode |-> memMode]
  /\ Goto("main", "recovering") /\ Hold("main", dbState)
  /\ UNCHANGED <<dbState, cmdVars, writes, late, latched, apiVars, memMode, timers,
                 tradeVars, used>>

\* The status row is read and becomes the state ...
BootSync ==
  /\ pc["main"] = "syncing"
  /\ Enter(dbState)
  /\ Goto("main", "recovering") /\ Hold("main", dbState)
  /\ UNCHANGED <<dbState, cmdVars, apiVars, memMode, timers, tradeVars, used>>

\* ... unless the diagram forbids it: the worker exits.
BootRefused ==
  /\ pc["main"] = "syncing"
  /\ ~CanTransition(mem, dbState)
  /\ Die
  /\ UNCHANGED used

\* resolveInterruptedCommand
Resolution(type, s) ==
  CASE type = "start" ->
         IF s \in {"running", "degraded", "reconciliation_only", "cancel_only"}
         THEN "applied" ELSE "failed"
    [] type = "stop" -> IF s \in Idle THEN "applied" ELSE "failed"
    [] type = "halt" -> IF s = "halted_hard" THEN "applied" ELSE "failed"

\* recoverInterruptedProcessingCommands
BootRecover ==
  /\ pc["main"] = "recovering"
  /\ cmds' = [i \in DOMAIN cmds |->
                IF cmds[i].status = "processing"
                THEN [cmds[i] EXCEPT !.status = Resolution(cmds[i].type, held["main"])]
                ELSE cmds[i]]
  /\ Goto("main", IF held["main"] = "running" THEN "gate" ELSE "up")
  /\ Release("main")
  /\ UNCHANGED <<dbState, row, verdict, stateVars, apiVars, memMode, timers,
                 tradeVars, used>>

\* A worker whose row says "running" resumes behind the startup gate.
ResumeGate ==
  /\ pc["main"] = "gate"
  /\ Enter("running")
  /\ Goto("main", "arming")
  /\ UNCHANGED <<dbState, cmdVars, apiVars, memMode, timers, held, tradeVars, used>>

ResumeArm ==
  /\ pc["main"] = "arming"
  /\ timers' = Loops
  /\ Goto("main", "up")
  /\ UNCHANGED <<dbState, cmdVars, stateVars, apiVars, memMode, held, tradeVars, used>>

ResumeFail ==
  /\ pc["main"] \in {"gate", "arming"}
  /\ Enter("halted_hard")
  /\ Goto("main", "resumeFailed") /\ Hold("main", "halted_hard")
  /\ UNCHANGED <<dbState, cmdVars, apiVars, memMode, timers, tradeVars, used>>

\* The awaited write lands, perhaps before an earlier one that nobody awaits,
\* and start() rethrows: process.exit(1).
ResumeExit ==
  /\ pc["main"] = "resumeFailed"
  /\ Gone
  /\ dbState' \in {held["main"]} \cup writes
  /\ UNCHANGED used
-----------------------------------------------------------------------------
(* The command processor                                                    *)

Up == pc["main"] = "up"

\* Mutant of Oldest: any pending command will do.
AnyPending(i) == cmds[i].status = "pending"

Oldest(i) == /\ cmds[i].status = "pending"
             /\ \A j \in DOMAIN cmds : cmds[j].status = "pending" => i <= j

\* processNextCommand: one command at a time, the oldest pending one.
Claim ==
  /\ Up /\ pc["command"] = "idle"
  /\ RefreshMode
  /\ \E i \in DOMAIN cmds :
       /\ Oldest(i)
       /\ cmds' = [cmds EXCEPT ![i].status = "processing"]
       /\ row' = i
  /\ Goto("command", "dispatch")
  /\ UNCHANGED <<dbState, verdict, stateVars, apiVars, timers, held, tradeVars, used>>

\* The command has been carried out or has thrown; p says who ran it.
Outcome(p, v) ==
  IF p = "command" THEN /\ Goto(p, "complete") /\ verdict' = v
                   ELSE /\ Goto(p, IF v = "applied" THEN "exit" ELSE "fallback")
                        /\ UNCHANGED verdict

Command(type) == pc["command"] = "dispatch" /\ cmds[row].type = type

\* requestStart: StartStopManager.start up to the startup gate.
StartBegin ==
  /\ Command("start")
  /\ mem \in Idle
  /\ Move("bootstrapping")
  /\ latched' = FALSE /\ vetoed' = FALSE
  /\ Goto("command", "gate")
  /\ UNCHANGED <<dbState, cmdVars, apiVars, memMode, timers, held, execMode, orders,
                 used>>

StartRefused ==
  /\ Command("start")
  /\ mem \notin Idle
  /\ Outcome("command", "refused")
  /\ UNCHANGED <<dbState, cmds, row, stateVars, apiVars, memMode, timers, held,
                 tradeVars, used>>

\* The gate passes: enterRunning, from whatever the state has become.
StartPass ==
  /\ pc["command"] = "gate"
  /\ Enter("running")
  /\ Goto("command", "arming")
  /\ UNCHANGED <<dbState, cmdVars, apiVars, memMode, timers, held, tradeVars, used>>

StartOverruled ==
  /\ pc["command"] = "gate"
  /\ ~CanTransition(mem, "running")
  /\ Outcome("command", "refused")
  /\ UNCHANGED <<dbState, cmds, row, stateVars, apiVars, memMode, timers, held,
                 tradeVars, used>>

\* The gate fails: back to stopped.
StartRejected ==
  /\ pc["command"] = "gate"
  /\ Enter("stopped")
  /\ Outcome("command", "failed")
  /\ UNCHANGED <<dbState, cmds, row, apiVars, memMode, timers, held, tradeVars, used>>

\* LiveLoop.start: streams, first reconciliation and portfolio, then the timers,
\* whatever the state has become meanwhile.
StartArm ==
  /\ pc["command"] = "arming"
  /\ timers' = Loops
  /\ Goto("command", "startWrite") /\ Hold("command", mem)
  /\ UNCHANGED <<dbState, cmdVars, stateVars, apiVars, memMode, tradeVars, used>>

StartArmFails ==
  /\ pc["command"] = "arming"
  /\ Enter("halted_hard")
  /\ Goto("command", "startFailed") /\ Hold("command", "halted_hard")
  /\ UNCHANGED <<dbState, cmdVars, apiVars, memMode, timers, tradeVars, used>>

StartWritten ==
  /\ LandHeld("command", "startWrite", "complete")
  /\ verdict' = "applied" /\ UNCHANGED <<cmds, row, tradeVars>>

StartFailureWritten ==
  /\ LandHeld("command", "startFailed", "complete")
  /\ verdict' = "failed" /\ UNCHANGED <<cmds, row, tradeVars>>

\* requestStop, run by the command processor or by the signal handler.
Stopping(p) == \/ p = "command" /\ Command("stop")
               \/ p = "signal" /\ pc[p] = "signalled"
Cancelling(p) == p = "command" => cmds[row].cancel

StopBegin(p) ==
  /\ Stopping(p)
  /\ IF mem = "stopped" THEN UNCHANGED stateVars ELSE Enter("cancel_only")
  /\ timers' = timers \ {"evaluation"}
  /\ Goto(p, "stopWrite") /\ Hold(p, mem')
  /\ UNCHANGED <<dbState, cmdVars, apiVars, memMode, tradeVars, used>>

StopRefused(p) ==
  /\ Stopping(p)
  /\ mem # "stopped" /\ ~CanTransition(mem, "cancel_only")
  /\ Outcome(p, "refused")
  /\ UNCHANGED <<dbState, cmds, row, stateVars, apiVars, memMode, timers, held,
                 tradeVars, used>>

StopWritten(p) ==
  /\ LandHeld(p, "stopWrite", "drain")
  /\ UNCHANGED <<cmdVars, tradeVars>>

\* Mutant of Drained: the state is left at "cancel_only".
DrainedUnfinished(p) ==
  /\ pc[p] = "drain"
  /\ timers' = {}
  /\ Goto(p, "exitWrite") /\ Hold(p, mem)
  /\ UNCHANGED <<dbState, cmdVars, stateVars, apiVars, memMode, tradeVars, used>>

\* The drain loop ended with nothing left, or nobody asked to cancel.
Drained(p) ==
  /\ pc[p] = "drain"
  /\ Enter("stopped")
  /\ timers' = {}
  /\ Goto(p, "exitWrite") /\ Hold(p, "stopped")
  /\ UNCHANGED <<dbState, cmdVars, apiVars, memMode, tradeVars, used>>

\* Orders remain, or the venue could not be read: escalate.
DrainFailed(p) ==
  /\ pc[p] = "drain" /\ Cancelling(p)
  /\ Enter("halted_hard")
  /\ Goto(p, "escalate")
  /\ UNCHANGED <<dbState, cmdVars, apiVars, memMode, timers, held, tradeVars, used>>

Escalated(p) ==
  /\ pc[p] = "escalate"
  /\ timers' = {}
  /\ Goto(p, "exitWrite") /\ Hold(p, mem)
  /\ UNCHANGED <<dbState, cmdVars, stateVars, apiVars, memMode, tradeVars, used>>

ExitWritten(p) ==
  /\ pc[p] = "exitWrite"
  /\ dbState' = held[p]
  /\ Outcome(p, "applied") /\ Release(p)
  /\ UNCHANGED <<cmds, row, stateVars, apiVars, memMode, timers, tradeVars, used>>

\* The halt command.
HaltBegin ==
  /\ Command("halt")
  /\ Enter("halted_hard")
  /\ IF cmds[row].cancel
     THEN /\ timers' = timers \ {"evaluation"} /\ Goto("command", "haltDrain")
     ELSE /\ timers' = {} /\ Goto("command", "haltAudit")
  /\ UNCHANGED <<dbState, cmdVars, apiVars, memMode, held, tradeVars, used>>

\* drainOnce(true); a halt that leaves exposure is entered again.
HaltDrained ==
  /\ pc["command"] = "haltDrain"
  /\ UNCHANGED stateVars \/ Enter("halted_hard")
  /\ timers' = {}
  /\ Goto("command", "haltAudit")
  /\ UNCHANGED <<dbState, cmdVars, apiVars, memMode, held, tradeVars, used>>

HaltAudited ==
  /\ pc["command"] = "haltAudit"
  /\ Goto("command", "haltWrite") /\ Hold("command", mem)
  /\ UNCHANGED <<dbState, cmdVars, stateVars, apiVars, memMode, timers, tradeVars, used>>

HaltWritten ==
  /\ LandHeld("command", "haltWrite", "complete")
  /\ verdict' = "applied" /\ UNCHANGED <<cmds, row, tradeVars>>

\* Whatever the processor awaits may throw: the state stays as it is.
CommandThrows(p) ==
  /\ p \in {"command", "signal"}
  /\ pc[p] \in {"startWrite", "startFailed", "stopWrite", "drain", "escalate",
                "exitWrite", "haltDrain", "haltAudit", "haltWrite"}
  /\ Faults
  /\ Outcome(p, "failed") /\ Release(p)
  /\ UNCHANGED <<dbState, cmds, row, stateVars, apiVars, memMode, timers,
                 tradeVars, used>>

\* Mutant of CompleteAs: processingCommand is never reset.
CompleteStuck(status) ==
  /\ pc["command"] = "complete"
  /\ cmds' = [cmds EXCEPT ![row].status = status]
  /\ row' = 0 /\ verdict' = "none"
  /\ Goto("command", "stuck")
  /\ UNCHANGED <<dbState, stateVars, apiVars, memMode, timers, held, tradeVars, used>>

\* completeCommand; the processor is free again.
CompleteAs(status) ==
  /\ pc["command"] = "complete"
  /\ cmds' = [cmds EXCEPT ![row].status = status]
  /\ row' = 0 /\ verdict' = "none"
  /\ Goto("command", "idle")
  /\ UNCHANGED <<dbState, stateVars, apiVars, memMode, timers, held, tradeVars, used>>

\* Mutant of Complete: the verdict is stored as it is.
CompleteRaw == CompleteAs(verdict)

Complete == CompleteAs(IF verdict = "applied" THEN "applied" ELSE "failed")

\* Acknowledging fails: the catch block records a failure, or that fails as well.
CompleteFaulty == Faults /\ CompleteAs(IF verdict = "applied" THEN "failed"
                                         ELSE "processing")
CompleteLost == Faults /\ verdict = "applied" /\ CompleteAs("processing")
-----------------------------------------------------------------------------
(* Shutdown on a signal                                                     *)

Signal ==
  /\ Up /\ pc["signal"] = "idle"
  /\ used.signals < MaxSignals
  /\ used' = [used EXCEPT !.signals = @ + 1]
  /\ Goto("signal", "signalled")
  /\ UNCHANGED <<dbState, cmdVars, stateVars, apiVars, memMode, timers, held, tradeVars>>

\* requestStop threw: BotRuntime.stop clears every handle and forces "stopped".
Fallback ==
  /\ pc["signal"] = "fallback"
  /\ Enter("stopped")
  /\ timers' = {}
  /\ pc' = [pc EXCEPT !["signal"] = "closeWrite", !["main"] = "closing"]
  /\ Hold("signal", "stopped")
  /\ UNCHANGED <<dbState, cmdVars, apiVars, memMode, tradeVars, used>>

CloseWritten ==
  /\ LandHeld("signal", "closeWrite", "exit")
  /\ UNCHANGED <<cmdVars, tradeVars>>

\* process.exit
Exit ==
  /\ pc["signal"] = "exit"
  /\ Die
  /\ UNCHANGED used
-----------------------------------------------------------------------------
(* The heartbeat                                                            *)

\* emitHeartbeat captures the state, then assesses freshness ...
HeartbeatBegin ==
  /\ Up /\ pc["heartbeat"] = "idle"
  /\ Goto("heartbeat", "beat") /\ Hold("heartbeat", mem)
  /\ UNCHANGED <<dbState, cmdVars, stateVars, apiVars, memMode, timers, tradeVars, used>>

\* Mutant of HeartbeatWrite: only the timestamp is written.
HeartbeatStampOnly ==
  /\ pc["heartbeat"] = "beat"
  /\ Goto("heartbeat", "idle") /\ Release("heartbeat")
  /\ UNCHANGED <<dbState, cmdVars, stateVars, apiVars, memMode, timers, tradeVars,
                 used>>

\* ... and writes what it captured.
HeartbeatWrite ==
  /\ LandHeld("heartbeat", "beat", "idle")
  /\ UNCHANGED <<cmdVars, tradeVars>>
-----------------------------------------------------------------------------
(* The interval loops                                                       *)

Throw(p) == Goto(p, IF p = "evaluation" THEN "tickError" ELSE "idle")

\* tickEvaluation, tickReconcile and tickPortfolio up to their first await.
TickBegin(p) ==
  /\ p \in timers /\ pc[p] = "idle"
  /\ RefreshMode
  /\ IF p = "evaluation" THEN AllowNewEntries(mem) ELSE AllowReconciliation(mem)
  /\ Goto(p, "truth")
  /\ UNCHANGED <<dbState, cmdVars, stateVars, apiVars, timers, held, tradeVars, used>>

\* enforceExecutionStateTruth: the watchdog decides on the state it is given.
WatchdogQuiet(p) ==
  /\ pc[p] = "truth"
  /\ Goto(p, "streams")
  /\ UNCHANGED <<dbState, cmdVars, stateVars, apiVars, memMode, timers, held,
                 tradeVars, used>>

WatchdogStates == {"reconciliation_only", "cancel_only", "halted_hard"}

WatchdogRequest(p) ==
  /\ pc[p] = "truth"
  /\ \E s \in WatchdogStates :
       /\ s # mem /\ CanTransition(mem, s)
       /\ Goto(p, "watchdog") /\ Hold(p, s)
  /\ UNCHANGED <<dbState, cmdVars, stateVars, apiVars, memMode, timers, tradeVars, used>>

\* The request was recorded; the state may have moved in the meantime.
WatchdogApply(p) ==
  /\ pc[p] = "watchdog" /\ held[p] # mem
  /\ Enter(held[p])
  /\ Goto(p, "watchdogWrite")
  /\ UNCHANGED <<dbState, cmdVars, apiVars, memMode, timers, held, tradeVars, used>>

WatchdogMoot(p) ==
  /\ pc[p] = "watchdog" /\ held[p] = mem
  /\ Goto(p, "streams") /\ Release(p)
  /\ UNCHANGED <<dbState, cmdVars, stateVars, apiVars, memMode, timers, tradeVars,
                 used>>

WatchdogWritten(p) ==
  /\ pc[p] = "watchdogWrite"
  /\ dbState' = held[p]
  /\ timers' = IF held[p] = "halted_hard" THEN timers ELSE timers \ {"evaluation"}
  /\ Goto(p, "streams") /\ Release(p)
  /\ UNCHANGED <<cmdVars, stateVars, apiVars, memMode, tradeVars, used>>

\* enforceStreamHealth, the two stream verdicts.
StreamsHealthy(p) ==
  /\ pc[p] \in {"streams", "userStream"}
  /\ Goto(p, "liquidation")
  /\ UNCHANGED <<dbState, cmdVars, stateVars, apiVars, memMode, timers, held,
                 tradeVars, used>>

MarketStreamLost(p) ==
  /\ pc[p] = "streams" /\ mem = "running"
  /\ Enter("degraded")
  /\ Goto(p, "userStream")
  /\ UNCHANGED <<dbState, cmdVars, apiVars, memMode, timers, held, tradeVars, used>>

UserStreamLost(p) ==
  /\ pc[p] \in {"streams", "userStream"} /\ mem \in {"running", "degraded"}
  /\ Enter("reconciliation_only")
  /\ timers' = timers \ {"evaluation"}
  /\ Goto(p, "liquidation")
  /\ UNCHANGED <<dbState, cmdVars, apiVars, memMode, held, tradeVars, used>>

\* enforceLiquidationPolicy
AfterProtection(p) == IF p = "evaluation" THEN "analysis" ELSE "rest"
PlanStates == {"degraded", "reconciliation_only", "cancel_only"}

PlanInactive(p) ==
  /\ pc[p] = "liquidation"
  /\ Goto(p, AfterProtection(p))
  /\ UNCHANGED <<dbState, cmdVars, stateVars, apiVars, memMode, timers, held,
                 tradeVars, used>>

PlanApply(p) ==
  /\ pc[p] = "liquidation"
  /\ \E s \in PlanStates : s # mem /\ Enter(s) /\ Hold(p, s)
  /\ Goto(p, "liquidationWrite")
  /\ UNCHANGED <<dbState, cmdVars, apiVars, memMode, timers, tradeVars, used>>

PlanWritten(p) ==
  /\ LandHeld(p, "liquidationWrite", AfterProtection(p))
  /\ UNCHANGED <<cmdVars, tradeVars>>

\* A refused transition or a failing call anywhere in the tick.
TickThrows(p) ==
  /\ pc[p] \in {"truth", "watchdog", "watchdogWrite", "streams", "userStream",
                "liquidation", "liquidationWrite", "analysis", "risk", "execution",
                "posting", "venueWrite", "kill"}
  /\ Throw(p) /\ Release(p)
  /\ UNCHANGED <<dbState, cmdVars, stateVars, apiVars, memMode, timers, tradeVars,
                 used>>

\* The rest of a protective loop: reconciliation, portfolio, heartbeat sync.
TickEnd(p) ==
  /\ pc[p] = "rest"
  /\ Goto(p, "idle")
  /\ UNCHANGED <<dbState, cmdVars, stateVars, apiVars, memMode, timers, held,
                 tradeVars, used>>

\* The catch block of tickEvaluation: halted from any state, loops stopped.
TickError ==
  /\ pc["evaluation"] = "tickError"
  /\ Enter("halted_hard")
  /\ timers' = {}
  /\ Goto("evaluation", "idle")
  /\ UNCHANGED <<dbState, cmdVars, apiVars, memMode, held, tradeVars, used>>

\* handleVenueHeartbeatDegraded
VenueDegraded ==
  /\ Up /\ mem = "running"
  /\ Enter("reconciliation_only")
  /\ timers' = timers \ {"evaluation"}
  /\ UNCHANGED <<dbState, cmdVars, apiVars, memMode, pc, held, tradeVars, used>>
-----------------------------------------------------------------------------
(* The evaluation tick: analysis, risk, execution                           *)

\* A veto of the market or the risk agent, or a state that no longer allows
\* entries, ends the tick.
Vetoed ==
  /\ pc["evaluation"] \in {"analysis", "risk"}
  /\ Goto("evaluation", "idle")
  /\ UNCHANGED <<dbState, cmdVars, stateVars, apiVars, memMode, timers, held,
                 tradeVars, used>>

Analysed ==
  /\ pc["evaluation"] = "analysis" /\ AllowNewEntries(mem)
  /\ Goto("evaluation", "risk")
  /\ UNCHANGED <<dbState, cmdVars, stateVars, apiVars, memMode, timers, held,
                 tradeVars, used>>

KillSwitch ==
  /\ pc["evaluation"] = "risk"
  /\ Goto("evaluation", "kill")
  /\ UNCHANGED <<dbState, cmdVars, stateVars, apiVars, memMode, timers, held,
                 tradeVars, used>>

\* After the audit record; only the evaluation handle is cleared.
Killed ==
  /\ pc["evaluation"] = "kill"
  /\ Enter("halted_hard")
  /\ timers' = timers \ {"evaluation"}
  /\ Goto("evaluation", "idle")
  /\ UNCHANGED <<dbState, cmdVars, apiVars, memMode, held, tradeVars, used>>

\* runExecution: the operating mode is read once for the whole job.
ExecuteBegin ==
  /\ pc["evaluation"] = "risk" /\ AllowNewEntries(mem)
  /\ execMode' = memMode
  /\ Goto("evaluation", "execution")
  /\ UNCHANGED <<dbState, cmdVars, stateVars, apiVars, memMode, timers, held, orders,
                 vetoed, used>>

\* Mutant of SubmitCheck: canSubmit() is asked once per job, not per signal.
SubmitUnchecked ==
  /\ pc["evaluation"] = "execution"
  /\ execMode = "live_trading"
  /\ Goto("evaluation", "posting")
  /\ UNCHANGED <<dbState, cmdVars, stateVars, apiVars, memMode, timers, held,
                 tradeVars, used>>

\* The last canSubmit() before the pre-trade checks of one live signal.
SubmitCheck ==
  /\ pc["evaluation"] = "execution" /\ AllowNewEntries(mem)
  /\ execMode = "live_trading"
  /\ Goto("evaluation", "posting")
  /\ UNCHANGED <<dbState, cmdVars, stateVars, apiVars, memMode, timers, held,
                 tradeVars, used>>

\* A pre-trade check rejects the signal.
PreTradeReject ==
  /\ pc["evaluation"] = "posting"
  /\ Goto("evaluation", "execution")
  /\ UNCHANGED <<dbState, cmdVars, stateVars, apiVars, memMode, timers, held,
                 tradeVars, used>>

\* postOrder: portfolio capture and intent record were awaited since the check.
Post(l) ==
  /\ pc["evaluation"] = "posting"
  /\ orders < MaxOrders
  /\ orders' = orders + 1
  /\ late' = IF mem = "running" THEN 0 ELSE late + 1
  /\ Goto("evaluation", l)
  /\ UNCHANGED <<dbState, cmdVars, mem, file, writes, latched, apiVars, memMode,
                 timers, execMode, vetoed, used>>

PostOrder == Post("execution") /\ UNCHANGED held

\* The venue rejects operationally; applyOperationalDecision writes its verdict
\* to the status row and to nothing else.
VenueDecisions == {"degraded", "reconciliation_only", "cancel_only", "halted_hard"}

PostRejected ==
  /\ Post("venueWrite")
  /\ \E s \in VenueDecisions : Hold("evaluation", s)

DecisionWritten ==
  /\ LandHeld("evaluation", "venueWrite", "execution")
  /\ vetoed' = TRUE
  /\ UNCHANGED <<cmdVars, execMode, orders>>

\* No approved signal is left, or canSubmit() said no.
ExecuteEnd ==
  /\ pc["evaluation"] = "execution"
  /\ Goto("evaluation", "idle")
  /\ UNCHANGED <<dbState, cmdVars, stateVars, apiVars, memMode, timers, held,
                 tradeVars, used>>
-----------------------------------------------------------------------------

Init ==
  /\ dbState = "stopped" /\ cmds = <<>>
  /\ file = [state |-> "stopped", mode |-> "live_trading"]
  /\ request = [c \in Clients |-> NoRequest] /\ modeUpdate = NoModeUpdate
  /\ mem = "stopped" /\ memMode = file.mode
  /\ writes = {} /\ timers = {}
  /\ pc = [p \in Procs |-> IF p = "main" THEN "down" ELSE "idle"]
  /\ held = [p \in Procs |-> "stopped"]
  /\ row = 0 /\ verdict = "none"
  /\ execMode = "sentinel_simulation"
  /\ orders = 0 /\ late = 0 /\ vetoed = FALSE /\ latched = FALSE
  /\ used = [crashes |-> 0, signals |-> 0, switches |-> 0]

ApiNext ==
  \/ \E type \in Kinds, cancel \in BOOLEAN :
       ApiBlock(type, cancel) \/ \E c \in Clients : ApiAdmit(c, type, cancel)
  \/ \E c \in Clients : ApiEnqueue(c)
  \/ \E m \in Modes : ApiReadMode(m)
  \/ ApiWriteMode

BootNext ==
  \/ Boot \/ BootSync \/ BootRefused \/ BootRecover
  \/ ResumeGate \/ ResumeArm \/ ResumeFail \/ ResumeExit

StartNext ==
  \/ StartBegin \/ StartRefused \/ StartPass \/ StartOverruled \/ StartRejected
  \/ StartArm \/ StartArmFails \/ StartWritten \/ StartFailureWritten

StopNext(p) ==
  \/ StopBegin(p) \/ StopRefused(p) \/ StopWritten(p) \/ Drained(p)
  \/ DrainFailed(p) \/ Escalated(p) \/ ExitWritten(p)

HaltNext == HaltBegin \/ HaltDrained \/ HaltAudited \/ HaltWritten

CommandNext ==
  \/ StartNext \/ StopNext("command") \/ HaltNext \/ Complete

FaultNext ==
  \/ \E p \in {"command", "signal"} : CommandThrows(p)
  \/ CompleteFaulty \/ CompleteLost

SignalNext == StopNext("signal") \/ Fallback \/ CloseWritten \/ Exit

HeartbeatNext == HeartbeatBegin \/ HeartbeatWrite

ProtectionNext(p) ==
  \/ TickBegin(p) \/ WatchdogQuiet(p) \/ WatchdogRequest(p) \/ WatchdogApply(p)
  \/ WatchdogMoot(p) \/ WatchdogWritten(p) \/ StreamsHealthy(p)
  \/ MarketStreamLost(p) \/ UserStreamLost(p) \/ PlanInactive(p) \/ PlanApply(p)
  \/ PlanWritten(p) \/ TickThrows(p) \/ TickEnd(p)

EvaluationNext ==
  /\ "evaluation" \in Loops
  /\ \/ TickError \/ Vetoed \/ Analysed \/ KillSwitch \/ Killed \/ ExecuteBegin
     \/ SubmitCheck \/ PreTradeReject \/ PostOrder \/ PostRejected
     \/ DecisionWritten \/ ExecuteEnd

Next ==
  \/ ApiNext \/ BootNext \/ Crash \/ Signal \/ Claim \/ CommandNext \/ FaultNext
  \/ SignalNext \/ HeartbeatNext \/ VenueDegraded \/ EvaluationNext
  \/ \E s \in States : LandWrite(s)
  \/ \E p \in Loops : ProtectionNext(p)

Spec == Init /\ [][Next]_vars

\* What the event loop gives an activity whose awaited calls return: the next
\* step.  SF for the command processor and the boot sequence only makes up for
\* the MaxInFlight bound, which disables setState where the code would go on.
\* The worker is restarted when it is down; the heartbeat's interval fires again
\* and again; a write that nobody awaits lands.
Fairness ==
  /\ SF_vars(BootNext) /\ SF_vars(CommandNext) /\ WF_vars(Claim)
  /\ WF_vars(HeartbeatNext)
  /\ \A s \in States : WF_vars(LandWrite(s))

LiveSpec == Spec /\ Fairness
-----------------------------------------------------------------------------

TableOK ==
  /\ cmds \in Seq(Row) /\ Len(cmds) <= MaxCommands
  /\ request \in [Clients -> [type : Kinds, cancel : BOOLEAN] \cup {NoRequest}]
  /\ modeUpdate \in [state : States, mode : Modes] \cup {NoModeUpdate}
  /\ row \in 0 .. MaxCommands
  /\ verdict \in {"none", "applied", "failed", "refused"}

StoreOK ==
  /\ dbState \in States /\ mem \in States /\ memMode \in Modes
  /\ file \in [state : States, mode : Modes]
  /\ writes \subseteq States /\ Cardinality(writes) <= MaxInFlight
  /\ late \in Nat /\ latched \in BOOLEAN

WorkerOK ==
  /\ timers \subseteq Loops
  /\ pc \in [Procs -> Labels] /\ held \in [Procs -> States]
  /\ execMode \in Modes /\ orders \in 0 .. MaxOrders /\ vetoed \in BOOLEAN
  /\ used \in [crashes : Nat, signals : Nat, switches : Nat]

\* Every variable has its type: the table, what is stored and mirrored, and the
\* worker's activities.
TypeOK == TableOK /\ StoreOK /\ WorkerOK

\* At most one command of a kind is pending or processing, however API requests
\* interleave with the worker (enqueueCommand's transaction).
SingleActive ==
  \A i, j \in DOMAIN cmds :
    /\ Active(cmds[i]) /\ Active(cmds[j])
    /\ cmds[i].type = cmds[j].type
    => i = j

\* A stop or a halt is acknowledged as applied only when the runtime is stopped
\* or halted, whatever the loops and a shutdown signal did while it drained.
AcknowledgedTruth ==
  pc["command"] = "complete" /\ verdict = "applied" /\ cmds[row].type # "start"
    => mem \in Idle

\* Once the runtime leaves "running", at most one more order reaches the venue:
\* the one whose pre-trade checks were under way (the loop asks canSubmit()
\* again before every signal).
LateOrderBound == late <= 1

\* A halted runtime does not trade again before an operator starts it, across
\* crashes and restarts and although status writes land in any order.
NoSilentRecovery ==
  latched /\ pc["main"] \notin {"down", "syncing"} => mem # "running"

\* The command table keeps the ledger's promises (while acknowledging works).
Ledger == INSTANCE CommandLedger WITH ledger <- cmds
LedgerRefined == Ledger!Spec

\* A command that was queued is answered in the end, as long as the worker neither
\* crashes nor fails to write its answer (processNextCommand).
EveryCommandAnswered ==
  \A i \in 1 .. MaxCommands :
    (i \in DOMAIN cmds /\ cmds[i].status \in {"pending", "processing"})
      ~> (i \in DOMAIN cmds /\ cmds[i].status \in {"applied", "failed"})

\* The status row agrees with a runtime that has settled, although the
\* fire-and-forget writes land in any order (emitHeartbeat repairs the row).
RowConverges ==
  \A s \in States : <>[](pc["main"] = "up" /\ mem = s) => <>[](dbState = s)

\* What the code's documents say, and the runs refute.

\* bot-runtime.ts: "Worker startup reconciled interrupted processing commands to
\* terminal truth": a command the worker died on is answered after the restart.
InterruptedAnswered ==
  \A i \in 1 .. MaxCommands :
    (pc["main"] = "down" /\ i \in DOMAIN cmds /\ cmds[i].status = "processing")
      ~> (i \in DOMAIN cmds /\ cmds[i].status \in {"applied", "failed"})

\* start-stop.md: "no new order when state is not `running`".
NoOrderOutsideRunning == [][orders' > orders => mem = "running"]_vars

\* p1-execution-capital-safety.md: a venue decision becomes a runtime
\* transition "immediately"; no order may follow it before the next start.
DecisionBlocksEntries == [][orders' > orders => ~vetoed]_vars

\* start-stop.md: "no silent transition to `running`": only a bootstrapping
\* runtime becomes running, so that a protective downgrade is not undone.
RunningFromBootstrapping ==
  [][mem' = "running" /\ mem # "running" /\ pc["main"] = "up"
       => mem = "bootstrapping"]_vars

\* A mode switched through the API persists until the API switches it again.
ModeSwitchPersists == [][file'.mode # file.mode => modeUpdate # NoModeUpdate]_vars
=============================================================================
