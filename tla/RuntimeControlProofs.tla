------------------------- MODULE RuntimeControlProofs -------------------------
(***************************************************************************)
(* Proofs about RuntimeControl for every value of its constants: any       *)
(* number of commands, API clients, crashes, signals, orders and writes in *)
(* flight.                                                                 *)
(***************************************************************************)
EXTENDS RuntimeControl, FiniteSetTheorems, SequenceTheorems, TLAPS

USE DEF apiVars, stateVars, cmdVars, tradeVars
-----------------------------------------------------------------------------
(* Type correctness                                                         *)

\* The seven states, one at a time: writes are a finite set.
LEMMA StatesFinite == IsFiniteSet(States)
<1>1. \A S, x : IsFiniteSet(S) => IsFiniteSet(S \cup {x})
  BY FS_AddElement
<1>2. IsFiniteSet({})
  BY FS_EmptySet
<1>3. States = (((((({} \cup {"bootstrapping"}) \cup {"running"}) \cup {"degraded"})
                  \cup {"reconciliation_only"}) \cup {"cancel_only"})
                  \cup {"halted_hard"}) \cup {"stopped"}
  BY DEF States
<1> QED
  BY <1>1, <1>2, <1>3, Zenon

\* setState keeps what is stored and mirrored well-typed, the number of writes
\* in flight included (BotStateStore.setState).
LEMMA MoveTyped ==
  ASSUME StoreOK, NEW s \in States, Move(s)
  PROVE  /\ mem' \in States /\ file' \in [state : States, mode : Modes]
         /\ writes' \subseteq States /\ Cardinality(writes') <= MaxInFlight
         /\ late' \in Nat
<1>1. IsFiniteSet(writes)
  BY StatesFinite, FS_Subset DEF StoreOK
<1>2. Cardinality(writes) \in Nat /\ Cardinality(writes \cup {s}) = Cardinality(writes) + 1
  BY <1>1, FS_AddElement, FS_CardinalityType DEF Move
<1> QED BY <1>2, ControlAssumption DEF Move, StoreOK, ControlAssumption

\* One write less in flight.
LEMMA LandTyped ==
  ASSUME StoreOK, NEW s \in States, LandWrite(s)
  PROVE  StoreOK'
<1>1. IsFiniteSet(writes)
  BY StatesFinite, FS_Subset DEF StoreOK
<1>2. Cardinality(writes) \in Nat /\ Cardinality(writes \ {s}) = Cardinality(writes) - 1
  BY <1>1, FS_RemoveElement, FS_CardinalityType DEF LandWrite
<1> QED BY <1>2, ControlAssumption DEF LandWrite, StoreOK, ControlAssumption

\* The control points and captured states of one activity.
LEMMA GotoTyped ==
  ASSUME WorkerOK, NEW p \in Procs, NEW l \in Labels, Goto(p, l)
  PROVE  pc' \in [Procs -> Labels]
BY DEF WorkerOK, Goto

LEMMA HoldTyped ==
  ASSUME WorkerOK, NEW p \in Procs, NEW s \in States, Hold(p, s)
  PROVE  held' \in [Procs -> States]
BY DEF WorkerOK, Hold

LEMMA ReleaseTyped ==
  ASSUME WorkerOK, NEW p \in Procs, Release(p)
  PROVE  held' \in [Procs -> States]
BY DEF WorkerOK, Release, Hold, States

\* The activities that exist whatever the loops.
LEMMA ProcsNamed ==
  /\ "main" \in Procs /\ "command" \in Procs /\ "signal" \in Procs
  /\ "heartbeat" \in Procs /\ Loops \subseteq Procs
BY DEF Procs

\* A process that is gone leaves nothing in flight.
LEMMA GoneTyped ==
  ASSUME TypeOK, Gone, dbState' \in States
  PROVE  TableOK' /\ StoreOK'
<1>1. Cardinality({}) = 0
  BY FS_EmptySet
<1>2. StoreOK'
  BY <1>1, ControlAssumption DEF TypeOK, StoreOK, Gone, ControlAssumption
<1>3. TableOK'
  BY ControlAssumption DEF TypeOK, TableOK, Gone, ControlAssumption
<1> QED
  BY <1>2, <1>3

\* Whatever a dying process had on the wire is a state.
LEMMA DieTyped ==
  ASSUME TypeOK, Die
  PROVE  TableOK' /\ StoreOK'
<1>1. dbState' \in States
  BY DEF TypeOK, StoreOK, WorkerOK, Die
<1> QED
  BY <1>1, GoneTyped DEF Die

\* A new row at the end of the command table (createCommand).
LEMMA AppendTyped ==
  ASSUME TableOK, NEW type \in Kinds, NEW cancel \in BOOLEAN, NEW status \in Statuses,
         Append1(type, cancel, status)
  PROVE  cmds' \in Seq(Row) /\ Len(cmds') <= MaxCommands
<1> DEFINE r == [type |-> type, cancel |-> cancel, status |-> status]
<1>1. r \in Row
  BY DEF Row
<1>2. Append(cmds, r) \in Seq(Row) /\ Len(Append(cmds, r)) = Len(cmds) + 1
  BY <1>1, AppendProperties DEF TableOK
<1>3. Len(cmds) \in Nat
  BY LenProperties DEF TableOK
<1> QED
  BY <1>2, <1>3, ControlAssumption DEF Append1, ControlAssumption

\* A new status for one row, or for none.
LEMMA StatusTyped ==
  ASSUME TableOK, NEW i, NEW status \in Statuses
  PROVE  LET new == [cmds EXCEPT ![i].status = status]
         IN  new \in Seq(Row) /\ Len(new) = Len(cmds)
<1> DEFINE new == [cmds EXCEPT ![i].status = status]
<1>1. cmds \in [1 .. Len(cmds) -> Row] /\ Len(cmds) \in Nat
  BY LenProperties DEF TableOK
<1>2. new \in [1 .. Len(cmds) -> Row]
  BY <1>1 DEF Row
<1>3. new \in Seq(Row)
  BY <1>1, <1>2, SeqDef
<1>4. Len(new) = Len(cmds)
  BY <1>1, <1>2, <1>3, LenProperties
<1> QED
  BY <1>3, <1>4

\* The command processor's answers keep the table well-typed.
LEMMA CompleteTyped ==
  ASSUME TableOK, NEW status \in Statuses, CompleteAs(status)
  PROVE  TableOK'
BY StatusTyped, ControlAssumption DEF TableOK, CompleteAs, ControlAssumption

\* ... and so does the resolution of the rows a dead worker left in processing.
LEMMA RecoverTyped ==
  ASSUME TypeOK, BootRecover
  PROVE  cmds' \in Seq(Row) /\ Len(cmds') = Len(cmds)
<1>1. cmds \in [1 .. Len(cmds) -> Row] /\ Len(cmds) \in Nat
  BY LenProperties DEF TypeOK, TableOK
<1>2. \A type \in Kinds, s \in States : Resolution(type, s) \in Statuses
  BY DEF Resolution, Kinds, Statuses
<1>3. held["main"] \in States
  BY ProcsNamed DEF TypeOK, WorkerOK
<1>4. cmds' \in [1 .. Len(cmds) -> Row]
  BY <1>1, <1>2, <1>3 DEF BootRecover, Row
<1>5. cmds' \in Seq(Row)
  BY <1>1, <1>4, SeqDef
<1>6. Len(cmds') = Len(cmds)
  BY <1>1, <1>4, <1>5, LenProperties
<1> QED
  BY <1>5, <1>6

\* What is stored and mirrored stays well-typed.
LEMMA StoreStep ==
  ASSUME TypeOK, [Next]_vars
  PROVE  StoreOK'
<1> USE MoveTyped, ProcsNamed
    DEF TypeOK, StoreOK, WorkerOK, Release, Hold, Enter, LandHeld, States,
        PlanStates, WatchdogStates
<1>1. CASE ApiNext
  <2>1. CASE \E type \in Kinds, cancel \in BOOLEAN : ApiBlock(type, cancel)
    BY <2>1 DEF ApiBlock, Append1
  <2>2. CASE \E type \in Kinds, cancel \in BOOLEAN : \E c \in Clients : ApiAdmit(c, type, cancel)
    BY <2>2 DEF ApiAdmit
  <2>3. CASE \E c \in Clients : ApiEnqueue(c)
    BY <2>3 DEF ApiEnqueue, Append1
  <2>4. CASE \E m \in Modes : ApiReadMode(m)
    BY <2>4 DEF ApiReadMode, TableOK, NoModeUpdate
  <2>5. CASE ApiWriteMode
    BY <2>5 DEF ApiWriteMode, TableOK, NoModeUpdate
  <2> QED
    BY <1>1, <2>1, <2>2, <2>3, <2>4, <2>5 DEF ApiNext
<1>2. CASE BootNext
  <2>1. CASE BootSync
    <3>1. /\ dbState \in States /\ dbState' = dbState /\ memMode' = memMode
          /\ Move(dbState) /\ latched' \in BOOLEAN
      BY <2>1 DEF BootSync
    <3> QED
      BY <3>1
  <2>2. CASE BootRefused
    BY <2>2, DieTyped DEF BootRefused
  <2>3. CASE ResumeExit
    <3>1. dbState' \in States
      BY <2>3 DEF ResumeExit
    <3> QED
      BY <2>3, <3>1, GoneTyped DEF ResumeExit
  <2>4. CASE Boot \/ BootRecover \/ ResumeGate \/ ResumeArm \/ ResumeFail
    BY <2>4 DEF Boot, BootRecover, ResumeGate, ResumeArm, ResumeFail
  <2> QED
    BY <1>2, <2>1, <2>2, <2>3, <2>4 DEF BootNext
<1>3. CASE StartNext
  BY <1>3
    DEF StartNext, StartBegin, StartRefused, StartPass, StartOverruled,
        StartRejected, StartArm, StartArmFails, StartWritten,
        StartFailureWritten
<1>4. CASE \E p \in {"command", "signal"} : StopNext(p)
  <2>0. PICK p \in {"command", "signal"} : StopNext(p)
    BY <1>4
  <2>1. CASE StopBegin(p)
    BY <2>0, <2>1 DEF StopBegin
  <2>2. CASE StopRefused(p)
    BY <2>0, <2>2 DEF StopRefused
  <2>3. CASE StopWritten(p)
    BY <2>0, <2>3 DEF StopWritten
  <2>4. CASE Drained(p)
    BY <2>0, <2>4 DEF Drained
  <2>5. CASE DrainFailed(p)
    BY <2>0, <2>5 DEF DrainFailed
  <2>6. CASE Escalated(p)
    BY <2>0, <2>6 DEF Escalated
  <2>7. CASE ExitWritten(p)
    BY <2>0, <2>7 DEF ExitWritten
  <2> QED
    BY <2>0, <2>1, <2>2, <2>3, <2>4, <2>5, <2>6, <2>7 DEF StopNext
<1>5. CASE HaltNext
  BY <1>5 DEF HaltNext, HaltBegin, HaltDrained, HaltAudited, HaltWritten
<1>6. CASE Complete \/ FaultNext
  BY <1>6
    DEF FaultNext, Complete, CompleteAs, CommandThrows, CompleteFaulty,
        CompleteLost
<1>7. CASE Crash \/ Signal \/ Claim \/ Fallback \/ CloseWritten \/ Exit
  <2>1. CASE Crash
    BY <2>1, DieTyped DEF Crash
  <2>2. CASE Claim
    BY <2>2 DEF Claim, RefreshMode
  <2>3. CASE Exit
    BY <2>3, DieTyped DEF Exit
  <2>4. CASE Signal \/ Fallback \/ CloseWritten
    BY <2>4 DEF Signal, Fallback, CloseWritten
  <2> QED
    BY <1>7, <2>1, <2>2, <2>3, <2>4
<1>8. CASE HeartbeatNext \/ VenueDegraded
  BY <1>8 DEF HeartbeatNext, HeartbeatBegin, HeartbeatWrite, VenueDegraded
<1>9. CASE \E p \in Loops : ProtectionNext(p)
  <2>0. PICK p \in Loops : ProtectionNext(p)
    BY <1>9
  <2>1. CASE TickBegin(p)
    BY <2>0, <2>1 DEF TickBegin, RefreshMode
  <2>2. CASE \/ WatchdogQuiet(p) \/ WatchdogRequest(p) \/ WatchdogApply(p)
            \/ WatchdogMoot(p) \/ WatchdogWritten(p) \/ StreamsHealthy(p)
            \/ MarketStreamLost(p) \/ UserStreamLost(p) \/ PlanInactive(p)
            \/ PlanApply(p) \/ PlanWritten(p) \/ TickThrows(p) \/ TickEnd(p)
    BY <2>0, <2>2
      DEF WatchdogQuiet, WatchdogRequest, WatchdogApply, WatchdogMoot,
          WatchdogWritten, StreamsHealthy, MarketStreamLost, UserStreamLost,
          PlanInactive, PlanApply, PlanWritten, TickThrows, TickEnd
  <2> QED
    BY <2>0, <2>1, <2>2 DEF ProtectionNext
<1>10. CASE EvaluationNext
  <2>0. "evaluation" \in Loops /\ "evaluation" \in Procs
    BY <1>10, ProcsNamed DEF EvaluationNext
  <2>1. CASE TickError
    BY <2>0, <2>1 DEF TickError
  <2>2. CASE Vetoed
    BY <2>0, <2>2 DEF Vetoed
  <2>3. CASE Analysed
    BY <2>0, <2>3 DEF Analysed
  <2>4. CASE KillSwitch
    BY <2>0, <2>4 DEF KillSwitch
  <2>5. CASE Killed
    BY <2>0, <2>5 DEF Killed
  <2>6. CASE ExecuteBegin
    BY <2>0, <2>6 DEF ExecuteBegin
  <2>7. CASE SubmitCheck
    BY <2>0, <2>7 DEF SubmitCheck
  <2>8. CASE PreTradeReject
    BY <2>0, <2>8 DEF PreTradeReject
  <2>9. CASE PostOrder
    BY <2>0, <2>9 DEF PostOrder, Post
  <2>10. CASE PostRejected
    BY <2>0, <2>10 DEF PostRejected, Post
  <2>11. CASE DecisionWritten
    BY <2>0, <2>11 DEF DecisionWritten
  <2>12. CASE ExecuteEnd
    BY <2>0, <2>12 DEF ExecuteEnd
  <2> QED
    BY <1>10, <2>1, <2>2, <2>3, <2>4, <2>5, <2>6, <2>7, <2>8, <2>9, <2>10, <2>11, <2>12
      DEF EvaluationNext
<1>11. CASE \E s \in States : LandWrite(s)
  BY <1>11, LandTyped
<1>12. CASE UNCHANGED vars
  BY <1>12 DEF vars
<1> QED
  BY <1>1, <1>2, <1>3, <1>4, <1>5, <1>6, <1>7, <1>8, <1>9, <1>10, <1>11, <1>12
    DEF Next, CommandNext, SignalNext

\* The command table stays well-typed and within its bound.
LEMMA TableStep ==
  ASSUME TypeOK, [Next]_vars
  PROVE  TableOK'
<1> USE DEF TypeOK, TableOK, LandHeld, Outcome
<1>1. CASE ApiNext
  <2>1. CASE \E type \in Kinds, cancel \in BOOLEAN : ApiBlock(type, cancel)
    BY <2>1, AppendTyped DEF ApiBlock, Append1, Statuses
  <2>2. CASE \E c \in Clients : ApiEnqueue(c)
    <3>1. PICK c \in Clients : ApiEnqueue(c)
      BY <2>2
    <3>2. request[c].type \in Kinds /\ request[c].cancel \in BOOLEAN
      BY <3>1 DEF ApiEnqueue
    <3>3. cmds' \in Seq(Row) /\ Len(cmds') <= MaxCommands
      BY <3>1, <3>2, AppendTyped DEF ApiEnqueue, Statuses
    <3> QED
      BY <3>1, <3>3 DEF ApiEnqueue
  <2>3. CASE \E m \in Modes : ApiReadMode(m)
    BY <2>3 DEF ApiReadMode, StoreOK
  <2>4. CASE \/ (\E type \in Kinds, cancel \in BOOLEAN : \E c \in Clients : ApiAdmit(c, type, cancel))
            \/ ApiWriteMode
    BY <2>4 DEF ApiAdmit, ApiWriteMode
  <2> QED
    BY <1>1, <2>1, <2>2, <2>3, <2>4 DEF ApiNext
<1>2. CASE BootNext
  <2>1. CASE BootRefused
    BY <2>1, DieTyped DEF BootRefused
  <2>2. CASE BootRecover
    BY <2>2, RecoverTyped DEF BootRecover
  <2>3. CASE ResumeExit
    <3>1. dbState' \in States
      BY <2>3, ProcsNamed DEF ResumeExit, WorkerOK, StoreOK
    <3> QED
      BY <2>3, <3>1, GoneTyped DEF ResumeExit
  <2>4. CASE Boot \/ BootSync \/ ResumeGate \/ ResumeArm \/ ResumeFail
    BY <2>4 DEF Boot, BootSync, ResumeGate, ResumeArm, ResumeFail
  <2> QED
    BY <1>2, <2>1, <2>2, <2>3, <2>4 DEF BootNext
<1>3. CASE StartNext
  BY <1>3
    DEF StartNext, StartBegin, StartRefused, StartPass, StartOverruled,
        StartRejected, StartArm, StartArmFails, StartWritten,
        StartFailureWritten
<1>4. CASE \E p \in {"command", "signal"} : StopNext(p)
  BY <1>4
    DEF StopNext, StopBegin, StopRefused, StopWritten, Drained, DrainFailed,
        Escalated, ExitWritten
<1>5. CASE HaltNext
  BY <1>5 DEF HaltNext, HaltBegin, HaltDrained, HaltAudited, HaltWritten
<1>6. CASE Complete \/ FaultNext
  <2>1. CASE Complete
    BY <2>1, CompleteTyped DEF Complete, Statuses
  <2>2. CASE CompleteFaulty
    BY <2>2, CompleteTyped DEF CompleteFaulty, Statuses
  <2>3. CASE CompleteLost
    BY <2>3, CompleteTyped DEF CompleteLost, Statuses
  <2>4. CASE (\E p \in {"command", "signal"} : CommandThrows(p))
    BY <2>4 DEF CommandThrows
  <2> QED
    BY <1>6, <2>1, <2>2, <2>3, <2>4 DEF FaultNext
<1>7. CASE Crash \/ Signal \/ Claim \/ Fallback \/ CloseWritten \/ Exit
  <2>1. CASE Crash
    BY <2>1, DieTyped DEF Crash
  <2>2. CASE Claim
    <3>1. PICK i \in DOMAIN cmds :
               cmds' = [cmds EXCEPT ![i].status = "processing"] /\ row' = i
      BY <2>2 DEF Claim
    <3>2. i \in 0 .. MaxCommands
      BY LenProperties, ControlAssumption DEF ControlAssumption
    <3> QED
      BY <2>2, <3>1, <3>2, StatusTyped DEF Claim, Statuses
  <2>3. CASE Exit
    BY <2>3, DieTyped DEF Exit
  <2>4. CASE Signal \/ Fallback \/ CloseWritten
    BY <2>4 DEF Signal, Fallback, CloseWritten
  <2> QED
    BY <1>7, <2>1, <2>2, <2>3, <2>4
<1>8. CASE HeartbeatNext \/ VenueDegraded
  BY <1>8 DEF HeartbeatNext, HeartbeatBegin, HeartbeatWrite, VenueDegraded
<1>9. CASE \E p \in Loops : ProtectionNext(p)
  BY <1>9
    DEF ProtectionNext, TickBegin, WatchdogQuiet, WatchdogRequest,
        WatchdogApply, WatchdogMoot, WatchdogWritten, StreamsHealthy,
        MarketStreamLost, UserStreamLost, PlanInactive, PlanApply, PlanWritten,
        TickThrows, TickEnd
<1>10. CASE EvaluationNext
  BY <1>10
    DEF EvaluationNext, TickError, Vetoed, Analysed, KillSwitch, Killed,
        ExecuteBegin, SubmitCheck, PreTradeReject, PostOrder, Post,
        PostRejected, DecisionWritten, ExecuteEnd
<1>11. CASE \E s \in States : LandWrite(s)
  BY <1>11 DEF LandWrite
<1>12. CASE UNCHANGED vars
  BY <1>12 DEF vars
<1> QED
  BY <1>1, <1>2, <1>3, <1>4, <1>5, <1>6, <1>7, <1>8, <1>9, <1>10, <1>11, <1>12
    DEF Next, CommandNext, SignalNext

\* The worker's activities stay well-typed.
LEMMA WorkerStep ==
  ASSUME TypeOK, [Next]_vars
  PROVE  WorkerOK'
<1> USE GotoTyped, HoldTyped, ReleaseTyped, ProcsNamed
    DEF TypeOK, WorkerOK, StoreOK, LandHeld, Outcome, Labels, States,
        PlanStates, WatchdogStates, VenueDecisions, AfterProtection, Throw
<1>1. CASE ApiNext
  <2>1. CASE \E type \in Kinds, cancel \in BOOLEAN : ApiBlock(type, cancel)
    BY <2>1 DEF ApiBlock, Append1
  <2>2. CASE \E type \in Kinds, cancel \in BOOLEAN : \E c \in Clients : ApiAdmit(c, type, cancel)
    BY <2>2 DEF ApiAdmit
  <2>3. CASE \E c \in Clients : ApiEnqueue(c)
    BY <2>3 DEF ApiEnqueue, Append1
  <2>4. CASE \E m \in Modes : ApiReadMode(m)
    BY <2>4 DEF ApiReadMode
  <2>5. CASE ApiWriteMode
    BY <2>5 DEF ApiWriteMode
  <2> QED
    BY <1>1, <2>1, <2>2, <2>3, <2>4, <2>5 DEF ApiNext
<1>2. CASE BootNext
  BY <1>2
    DEF BootNext, Boot, BootSync, BootRefused, Die, Gone, BootRecover,
        ResumeGate, ResumeArm, ResumeFail, ResumeExit
<1>3. CASE StartNext
  BY <1>3
    DEF StartNext, StartBegin, StartRefused, StartPass, StartOverruled,
        StartRejected, StartArm, StartArmFails, StartWritten,
        StartFailureWritten
<1>4. CASE \E p \in {"command", "signal"} : StopNext(p)
  <2>0. PICK p \in {"command", "signal"} : StopNext(p)
    BY <1>4
  <2>1. CASE StopBegin(p)
    BY <2>0, <2>1, StoreStep DEF StopBegin
  <2>2. CASE \/ StopRefused(p) \/ StopWritten(p) \/ Drained(p)
            \/ DrainFailed(p) \/ Escalated(p) \/ ExitWritten(p)
    BY <2>0, <2>2
      DEF StopRefused, StopWritten, Drained, DrainFailed, Escalated, ExitWritten
  <2> QED
    BY <2>0, <2>1, <2>2 DEF StopNext
<1>5. CASE HaltNext
  BY <1>5 DEF HaltNext, HaltBegin, HaltDrained, HaltAudited, HaltWritten
<1>6. CASE Complete \/ FaultNext
  BY <1>6
    DEF FaultNext, Complete, CompleteAs, CommandThrows, CompleteFaulty,
        CompleteLost
<1>7. CASE Crash \/ Signal \/ Claim \/ Fallback \/ CloseWritten \/ Exit
  BY <1>7 DEF Crash, Die, Gone, Signal, Claim, Fallback, CloseWritten, Exit
<1>8. CASE HeartbeatNext \/ VenueDegraded
  BY <1>8 DEF HeartbeatNext, HeartbeatBegin, HeartbeatWrite, VenueDegraded
<1>9. CASE \E p \in Loops : ProtectionNext(p)
  BY <1>9
    DEF ProtectionNext, TickBegin, WatchdogQuiet, WatchdogRequest,
        WatchdogApply, WatchdogMoot, WatchdogWritten, StreamsHealthy,
        MarketStreamLost, UserStreamLost, PlanInactive, PlanApply, PlanWritten,
        TickThrows, TickEnd
<1>10. CASE EvaluationNext
  <2>0. "evaluation" \in Loops /\ "evaluation" \in Procs
    BY <1>10, ProcsNamed DEF EvaluationNext
  <2>1. CASE PostOrder
    BY <2>0, <2>1, ControlAssumption DEF PostOrder, Post, ControlAssumption
  <2>2. CASE PostRejected
    BY <2>0, <2>2, ControlAssumption DEF PostRejected, Post, ControlAssumption
  <2>3. CASE \/ TickError \/ Vetoed \/ Analysed \/ KillSwitch \/ Killed
            \/ ExecuteBegin \/ SubmitCheck \/ PreTradeReject
            \/ DecisionWritten \/ ExecuteEnd
    BY <2>0, <2>3
      DEF TickError, Vetoed, Analysed, KillSwitch, Killed, ExecuteBegin,
          SubmitCheck, PreTradeReject, DecisionWritten, ExecuteEnd
  <2> QED
    BY <1>10, <2>1, <2>2, <2>3 DEF EvaluationNext
<1>11. CASE \E s \in States : LandWrite(s)
  BY <1>11 DEF LandWrite
<1>12. CASE UNCHANGED vars
  BY <1>12 DEF vars
<1> QED
  BY <1>1, <1>2, <1>3, <1>4, <1>5, <1>6, <1>7, <1>8, <1>9, <1>10, <1>11, <1>12
    DEF Next, CommandNext, SignalNext

\* Every state of the control plane is well-typed.
THEOREM TypeCorrect == Spec => []TypeOK
<1>1. Init => TypeOK
  <2> SUFFICES ASSUME Init PROVE TypeOK
    OBVIOUS
  <2>1. TableOK
    BY EmptySeq, ControlAssumption DEF Init, TableOK, NoModeUpdate, ControlAssumption
  <2>2. Cardinality({}) = 0
    BY FS_EmptySet
  <2>3. file = [state |-> "stopped", mode |-> "live_trading"] /\ memMode = "live_trading"
    BY DEF Init
  <2>4. dbState = "stopped" /\ mem = "stopped" /\ writes = {} /\ late = 0
    BY DEF Init
  <2>5. latched \in BOOLEAN /\ vetoed \in BOOLEAN
    BY Zenon DEF Init
  <2>6. file \in [state : States, mode : Modes] /\ memMode \in Modes
    BY <2>3 DEF States, Modes
  <2>7. StoreOK
    BY <2>2, <2>4, <2>5, <2>6, ControlAssumption DEF StoreOK, States, ControlAssumption
  <2>8. pc \in [Procs -> Labels] /\ held \in [Procs -> States]
    BY DEF Init, Labels, States
  <2>9. used \in [crashes : Nat, signals : Nat, switches : Nat]
    BY DEF Init
  <2>10. timers = {} /\ execMode = "sentinel_simulation" /\ orders = 0
    BY DEF Init
  <2>11. WorkerOK
    BY <2>5, <2>8, <2>9, <2>10, ControlAssumption DEF WorkerOK, Modes, ControlAssumption
  <2> QED
    BY <2>1, <2>7, <2>11 DEF TypeOK
<1>2. TypeOK /\ [Next]_vars => TypeOK'
  BY StoreStep, TableStep, WorkerStep DEF TypeOK
<1> QED
  BY <1>1, <1>2, PTL DEF Spec
-----------------------------------------------------------------------------
(* At most one active command of a kind                                     *)

\* Nothing runs in a worker that is not up: its activities are idle and no loop
\* is armed (start(), crashes and exits in BotRuntime and main.ts).
Dormant ==
  pc["main"] \notin {"up", "closing"} =>
    timers = {} /\ \A p \in Procs \ {"main"} : pc[p] = "idle"

\* A busy command processor works on a row that is in processing.
Rows == pc["command"] # "idle" => row \in DOMAIN cmds /\ cmds[row].status = "processing"

\* The interval loops are activities of their own.
LEMMA LoopsApart ==
  Loops \cap {"main", "command", "signal", "heartbeat"} = {}
BY ControlAssumption DEF ControlAssumption, LoopNames

\* Only a worker that is up starts anything.
LEMMA DormantStep ==
  ASSUME TypeOK, Dormant, [Next]_vars
  PROVE  Dormant'
<1> USE ProcsNamed, LoopsApart
    DEF TypeOK, WorkerOK, Dormant, Up, Command, Stopping, Goto, Outcome,
        LandHeld, Throw, AfterProtection
<1>1. CASE ApiNext
  BY <1>1
    DEF ApiNext, ApiBlock, Append1, ApiAdmit, ApiEnqueue, ApiReadMode,
        ApiWriteMode
<1>2. CASE BootNext
  BY <1>2
    DEF BootNext, Boot, BootSync, BootRefused, Die, Gone, BootRecover,
        ResumeGate, ResumeArm, ResumeFail, ResumeExit
<1>3. CASE StartNext
  BY <1>3
    DEF StartNext, StartBegin, StartRefused, StartPass, StartOverruled,
        StartRejected, StartArm, StartArmFails, StartWritten,
        StartFailureWritten
<1>4. CASE \E p \in {"command", "signal"} : StopNext(p)
  BY <1>4
    DEF StopNext, StopBegin, StopRefused, StopWritten, Drained, DrainFailed,
        Escalated, ExitWritten
<1>5. CASE HaltNext
  BY <1>5 DEF HaltNext, HaltBegin, HaltDrained, HaltAudited, HaltWritten
<1>6. CASE Complete \/ FaultNext
  BY <1>6
    DEF FaultNext, Complete, CompleteAs, CommandThrows, CompleteFaulty,
        CompleteLost
<1>7. CASE Crash \/ Signal \/ Claim \/ Fallback \/ CloseWritten \/ Exit
  BY <1>7 DEF Crash, Die, Gone, Signal, Claim, Fallback, CloseWritten, Exit
<1>8. CASE HeartbeatNext \/ VenueDegraded
  BY <1>8 DEF HeartbeatNext, HeartbeatBegin, HeartbeatWrite, VenueDegraded
<1>9. CASE \E p \in Loops : ProtectionNext(p)
  BY <1>9
    DEF ProtectionNext, TickBegin, WatchdogQuiet, WatchdogRequest,
        WatchdogApply, WatchdogMoot, WatchdogWritten, StreamsHealthy,
        MarketStreamLost, UserStreamLost, PlanInactive, PlanApply, PlanWritten,
        TickThrows, TickEnd
<1>10. CASE EvaluationNext
  BY <1>10
    DEF EvaluationNext, TickError, Vetoed, Analysed, KillSwitch, Killed,
        ExecuteBegin, SubmitCheck, PreTradeReject, PostOrder, Post,
        PostRejected, DecisionWritten, ExecuteEnd
<1>11. CASE \E s \in States : LandWrite(s)
  BY <1>11 DEF LandWrite
<1>12. CASE UNCHANGED vars
  BY <1>12 DEF vars
<1> QED
  BY <1>1, <1>2, <1>3, <1>4, <1>5, <1>6, <1>7, <1>8, <1>9, <1>10, <1>11, <1>12
    DEF Next, CommandNext, SignalNext

\* A new row leaves the others where and as they were.
LEMMA AppendKeeps ==
  ASSUME TableOK, NEW type, NEW cancel, NEW status, Append1(type, cancel, status)
  PROVE  /\ DOMAIN cmds' = DOMAIN cmds \cup {Len(cmds) + 1}
         /\ \A i \in DOMAIN cmds : cmds'[i] = cmds[i]
         /\ cmds'[Len(cmds) + 1] = [type |-> type, cancel |-> cancel, status |-> status]
<1>1. Len(cmds) \in Nat /\ DOMAIN cmds = 1 .. Len(cmds)
  BY LenProperties DEF TableOK
<1> QED
  BY <1>1 DEF TableOK, Append1

\* The row of a busy processor stays in processing until it is answered.
LEMMA RowsStep ==
  ASSUME TypeOK, Dormant, Rows, [Next]_vars
  PROVE  Rows'
<1> USE ProcsNamed, LoopsApart
    DEF TypeOK, WorkerOK, Dormant, Rows, Up, Command, Stopping, Goto, Outcome,
        LandHeld, Throw, AfterProtection
<1>1. CASE ApiNext
  <2>1. CASE \E type \in Kinds, cancel \in BOOLEAN : ApiBlock(type, cancel)
    BY <2>1, AppendKeeps DEF ApiBlock
  <2>2. CASE \E c \in Clients : ApiEnqueue(c)
    <3>1. PICK type, cancel, status : Append1(type, cancel, status)
      BY <2>2 DEF ApiEnqueue
    <3>2. row \in DOMAIN cmds => row \in DOMAIN cmds' /\ cmds'[row] = cmds[row]
      BY <3>1, AppendKeeps
    <3>3. UNCHANGED <<pc, row, verdict, mem>>
      BY <2>2 DEF ApiEnqueue
    <3> QED
      BY <3>2, <3>3
  <2>3. CASE \/ (\E type \in Kinds, cancel \in BOOLEAN : \E c \in Clients : ApiAdmit(c, type, cancel))
            \/ (\E m \in Modes : ApiReadMode(m)) \/ ApiWriteMode
    BY <2>3 DEF ApiAdmit, ApiReadMode, ApiWriteMode
  <2> QED
    BY <1>1, <2>1, <2>2, <2>3 DEF ApiNext
<1>2. CASE BootNext
  BY <1>2
    DEF BootNext, Boot, BootSync, BootRefused, Die, Gone, BootRecover,
        ResumeGate, ResumeArm, ResumeFail, ResumeExit
<1>3. CASE StartNext
  BY <1>3
    DEF StartNext, StartBegin, StartRefused, StartPass, StartOverruled,
        StartRejected, StartArm, StartArmFails, StartWritten,
        StartFailureWritten
<1>4. CASE \E p \in {"command", "signal"} : StopNext(p)
  BY <1>4
    DEF StopNext, StopBegin, StopRefused, StopWritten, Drained, DrainFailed,
        Escalated, ExitWritten
<1>5. CASE HaltNext
  BY <1>5 DEF HaltNext, HaltBegin, HaltDrained, HaltAudited, HaltWritten
<1>6. CASE Complete \/ FaultNext
  BY <1>6
    DEF FaultNext, Complete, CompleteAs, CommandThrows, CompleteFaulty,
        CompleteLost
<1>7. CASE Crash \/ Signal \/ Claim \/ Fallback \/ CloseWritten \/ Exit
  <2>1. CASE Claim
    <3>1. PICK i \in DOMAIN cmds :
               cmds' = [cmds EXCEPT ![i].status = "processing"] /\ row' = i
      BY <2>1 DEF Claim
    <3>2. cmds[i] \in Row
      BY DEF TableOK
    <3>3. DOMAIN cmds' = DOMAIN cmds /\ cmds'[i].status = "processing"
      BY <3>1, <3>2 DEF Row
    <3> QED
      BY <3>1, <3>3
  <2>2. CASE Crash \/ Signal \/ Fallback \/ CloseWritten \/ Exit
    BY <2>2 DEF Crash, Die, Gone, Signal, Fallback, CloseWritten, Exit
  <2> QED
    BY <1>7, <2>1, <2>2
<1>8. CASE HeartbeatNext \/ VenueDegraded
  BY <1>8 DEF HeartbeatNext, HeartbeatBegin, HeartbeatWrite, VenueDegraded
<1>9. CASE \E p \in Loops : ProtectionNext(p)
  BY <1>9
    DEF ProtectionNext, TickBegin, WatchdogQuiet, WatchdogRequest,
        WatchdogApply, WatchdogMoot, WatchdogWritten, StreamsHealthy,
        MarketStreamLost, UserStreamLost, PlanInactive, PlanApply, PlanWritten,
        TickThrows, TickEnd
<1>10. CASE EvaluationNext
  BY <1>10
    DEF EvaluationNext, TickError, Vetoed, Analysed, KillSwitch, Killed,
        ExecuteBegin, SubmitCheck, PreTradeReject, PostOrder, Post,
        PostRejected, DecisionWritten, ExecuteEnd
<1>11. CASE \E s \in States : LandWrite(s)
  BY <1>11 DEF LandWrite
<1>12. CASE UNCHANGED vars
  BY <1>12 DEF vars
<1> QED
  BY <1>1, <1>2, <1>3, <1>4, <1>5, <1>6, <1>7, <1>8, <1>9, <1>10, <1>11, <1>12
    DEF Next, CommandNext, SignalNext

\* Rows whose set of active rows only shrinks, of the same kinds, stay single.
LEMMA SingleShrinks ==
  ASSUME SingleActive, DOMAIN cmds' = DOMAIN cmds,
         \A i \in DOMAIN cmds :
           cmds'[i].type = cmds[i].type /\ (Active(cmds'[i]) => Active(cmds[i]))
  PROVE  SingleActive'
BY DEF SingleActive

\* A row that does not compete with an active one may join the table.
LEMMA SingleGrows ==
  ASSUME TableOK, SingleActive, NEW type, NEW cancel, NEW status,
         Append1(type, cancel, status),
         Active([type |-> type, cancel |-> cancel, status |-> status])
           => \A i \in DOMAIN cmds : Active(cmds[i]) => cmds[i].type # type
  PROVE  SingleActive'
BY AppendKeeps DEF SingleActive

\* Enqueueing checks for an active row of the kind in the same transaction.
LEMMA SingleStep ==
  ASSUME TypeOK, Dormant, Rows, SingleActive, [Next]_vars
  PROVE  SingleActive'
<1> USE DEF SingleActive, Active, TypeOK, TableOK, LandHeld
<1>1. CASE ApiNext
  <2>1. CASE \E type \in Kinds, cancel \in BOOLEAN : ApiBlock(type, cancel)
    BY <2>1, SingleGrows DEF ApiBlock
  <2>2. CASE \E c \in Clients : ApiEnqueue(c)
    <3>1. PICK c \in Clients : ApiEnqueue(c)
      BY <2>2
    <3> QED
      BY <3>1, SingleGrows DEF ApiEnqueue
  <2>3. CASE \/ (\E type \in Kinds, cancel \in BOOLEAN : \E c \in Clients : ApiAdmit(c, type, cancel))
            \/ (\E m \in Modes : ApiReadMode(m)) \/ ApiWriteMode
    BY <2>3 DEF ApiAdmit, ApiReadMode, ApiWriteMode
  <2> QED
    BY <1>1, <2>1, <2>2, <2>3 DEF ApiNext
<1>2. CASE BootNext
  <2>1. CASE BootRecover
    BY <2>1, SingleShrinks DEF BootRecover, Row
  <2>2. CASE \/ Boot \/ BootSync \/ BootRefused \/ ResumeGate \/ ResumeArm
            \/ ResumeFail \/ ResumeExit
    BY <2>2
      DEF Boot, BootSync, BootRefused, Die, Gone, ResumeGate, ResumeArm,
          ResumeFail, ResumeExit
  <2> QED
    BY <1>2, <2>1, <2>2 DEF BootNext
<1>3. CASE StartNext
  BY <1>3
    DEF StartNext, StartBegin, StartRefused, StartPass, StartOverruled,
        StartRejected, StartArm, StartArmFails, StartWritten,
        StartFailureWritten
<1>4. CASE \E p \in {"command", "signal"} : StopNext(p)
  BY <1>4
    DEF StopNext, StopBegin, StopRefused, StopWritten, Drained, DrainFailed,
        Escalated, ExitWritten
<1>5. CASE HaltNext
  BY <1>5 DEF HaltNext, HaltBegin, HaltDrained, HaltAudited, HaltWritten
<1>6. CASE Complete \/ FaultNext
  <2>1. CASE Complete
    <3>1. PICK status \in Statuses : CompleteAs(status)
      BY <2>1 DEF Complete, Statuses
    <3> QED
      BY <2>1, <3>1, SingleShrinks DEF CompleteAs, Rows, Row
  <2>2. CASE CompleteFaulty
    <3>1. PICK status \in Statuses : CompleteAs(status)
      BY <2>2 DEF CompleteFaulty, Statuses
    <3> QED
      BY <2>2, <3>1, SingleShrinks DEF CompleteAs, Rows, Row
  <2>3. CASE CompleteLost
    <3>1. PICK status \in Statuses : CompleteAs(status)
      BY <2>3 DEF CompleteLost, Statuses
    <3> QED
      BY <2>3, <3>1, SingleShrinks DEF CompleteAs, Rows, Row
  <2>4. CASE (\E p \in {"command", "signal"} : CommandThrows(p))
    BY <2>4 DEF CommandThrows
  <2> QED
    BY <1>6, <2>1, <2>2, <2>3, <2>4 DEF FaultNext
<1>7. CASE Crash \/ Signal \/ Claim \/ Fallback \/ CloseWritten \/ Exit
  <2>1. CASE Claim
    <3>1. PICK i \in DOMAIN cmds : /\ cmds[i].status = "pending"
                                 /\ cmds' = [cmds EXCEPT ![i].status = "processing"]
      BY <2>1 DEF Claim, Oldest
    <3> QED
      BY <3>1, SingleShrinks DEF Row
  <2>2. CASE Crash \/ Signal \/ Fallback \/ CloseWritten \/ Exit
    BY <2>2 DEF Crash, Die, Gone, Signal, Fallback, CloseWritten, Exit
  <2> QED
    BY <1>7, <2>1, <2>2
<1>8. CASE HeartbeatNext \/ VenueDegraded
  BY <1>8 DEF HeartbeatNext, HeartbeatBegin, HeartbeatWrite, VenueDegraded
<1>9. CASE \E p \in Loops : ProtectionNext(p)
  BY <1>9
    DEF ProtectionNext, TickBegin, WatchdogQuiet, WatchdogRequest,
        WatchdogApply, WatchdogMoot, WatchdogWritten, StreamsHealthy,
        MarketStreamLost, UserStreamLost, PlanInactive, PlanApply, PlanWritten,
        TickThrows, TickEnd
<1>10. CASE EvaluationNext
  BY <1>10
    DEF EvaluationNext, TickError, Vetoed, Analysed, KillSwitch, Killed,
        ExecuteBegin, SubmitCheck, PreTradeReject, PostOrder, Post,
        PostRejected, DecisionWritten, ExecuteEnd
<1>11. CASE \E s \in States : LandWrite(s)
  BY <1>11 DEF LandWrite
<1>12. CASE UNCHANGED vars
  BY <1>12 DEF vars
<1> QED
  BY <1>1, <1>2, <1>3, <1>4, <1>5, <1>6, <1>7, <1>8, <1>9, <1>10, <1>11, <1>12
    DEF Next, CommandNext, SignalNext

\* At most one command of a kind is active: two starts, stops or halts never
\* compete in the queue, however many clients ask for them.
THEOREM OneActiveCommand == Spec => []SingleActive
<1>1. Init => Dormant /\ Rows /\ SingleActive
  BY DEF Init, Dormant, Rows, SingleActive, Procs
<1>2. TypeOK /\ Dormant /\ Rows /\ SingleActive /\ [Next]_vars
        => (Dormant /\ Rows /\ SingleActive)'
  BY DormantStep, RowsStep, SingleStep
<1> QED
  BY <1>1, <1>2, TypeCorrect, PTL DEF Spec
-----------------------------------------------------------------------------
(* At most one late order                                                   *)

\* Late orders since the runtime last ran: none while it runs, none yet when the
\* loop has just asked canSubmit(), one at most otherwise.
Late ==
  /\ late <= 1
  /\ mem = "running" \/ pc["main"] = "down" => late = 0
  /\ "evaluation" \in Loops /\ pc["evaluation"] = "posting" => late = 0

\* setState keeps the count, and clears it on entering "running".
LEMMA MoveLate ==
  ASSUME Late, NEW s, Move(s)
  PROVE  late' <= 1 /\ (mem' = "running" => late' = 0) /\ (late = 0 => late' = 0)
BY DEF Late, Move

\* The loop asks canSubmit() again before every order (ExecuteOrdersJob.run).
LEMMA LateStep ==
  ASSUME TypeOK, Dormant, Late, [Next]_vars
  PROVE  Late'
<1> USE MoveLate, ProcsNamed, LoopsApart
    DEF TypeOK, WorkerOK, StoreOK, Dormant, Late, Enter, AllowNewEntries, Goto,
        Outcome, LandHeld, Throw, AfterProtection
<1>1. CASE ApiNext
  BY <1>1
    DEF ApiNext, ApiBlock, Append1, ApiAdmit, ApiEnqueue, ApiReadMode,
        ApiWriteMode
<1>2. CASE BootNext
  BY <1>2
    DEF BootNext, Boot, BootSync, BootRefused, Die, Gone, BootRecover,
        ResumeGate, ResumeArm, ResumeFail, ResumeExit
<1>3. CASE StartNext
  BY <1>3
    DEF StartNext, StartBegin, StartRefused, StartPass, StartOverruled,
        StartRejected, StartArm, StartArmFails, StartWritten,
        StartFailureWritten
<1>4. CASE \E p \in {"command", "signal"} : StopNext(p)
  BY <1>4
    DEF StopNext, StopBegin, StopRefused, StopWritten, Drained, DrainFailed,
        Escalated, ExitWritten
<1>5. CASE HaltNext
  BY <1>5 DEF HaltNext, HaltBegin, HaltDrained, HaltAudited, HaltWritten
<1>6. CASE Complete \/ FaultNext
  BY <1>6
    DEF FaultNext, Complete, CompleteAs, CommandThrows, CompleteFaulty,
        CompleteLost
<1>7. CASE Crash \/ Signal \/ Claim \/ Fallback \/ CloseWritten \/ Exit
  BY <1>7 DEF Crash, Die, Gone, Signal, Claim, Fallback, CloseWritten, Exit
<1>8. CASE HeartbeatNext \/ VenueDegraded
  BY <1>8 DEF HeartbeatNext, HeartbeatBegin, HeartbeatWrite, VenueDegraded
<1>9. CASE \E p \in Loops : ProtectionNext(p)
  BY <1>9
    DEF ProtectionNext, TickBegin, WatchdogQuiet, WatchdogRequest,
        WatchdogApply, WatchdogMoot, WatchdogWritten, StreamsHealthy,
        MarketStreamLost, UserStreamLost, PlanInactive, PlanApply, PlanWritten,
        TickThrows, TickEnd
<1>10. CASE EvaluationNext
  <2>0. "evaluation" \in Loops /\ "evaluation" \in Procs
    BY <1>10, ProcsNamed DEF EvaluationNext
  <2>1. CASE PostOrder
    BY <2>0, <2>1 DEF PostOrder, Post
  <2>2. CASE PostRejected
    BY <2>0, <2>2 DEF PostRejected, Post
  <2>3. CASE \/ TickError \/ Vetoed \/ Analysed \/ KillSwitch \/ Killed
            \/ ExecuteBegin \/ SubmitCheck \/ PreTradeReject
            \/ DecisionWritten \/ ExecuteEnd
    BY <2>0, <2>3
      DEF TickError, Vetoed, Analysed, KillSwitch, Killed, ExecuteBegin,
          SubmitCheck, PreTradeReject, DecisionWritten, ExecuteEnd
  <2> QED
    BY <1>10, <2>1, <2>2, <2>3 DEF EvaluationNext
<1>11. CASE \E s \in States : LandWrite(s)
  BY <1>11 DEF LandWrite
<1>12. CASE UNCHANGED vars
  BY <1>12 DEF vars
<1> QED
  BY <1>1, <1>2, <1>3, <1>4, <1>5, <1>6, <1>7, <1>8, <1>9, <1>10, <1>11, <1>12
    DEF Next, CommandNext, SignalNext

\* However long the job awaits between its check and the venue call, one order at
\* most follows the runtime's departure from "running".
THEOREM OneLateOrder == Spec => []LateOrderBound
<1>1. Init => Dormant /\ Late
  BY DEF Init, Dormant, Late, Procs
<1>2. TypeOK /\ Dormant /\ Late /\ [Next]_vars => (Dormant /\ Late)'
  BY DormantStep, LateStep
<1>3. Late => LateOrderBound
  BY DEF Late, LateOrderBound
<1> QED
  BY <1>1, <1>2, <1>3, TypeCorrect, PTL DEF Spec
-----------------------------------------------------------------------------
(* A stop or a halt is acknowledged truthfully                              *)

\* The commands that may be suspended in the middle of a start, and the points
\* of a stop or a halt after which the runtime is idle.
Starting == {"gate", "arming", "startWrite", "startFailed"}
Ending == {"escalate", "exitWrite", "haltDrain", "haltAudit", "haltWrite"}

StartRow == pc["command"] \in Starting => cmds[row].type = "start"
Requests == \A p \in Loops : pc[p] = "watchdog" => held[p] \in WatchdogStates
Settled == pc["command"] \in Ending => mem \in Idle

\* A stop or halt that is ending, or is about to be acknowledged as applied,
\* leaves the runtime idle; only a start can take it out of there.
Truth == StartRow /\ Requests /\ Settled /\ AcknowledgedTruth

\* From idle the diagram leads only to "bootstrapping" and back to idle.
LEMMA IdleMoves ==
  ASSUME NEW s, mem \in Idle, Move(s), s # "bootstrapping"
  PROVE  mem' \in Idle
BY DEF Move, CanTransition, LegalTransitions, Idle, States

\* Only a start command is suspended in the middle of a start.
LEMMA StartRowStep ==
  ASSUME TypeOK, Dormant, Rows, StartRow, [Next]_vars
  PROVE  StartRow'
<1> USE ProcsNamed, LoopsApart
    DEF TypeOK, WorkerOK, Dormant, Rows, StartRow, Starting, Up, Command,
        Stopping, Goto, Outcome, LandHeld, Throw, AfterProtection
<1>1. CASE ApiNext
  <2>1. CASE \E type \in Kinds, cancel \in BOOLEAN : ApiBlock(type, cancel)
    BY <2>1, AppendKeeps DEF ApiBlock
  <2>2. CASE \E c \in Clients : ApiEnqueue(c)
    <3>1. PICK type, cancel, status : Append1(type, cancel, status)
      BY <2>2 DEF ApiEnqueue
    <3>2. row \in DOMAIN cmds => row \in DOMAIN cmds' /\ cmds'[row] = cmds[row]
      BY <3>1, AppendKeeps
    <3>3. UNCHANGED <<pc, row, verdict, mem>>
      BY <2>2 DEF ApiEnqueue
    <3> QED
      BY <3>2, <3>3
  <2>3. CASE \/ (\E type \in Kinds, cancel \in BOOLEAN : \E c \in Clients : ApiAdmit(c, type, cancel))
            \/ (\E m \in Modes : ApiReadMode(m)) \/ ApiWriteMode
    BY <2>3 DEF ApiAdmit, ApiReadMode, ApiWriteMode
  <2> QED
    BY <1>1, <2>1, <2>2, <2>3 DEF ApiNext
<1>2. CASE BootNext
  BY <1>2
    DEF BootNext, Boot, BootSync, BootRefused, Die, Gone, BootRecover,
        ResumeGate, ResumeArm, ResumeFail, ResumeExit
<1>3. CASE StartNext
  BY <1>3
    DEF StartNext, StartBegin, StartRefused, StartPass, StartOverruled,
        StartRejected, StartArm, StartArmFails, StartWritten,
        StartFailureWritten
<1>4. CASE \E p \in {"command", "signal"} : StopNext(p)
  BY <1>4
    DEF StopNext, StopBegin, StopRefused, StopWritten, Drained, DrainFailed,
        Escalated, ExitWritten
<1>5. CASE HaltNext
  BY <1>5 DEF HaltNext, HaltBegin, HaltDrained, HaltAudited, HaltWritten
<1>6. CASE Complete \/ FaultNext
  BY <1>6
    DEF FaultNext, Complete, CompleteAs, CommandThrows, CompleteFaulty,
        CompleteLost
<1>7. CASE Crash \/ Signal \/ Claim \/ Fallback \/ CloseWritten \/ Exit
  BY <1>7 DEF Crash, Die, Gone, Signal, Claim, Fallback, CloseWritten, Exit
<1>8. CASE HeartbeatNext \/ VenueDegraded
  BY <1>8 DEF HeartbeatNext, HeartbeatBegin, HeartbeatWrite, VenueDegraded
<1>9. CASE \E p \in Loops : ProtectionNext(p)
  BY <1>9
    DEF ProtectionNext, TickBegin, WatchdogQuiet, WatchdogRequest,
        WatchdogApply, WatchdogMoot, WatchdogWritten, StreamsHealthy,
        MarketStreamLost, UserStreamLost, PlanInactive, PlanApply, PlanWritten,
        TickThrows, TickEnd
<1>10. CASE EvaluationNext
  BY <1>10
    DEF EvaluationNext, TickError, Vetoed, Analysed, KillSwitch, Killed,
        ExecuteBegin, SubmitCheck, PreTradeReject, PostOrder, Post,
        PostRejected, DecisionWritten, ExecuteEnd
<1>11. CASE \E s \in States : LandWrite(s)
  BY <1>11 DEF LandWrite
<1>12. CASE UNCHANGED vars
  BY <1>12 DEF vars
<1> QED
  BY <1>1, <1>2, <1>3, <1>4, <1>5, <1>6, <1>7, <1>8, <1>9, <1>10, <1>11, <1>12
    DEF Next, CommandNext, SignalNext

\* The watchdog asks for downgrades only.
LEMMA RequestsStep ==
  ASSUME TypeOK, Requests, [Next]_vars
  PROVE  Requests'
<1> USE ProcsNamed, LoopsApart
    DEF TypeOK, WorkerOK, Requests, WatchdogStates, Hold, Release, Goto,
        Outcome, LandHeld, Throw, AfterProtection
<1>1. CASE ApiNext
  BY <1>1
    DEF ApiNext, ApiBlock, Append1, ApiAdmit, ApiEnqueue, ApiReadMode,
        ApiWriteMode
<1>2. CASE BootNext
  BY <1>2
    DEF BootNext, Boot, BootSync, BootRefused, Die, Gone, BootRecover,
        ResumeGate, ResumeArm, ResumeFail, ResumeExit
<1>3. CASE StartNext
  BY <1>3
    DEF StartNext, StartBegin, StartRefused, StartPass, StartOverruled,
        StartRejected, StartArm, StartArmFails, StartWritten,
        StartFailureWritten
<1>4. CASE \E p \in {"command", "signal"} : StopNext(p)
  <2>0. PICK p \in {"command", "signal"} : StopNext(p)
    BY <1>4
  <2>1. CASE \/ StopBegin(p) \/ StopRefused(p) \/ StopWritten(p) \/ Drained(p)
            \/ DrainFailed(p) \/ Escalated(p) \/ ExitWritten(p)
    BY <2>0, <2>1
      DEF StopBegin, StopRefused, StopWritten, Drained, DrainFailed, Escalated,
          ExitWritten
  <2> QED
    BY <2>0, <2>1 DEF StopNext
<1>5. CASE HaltNext
  BY <1>5 DEF HaltNext, HaltBegin, HaltDrained, HaltAudited, HaltWritten
<1>6. CASE Complete \/ FaultNext
  BY <1>6
    DEF FaultNext, Complete, CompleteAs, CommandThrows, CompleteFaulty,
        CompleteLost
<1>7. CASE Crash \/ Signal \/ Claim \/ Fallback \/ CloseWritten \/ Exit
  BY <1>7 DEF Crash, Die, Gone, Signal, Claim, Fallback, CloseWritten, Exit
<1>8. CASE HeartbeatNext \/ VenueDegraded
  BY <1>8 DEF HeartbeatNext, HeartbeatBegin, HeartbeatWrite, VenueDegraded
<1>9. CASE \E p \in Loops : ProtectionNext(p)
  BY <1>9
    DEF ProtectionNext, TickBegin, WatchdogQuiet, WatchdogRequest,
        WatchdogApply, WatchdogMoot, WatchdogWritten, StreamsHealthy,
        MarketStreamLost, UserStreamLost, PlanInactive, PlanApply, PlanWritten,
        TickThrows, TickEnd
<1>10. CASE EvaluationNext
  BY <1>10
    DEF EvaluationNext, TickError, Vetoed, Analysed, KillSwitch, Killed,
        ExecuteBegin, SubmitCheck, PreTradeReject, PostOrder, Post,
        PostRejected, DecisionWritten, ExecuteEnd
<1>11. CASE \E s \in States : LandWrite(s)
  BY <1>11 DEF LandWrite
<1>12. CASE UNCHANGED vars
  BY <1>12 DEF vars
<1> QED
  BY <1>1, <1>2, <1>3, <1>4, <1>5, <1>6, <1>7, <1>8, <1>9, <1>10, <1>11, <1>12
    DEF Next, CommandNext, SignalNext

\* Nothing leads an ending stop or halt out of idle.
LEMMA SettledStep ==
  ASSUME TypeOK, Dormant, Requests, Settled, [Next]_vars
  PROVE  Settled'
<1> USE IdleMoves, ProcsNamed, LoopsApart
    DEF TypeOK, WorkerOK, Dormant, Requests, Settled, Ending, Idle,
        WatchdogStates, PlanStates, Enter, Up, Command, Stopping, Goto, Outcome,
        LandHeld, Throw, AfterProtection, Move
<1>1. CASE ApiNext
  BY <1>1
    DEF ApiNext, ApiBlock, Append1, ApiAdmit, ApiEnqueue, ApiReadMode,
        ApiWriteMode
<1>2. CASE BootNext
  BY <1>2
    DEF BootNext, Boot, BootSync, BootRefused, Die, Gone, BootRecover,
        ResumeGate, ResumeArm, ResumeFail, ResumeExit
<1>3. CASE StartNext
  BY <1>3
    DEF StartNext, StartBegin, StartRefused, StartPass, StartOverruled,
        StartRejected, StartArm, StartArmFails, StartWritten,
        StartFailureWritten
<1>4. CASE \E p \in {"command", "signal"} : StopNext(p)
  BY <1>4
    DEF StopNext, StopBegin, StopRefused, StopWritten, Drained, DrainFailed,
        Escalated, ExitWritten
<1>5. CASE HaltNext
  BY <1>5 DEF HaltNext, HaltBegin, HaltDrained, HaltAudited, HaltWritten
<1>6. CASE Complete \/ FaultNext
  BY <1>6
    DEF FaultNext, Complete, CompleteAs, CommandThrows, CompleteFaulty,
        CompleteLost
<1>7. CASE Crash \/ Signal \/ Claim \/ Fallback \/ CloseWritten \/ Exit
  BY <1>7 DEF Crash, Die, Gone, Signal, Claim, Fallback, CloseWritten, Exit
<1>8. CASE HeartbeatNext \/ VenueDegraded
  BY <1>8 DEF HeartbeatNext, HeartbeatBegin, HeartbeatWrite, VenueDegraded
<1>9. CASE \E p \in Loops : ProtectionNext(p)
  BY <1>9
    DEF ProtectionNext, TickBegin, WatchdogQuiet, WatchdogRequest,
        WatchdogApply, WatchdogMoot, WatchdogWritten, StreamsHealthy,
        MarketStreamLost, UserStreamLost, PlanInactive, PlanApply, PlanWritten,
        TickThrows, TickEnd
<1>10. CASE EvaluationNext
  <2>0. "evaluation" \in Loops /\ "evaluation" \in Procs
    BY <1>10, ProcsNamed DEF EvaluationNext
  <2>1. CASE \/ TickError \/ Vetoed \/ Analysed \/ KillSwitch \/ Killed
            \/ ExecuteBegin \/ SubmitCheck \/ PreTradeReject \/ PostOrder
            \/ PostRejected \/ DecisionWritten \/ ExecuteEnd
    BY <2>0, <2>1
      DEF TickError, Vetoed, Analysed, KillSwitch, Killed, ExecuteBegin,
          SubmitCheck, PreTradeReject, PostOrder, Post, PostRejected,
          DecisionWritten, ExecuteEnd
  <2> QED
    BY <1>10, <2>1 DEF EvaluationNext
<1>11. CASE \E s \in States : LandWrite(s)
  BY <1>11 DEF LandWrite
<1>12. CASE UNCHANGED vars
  BY <1>12 DEF vars
<1> QED
  BY <1>1, <1>2, <1>3, <1>4, <1>5, <1>6, <1>7, <1>8, <1>9, <1>10, <1>11, <1>12
    DEF Next, CommandNext, SignalNext

\* Nor one that is about to be acknowledged.
LEMMA AcknowledgedStep ==
  ASSUME TypeOK, Dormant, Rows, Truth, [Next]_vars
  PROVE  AcknowledgedTruth'
<1> USE IdleMoves, ProcsNamed, LoopsApart
    DEF TypeOK, WorkerOK, Dormant, Requests, Settled, Ending, Idle,
        WatchdogStates, PlanStates, Enter, Up, Command, Stopping, Goto, Outcome,
        LandHeld, Throw, AfterProtection, Rows, Truth, StartRow, Starting,
        AcknowledgedTruth, Move
<1>1. CASE ApiNext
  <2>1. CASE \E type \in Kinds, cancel \in BOOLEAN : ApiBlock(type, cancel)
    BY <2>1, AppendKeeps DEF ApiBlock
  <2>2. CASE \E c \in Clients : ApiEnqueue(c)
    <3>1. PICK type, cancel, status : Append1(type, cancel, status)
      BY <2>2 DEF ApiEnqueue
    <3>2. row \in DOMAIN cmds => row \in DOMAIN cmds' /\ cmds'[row] = cmds[row]
      BY <3>1, AppendKeeps
    <3>3. UNCHANGED <<pc, row, verdict, mem>>
      BY <2>2 DEF ApiEnqueue
    <3> QED
      BY <3>2, <3>3
  <2>3. CASE \/ (\E type \in Kinds, cancel \in BOOLEAN : \E c \in Clients : ApiAdmit(c, type, cancel))
            \/ (\E m \in Modes : ApiReadMode(m)) \/ ApiWriteMode
    BY <2>3 DEF ApiAdmit, ApiReadMode, ApiWriteMode
  <2> QED
    BY <1>1, <2>1, <2>2, <2>3 DEF ApiNext
<1>2. CASE BootNext
  BY <1>2
    DEF BootNext, Boot, BootSync, BootRefused, Die, Gone, BootRecover,
        ResumeGate, ResumeArm, ResumeFail, ResumeExit
<1>3. CASE StartNext
  BY <1>3
    DEF StartNext, StartBegin, StartRefused, StartPass, StartOverruled,
        StartRejected, StartArm, StartArmFails, StartWritten,
        StartFailureWritten
<1>4. CASE \E p \in {"command", "signal"} : StopNext(p)
  BY <1>4
    DEF StopNext, StopBegin, StopRefused, StopWritten, Drained, DrainFailed,
        Escalated, ExitWritten
<1>5. CASE HaltNext
  BY <1>5 DEF HaltNext, HaltBegin, HaltDrained, HaltAudited, HaltWritten
<1>6. CASE Complete \/ FaultNext
  BY <1>6
    DEF FaultNext, Complete, CompleteAs, CommandThrows, CompleteFaulty,
        CompleteLost
<1>7. CASE Crash \/ Signal \/ Claim \/ Fallback \/ CloseWritten \/ Exit
  BY <1>7 DEF Crash, Die, Gone, Signal, Claim, Fallback, CloseWritten, Exit
<1>8. CASE HeartbeatNext \/ VenueDegraded
  BY <1>8 DEF HeartbeatNext, HeartbeatBegin, HeartbeatWrite, VenueDegraded
<1>9. CASE \E p \in Loops : ProtectionNext(p)
  BY <1>9
    DEF ProtectionNext, TickBegin, WatchdogQuiet, WatchdogRequest,
        WatchdogApply, WatchdogMoot, WatchdogWritten, StreamsHealthy,
        MarketStreamLost, UserStreamLost, PlanInactive, PlanApply, PlanWritten,
        TickThrows, TickEnd
<1>10. CASE EvaluationNext
  <2>0. "evaluation" \in Loops /\ "evaluation" \in Procs
    BY <1>10, ProcsNamed DEF EvaluationNext
  <2>1. CASE \/ TickError \/ Vetoed \/ Analysed \/ KillSwitch \/ Killed
            \/ ExecuteBegin \/ SubmitCheck \/ PreTradeReject \/ PostOrder
            \/ PostRejected \/ DecisionWritten \/ ExecuteEnd
    BY <2>0, <2>1
      DEF TickError, Vetoed, Analysed, KillSwitch, Killed, ExecuteBegin,
          SubmitCheck, PreTradeReject, PostOrder, Post, PostRejected,
          DecisionWritten, ExecuteEnd
  <2> QED
    BY <1>10, <2>1 DEF EvaluationNext
<1>11. CASE \E s \in States : LandWrite(s)
  BY <1>11 DEF LandWrite
<1>12. CASE UNCHANGED vars
  BY <1>12 DEF vars
<1> QED
  BY <1>1, <1>2, <1>3, <1>4, <1>5, <1>6, <1>7, <1>8, <1>9, <1>10, <1>11, <1>12
    DEF Next, CommandNext, SignalNext

\* A stop or halt recorded as applied left the runtime stopped or halted, with
\* every loop, the watchdog and a shutdown signal running while it drained.
THEOREM TruthfulAnswers == Spec => []AcknowledgedTruth
<1>1. Init => Dormant /\ Rows /\ Truth
  BY LoopsApart DEF Init, Dormant, Rows, Truth, StartRow, Starting, Requests, Settled,
                    Ending, AcknowledgedTruth, Procs
<1>2. TypeOK /\ Dormant /\ Rows /\ Truth /\ [Next]_vars => (Dormant /\ Rows /\ Truth)'
  BY DormantStep, RowsStep, StartRowStep, RequestsStep, SettledStep, AcknowledgedStep
     DEF Truth
<1>3. Truth => AcknowledgedTruth
  BY DEF Truth
<1> QED
  BY <1>1, <1>2, <1>3, TypeCorrect, PTL DEF Spec
-----------------------------------------------------------------------------
(* The command table implements the ledger                                  *)

Taken(r) == r.status = "processing"

\* One command is in processing at most, and none when the processor is idle in a
\* worker that has recovered its rows.
OneProcessing ==
  /\ \A i, j \in DOMAIN cmds : Taken(cmds[i]) /\ Taken(cmds[j]) => i = j
  /\ \/ pc["main"] \in {"gate", "arming", "resumeFailed"}
     \/ pc["main"] \in {"up", "closing"} /\ pc["command"] = "idle"
     => \A i \in DOMAIN cmds : ~Taken(cmds[i])

\* A new row is never in processing.
LEMMA AppendOne ==
  ASSUME TableOK, OneProcessing, UNCHANGED pc,
         NEW type, NEW cancel, NEW status \in {"pending", "blocked"},
         Append1(type, cancel, status)
  PROVE  OneProcessing'
<1> DEFINE r == [type |-> type, cancel |-> cancel, status |-> status]
<1>1. DOMAIN cmds' = DOMAIN cmds \cup {Len(cmds) + 1} /\ cmds'[Len(cmds) + 1] = r
  BY AppendKeeps
<1>2. \A i \in DOMAIN cmds : cmds'[i] = cmds[i]
  BY AppendKeeps
<1>3. \A i \in DOMAIN cmds' : Taken(cmds'[i]) => i \in DOMAIN cmds /\ Taken(cmds[i])
  <2>1. ~Taken(r)
    BY DEF Taken
  <2> QED
    BY <1>1, <1>2, <2>1
<1> QED
  BY <1>1, <1>3 DEF OneProcessing

\* Acknowledging empties the table of rows in processing.
LEMMA AnswerEmpties ==
  ASSUME TypeOK, Rows, OneProcessing, NEW status \in {"applied", "failed"}, CompleteAs(status)
  PROVE  /\ row \in DOMAIN cmds /\ Taken(cmds[row])
         /\ DOMAIN cmds' = DOMAIN cmds /\ \A i \in DOMAIN cmds : ~Taken(cmds'[i])
<1>1. row \in DOMAIN cmds /\ Taken(cmds[row])
  BY DEF Rows, CompleteAs, Taken
<1>2. cmds[row] \in Row
  BY <1>1 DEF TypeOK, TableOK
<1>3. \A i \in DOMAIN cmds : i # row => ~Taken(cmds[i])
  BY <1>1 DEF OneProcessing
<1> QED
  BY <1>1, <1>2, <1>3 DEF CompleteAs, Row, Taken

\* So does the recovery after a restart.
LEMMA RecoverEmpties ==
  ASSUME TypeOK, BootRecover
  PROVE  /\ DOMAIN cmds' = DOMAIN cmds /\ \A i \in DOMAIN cmds : ~Taken(cmds'[i])
         /\ \A i \in DOMAIN cmds : ~Taken(cmds[i]) => cmds'[i] = cmds[i]
         /\ \A i \in DOMAIN cmds : Taken(cmds[i]) =>
              \E a \in {"applied", "failed"} : cmds'[i] = [cmds[i] EXCEPT !.status = a]
<1>1. \A i \in DOMAIN cmds : cmds[i] \in Row
  BY DEF TypeOK, TableOK
<1>2. \A type \in Kinds, s \in States : Resolution(type, s) \in {"applied", "failed"}
  BY DEF Resolution, Kinds
<1>3. held["main"] \in States
  BY ProcsNamed DEF TypeOK, WorkerOK
<1> QED
  BY <1>1, <1>2, <1>3 DEF BootRecover, Row, Taken

\* Commands are taken one at a time, also across a restart.
LEMMA OneProcessingStep ==
  ASSUME TypeOK, Dormant, Rows, OneProcessing, ~Faults, [Next]_vars
  PROVE  OneProcessing'
<1> USE ProcsNamed, LoopsApart
    DEF TypeOK, WorkerOK, Dormant, OneProcessing, Taken, Up, Command, Stopping,
        Goto, Outcome, LandHeld, Throw, AfterProtection
<1>1. CASE ApiNext
  <2>1. CASE \E type \in Kinds, cancel \in BOOLEAN : ApiBlock(type, cancel)
    BY <2>1, AppendOne DEF ApiBlock, TypeOK
  <2>2. CASE \E c \in Clients : ApiEnqueue(c)
    <3>1. PICK type, cancel, status :
               status \in {"pending", "blocked"} /\ Append1(type, cancel, status)
      BY <2>2 DEF ApiEnqueue
    <3> QED
      BY <2>2, <3>1, AppendOne DEF ApiEnqueue, TypeOK
  <2>3. CASE \/ (\E type \in Kinds, cancel \in BOOLEAN : \E c \in Clients : ApiAdmit(c, type, cancel))
            \/ (\E m \in Modes : ApiReadMode(m)) \/ ApiWriteMode
    BY <2>3 DEF ApiAdmit, ApiReadMode, ApiWriteMode
  <2> QED
    BY <1>1, <2>1, <2>2, <2>3 DEF ApiNext
<1>2. CASE BootNext
  <2>1. CASE BootRecover
    BY <2>1, RecoverEmpties
  <2>2. CASE \/ Boot \/ BootSync \/ BootRefused \/ ResumeGate \/ ResumeArm
            \/ ResumeFail \/ ResumeExit
    BY <2>2
      DEF Boot, BootSync, BootRefused, Die, Gone, ResumeGate, ResumeArm,
          ResumeFail, ResumeExit
  <2> QED
    BY <1>2, <2>1, <2>2 DEF BootNext
<1>3. CASE StartNext
  BY <1>3
    DEF StartNext, StartBegin, StartRefused, StartPass, StartOverruled,
        StartRejected, StartArm, StartArmFails, StartWritten,
        StartFailureWritten
<1>4. CASE \E p \in {"command", "signal"} : StopNext(p)
  BY <1>4
    DEF StopNext, StopBegin, StopRefused, StopWritten, Drained, DrainFailed,
        Escalated, ExitWritten
<1>5. CASE HaltNext
  BY <1>5 DEF HaltNext, HaltBegin, HaltDrained, HaltAudited, HaltWritten
<1>6. CASE Complete \/ FaultNext
  <2>1. CASE Complete
    <3>1. PICK status \in {"applied", "failed"} : CompleteAs(status)
      BY <2>1 DEF Complete
    <3> QED
      BY <3>1, AnswerEmpties
  <2>2. CASE \/ (\E p \in {"command", "signal"} : CommandThrows(p))
            \/ CompleteFaulty \/ CompleteLost
    BY <2>2 DEF CommandThrows, CompleteFaulty, CompleteAs, CompleteLost
  <2> QED
    BY <1>6, <2>1, <2>2 DEF FaultNext
<1>7. CASE Crash \/ Signal \/ Claim \/ Fallback \/ CloseWritten \/ Exit
  <2>1. CASE Claim
    <3>1. PICK i \in DOMAIN cmds : cmds' = [cmds EXCEPT ![i].status = "processing"]
      BY <2>1 DEF Claim
    <3>2. \A k \in DOMAIN cmds : ~Taken(cmds[k])
      BY <2>1 DEF Claim
    <3>3. DOMAIN cmds' = DOMAIN cmds /\ \A k \in DOMAIN cmds : Taken(cmds'[k]) => k = i
      BY <3>1, <3>2
    <3> QED
      BY <2>1, <3>3, ProcsNamed DEF Claim
  <2>2. CASE Crash \/ Signal \/ Fallback \/ CloseWritten \/ Exit
    BY <2>2 DEF Crash, Die, Gone, Signal, Fallback, CloseWritten, Exit
  <2> QED
    BY <1>7, <2>1, <2>2
<1>8. CASE HeartbeatNext \/ VenueDegraded
  BY <1>8 DEF HeartbeatNext, HeartbeatBegin, HeartbeatWrite, VenueDegraded
<1>9. CASE \E p \in Loops : ProtectionNext(p)
  BY <1>9
    DEF ProtectionNext, TickBegin, WatchdogQuiet, WatchdogRequest,
        WatchdogApply, WatchdogMoot, WatchdogWritten, StreamsHealthy,
        MarketStreamLost, UserStreamLost, PlanInactive, PlanApply, PlanWritten,
        TickThrows, TickEnd
<1>10. CASE EvaluationNext
  BY <1>10
    DEF EvaluationNext, TickError, Vetoed, Analysed, KillSwitch, Killed,
        ExecuteBegin, SubmitCheck, PreTradeReject, PostOrder, Post,
        PostRejected, DecisionWritten, ExecuteEnd
<1>11. CASE \E s \in States : LandWrite(s)
  BY <1>11 DEF LandWrite
<1>12. CASE UNCHANGED vars
  BY <1>12 DEF vars
<1> QED
  BY <1>1, <1>2, <1>3, <1>4, <1>5, <1>6, <1>7, <1>8, <1>9, <1>10, <1>11, <1>12
    DEF Next, CommandNext, SignalNext

\* Every step of the control plane is a step of the ledger, or leaves it alone.
LEMMA LedgerStep ==
  ASSUME TypeOK, Dormant, Rows, OneProcessing, ~Faults, [Next]_vars
  PROVE  [Ledger!Next]_cmds
<1> USE DEF LandHeld
<1>1. CASE ApiNext
  <2>1. CASE \E type \in Kinds, cancel \in BOOLEAN : ApiBlock(type, cancel)
    <3>1. PICK type \in Kinds, cancel \in BOOLEAN : Append1(type, cancel, "blocked")
      BY <2>1 DEF ApiBlock
    <3>2. Ledger!Refuse(type, cancel)
      BY <3>1 DEF Append1, Ledger!Refuse, Ledger!Entry
    <3> QED
      BY <3>2 DEF Ledger!Next
  <2>2. CASE \E c \in Clients : ApiEnqueue(c)
    <3>1. PICK c \in Clients : ApiEnqueue(c)
      BY <2>2
    <3> DEFINE r == request[c]
    <3>2. r.type \in Kinds /\ r.cancel \in BOOLEAN
      BY <3>1 DEF ApiEnqueue, TypeOK, TableOK
    <3>3. Ledger!Refuse(r.type, r.cancel) \/ Ledger!Queue(r.type, r.cancel)
      BY <3>1 DEF ApiEnqueue, Append1, Active, Ledger!Refuse, Ledger!Queue,
                  Ledger!Entry, Ledger!IsActive
    <3> QED
      BY <3>2, <3>3 DEF Ledger!Next
  <2>3. CASE \/ (\E type \in Kinds, cancel \in BOOLEAN : \E c \in Clients : ApiAdmit(c, type, cancel))
            \/ (\E m \in Modes : ApiReadMode(m)) \/ ApiWriteMode
    BY <2>3 DEF ApiAdmit, ApiReadMode, ApiWriteMode
  <2> QED
    BY <1>1, <2>1, <2>2, <2>3 DEF ApiNext
<1>2. CASE BootNext
  <2>1. CASE BootRecover
    <3>1. CASE \A i \in DOMAIN cmds : ~Taken(cmds[i])
      BY <2>1, <3>1 DEF BootRecover, Taken, TypeOK, TableOK
    <3>2. CASE \E i \in DOMAIN cmds : Taken(cmds[i])
      <4>1. PICK i \in DOMAIN cmds : Taken(cmds[i])
        BY <3>2
      <4>2. PICK a \in {"applied", "failed"} : cmds'[i] = [cmds[i] EXCEPT !.status = a]
        BY <2>1, <4>1, RecoverEmpties
      <4>3. \A k \in DOMAIN cmds : k # i => cmds'[k] = cmds[k]
        BY <2>1, <4>1, RecoverEmpties DEF OneProcessing
      <4>4. cmds' = [cmds EXCEPT ![i].status = a]
        BY <2>1, <4>1, <4>2, <4>3 DEF BootRecover, TypeOK, TableOK
      <4>5. Ledger!Answer(i, a)
        BY <4>1, <4>4 DEF Ledger!Answer, Ledger!Processing, Taken
      <4> QED
        BY <4>1, <4>5 DEF Ledger!Next, Ledger!Answers
    <3> QED
      BY <3>1, <3>2
  <2>2. CASE \/ Boot \/ BootSync \/ BootRefused \/ ResumeGate \/ ResumeArm
            \/ ResumeFail \/ ResumeExit
    BY <2>2
      DEF Boot, BootSync, BootRefused, Die, Gone, ResumeGate, ResumeArm,
          ResumeFail, ResumeExit
  <2> QED
    BY <1>2, <2>1, <2>2 DEF BootNext
<1>3. CASE StartNext
  BY <1>3
    DEF StartNext, StartBegin, StartRefused, StartPass, StartOverruled,
        StartRejected, StartArm, StartArmFails, StartWritten,
        StartFailureWritten
<1>4. CASE \E p \in {"command", "signal"} : StopNext(p)
  BY <1>4
    DEF StopNext, StopBegin, StopRefused, StopWritten, Drained, DrainFailed,
        Escalated, ExitWritten
<1>5. CASE HaltNext
  BY <1>5 DEF HaltNext, HaltBegin, HaltDrained, HaltAudited, HaltWritten
<1>6. CASE Complete \/ FaultNext
  <2>1. CASE Complete
    <3>1. PICK a \in {"applied", "failed"} : CompleteAs(a)
      BY <2>1 DEF Complete
    <3>2. row \in DOMAIN cmds /\ Taken(cmds[row])
      BY <3>1, AnswerEmpties
    <3>3. Ledger!Answer(row, a)
      BY <3>1, <3>2 DEF CompleteAs, Ledger!Answer, Ledger!Processing, Taken
    <3> QED
      BY <3>2, <3>3 DEF Ledger!Next, Ledger!Answers
  <2>2. CASE \/ (\E p \in {"command", "signal"} : CommandThrows(p))
            \/ CompleteFaulty \/ CompleteLost
    BY <2>2 DEF CommandThrows, CompleteFaulty, CompleteAs, CompleteLost
  <2> QED
    BY <1>6, <2>1, <2>2 DEF FaultNext
<1>7. CASE Crash \/ Signal \/ Claim \/ Fallback \/ CloseWritten \/ Exit
  <2>1. CASE Claim
    <3>1. PICK i \in DOMAIN cmds : Oldest(i) /\ cmds' = [cmds EXCEPT ![i].status = "processing"]
      BY <2>1 DEF Claim
    <3>2. \A k \in DOMAIN cmds : ~Taken(cmds[k])
      BY <2>1 DEF Claim, OneProcessing, Up
    <3>3. Ledger!Take(i)
      BY <3>1, <3>2 DEF Oldest, Taken, Ledger!Take, Ledger!Processing
    <3> QED
      BY <3>3 DEF Ledger!Next
  <2>2. CASE Crash \/ Signal \/ Fallback \/ CloseWritten \/ Exit
    BY <2>2 DEF Crash, Die, Gone, Signal, Fallback, CloseWritten, Exit
  <2> QED
    BY <1>7, <2>1, <2>2
<1>8. CASE HeartbeatNext \/ VenueDegraded
  BY <1>8 DEF HeartbeatNext, HeartbeatBegin, HeartbeatWrite, VenueDegraded
<1>9. CASE \E p \in Loops : ProtectionNext(p)
  BY <1>9
    DEF ProtectionNext, TickBegin, WatchdogQuiet, WatchdogRequest,
        WatchdogApply, WatchdogMoot, WatchdogWritten, StreamsHealthy,
        MarketStreamLost, UserStreamLost, PlanInactive, PlanApply, PlanWritten,
        TickThrows, TickEnd
<1>10. CASE EvaluationNext
  BY <1>10
    DEF EvaluationNext, TickError, Vetoed, Analysed, KillSwitch, Killed,
        ExecuteBegin, SubmitCheck, PreTradeReject, PostOrder, Post,
        PostRejected, DecisionWritten, ExecuteEnd
<1>11. CASE \E s \in States : LandWrite(s)
  BY <1>11 DEF LandWrite
<1>12. CASE UNCHANGED vars
  BY <1>12 DEF vars
<1> QED
  BY <1>1, <1>2, <1>3, <1>4, <1>5, <1>6, <1>7, <1>8, <1>9, <1>10, <1>11, <1>12
    DEF Next, CommandNext, SignalNext

\* While the acknowledgement itself does not fail, the command table keeps the
\* ledger's promises: taken oldest first and one at a time, answered once, never
\* rewritten, across any number of clients, crashes and signals.
THEOREM LedgerImplemented ==
  ASSUME ~Faults
  PROVE  Spec => LedgerRefined
<1>1. Init => Dormant /\ Rows /\ OneProcessing /\ Ledger!Init
  BY DEF Init, Dormant, Rows, OneProcessing, Procs, Ledger!Init
<1>2. TypeOK /\ Dormant /\ Rows /\ OneProcessing /\ [Next]_vars
        => (Dormant /\ Rows /\ OneProcessing)' /\ [Ledger!Next]_cmds
  BY DormantStep, RowsStep, OneProcessingStep, LedgerStep
<1> QED
  BY <1>1, <1>2, TypeCorrect, PTL DEF Spec, LedgerRefined, Ledger!Spec
-----------------------------------------------------------------------------
(* A halt is not undone                                                     *)

\* No mode update through the API is under way: the state file mirrors the memory.
Mirrored == file.state = mem /\ modeUpdate = NoModeUpdate

\* A worker that boots has nothing in flight.
Quiet ==
  pc["main"] \in {"down", "syncing"} =>
    writes = {} /\ \A p \in Procs : held[p] # "running"

\* While the latch is set, a late write of "running" may still be on its way to
\* the status row, but only while the file says that the runtime is idle, and then
\* the diagram refuses the row at the next boot.
Stale == dbState = "running" \/ "running" \in writes \/ \E p \in Procs : held[p] = "running"

Halted ==
  latched =>
    /\ mem # "running"
    /\ pc["main"] \notin {"gate", "arming"}
    /\ pc["main"] = "recovering" => held["main"] # "running"
    /\ pc["command"] = "gate" => mem \in Idle
    /\ Stale => mem \in Idle

\* setMode is the only writer of the file besides the store (BotStateStore.persist).
LEMMA MirroredStep ==
  ASSUME MaxSwitches = 0, TypeOK, Mirrored, [Next]_vars
  PROVE  Mirrored'
<1> USE DEF Mirrored, Enter, Move, Post
<1>1. CASE ApiNext
  <2>1. ASSUME NEW m \in Modes, ApiReadMode(m)
        PROVE  FALSE
    BY <2>1 DEF ApiReadMode, TypeOK, WorkerOK
  <2> QED
    BY <1>1, <2>1
      DEF ApiNext, ApiBlock, Append1, ApiAdmit, ApiEnqueue, ApiWriteMode
<1>2. CASE BootNext
  BY <1>2
    DEF BootNext, Boot, BootSync, BootRefused, Die, Gone, BootRecover,
        ResumeGate, ResumeArm, ResumeFail, ResumeExit
<1>3. CASE StartNext
  BY <1>3
    DEF StartNext, StartBegin, StartRefused, StartPass, StartOverruled,
        StartRejected, StartArm, StartArmFails, StartWritten,
        StartFailureWritten, LandHeld
<1>4. CASE \E p \in {"command", "signal"} : StopNext(p)
  BY <1>4
    DEF StopNext, StopBegin, StopRefused, StopWritten, Drained, DrainFailed,
        Escalated, ExitWritten, LandHeld
<1>5. CASE HaltNext
  BY <1>5
    DEF HaltNext, HaltBegin, HaltDrained, HaltAudited, HaltWritten, LandHeld
<1>6. CASE Complete \/ FaultNext
  BY <1>6
    DEF FaultNext, Complete, CompleteAs, CommandThrows, CompleteFaulty,
        CompleteLost
<1>7. CASE Crash \/ Signal \/ Claim \/ Fallback \/ CloseWritten \/ Exit
  BY <1>7
    DEF Crash, Die, Gone, Signal, Claim, Fallback, CloseWritten, Exit, LandHeld
<1>8. CASE HeartbeatNext \/ VenueDegraded
  BY <1>8
    DEF HeartbeatNext, HeartbeatBegin, HeartbeatWrite, VenueDegraded, LandHeld
<1>9. CASE \E p \in Loops : ProtectionNext(p)
  BY <1>9
    DEF ProtectionNext, TickBegin, WatchdogQuiet, WatchdogRequest,
        WatchdogApply, WatchdogMoot, WatchdogWritten, StreamsHealthy,
        MarketStreamLost, UserStreamLost, PlanInactive, PlanApply, PlanWritten,
        TickThrows, TickEnd, LandHeld
<1>10. CASE EvaluationNext
  BY <1>10
    DEF EvaluationNext, TickError, Vetoed, Analysed, KillSwitch, Killed,
        ExecuteBegin, SubmitCheck, PreTradeReject, PostOrder,
        PostRejected, DecisionWritten, ExecuteEnd, LandHeld
<1>11. CASE \E s \in States : LandWrite(s)
  BY <1>11 DEF LandWrite
<1>12. CASE UNCHANGED vars
  BY <1>12 DEF vars
<1> QED
  BY <1>1, <1>2, <1>3, <1>4, <1>5, <1>6, <1>7, <1>8, <1>9, <1>10, <1>11, <1>12
    DEF Next, CommandNext, SignalNext

\* A process that dies takes its writes along.
LEMMA QuietStep ==
  ASSUME TypeOK, Dormant, Quiet, [Next]_vars
  PROVE  Quiet'
<1> USE ProcsNamed, LoopsApart
    DEF TypeOK, WorkerOK, Dormant, Quiet, Up, Command, Stopping, Goto, Outcome,
        LandHeld, Throw, AfterProtection, Hold, Release
<1>1. CASE ApiNext
  BY <1>1
    DEF ApiNext, ApiBlock, Append1, ApiAdmit, ApiEnqueue, ApiReadMode,
        ApiWriteMode
<1>2. CASE BootNext
  BY <1>2
    DEF BootNext, Boot, BootSync, BootRefused, Die, Gone, BootRecover,
        ResumeGate, ResumeArm, ResumeFail, ResumeExit
<1>3. CASE StartNext
  BY <1>3
    DEF StartNext, StartBegin, StartRefused, StartPass, StartOverruled,
        StartRejected, StartArm, StartArmFails, StartWritten,
        StartFailureWritten
<1>4. CASE \E p \in {"command", "signal"} : StopNext(p)
  BY <1>4
    DEF StopNext, StopBegin, StopRefused, StopWritten, Drained, DrainFailed,
        Escalated, ExitWritten
<1>5. CASE HaltNext
  BY <1>5 DEF HaltNext, HaltBegin, HaltDrained, HaltAudited, HaltWritten
<1>6. CASE Complete \/ FaultNext
  BY <1>6
    DEF FaultNext, Complete, CompleteAs, CommandThrows, CompleteFaulty,
        CompleteLost
<1>7. CASE Crash \/ Signal \/ Claim \/ Fallback \/ CloseWritten \/ Exit
  BY <1>7 DEF Crash, Die, Gone, Signal, Claim, Fallback, CloseWritten, Exit
<1>8. CASE HeartbeatNext \/ VenueDegraded
  BY <1>8 DEF HeartbeatNext, HeartbeatBegin, HeartbeatWrite, VenueDegraded
<1>9. CASE \E p \in Loops : ProtectionNext(p)
  BY <1>9
    DEF ProtectionNext, TickBegin, WatchdogQuiet, WatchdogRequest,
        WatchdogApply, WatchdogMoot, WatchdogWritten, StreamsHealthy,
        MarketStreamLost, UserStreamLost, PlanInactive, PlanApply, PlanWritten,
        TickThrows, TickEnd
<1>10. CASE EvaluationNext
  BY <1>10
    DEF EvaluationNext, TickError, Vetoed, Analysed, KillSwitch, Killed,
        ExecuteBegin, SubmitCheck, PreTradeReject, PostOrder, Post,
        PostRejected, DecisionWritten, ExecuteEnd
<1>11. CASE \E s \in States : LandWrite(s)
  BY <1>11 DEF LandWrite
<1>12. CASE UNCHANGED vars
  BY <1>12 DEF vars
<1> QED
  BY <1>1, <1>2, <1>3, <1>4, <1>5, <1>6, <1>7, <1>8, <1>9, <1>10, <1>11, <1>12
    DEF Next, CommandNext, SignalNext

\* What a move by anyone but an operator's start, other than to "running" or
\* "bootstrapping", leaves of a latched runtime's state.
LEMMA HaltedMove ==
  ASSUME Halted, NEW s, Enter(s), s # "bootstrapping", s # "running"
  PROVE  latched' => /\ mem' # "running" /\ (mem \in Idle => mem' \in Idle)
                     /\ latched \/ mem' \in Idle
                     /\ "running" \in writes' => "running" \in writes
<1>1. mem' = s /\ writes' = writes \cup {s}
  BY DEF Enter, Move
<1>2. mem \in Idle => s \in Idle
  BY DEF Enter, Move, CanTransition, LegalTransitions, Idle, States
<1>3. latched' => latched \/ s = "halted_hard"
  BY DEF Enter
<1> QED
  BY <1>1, <1>2, <1>3 DEF Idle

\* Only the operator's start and the boot move an idle runtime anywhere, and the
\* boot finds no row saying "running" that the diagram would accept.
LEMMA HaltedStep ==
  ASSUME TypeOK, Dormant, Requests, Mirrored, Quiet, Halted, [Next]_vars
  PROVE  Halted'
<1> USE ProcsNamed, LoopsApart, HaltedMove
    DEF TypeOK, WorkerOK, Dormant, Requests, Halted, Stale, Up, Command, Stopping,
        Goto, Outcome, LandHeld, Throw, AfterProtection, Hold, Release
<1>1. CASE ApiNext
  BY <1>1
    DEF ApiNext, ApiBlock, Append1, ApiAdmit, ApiEnqueue, ApiReadMode,
        ApiWriteMode
<1>2. CASE BootNext
  <2>1. CASE Boot
    BY <2>1 DEF Boot, Mirrored
  <2>2. CASE BootSync
    <3>1. /\ writes = {} /\ \A p \in Procs : held[p] # "running"
          /\ pc["command"] = "idle"
      BY <2>2 DEF BootSync, Quiet
    <3>2. /\ mem' = dbState /\ writes' = {dbState} /\ dbState' = dbState
          /\ latched' => latched \/ dbState = "halted_hard"
      BY <2>2, <3>1 DEF BootSync, Enter, Move
    <3>3. mem \in Idle => dbState \in Idle \cup {"bootstrapping"}
      BY <2>2 DEF BootSync, Enter, Move, CanTransition, LegalTransitions, Idle, States
    <3>4. latched' => dbState # "running"
      BY <3>2, <3>3 DEF Idle
    <3>5. \A p \in Procs : held'[p] = "running" => dbState = "running"
      BY <2>2, <3>1 DEF BootSync
    <3>6. pc' = [pc EXCEPT !["main"] = "recovering"]
      BY <2>2 DEF BootSync
    <3> QED
      BY <3>1, <3>2, <3>4, <3>5, <3>6
  <2>3. CASE BootRefused
    BY <2>3 DEF BootRefused, Die, Gone
  <2>4. CASE BootRecover
    BY <2>4 DEF BootRecover
  <2>5. CASE ResumeGate \/ ResumeArm
    BY <2>5 DEF ResumeGate, ResumeArm, Enter, Move
  <2>6. CASE ResumeFail
    BY <2>6 DEF ResumeFail
  <2>7. CASE ResumeExit
    BY <2>7 DEF ResumeExit, Gone
  <2> QED
    BY <1>2, <2>1, <2>2, <2>3, <2>4, <2>5, <2>6, <2>7 DEF BootNext
<1>3. CASE StartNext
  <2>1. CASE StartPass
    <3>1. mem \notin Idle
      BY <2>1
        DEF StartPass, Enter, Move, CanTransition, LegalTransitions, Idle, States
    <3>2. ~latched'
      BY <2>1, <3>1 DEF StartPass, Enter
    <3> QED
      BY <3>2
  <2>2. CASE StartBegin
    BY <2>2 DEF StartBegin
  <2>3. CASE StartRefused \/ StartOverruled
    BY <2>3 DEF StartRefused, StartOverruled
  <2>4. CASE StartRejected
    BY <2>4 DEF StartRejected
  <2>5. CASE StartArm
    BY <2>5 DEF StartArm
  <2>7. CASE StartArmFails
    BY <2>7 DEF StartArmFails
  <2>6. CASE StartWritten \/ StartFailureWritten
    BY <2>6 DEF StartWritten, StartFailureWritten
  <2> QED
    BY <1>3, <2>1, <2>2, <2>3, <2>4, <2>5, <2>6, <2>7 DEF StartNext
<1>4. CASE \E p \in {"command", "signal"} : StopNext(p)
  <2>0. PICK p \in {"command", "signal"} : StopNext(p)
    BY <1>4
  <2>1. CASE StopBegin(p)
    BY <2>0, <2>1 DEF StopBegin
  <2>2. CASE StopRefused(p)
    BY <2>0, <2>2 DEF StopRefused
  <2>3. CASE StopWritten(p)
    BY <2>0, <2>3 DEF StopWritten
  <2>4. CASE Drained(p)
    BY <2>0, <2>4 DEF Drained
  <2>5. CASE DrainFailed(p)
    BY <2>0, <2>5 DEF DrainFailed
  <2>6. CASE Escalated(p)
    BY <2>0, <2>6 DEF Escalated
  <2>7. CASE ExitWritten(p)
    BY <2>0, <2>7 DEF ExitWritten
  <2> QED
    BY <2>0, <2>1, <2>2, <2>3, <2>4, <2>5, <2>6, <2>7 DEF StopNext
<1>5. CASE HaltNext
  BY <1>5 DEF HaltNext, HaltBegin, HaltDrained, HaltAudited, HaltWritten
<1>6. CASE Complete \/ FaultNext
  <2>1. CASE Complete \/ CompleteFaulty \/ CompleteLost
    BY <2>1 DEF Complete, CompleteAs, CompleteFaulty, CompleteLost
  <2>2. ASSUME NEW p \in {"command", "signal"}, CommandThrows(p)
        PROVE  Halted'
    BY <2>2 DEF CommandThrows
  <2> QED
    BY <1>6, <2>1, <2>2 DEF FaultNext
<1>7. CASE Crash \/ Signal \/ Claim \/ Fallback \/ CloseWritten \/ Exit
  <2>1. CASE Crash \/ Exit
    <3>1. Die
      BY <2>1 DEF Crash, Exit
    <3>2. UNCHANGED <<mem, latched>> /\ writes' = {}
      BY <3>1 DEF Die, Gone
    <3>3. dbState' = "running" => Stale
      BY <3>1 DEF Die
    <3>4. \A p \in Procs : held'[p] # "running" /\ pc'[p] \in {"down", "idle"}
      BY <3>1 DEF Die, Gone
    <3>5. Stale' => Stale
      BY <3>2, <3>3, <3>4
    <3> HIDE DEF Stale
    <3> QED
      BY <3>2, <3>4, <3>5
  <2>2. CASE Signal
    BY <2>2 DEF Signal
  <2>3. CASE Claim
    BY <2>3 DEF Claim
  <2>4. CASE Fallback
    BY <2>4 DEF Fallback
  <2>5. CASE CloseWritten
    BY <2>5 DEF CloseWritten
  <2> QED
    BY <1>7, <2>1, <2>2, <2>3, <2>4, <2>5
<1>8. CASE HeartbeatNext \/ VenueDegraded
  BY <1>8 DEF HeartbeatNext, HeartbeatBegin, HeartbeatWrite, VenueDegraded
<1>9. CASE \E p \in Loops : ProtectionNext(p)
  <2>0. PICK p \in Loops : ProtectionNext(p)
    BY <1>9
  <2>1. CASE WatchdogApply(p)
    BY <2>1 DEF WatchdogApply, WatchdogStates
  <2>2. CASE PlanApply(p)
    BY <2>2 DEF PlanApply, PlanStates
  <2>3. CASE \/ TickBegin(p) \/ WatchdogQuiet(p) \/ WatchdogRequest(p)
             \/ WatchdogMoot(p) \/ WatchdogWritten(p) \/ StreamsHealthy(p)
             \/ PlanInactive(p) \/ PlanWritten(p) \/ TickThrows(p) \/ TickEnd(p)
    BY <2>0, <2>3
      DEF TickBegin, WatchdogQuiet, WatchdogRequest, WatchdogStates, WatchdogMoot,
          WatchdogWritten, StreamsHealthy, PlanInactive, PlanWritten, TickThrows, TickEnd
  <2>4. CASE MarketStreamLost(p) \/ UserStreamLost(p)
    BY <2>4 DEF MarketStreamLost, UserStreamLost
  <2> QED
    BY <2>0, <2>1, <2>2, <2>3, <2>4 DEF ProtectionNext
<1>10. CASE EvaluationNext
  BY <1>10
    DEF EvaluationNext, TickError, Vetoed, Analysed, KillSwitch, Killed,
        ExecuteBegin, SubmitCheck, PreTradeReject, PostOrder, Post,
        PostRejected, VenueDecisions, DecisionWritten, ExecuteEnd
<1>11. CASE \E s \in States : LandWrite(s)
  BY <1>11 DEF LandWrite
<1>12. CASE UNCHANGED vars
  BY <1>12 DEF vars
<1> QED
  BY <1>1, <1>2, <1>3, <1>4, <1>5, <1>6, <1>7, <1>8, <1>9, <1>10, <1>11, <1>12
    DEF Next, CommandNext, SignalNext

\* As long as the API does not rewrite the state file from a stale copy, a halt
\* holds until an operator's start, whatever crashes, and in whatever order the
\* status writes land (BotRuntime.start, BotStateStore.setState).
THEOREM HaltHolds ==
  ASSUME MaxSwitches = 0
  PROVE  Spec => []NoSilentRecovery
<1> DEFINE Held == Dormant /\ Requests /\ Mirrored /\ Quiet /\ Halted
<1>1. Init => Held
  BY ProcsNamed, LoopsApart
    DEF Init, Dormant, Requests, Mirrored, Quiet, Halted, Stale, Procs
<1>2. TypeOK /\ Held /\ [Next]_vars => Held'
  BY DormantStep, RequestsStep, MirroredStep, QuietStep, HaltedStep
<1>3. Held => NoSilentRecovery
  BY DEF Halted, NoSilentRecovery
<1> HIDE DEF Held
<1> QED
  BY <1>1, <1>2, <1>3, TypeCorrect, PTL DEF Spec
=============================================================================
