----------------------------- MODULE MCPolicies -----------------------------
(***************************************************************************)
(* The parts that decide whether and what is traded, checked side by side: *)
(* a behaviour follows one of them and the others stand still.  "startup"  *)
(* is the start of the process with what must pass before it trades,       *)
(* "safety" the safety state under changing evidence, "admission" the      *)
(* verdict on one signal under changing circumstances, "execution" the     *)
(* order planned for it, "flow" the way of three signals through the ticks.*)
(***************************************************************************)
EXTENDS Integers

CONSTANTS
  Parts,                                         \* the parts a behaviour may follow
  MaxClock, LongTroubles,                        \* of "safety"
  MaxTroubles,                                   \* of the three machines of circumstances
  Signals, Batch, MaxOpen, MaxNew, MaxInterruptions,        \* of "flow"
  Configs, Probes, Ledgers, MaxAge, MaxStops     \* of "startup"

VARIABLES
  part,
  evidence, safety, clock, changedAt,
  case, situation, verdict,
  request, run, outcome,
  status, decision, order, entry, tick, interruptions,
  config, pc, failed, smoke, resting, suite, readiness, troubles

Safety == INSTANCE SafetyLadder
Admission == INSTANCE AdmissionLadder WITH x <- case, tick <- situation
Execution == INSTANCE ExecutionLadder WITH x <- request, tick <- run
Flow == INSTANCE SignalFlow
Starting == INSTANCE Startup WITH MaxTroubles <- MaxStops

-----------------------------------------------------------------------------
(* A venue that is ready, and one answer that is not, for each way not to be. *)
Welcoming ==
  [reachable |-> TRUE, timed |-> TRUE, skew |-> 5, answers |-> TRUE, closedOnly |-> FALSE]
Answers ==
  {Welcoming,
   [Welcoming EXCEPT !.reachable = FALSE], [Welcoming EXCEPT !.timed = FALSE],
   [Welcoming EXCEPT !.skew = 6], [Welcoming EXCEPT !.answers = FALSE],
   [Welcoming EXCEPT !.closedOnly = TRUE]}

(* A sound environment per tier, and others with something amiss. *)
Sound ==
  [tier |-> "canary", sentinel |-> FALSE, failFast |-> FALSE, runSmoke |-> TRUE,
   token |-> TRUE, requireReadiness |-> TRUE, recover |-> TRUE, secrets |-> TRUE,
   credentials |-> TRUE, funder |-> "none", profile |-> "none", signature |-> 0]
Environments ==
  {[Sound EXCEPT !.tier = t] : t \in {"paper", "canary", "cautious_live", "scaled_live"}}
  \cup {[Sound EXCEPT !.tier = "paper", !.sentinel = TRUE, !.token = FALSE],
        [Sound EXCEPT !.tier = "paper", !.runSmoke = FALSE, !.recover = FALSE],
        [Sound EXCEPT !.failFast = TRUE, !.recover = FALSE],
        [Sound EXCEPT !.tier = "paper", !.credentials = FALSE, !.secrets = FALSE],
        [Sound EXCEPT !.failFast = TRUE, !.token = FALSE, !.signature = 1]}

(* A ledger that satisfies the first live tier, one that satisfies every tier, *)
(* and one with defects.                                                       *)
Trades(n, gap, settled) == [i \in 1..n |-> [by |-> "v1", gap |-> gap, settled |-> settled]]
Records(trades, trust) ==
  [incumbent |-> "v1", trades |-> trades, trust |-> trust, report |-> TRUE, shadow |-> TRUE]
Histories ==
  {Records(<<>>, 45), Records(Trades(20, 50, TRUE), 80),
   Records(Trades(20, 51, FALSE), 80)}

(* The constants are as the modules of the parts assume them. *)
ASSUME PoliciesAssumption == Flow!FlowAssumption

safetyVars == <<evidence, safety, clock, changedAt>>
admissionVars == <<case, situation, verdict>>
executionVars == <<request, run, outcome>>
flowVars == <<status, decision, order, entry, tick, interruptions>>
startupVars == <<config, pc, failed, smoke, resting, suite, readiness, troubles>>
vars == <<part, safetyVars, admissionVars, executionVars, flowVars, startupVars>>

(* The variables of a part that is not followed hold nothing. *)
Init ==
  /\ part \in Parts
  /\ IF part = "safety" THEN Safety!Init
     ELSE evidence = <<>> /\ safety = <<>> /\ clock = 0 /\ changedAt = 0
  /\ IF part = "admission" THEN Admission!Init
     ELSE case = <<>> /\ situation = <<>> /\ verdict = <<>>
  /\ IF part = "execution" THEN Execution!Init
     ELSE request = <<>> /\ run = <<>> /\ outcome = <<>>
  /\ IF part = "flow"
     THEN Flow!Init /\ \A s \in Signals : ~entry[s] => s = 2
     ELSE /\ status = <<>> /\ decision = <<>> /\ order = <<>> /\ entry = <<>>
          /\ tick = <<>> /\ interruptions = 0
  /\ IF part = "startup" THEN Starting!Init
     ELSE /\ config = <<>> /\ pc = "down" /\ failed = {} /\ smoke = "none" /\ resting = FALSE
          /\ suite = <<>> /\ readiness = <<>> /\ troubles = 0

Next ==
  /\ UNCHANGED part
  /\ \/ /\ part = "safety" /\ Safety!Next
        /\ UNCHANGED <<admissionVars, executionVars, flowVars, startupVars>>
     \/ /\ part = "admission" /\ Admission!Worsen
        /\ UNCHANGED <<safetyVars, executionVars, flowVars, startupVars>>
     \/ /\ part = "execution" /\ Execution!Vary
        /\ UNCHANGED <<safetyVars, admissionVars, flowVars, startupVars>>
     \/ /\ part = "flow" /\ Flow!Next
        /\ UNCHANGED <<safetyVars, admissionVars, executionVars, startupVars>>
     \/ /\ part = "startup" /\ Starting!Next
        /\ UNCHANGED <<safetyVars, admissionVars, executionVars, flowVars>>

FlowTick ==
  /\ part = "flow" /\ Flow!Tick
  /\ UNCHANGED <<part, safetyVars, admissionVars, executionVars, startupVars>>

Spec == Init /\ [][Next]_vars /\ WF_vars(FlowTick)

(* The types of the parts, and their properties: they are stated in the      *)
(* modules of the parts.                                                     *)
TypeOK ==
  /\ part = "safety" => Safety!TypeOK
  /\ part = "admission" => Admission!TypeOK
  /\ part = "execution" => Execution!TypeOK
  /\ part = "flow" => Flow!TypeOK
  /\ part = "startup" => Starting!TypeOK
CooldownKept == [][part = "safety" => Safety!KeepsCooldown]_safetyVars
(* Worse evidence never yields a milder verdict, and whatever the evidence the kill *)
(* switch tells the safety machine to halt exactly when it tells the runtime.       *)
WorseNeverMilder ==
  [][part = "safety" => Safety!NeverMilder /\ Safety!HaltsTogether]_evidence
WorseNeverMore == [][part = "admission" => Admission!NeverMore]_admissionVars
WithinVerdict ==
  part = "execution" => Execution!PassiveRespected /\ Execution!SpendsWithinDecision
RefusalIsFinal == [][part = "flow" => Flow!KeepsRefusals]_flowVars
NothingLeftBehind == part = "startup" => Starting!NothingLeftBehind
Decided ==
  \A s \in Signals :
    (part = "flow" /\ status[s] = "created") ~> (part = "flow" /\ Flow!Skips(s))
=============================================================================
