---------------------------- MODULE RuntimeStates ----------------------------
(***************************************************************************)
(* The runtime state diagram of the worker: the seven states, the legal    *)
(* transitions between them and what a job may do in each.  Pure           *)
(* definitions, shared by every module that moves or reads the state.      *)
(***************************************************************************)

States == {"bootstrapping", "running", "degraded", "reconciliation_only",
           "cancel_only", "halted_hard", "stopped"}

\* The states from which an operator may start the bot.
Idle == {"stopped", "halted_hard"}

\* LEGAL_TRANSITIONS.
LegalTransitions ==
  [stopped             |-> {"bootstrapping", "halted_hard"},
   bootstrapping       |-> States \ {"bootstrapping"},
   running             |-> States \ {"running"},
   degraded            |-> States \ {"degraded"},
   reconciliation_only |-> States \ {"reconciliation_only"},
   cancel_only         |-> {"bootstrapping", "reconciliation_only",
                            "halted_hard", "stopped"},
   halted_hard         |-> {"bootstrapping", "stopped"}]

\* canTransitionRuntimeState: staying put is always allowed.
CanTransition(s, t) == s = t \/ t \in LegalTransitions[s]

\* permissionsForRuntimeState, one permission at a time.
AllowNewEntries(s) == s = "running"
AllowReconciliation(s) == s \notin Idle
=============================================================================
