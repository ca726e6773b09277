---------------------------- MODULE CommandLedger ----------------------------
(***************************************************************************)
(* What the command table promises to its readers: requests are recorded   *)
(* once and never rewritten, at most one command of a kind is active, the  *)
(* worker takes them oldest first and one at a time, and an answered       *)
(* command keeps its answer.  RuntimeControl is shown to implement this.   *)
(***************************************************************************)
EXTENDS Naturals, Sequences

CONSTANT Kinds
VARIABLE ledger

Answers == {"applied", "failed"}
Entry(type, cancel, status) == [type |-> type, cancel |-> cancel, status |-> status]
IsActive(r) == r.status \in {"pending", "processing"}
Processing == {i \in DOMAIN ledger : ledger[i].status = "processing"}

Init == ledger = <<>>

\* A request is refused, or queued when no command of its kind is active.
Refuse(type, cancel) == ledger' = Append(ledger, Entry(type, cancel, "blocked"))
Queue(type, cancel) ==
  /\ \A i \in DOMAIN ledger : ledger[i].type = type => ~IsActive(ledger[i])
  /\ ledger' = Append(ledger, Entry(type, cancel, "pending"))

\* The oldest queued command is taken when no other is being processed.
Take(i) ==
  /\ ledger[i].status = "pending"
  /\ \A j \in DOMAIN ledger : ledger[j].status = "pending" => i <= j
  /\ Processing = {}
  /\ ledger' = [ledger EXCEPT ![i].status = "processing"]

\* The command being processed is answered.
Answer(i, a) ==
  /\ i \in Processing
  /\ ledger' = [ledger EXCEPT ![i].status = a]

Next ==
  \/ \E type \in Kinds, cancel \in BOOLEAN : Refuse(type, cancel) \/ Queue(type, cancel)
  \/ \E i \in DOMAIN ledger : Take(i) \/ \E a \in Answers : Answer(i, a)

Spec == Init /\ [][Next]_ledger
=============================================================================
