----------------------------- MODULE SignalFlow -----------------------------
(***************************************************************************)
(* The way of a signal through one evaluation tick of the live loop: built *)
(* by the market analysis, decided by the evaluation job, verified by the  *)
(* risk agent and handed to the execution job.  Every verdict is two       *)
(* writes, a decision row and the status of the signal, and the worker may *)
(* crash between any two.                                                  *)
(***************************************************************************)
EXTENDS Naturals, FiniteSets

CONSTANTS Signals,           \* signals, by the time they were observed
          Batch,             \* signals a job reads in one tick
          MaxOpen,           \* open positions the configuration allows
          MaxNew,            \* new entries of one tick the safety state allows
          MaxInterruptions   \* bound: crashes and kill switches

FlowAssumption ==
    /\ Signals \subseteq Nat \ {0} /\ IsFiniteSet(Signals)
    /\ {Batch, MaxOpen, MaxNew, MaxInterruptions} \subseteq Nat

VARIABLES
    status,          \* signal -> status of its row
    decision,        \* signal -> verdict of its latest decision row
    order,           \* signal -> "none", "working" or "position"
    entry,           \* signal -> whether it opens new exposure
    tick,            \* the tick under way
    interruptions

vars == <<status, decision, order, entry, tick, interruptions>>

Undecided == "none"
NoSignal == 0
Stages == {"idle", "evaluate", "verify", "execute"}

\* Between ticks nothing of a tick is left: slots, counts and lists are locals.  A job
\* takes the signals of its list by the time they were observed.
Idle == [stage |-> "idle", todo |-> {}, slots |-> 0, entries |-> 0, halt |-> FALSE,
         vetoed |-> FALSE, half |-> NoSignal]

TypeOK ==
    /\ status \in [Signals -> {"none", "created", "approved", "rejected", "sentinel_simulated"}]
    /\ decision \in [Signals -> {Undecided, "approved", "rejected"}]
    /\ order \in [Signals -> {"none", "working", "position"}]
    /\ entry \in [Signals -> BOOLEAN]
    /\ tick.stage \in Stages /\ tick.half \in Signals \cup {NoSignal}
    /\ Cardinality(tick.todo) <= Batch /\ tick.slots \in 0..MaxOpen /\ tick.entries \in 0..MaxNew
    /\ interruptions \in 0..MaxInterruptions

Init ==
    /\ status = [s \in Signals |-> "none"]
    /\ decision = [s \in Signals |-> Undecided]
    /\ order = [s \in Signals |-> "none"]
    /\ entry \in [Signals -> BOOLEAN]
    /\ tick = Idle /\ interruptions = 0

\* The oldest signals of a status, as many as a job takes.
Pending(state) ==
    LET all == {s \in Signals : status[s] = state}
    IN  {s \in all : Cardinality({older \in all : older < s}) < Batch}

Open == Cardinality({s \in Signals : order[s] # "none"})

Current == CHOOSE s \in tick.todo : \A other \in tick.todo : s <= other
Passed(t) == [t EXCEPT !.todo = @ \ {Current}]

Turn(s, verdict) == decision' = [decision EXCEPT ![s] = verdict]
Mark(s, state) == status' = [status EXCEPT ![s] = state]

(***************************************************************************)
(* Building and evaluating.                                                *)
(***************************************************************************)
Build(s) ==
    /\ tick.stage = "idle" /\ status[s] = "none"
    /\ \A other \in Signals : other < s => status[other] # "none"
    /\ Mark(s, "created")
    /\ UNCHANGED <<decision, order, entry, tick, interruptions>>

\* The safety state of the tick is decided before its first signal.
BeginTick ==
    /\ tick.stage = "idle"
    /\ \E halt \in BOOLEAN :
          /\ halt => Pending("created") # {} /\ interruptions < MaxInterruptions
          /\ tick' = [Idle EXCEPT !.stage = "evaluate", !.todo = Pending("created"),
                        !.slots = IF Open < MaxOpen THEN MaxOpen - Open ELSE 0,
                        !.halt = halt]
          /\ interruptions' = interruptions + IF halt THEN 1 ELSE 0
    /\ UNCHANGED <<status, decision, order, entry>>

\* Mutant: the slots are not checked.
AdmissibleUnslotted(s) == ~tick.halt /\ (entry[s] => tick.entries < MaxNew)
\* An entry takes one of the tick's slots and one of its safety budget.
Admissible(s) == ~tick.halt /\ (entry[s] => tick.slots > 0 /\ tick.entries < MaxNew)

\* Mutant: only a signal with an approval is passed over.
SkipsApproved(s) == decision[s] = "approved"
\* A signal that has a decision is not decided again.
Skips(s) == decision[s] # Undecided

Evaluating == tick.stage = "evaluate" /\ tick.half = NoSignal /\ tick.todo # {}

\* Mutant: the loop ends at a decided signal.
StopAtDecided ==
    /\ Evaluating /\ Skips(Current)
    /\ tick' = [tick EXCEPT !.todo = {}]
    /\ UNCHANGED <<status, decision, order, entry, interruptions>>

SkipDecided ==
    /\ Evaluating /\ Skips(Current)
    /\ tick' = Passed(tick)
    /\ UNCHANGED <<status, decision, order, entry, interruptions>>

Decide ==
    /\ Evaluating /\ ~Skips(Current)
    /\ \E verdict \in {"rejected"} \cup IF Admissible(Current) THEN {"approved"} ELSE {} :
          Turn(Current, verdict)
    /\ tick' = [tick EXCEPT !.half = Current]
    /\ UNCHANGED <<status, order, entry, interruptions>>

\* The status follows the decision; an approved entry uses up a slot.
Spent(t, s) ==
    IF entry[s] /\ decision[s] = "approved"
    THEN [t EXCEPT !.slots = @ - 1, !.entries = @ + 1]
    ELSE t

Settle ==
    /\ tick.stage = "evaluate" /\ tick.half # NoSignal
    /\ Mark(tick.half, decision[tick.half])
    /\ tick' = [Passed(Spent(tick, tick.half)) EXCEPT !.half = NoSignal]
    /\ UNCHANGED <<decision, order, entry, interruptions>>

(***************************************************************************)
(* The final veto.  A veto withdraws the signal first and writes the       *)
(* refusing decision second; any veto leaves the whole tick without orders.*)
(***************************************************************************)
\* A signal's own position counts as a duplicate of it.
MustVeto(s) == entry[s] /\ order[s] = "position"

BeginVerify ==
    /\ tick.stage = "evaluate" /\ tick.half = NoSignal /\ tick.todo = {}
    /\ tick' = IF tick.halt THEN Idle
               ELSE [tick EXCEPT !.stage = "verify", !.todo = Pending("approved")]
    /\ UNCHANGED <<status, decision, order, entry, interruptions>>

Verifying == tick.stage = "verify" /\ tick.half = NoSignal /\ tick.todo # {}

Confirm ==
    /\ Verifying /\ ~MustVeto(Current)
    /\ tick' = Passed(tick)
    /\ UNCHANGED <<status, decision, order, entry, interruptions>>

Veto ==
    /\ Verifying
    /\ Mark(Current, "rejected")
    /\ tick' = [tick EXCEPT !.half = Current, !.vetoed = TRUE]
    /\ UNCHANGED <<decision, order, entry, interruptions>>

RecordRefusal ==
    /\ tick.stage \in {"verify", "execute"} /\ tick.half # NoSignal
    /\ Turn(tick.half, "rejected")
    /\ tick' = [Passed(tick) EXCEPT !.half = NoSignal]
    /\ UNCHANGED <<status, order, entry, interruptions>>

BeginExecute ==
    /\ tick.stage = "verify" /\ tick.half = NoSignal /\ tick.todo = {}
    /\ tick' = IF tick.vetoed THEN Idle
               ELSE [tick EXCEPT !.stage = "execute", !.todo = Pending("approved")]
    /\ UNCHANGED <<status, decision, order, entry, interruptions>>

(***************************************************************************)
(* Execution: a signal with a working order is passed over, another one is *)
(* refused, submitted or simulated.                                        *)
(***************************************************************************)
Executing == tick.stage = "execute" /\ tick.half = NoSignal /\ tick.todo # {}

PassOver ==
    /\ Executing
    /\ tick' = Passed(tick)
    /\ UNCHANGED <<status, decision, order, entry, interruptions>>

Refuse ==
    /\ Executing /\ order[Current] # "working"
    /\ Mark(Current, "rejected")
    /\ tick' = [tick EXCEPT !.half = Current]
    /\ UNCHANGED <<decision, order, entry, interruptions>>

Submit ==
    /\ Executing /\ order[Current] # "working" /\ decision[Current] # Undecided
    /\ order' = [order EXCEPT ![Current] = "working"]
    /\ tick' = Passed(tick)
    /\ UNCHANGED <<status, decision, entry, interruptions>>

Simulate ==
    /\ Executing /\ order[Current] # "working"
    /\ Mark(Current, "sentinel_simulated")
    /\ tick' = Passed(tick)
    /\ UNCHANGED <<decision, order, entry, interruptions>>

EndTick ==
    /\ tick.stage = "execute" /\ tick.half = NoSignal /\ tick.todo = {}
    /\ tick' = Idle
    /\ UNCHANGED <<status, decision, order, entry, interruptions>>

(***************************************************************************)
(* The venue and the process.                                              *)
(***************************************************************************)
OrderMoves(s) ==
    /\ \/ order[s] = "working" /\ \E to \in {"none", "position"} : order' = [order EXCEPT ![s] = to]
       \/ order[s] = "position" /\ order' = [order EXCEPT ![s] = "none"]
    /\ UNCHANGED <<status, decision, entry, tick, interruptions>>

Crash ==
    /\ tick.stage # "idle" /\ interruptions < MaxInterruptions
    /\ tick' = Idle /\ interruptions' = interruptions + 1
    /\ UNCHANGED <<status, decision, order, entry>>

Tick == \/ BeginTick \/ SkipDecided \/ Decide \/ Settle
        \/ BeginVerify \/ Confirm \/ Veto \/ RecordRefusal
        \/ BeginExecute \/ PassOver \/ Refuse \/ Submit \/ Simulate \/ EndTick

Next == Tick \/ Crash \/ \E s \in Signals : Build(s) \/ OrderMoves(s)

Spec == Init /\ [][Next]_vars /\ WF_vars(Tick)

(***************************************************************************)
(* A refusal is final: a signal refused by a decision or by its status is  *)
(* never approved again and no order leaves for it, wherever a crash falls *)
(* between the two writes.                                                 *)
(***************************************************************************)
Refused(s) == decision[s] = "rejected" \/ status[s] = "rejected"

KeepsRefusals ==
    \A s \in Signals : Refused(s) =>
        Refused(s)' /\ (order'[s] = "working" => order[s] = "working")

(***************************************************************************)
(* Every signal is decided, even behind one that a crash left pending with *)
(* its decision written: it keeps its place in the batch for ever.         *)
(***************************************************************************)
Decided == \A s \in Signals : status[s] = "created" ~> decision[s] # Undecided
=============================================================================
