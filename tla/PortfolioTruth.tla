---------------------------- MODULE PortfolioTruth ----------------------------
(***************************************************************************)
(* The account of one token as the bot sees it: captures of the venue by   *)
(* the refresh of the live loop, by another refresh (the recovery manager, *)
(* a loop left armed) and before each trade, interleaved with the orders   *)
(* of the bot, the lag of the Data API, the end of the market and crashes. *)
(***************************************************************************)
EXTENDS Integers, Sequences, FiniteSets

CONSTANTS Token,
          Lots,         \* the orders execution posts, one after the other
          ByHand,       \* quantities held before the bot first ran
          Refreshers, Pretrades,   \* the jobs that capture
          Once,         \* those of them that a process runs once, when it starts
          RowIds,       \* ids of local position rows
          Ages,         \* seconds a capture may take
          Limit,        \* the daily loss limit
          Ends,         \* how its market may end
          MaxTroubles   \* bound: failed captures and crashes

INSTANCE PortfolioRules WITH Tokens <- {Token}

Jobs == Refreshers \cup Pretrades
Nobody == "nobody"

PortfolioAssumption ==
    /\ Lots \in Seq([side : {"BUY", "SELL"}, size : Nat \ {0}, price : Nat, fee : Nat])
    /\ ByHand \subseteq Nat /\ Ages \subseteq Nat
    /\ RowIds \subseteq Nat /\ IsFiniteSet(RowIds)
    /\ Refreshers \cap Pretrades = {} /\ Once \subseteq Jobs /\ Nobody \notin Jobs
    /\ Ends \subseteq {"won", "lost"} /\ {Limit, MaxTroubles} \subseteq Nat

VARIABLES
    balance,     \* conditional balance at the venue
    over,        \* "no", "won" or "lost": the market of the token
    data,        \* the position the Data API shows: its size, loss and trades
    order,       \* the last order: at the venue, in the local rows, or both
    posts,       \* orders posted
    fills,       \* lots that matched, as the venue ordered them
    booked,      \* how many of them have a local fill row
    rows,        \* position row -> open quantity, 0 when closed
    job,         \* job -> the capture or refresh under way
    listed,      \* the jobs with a capture not stored yet, by capture time
    completed,   \* the newest completed checkpoint: the recovery it asks for, and
                 \* whether it allows entries and nothing disturbed it
    gate,        \* whether the newest checkpoint lets an evaluation pass
    latest,      \* the newest portfolio snapshot: its loss of the day, and the
                 \* refresh that has still to write it
    troubles     \* failed captures and crashes

venueVars == <<balance, over, data>>
orderVars == <<order, posts, fills, booked>>
truthVars == <<completed, gate, latest>>
vars == <<venueVars, orderVars, rows, job, listed, truthVars, troubles>>

Rested == [step |-> "idle", sound |-> FALSE, late |-> FALSE, seen |-> {}, held |-> 0,
           working |-> {}, fills |-> 0,
           entries |-> FALSE, recovery |-> "none", quantity |-> 0]

AfterRun(j) == [Rested EXCEPT !.step = IF j \in Once THEN "done" ELSE "idle"]

Open == {i \in RowIds : rows[i] > 0}
Held == LET Sum[s \in SUBSET RowIds] ==
              IF s = {} THEN 0 ELSE LET i == CHOOSE i \in s : TRUE IN rows[i] + Sum[s \ {i}]
        IN  Sum[RowIds]

AtVenue == order \in {"posted", "working"}
WorkingRow == order \in {"working", "ended"}
OrdersIf(present) == IF present THEN {posts} ELSE {}

TypeOK ==
    /\ balance \in Nat /\ over \in {"no", "won", "lost"}
    /\ order \in {"none", "posted", "matched", "working", "ended"}
    /\ posts \in 0..Len(Lots) /\ Len(fills) <= posts /\ booked \in 0..Len(fills)
    /\ rows \in [RowIds -> Nat]
    /\ \A j \in Jobs : job[j].step \in {"idle", "local", "listed", "stored", "rebuilt", "done"}
    /\ \A i \in DOMAIN listed : job[listed[i]].step = "listed"
    /\ latest.owner \in Jobs \cup {Nobody}

Init ==
    /\ balance \in ByHand /\ over = "no"
    /\ data = [size |-> balance, lost |-> FALSE, trades |-> 0]
    /\ order = "none" /\ posts = 0 /\ fills = <<>> /\ booked = 0
    /\ rows = [i \in RowIds |-> 0]
    /\ job = [j \in Jobs |-> Rested] /\ listed = <<>>
    /\ completed = [recovery |-> "none", sound |-> FALSE]
    /\ gate = FALSE /\ latest = [owner |-> Nobody, loss |-> 0]
    /\ troubles = 0

(***************************************************************************)
(* The venue and the orders.  What happens there spoils the captures under *)
(* way and the newest one: they are no longer of one moment.               *)
(***************************************************************************)
Disturbed ==
    /\ job' = [j \in Jobs |-> [job[j] EXCEPT !.sound = FALSE]]
    /\ completed' = [completed EXCEPT !.sound = FALSE]
    /\ UNCHANGED <<rows, listed, gate, latest, troubles>>

Lot == Lots[posts]
Signed(lot) == IF lot.side = "BUY" THEN lot.size ELSE -lot.size

\* What the evaluation asks of the account: the newest checkpoint allows
\* entries and the newest snapshot is below the loss limit.
Admits == gate /\ latest.loss < Limit

PostOrder ==
    /\ Admits /\ order = "none" /\ over = "no" /\ posts < Len(Lots)
    /\ balance + Signed(Lots[posts + 1]) >= 0
    /\ order' = "posted" /\ posts' = posts + 1
    /\ Disturbed /\ UNCHANGED <<venueVars, fills, booked>>

Leave == order' = IF order = "posted" THEN "matched" ELSE "ended"

Match ==
    /\ AtVenue /\ Leave
    /\ balance' = balance + Signed(Lot) /\ fills' = Append(fills, Lot)
    /\ Disturbed /\ UNCHANGED <<over, data, posts, booked>>

Cancel ==
    /\ AtVenue /\ Leave
    /\ Disturbed /\ UNCHANGED <<venueVars, posts, fills, booked>>

\* The market ends: a lost token stays in the account, a winner is redeemed.
End ==
    /\ over = "no" /\ ~AtVenue /\ balance > 0
    /\ \E end \in Ends :
          /\ over' = end
          /\ balance' = IF end = "won" THEN 0 ELSE balance
    /\ Disturbed /\ UNCHANGED <<data, orderVars>>

CatchUp ==
    /\ data' = [size |-> balance, lost |-> over = "lost", trades |-> Len(fills)]
    /\ UNCHANGED <<balance, over, orderVars, rows, job, listed, truthVars, troubles>>

\* The local rows of orders and fills.
Rowed(step) ==
    /\ order' = step
    /\ UNCHANGED <<venueVars, posts, fills, rows, job, listed, truthVars, troubles>>

Record ==
    /\ \/ order = "posted" /\ Rowed("working")
       \/ order = "matched" /\ Rowed("ended")
    /\ UNCHANGED booked

Resolve == order = "ended" /\ booked' = Len(fills) /\ Rowed("none")

(***************************************************************************)
(* A capture: the local rows first, then orders and positions, then the    *)
(* balances, then the rows of the result.                                  *)
(***************************************************************************)
Busy == {j \in Jobs : job[j].step \notin {"idle", "done"}}

Begin(j) ==
    /\ job[j].step = "idle"
    /\ job' = [k \in Jobs |->
                 IF k # j THEN [job[k] EXCEPT !.sound = FALSE]
                 ELSE [Rested EXCEPT !.step = "local", !.sound = Busy = {}, !.seen = Open,
                         !.held = Held, !.working = OrdersIf(WorkingRow), !.fills = booked]]
    /\ UNCHANGED <<venueVars, orderVars, rows, listed, truthVars, troubles>>

\* Of the venue a capture sees the orders and balances of the moment and the
\* position the Data API shows.
Reading ==
    LET one(x) == [t \in {Token} |-> x]
    IN  [orders |-> {[id |-> i, token |-> Token] : i \in OrdersIf(AtVenue)},
         size |-> one(data.size), lost |-> one(data.lost), balance |-> one(balance),
         known |-> {Token}, lastTrade |-> IF data.trades = 0 THEN Never ELSE 60 * data.trades]

Local(j) ==
    [held |-> [t \in {Token} |-> job[j].held], orders |-> job[j].working,
     lastFill |-> IF job[j].fills = 0 THEN Never ELSE 60 * job[j].fills]

List(j) ==
    /\ job[j].step = "local"
    /\ \E age \in Ages :
          LET recovery == Recovery(Divergence(Reading, Local(j)))
              entries == Permissions(Freshness(age), recovery).entries
          IN  job' = [job EXCEPT ![j] =
                        [@ EXCEPT !.step = "listed", !.recovery = recovery, !.entries = entries,
                           !.sound = job[j].sound /\ entries, !.quantity = Canonical(Reading, Token), !.working = {}, !.held = 0]]
    /\ listed' = Append(listed, j)
    /\ UNCHANGED <<venueVars, orderVars, rows, truthVars, troubles>>

\* The newest row of a kind is the one captured last, not the one stored last.
Newest(j) == \E i \in DOMAIN listed : listed[i] = j
Place(j) == CHOOSE i \in DOMAIN listed : listed[i] = j
After(j) == SubSeq(listed, Place(j) + 1, Len(listed))
Without(j) == IF Newest(j) THEN SubSeq(listed, 1, Place(j) - 1) \o After(j) ELSE listed

Store(j) ==
    /\ job[j].step = "listed"
    /\ job' = [job EXCEPT ![j] =
                 IF j \in Pretrades THEN AfterRun(j)
                 ELSE [Rested EXCEPT !.step = "stored", !.seen = job[j].seen,
                         !.fills = job[j].fills, !.quantity = job[j].quantity]]
    /\ IF Newest(j)
       THEN /\ listed' = After(j)
            /\ completed' = [recovery |-> job[j].recovery, sound |-> job[j].sound]
            /\ gate' = IF job[j].late THEN gate ELSE job[j].entries
            /\ latest' = [owner |-> IF j \in Refreshers THEN j ELSE Nobody, loss |-> 0]
       ELSE UNCHANGED <<listed, truthVars>>
    /\ UNCHANGED <<venueVars, orderVars, rows, troubles>>

\* A failed capture leaves a checkpoint of its own, which blocks nothing.
Fail(j) ==
    /\ job[j].step \in {"local", "listed"} /\ troubles < MaxTroubles
    /\ job' = [k \in Jobs |-> IF k = j THEN AfterRun(j)
                              ELSE [job[k] EXCEPT !.late = job[k].step = "listed"]]
    /\ listed' = Without(j)
    /\ gate' = TRUE
    /\ troubles' = troubles + 1
    /\ UNCHANGED <<venueVars, orderVars, rows, completed, latest>>

(***************************************************************************)
(* The rest of a refresh: the position rows follow the capture, then the   *)
(* snapshot gets the losses of the fills read at the beginning.            *)
(***************************************************************************)
Spare == {i \in RowIds \ Open : \A j \in Jobs : i \notin job[j].seen}

\* Mutant: duplicates stay open.
RebuiltKeeping(seen, quantity) ==
    LET kept == IF seen # {} THEN {CHOOSE i \in seen : \A k \in seen : i <= k}
                ELSE IF quantity > 0 THEN {CHOOSE i \in Spare : \A k \in Spare : i <= k} ELSE {}
    IN  [i \in RowIds |-> IF i \in kept THEN quantity ELSE rows[i]]

Rebuilt(seen, quantity) ==
    LET kept == IF seen # {} THEN {CHOOSE i \in seen : \A k \in seen : i <= k}
                ELSE IF quantity > 0 THEN {CHOOSE i \in Spare : \A k \in Spare : i <= k} ELSE {}
    IN  [i \in RowIds |-> IF i \in kept THEN quantity ELSE IF i \in seen THEN 0 ELSE rows[i]]

Rebuild(j) ==
    /\ job[j].step = "stored"
    /\ job[j].seen = {} /\ job[j].quantity > 0 => Spare # {}
    /\ rows' = Rebuilt(job[j].seen, job[j].quantity)
    /\ job' = [job EXCEPT ![j] = [Rested EXCEPT !.step = "rebuilt", !.fills = job[j].fills]]
    /\ UNCHANGED <<venueVars, orderVars, listed, truthVars, troubles>>

LossOf(n) == -Realized(Replay(SubSeq(fills, 1, n)))

Finish(j) ==
    /\ job[j].step = "rebuilt"
    /\ latest' = IF latest.owner = j THEN [owner |-> Nobody, loss |-> LossOf(job[j].fills)]
                 ELSE latest
    /\ job' = [job EXCEPT ![j] = AfterRun(j)]
    /\ UNCHANGED <<venueVars, orderVars, rows, listed, completed, gate, troubles>>

Crash ==
    /\ troubles < MaxTroubles /\ Busy # {}
    /\ job' = [j \in Jobs |-> Rested] /\ listed' = <<>>
    /\ latest' = [latest EXCEPT !.owner = Nobody]
    /\ troubles' = troubles + 1
    /\ UNCHANGED <<venueVars, orderVars, rows, completed, gate>>

Step(j) ==
    \/ Begin(j) \/ List(j) \/ Store(j)
    \/ j \in Refreshers /\ (Rebuild(j) \/ Finish(j))

Next ==
    \/ PostOrder \/ Match \/ Cancel \/ End \/ CatchUp \/ Record \/ Resolve
    \/ \E j \in Jobs : Step(j) \/ Fail(j)
    \/ Crash

\* The jobs write the rows of what they did, the Data API catches up, and the
\* live loop refreshes on its interval.
Fairness ==
    /\ WF_vars(Record \/ Resolve \/ CatchUp)
    /\ \A j \in Refreshers \ Once : WF_vars(Step(j))

Spec == Init /\ [][Next]_vars
FairSpec == Spec /\ Fairness

(***************************************************************************)
(* An undisturbed capture that allows entries is right, and stays right    *)
(* while the refresh it belongs to rebuilds the rows: what is held locally *)
(* is what the venue holds, a worthless token apart, and no order is on    *)
(* the venue that has no row.                                              *)
(***************************************************************************)
EntriesMeanTruth ==
    completed.sound =>
        /\ Held = balance \/ (over = "lost" /\ Held = 0)
        /\ order # "posted"

(***************************************************************************)
(* Differences repair themselves: once orders and venue are quiet, the     *)
(* rows are what is held and the captures find nothing to review, whatever *)
(* was read too early, written twice or lost in a crash.                   *)
(***************************************************************************)
Repaired ==
    Held = balance /\ Cardinality(Open) <= 1 /\ completed.recovery = "none"

RepairsItself == <>[]Repaired
=============================================================================
