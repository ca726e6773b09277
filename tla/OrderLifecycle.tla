--------------------------- MODULE OrderLifecycle ---------------------------
(***************************************************************************)
(* One token's orders, from the signal that asks for them to the fill that *)
(* ends them.  The execution job plans, checks external truth, records an  *)
(* intent, posts and stores a row; reconciliation compares the rows with   *)
(* the venue's open orders and trades; crash recovery decides whether a    *)
(* restart may trade.  The venue executes lots, expires and cancels orders *)
(* on its own time, and one of its listings may lag behind what it did.    *)
(* Every order has Size lots at price 1; an attempt is one call of         *)
(* postOrder and stands for its intent, its row and its venue order.       *)
(***************************************************************************)
EXTENDS OrderRules

CONSTANTS
  Signals,       \* the signals the risk job approved
  Exits,         \* those that reduce the position: SELL, DECREASE
  Plans,         \* what distinguishes two plans of one signal: price, expiration
  MaxAttempts,   \* bound: calls of postOrder
  Size,          \* lots in an order
  Cash,          \* lots the account can pay for
  Reconcilers,   \* the timer callbacks that may reconcile
  MaxCrashes,    \* bound: crashes
  MaxAge,        \* bound: 1 leaves stale orders out, 2 has them
  Replies,       \* answers postOrder may give
  CancelErrors,  \* what the error text of a failing cancel contains
  Lags,          \* which venue listing may lag: nothing, orders or trades
  SlowReplies    \* whether a listing may take longer than the grace period

ASSUME OrderAssumption ==
  /\ Exits \subseteq Signals
  /\ MaxAttempts \in Nat \ {0} /\ Size \in Nat \ {0}
  /\ Reconcilers # {}
  /\ Cash \in Nat /\ MaxCrashes \in Nat /\ MaxAge \in 0 .. 2
  /\ Replies \subseteq {"live", "filled", "uncertain", "rejected"}
  /\ CancelErrors \subseteq ErrorTexts
  /\ Lags \subseteq {"nothing", "orders", "trades"}
  /\ SlowReplies \in BOOLEAN

Attempts == 1 .. MaxAttempts

VARIABLES
  signal,    \* approved or rejected
  attempt,   \* the intent behind each attempt: its key and its latest status
  row,       \* the order table
  age,       \* of a row: 0 within the grace period, 1 past it, 2 stale
  booked,    \* fill rows per order
  ledger,    \* lots the resolved-trade ledger has for each order; 0 for none
  posLocal,  \* the position the portfolio tables hold
  venue,     \* what the venue did with each attempt
  shown,     \* what its listings show of that
  lag,       \* the listing that may be behind
  exec,      \* the execution job
  loop,      \* one reconciliation per reconciler
  boot,      \* up, down, or recovering with what recovery read first
  crashes

jobs == <<exec, loop, boot, crashes>>
books == <<signal, attempt, row, age, booked, ledger, posLocal>>
world == <<venue, shown, lag>>
vars == <<jobs, books, world>>

-----------------------------------------------------------------------------
Used == {a \in Attempts : attempt[a].intent # "none"}
SignalOf(a) == attempt[a].signal
IsEntry(s) == s \notin Exits
SideOf(s) == IF IsEntry(s) THEN "BUY" ELSE "SELL"
OnSide(side) == {a \in Used : SideOf(SignalOf(a)) = side}

Working == {a \in Attempts : row[a].status \in WorkingStatuses}
EpochOf(s) == Cardinality({a \in Used : SignalOf(a) = s /\ row[a].status = "canceled"})
\* mutant: an intent that was only prepared does not block
BlockingIntentsUnknownOnly == {a \in Attempts : attempt[a].intent = "unknown_visibility"}

BlockingIntents == {a \in Attempts : attempt[a].intent \in {"prepared", "unknown_visibility"}}

\* The sum of f over the attempts in S, taken in their order.
Sums(f, S) ==
  LET upTo[n \in 0 .. MaxAttempts] ==
        IF n = 0 THEN 0 ELSE upTo[n - 1] + (IF n \in S THEN f[n] ELSE 0)
  IN upTo
Total(f, S) == Sums(f, S)[MaxAttempts]
Open(a) == venue[a].state = "open"

\* What getOpenOrders, getTrades and the positions endpoint answer now.
ListedOpen == {a \in Used : IF lag = "orders" THEN shown[a].open ELSE Open(a)}
Reported == [a \in Attempts |->
               IF lag = "trades" THEN shown[a].lots ELSE venue[a].executed]
OpenLots(side) == Total([a \in Attempts |-> Size - Reported[a]],
                        ListedOpen \cap OnSide(side))

\* mutant: what is on order counts as held
ExternalPositionWithOpen ==
  Total(Reported, OnSide("BUY")) + OpenLots("BUY") - Total(Reported, OnSide("SELL"))

ExternalPosition == Total(Reported, OnSide("BUY")) - Total(Reported, OnSide("SELL"))

Snapshot ==
  [divergence |-> DivergenceStatus(DivergenceClasses(posLocal, ExternalPosition,
                                                     Working, ListedOpen)),
   position   |-> ExternalPosition,
   cash       |-> AtLeastZero(Cash - ExternalPosition),
   buyOpen    |-> OpenLots("BUY"),
   sellOpen   |-> OpenLots("SELL")]

NoAttempt == [signal |-> "none", epoch |-> 0, plan |-> "none", intent |-> "none"]
NoRow == [status |-> "none", label |-> "none", error |-> "other", filled |-> 0,
          canceledAt |-> FALSE]
NoCall == [at |-> 0, label |-> "none", rejects |-> FALSE, lots |-> 0]
None == [a \in Attempts |-> 0]
Idle == [pc |-> "idle"]
IdleLoop == [pc |-> "idle", rows |-> [a \in Attempts |-> NoRow], todo |-> {},
             open |-> [a \in Attempts |-> "missing"], ages |-> None,
             call |-> NoCall, trades |-> None, failed |-> FALSE]
Up == [pc |-> "up", unresolved |-> {}, open |-> {}]

Init ==
  /\ signal = [s \in Signals |-> "approved"]
  /\ attempt = [a \in Attempts |-> NoAttempt]
  /\ row = [a \in Attempts |-> NoRow]
  /\ age = [a \in Attempts |-> 0]
  /\ booked = [a \in Attempts |-> 0]
  /\ ledger = [a \in Attempts |-> 0]
  /\ posLocal = 0
  /\ venue = [a \in Attempts |-> [state |-> "absent", executed |-> 0]]
  /\ shown = [a \in Attempts |-> [open |-> FALSE, lots |-> 0]]
  /\ lag \in Lags
  /\ exec = Idle
  /\ loop = [r \in Reconcilers |-> IdleLoop]
  /\ boot = Up
  /\ crashes = 0

-----------------------------------------------------------------------------
(***************************************************************************)
(* ExecuteOrdersJob                                                        *)
(***************************************************************************)
RejectSignal(s) == signal' = [signal EXCEPT ![s] = "rejected"]

\* Any gate before the plan turns the signal down.
GateReject(s) ==
  /\ boot.pc = "up" /\ exec.pc = "idle"
  /\ signal[s] = "approved"
  /\ \A a \in Working : SignalOf(a) # s
  /\ RejectSignal(s)
  /\ UNCHANGED <<attempt, row, age, booked, ledger, posLocal, world, jobs>>

\* A plan whose intent was already recorded is not submitted again.
Begin(s, p) ==
  /\ boot.pc = "up" /\ exec.pc = "idle"
  /\ signal[s] = "approved"
  /\ \A a \in Working : SignalOf(a) # s
  /\ \A a \in Used : <<attempt[a].signal, attempt[a].epoch, attempt[a].plan>>
                         # <<s, EpochOf(s), p>>
  /\ Cardinality(Used) < MaxAttempts
  /\ exec' = [pc |-> "planned", signal |-> s, epoch |-> EpochOf(s), plan |-> p]
  /\ UNCHANGED <<loop, boot, crashes, books, world>>

\* The external snapshot, the account's deployable risk and the funding check.
Capture ==
  LET side == SideOf(exec.signal)
      localBuys == Total([a \in Attempts |-> Remaining(row[a], Size)],
                         Working \cap OnSide("BUY"))
      passes == /\ DeployableRisk(Snapshot, localBuys) >= Size
                /\ FundingPasses(Snapshot, side, Size)
  IN /\ exec.pc = "planned"
     /\ \/ /\ passes
           /\ exec' = [pc |-> "checked", signal |-> exec.signal, epoch |-> exec.epoch,
                       plan |-> exec.plan, position |-> ExternalPosition,
                       venueSame |-> OpenLots(side)]
           /\ UNCHANGED signal
        \/ \* the check fails, or the capture throws
           /\ exec' = Idle
           /\ RejectSignal(exec.signal)
     /\ UNCHANGED <<loop, boot, crashes, attempt, row, age, booked, ledger, posLocal, world>>

\* The duplicate guard reads the local working rows after the capture.
Prepare ==
  LET side == SideOf(exec.signal)
      localSame == Total([a \in Attempts |-> Remaining(row[a], Size)],
                         Working \cap OnSide(side))
      n == Cardinality(Used) + 1
  IN /\ exec.pc = "checked"
     /\ \/ /\ DuplicateExposure(side, Size, exec.position, localSame, exec.venueSame)
           /\ exec' = Idle
           /\ RejectSignal(exec.signal)
           /\ UNCHANGED attempt
        \/ /\ ~DuplicateExposure(side, Size, exec.position, localSame, exec.venueSame)
           /\ attempt' = [attempt EXCEPT ![n] =
                [signal |-> exec.signal, epoch |-> exec.epoch, plan |-> exec.plan,
                 intent |-> "prepared"]]
           /\ exec' = [pc |-> "prepared", at |-> n]
           /\ UNCHANGED signal
     /\ UNCHANGED <<loop, boot, crashes, row, age, booked, ledger, posLocal, world>>

\* postOrder; an answer that leaves the outcome open says nothing of the venue.
Post(reply) ==
  /\ exec.pc = "prepared"
  /\ \E accepted \in BOOLEAN :
       /\ reply \in {"live", "filled"} => accepted
       /\ reply = "rejected" => ~accepted
       /\ venue' = IF accepted
                   THEN [venue EXCEPT ![exec.at] =
                          IF reply = "filled" THEN [state |-> "filled", executed |-> Size]
                                              ELSE [state |-> "open", executed |-> 0]]
                   ELSE venue
  /\ exec' = [pc |-> "answered", at |-> exec.at, reply |-> reply]
  /\ UNCHANGED <<loop, boot, crashes, books, shown, lag>>

\* An uncertain answer leaves no row, and the signal stays approved.
RecordUnknown ==
  /\ exec.pc = "answered" /\ exec.reply = "uncertain"
  /\ attempt' = [attempt EXCEPT ![exec.at].intent = "unknown_visibility"]
  /\ exec' = Idle
  /\ UNCHANGED <<loop, boot, crashes, signal, row, age, booked, ledger, posLocal, world>>

CreateRow ==
  /\ exec.pc = "answered" /\ exec.reply # "uncertain"
  /\ row' = [row EXCEPT ![exec.at] =
       [NoRow EXCEPT !.status = CASE exec.reply = "live" -> "submitted"
                                  [] OTHER -> exec.reply,
                     !.label = "venue",
                     !.error = IF exec.reply = "rejected" THEN "failed" ELSE "other",
                     !.filled = IF exec.reply = "filled" THEN Size ELSE 0]]
  /\ exec' = [exec EXCEPT !.pc = "stored"]
  /\ UNCHANGED <<loop, boot, crashes, signal, attempt, age, booked, ledger, posLocal, world>>

Settle ==
  /\ exec.pc = "stored"
  /\ attempt' = [attempt EXCEPT ![exec.at].intent =
                   IF exec.reply = "live" THEN "submitted" ELSE "terminal"]
  /\ IF exec.reply = "rejected" THEN RejectSignal(SignalOf(exec.at)) ELSE UNCHANGED signal
  /\ exec' = Idle
  /\ UNCHANGED <<loop, boot, crashes, row, age, booked, ledger, posLocal, world>>

-----------------------------------------------------------------------------
(***************************************************************************)
(* The venue, and time                                                     *)
(***************************************************************************)
Execute(a) ==
  /\ Open(a)
  /\ venue' = [venue EXCEPT ![a] =
       [state |-> IF venue[a].executed + 1 = Size THEN "filled" ELSE "open",
        executed |-> venue[a].executed + 1]]
  /\ UNCHANGED <<shown, lag, books, jobs>>

\* The order expires, or the venue cancels it.
Expire(a) ==
  /\ Open(a)
  /\ venue' = [venue EXCEPT ![a].state = "canceled"]
  /\ UNCHANGED <<shown, lag, books, jobs>>

Publish(a) ==
  /\ \/ lag = "orders" /\ shown[a].open # Open(a)
     \/ lag = "trades" /\ shown[a].lots # venue[a].executed
  /\ shown' = [shown EXCEPT ![a] =
       IF lag = "orders" THEN [@ EXCEPT !.open = Open(a)]
                         ELSE [@ EXCEPT !.lots = venue[a].executed]]
  /\ UNCHANGED <<venue, lag, books, jobs>>

\* What the grace period is for: an open order is listed before it has passed.
Grow(a) ==
  /\ a \in Working /\ age[a] < MaxAge
  /\ lag = "orders" /\ Open(a) => shown[a].open
  /\ SlowReplies \/ \A r \in Reconcilers : loop[r].pc # "listed"
  /\ age' = [age EXCEPT ![a] = @ + 1]
  /\ UNCHANGED <<signal, attempt, row, booked, ledger, posLocal, jobs, world>>

-----------------------------------------------------------------------------
(***************************************************************************)
(* ManageOpenOrdersJob                                                     *)
(***************************************************************************)
Recoverer == CHOOSE r \in Reconcilers : TRUE

Step(r, l) == loop' = [loop EXCEPT ![r] = l]

Load(r) ==
  /\ loop[r].pc = "idle"
  /\ boot.pc = "up" \/ (boot.pc = "recovering" /\ r = Recoverer)
  /\ Step(r, [IdleLoop EXCEPT !.pc = "loaded", !.todo = Working,
                !.rows = [a \in Attempts |-> IF a \in Working
                            THEN [NoRow EXCEPT !.status = row[a].status,
                                     !.label = row[a].label, !.filled = row[a].filled]
                            ELSE NoRow]])
  /\ UNCHANGED <<exec, boot, crashes, books, world>>

\* An order that has ended may still be listed, as live or with its last status.
\* Only the entries of the rows in hand are looked up.
Listing(rows) ==
  {l \in [Attempts -> {"missing", "live", "filled", "canceled"}] :
     \A a \in Attempts : IF a \in rows \cap ListedOpen
                         THEN l[a] \in {"live", venue[a].state} \ {"open"}
                         ELSE l[a] = "missing"}

ListOpenOrders(r) ==
  /\ loop[r].pc = "loaded"
  /\ \E l \in Listing(loop[r].todo) : Step(r, [loop[r] EXCEPT !.pc = "listed", !.open = l])
  /\ UNCHANGED <<exec, boot, crashes, books, world>>

ListFails(r) ==
  /\ loop[r].pc = "loaded"
  /\ Step(r, [IdleLoop EXCEPT !.pc = "fills", !.failed = TRUE])
  /\ UNCHANGED <<exec, boot, crashes, books, world>>

ReadClock(r) ==
  /\ loop[r].pc = "listed"
  /\ Step(r, [loop[r] EXCEPT !.pc = "managing",
                !.ages = [a \in Attempts |-> IF a \in loop[r].todo THEN age[a] ELSE 0]])
  /\ UNCHANGED <<exec, boot, crashes, books, world>>

\* Rows are taken in the order of their creation.
Current(r) == Min(loop[r].todo)
Managing(r) == loop[r].pc = "managing" /\ loop[r].todo # {}
NextRow(r) ==
  LET a == Current(r)
  IN Step(r, [loop[r] EXCEPT !.pc = "managing", !.todo = @ \ {a}, !.call = NoCall,
                !.rows[a] = NoRow, !.open[a] = "missing", !.ages[a] = 0])
WriteRow(r, new) ==
  /\ row' = [row EXCEPT ![Current(r)] = new]
  /\ NextRow(r)
  /\ UNCHANGED <<signal, attempt, age, booked, ledger, posLocal, exec, boot, crashes, world>>

RowNow(r) == row[Current(r)]
RowThen(r) == loop[r].rows[Current(r)]
ListedAs(r) == loop[r].open[Current(r)]
AgeThen(r) == loop[r].ages[Current(r)]
AwaitingCancel(r) == RowThen(r).label = "cancel_requested"

KeepMissing(r) ==
  /\ Managing(r) /\ ListedAs(r) = "missing" /\ AgeThen(r) = 0
  /\ WriteRow(r, [RowNow(r) EXCEPT !.error = "other"])

\* mutant: no grace period
ResolveMissingAtOnce(r) ==
  LET status == MissingStatus(RowThen(r), Size)
  IN /\ Managing(r) /\ ListedAs(r) = "missing"
     /\ WriteRow(r, [RowNow(r) EXCEPT !.status = status, !.error = "other",
                       !.label = "missing_from_open_orders",
                       !.canceledAt = @ \/ status = "canceled"])

ResolveMissing(r) ==
  LET status == MissingStatus(RowThen(r), Size)
  IN /\ Managing(r) /\ ListedAs(r) = "missing" /\ AgeThen(r) > 0
     /\ WriteRow(r, [RowNow(r) EXCEPT !.status = status, !.error = "other",
                       !.label = "missing_from_open_orders",
                       !.canceledAt = @ \/ status = "canceled"])

\* mutant: a requested cancel is awaited before the order is looked for
AwaitCancelFirst(r) ==
  /\ Managing(r) /\ AwaitingCancel(r)
  /\ WriteRow(r, [RowNow(r) EXCEPT !.error = "other"])

AwaitCancel(r) ==
  /\ Managing(r) /\ ListedAs(r) # "missing" /\ AwaitingCancel(r)
  /\ WriteRow(r, [RowNow(r) EXCEPT !.error = "other"])

TakeListedStatus(r) ==
  /\ Managing(r) /\ ListedAs(r) \in {"filled", "canceled"} /\ ~AwaitingCancel(r)
  /\ WriteRow(r, [RowNow(r) EXCEPT !.status = ListedAs(r), !.label = "venue",
                    !.canceledAt = @ \/ ListedAs(r) = "canceled"])

EntryVerdicts == RestingVerdicts(TRUE)
ExitVerdicts == RestingVerdicts(FALSE)
VerdictsFor(r) == IF IsEntry(SignalOf(Current(r))) THEN EntryVerdicts ELSE ExitVerdicts
Resting(r) == Managing(r) /\ ListedAs(r) = "live" /\ ~AwaitingCancel(r)

KeepResting(r) ==
  /\ Resting(r) /\ AgeThen(r) < 2
  /\ \E v \in VerdictsFor(r) : v.act = "keep"
  /\ WriteRow(r, [RowNow(r) EXCEPT !.error = "other"])

\* The policy wants the order gone, it is stale, or the caller cancels all.
AskCancel(r) ==
  /\ Resting(r)
  /\ \E v \in {[act |-> "cancel", label |-> "cancel_requested", rejects |-> FALSE]}
              \cup {w \in VerdictsFor(r) : w.act = "cancel" /\ AgeThen(r) < 2} :
       Step(r, [loop[r] EXCEPT !.pc = "cancel",
                 !.call = [NoCall EXCEPT !.at = Current(r), !.label = v.label,
                                         !.rejects = v.rejects]])
  /\ UNCHANGED <<exec, boot, crashes, books, world>>

\* cancelOrder answers without throwing, whether or not the venue canceled.
CancelAnswers(r) ==
  /\ loop[r].pc = "cancel"
  /\ \/ venue' = [venue EXCEPT ![loop[r].call.at].state = IF @ = "open" THEN "canceled" ELSE @]
     \/ UNCHANGED venue
  /\ Step(r, [loop[r] EXCEPT !.pc = "mark"])
  /\ UNCHANGED <<exec, boot, crashes, books, shown, lag>>

\* It throws; the row keeps the text and the next cycle tries again.
CancelFails(r, text) ==
  /\ loop[r].pc = "cancel"
  /\ WriteRow(r, [RowNow(r) EXCEPT !.error = text])

\* The status written is the one loaded before the cancel.
MarkCanceling(r) ==
  LET a == loop[r].call.at
  IN /\ loop[r].pc = "mark"
     /\ row' = [row EXCEPT ![a] =
          [@ EXCEPT !.status = IF RowThen(r).status = "partially_filled"
                               THEN "partially_filled" ELSE "acknowledged",
                    !.label = loop[r].call.label, !.error = "other"]]
     /\ IF loop[r].call.rejects THEN RejectSignal(SignalOf(a)) ELSE UNCHANGED signal
     /\ NextRow(r)
     /\ UNCHANGED <<attempt, age, booked, ledger, posLocal, exec, boot, crashes, world>>

DoneManaging(r) ==
  /\ loop[r].pc = "managing" /\ loop[r].todo = {}
  /\ Step(r, [IdleLoop EXCEPT !.pc = "fills"])
  /\ UNCHANGED <<exec, boot, crashes, books, world>>

-----------------------------------------------------------------------------
(***************************************************************************)
(* ReconcileFillsJob                                                       *)
(***************************************************************************)
FetchTrades(r) ==
  /\ loop[r].pc = "fills"
  /\ \/ Step(r, [loop[r] EXCEPT !.pc = "applying", !.trades = Reported])
     \/ Step(r, [loop[r] EXCEPT !.pc = "done", !.failed = TRUE])
  /\ UNCHANGED <<exec, boot, crashes, books, world>>

\* One transaction: the fill row, which is unique, and the order row.
ApplyTrade(r, a) ==
  LET lots == booked[a] + 1
      filled == AtMost(Size, row[a].filled + 1)
  IN /\ loop[r].pc = "applying"
     /\ booked[a] < loop[r].trades[a] /\ row[a].status # "none"
     /\ booked' = [booked EXCEPT ![a] = lots]
     /\ row' = [row EXCEPT ![a] = AfterFill(@, Size)]
     /\ IF EconomicallyResolved(row[a], filled, Size)
        THEN Step(r, [loop[r] EXCEPT !.pc = "append",
                        !.call = [NoCall EXCEPT !.at = a, !.lots = lots]])
        ELSE UNCHANGED loop
     /\ UNCHANGED <<exec, boot, crashes, signal, attempt, age, ledger, posLocal, world>>

\* A trade of an order that has no row is left for the next cycle.
SkipOrphan(r, a) ==
  /\ loop[r].pc = "applying"
  /\ booked[a] < loop[r].trades[a] /\ row[a].status = "none"
  /\ Step(r, [loop[r] EXCEPT !.trades[a] = booked[a]])
  /\ UNCHANGED <<exec, boot, crashes, books, world>>

\* After the commit; the ledger keeps one record per order.
AppendLedger(r) ==
  LET a == loop[r].call.at
  IN /\ loop[r].pc = "append"
     /\ ledger' = [ledger EXCEPT ![a] = IF @ = 0 THEN loop[r].call.lots ELSE @]
     /\ Step(r, [loop[r] EXCEPT !.pc = "applying", !.call = NoCall])
     /\ UNCHANGED <<exec, boot, crashes, signal, attempt, row, age, booked, posLocal, world>>

DoneReconciling(r) ==
  /\ \/ loop[r].pc = "applying" /\ \A a \in Attempts : booked[a] >= loop[r].trades[a]
     \/ loop[r].pc = "done" /\ boot.pc = "up"
  /\ Step(r, IF boot.pc = "up" THEN IdleLoop
              ELSE [IdleLoop EXCEPT !.pc = "done", !.failed = loop[r].failed])
  /\ UNCHANGED <<exec, boot, crashes, books, world>>

\* RefreshPortfolioJob takes the positions from external truth.
RefreshPortfolio ==
  /\ boot.pc = "up"
  /\ posLocal # ExternalPosition
  /\ posLocal' = ExternalPosition
  /\ UNCHANGED <<signal, attempt, row, age, booked, ledger, jobs, world>>

-----------------------------------------------------------------------------
(***************************************************************************)
(* A crash, and CrashRecoveryService at the next start                     *)
(***************************************************************************)
Crash ==
  /\ boot.pc # "down" /\ crashes < MaxCrashes
  /\ crashes' = crashes + 1
  /\ exec' = Idle
  /\ loop' = [r \in Reconcilers |-> IdleLoop]
  /\ boot' = [Up EXCEPT !.pc = "down"]
  /\ UNCHANGED <<books, world>>

StartRecovery ==
  /\ boot.pc = "down"
  /\ boot' = [pc |-> "recovering", unresolved |-> BlockingIntents, open |-> ListedOpen]
  /\ UNCHANGED <<exec, loop, crashes, books, world>>

\* The local ids are the rows' own, the others are the venue's.
GhostDetected ==
  GhostExposure({<<"row", a>> : a \in Working}, {<<"venue", a>> : a \in boot.open},
                {}, boot.unresolved)
Recovered ==
  /\ ~loop[Recoverer].failed
  /\ ~GhostDetected
  /\ boot.unresolved = {}

FinishRecovery ==
  /\ boot.pc = "recovering" /\ loop[Recoverer].pc = "done"
  /\ posLocal' = ExternalPosition
  /\ boot' = IF Recovered THEN Up ELSE [Up EXCEPT !.pc = "down"]
  /\ loop' = [loop EXCEPT ![Recoverer] = IdleLoop]
  /\ UNCHANGED <<exec, crashes, signal, attempt, row, age, booked, ledger, world>>

-----------------------------------------------------------------------------
Executing ==
  \/ \E s \in Signals : GateReject(s) \/ \E p \in Plans : Begin(s, p)
  \/ Capture \/ Prepare
  \/ \E reply \in Replies : Post(reply)
  \/ RecordUnknown \/ CreateRow \/ Settle

Venue == \E a \in Attempts : Execute(a) \/ Expire(a)
Time == \E a \in Attempts : Publish(a) \/ Grow(a)

Manage(r) ==
  \/ Load(r) \/ ListOpenOrders(r) \/ ListFails(r) \/ ReadClock(r)
  \/ KeepMissing(r) \/ ResolveMissing(r) \/ AwaitCancel(r) \/ TakeListedStatus(r)
  \/ KeepResting(r) \/ AskCancel(r) \/ CancelAnswers(r)
  \/ \E text \in CancelErrors : CancelFails(r, text)
  \/ MarkCanceling(r) \/ DoneManaging(r)

Reconcile(r) ==
  \/ FetchTrades(r)
  \/ \E a \in Attempts : ApplyTrade(r, a) \/ SkipOrphan(r, a)
  \/ AppendLedger(r) \/ DoneReconciling(r)

Next ==
  \/ Executing \/ Venue \/ Time
  \/ \E r \in Reconcilers : Manage(r) \/ Reconcile(r)
  \/ RefreshPortfolio
  \/ Crash \/ StartRecovery \/ FinishRecovery

Spec == Init /\ [][Next]_vars

\* The reconcile timer fires, a job that started runs on, a listing call does
\* not fail for ever, the venue's lists catch up and the clock moves.
Fairness ==
  /\ \A r \in Reconcilers : WF_vars(Manage(r) \/ Reconcile(r)) /\ SF_vars(ListOpenOrders(r))
  /\ \A a \in Attempts : WF_vars(Publish(a)) /\ SF_vars(Grow(a))
FairSpec == Spec /\ Fairness

-----------------------------------------------------------------------------
TypeOK ==
  /\ signal \in [Signals -> {"approved", "rejected"}]
  /\ \A a \in Attempts :
       \/ attempt[a] = NoAttempt
       \/ attempt[a] \in [signal : Signals, epoch : 0 .. MaxAttempts, plan : Plans,
            intent : {"prepared", "submitted", "unknown_visibility", "terminal"}]
  /\ row \in [Attempts -> [status : RowStatuses, label : VenueLabels, error : ErrorTexts,
                           filled : 0 .. Size, canceledAt : BOOLEAN]]
  /\ age \in [Attempts -> 0 .. 2]
  /\ booked \in [Attempts -> 0 .. Size] /\ ledger \in [Attempts -> 0 .. Size]
  /\ posLocal \in Int
  /\ venue \in [Attempts -> [state : {"absent", "open", "filled", "canceled"},
                             executed : 0 .. Size]]
  /\ shown \in [Attempts -> [open : BOOLEAN, lots : 0 .. Size]]
  /\ lag \in {"nothing", "orders", "trades"}
  /\ exec.pc \in {"idle", "planned", "checked", "prepared", "answered", "stored"}
  /\ boot.pc \in {"up", "down", "recovering"}
  /\ crashes \in 0 .. MaxCrashes

Lots(a) == venue[a].executed + (IF Open(a) THEN Size - venue[a].executed ELSE 0)
LiveLots == [a \in Attempts |-> Lots(a)]
ExecutedLots == [a \in Attempts |-> venue[a].executed]

\* What the guards can be trusted with: trades are reported at once and, when
\* the order list is the one that lags, no submit is of unknown outcome.
TruthIsPrompt ==
  /\ lag # "trades"
  /\ lag = "orders" => \A a \in Attempts : attempt[a].intent # "unknown_visibility"

\* However signals, plans, cancels, fills, lost answers and crashes interleave,
\* what the entries hold and could still buy is never more than one order's size
\* (the duplicate guard, the funding check, the intent and the row together).
NoDoubleExposure ==
  TruthIsPrompt => Total(LiveLots, OnSide("BUY")) - Total(ExecutedLots, OnSide("SELL")) <= Size

\* The exits have never sold, and could never sell, more than was bought.
NeverOversold ==
  TruthIsPrompt => Total(LiveLots, OnSide("SELL")) <= Total(ExecutedLots, OnSide("BUY"))

\* A row whose fills add up to the whole order is not left canceled, even when
\* the order went missing, or was canceled, before its trades were reported.
FullFillNotCanceled ==
  \A a \in Attempts : booked[a] = Size => row[a].status # "canceled"

\* A row is taken as canceled only when the venue no longer has the order open.
CanceledOnlyAfterEnd ==
  [][\A a \in Attempts : row[a].status # "canceled" /\ row'[a].status = "canceled"
                          => ~Open(a)]_vars

\* When crash recovery lets a start through, nothing of ours is open at the
\* venue, no submit is unresolved and, unless the trade list lags, the books have
\* every fill.
RecoveredMeansFlat ==
  [][boot.pc = "recovering" /\ boot'.pc = "up"
       => \A a \in Attempts :
            /\ ~Open(a)
            /\ attempt[a].intent \notin {"prepared", "unknown_visibility"}
            /\ lag # "trades" => booked[a] = venue[a].executed]_vars

\* A restart is refused as ghost exposure only when an intent is unresolved or
\* the open orders of the books and of the venue differ; refused otherwise it
\* stays refused, for recovery compares row ids with venue ids.
GhostMeansMismatch ==
  [][boot.pc = "recovering" /\ boot'.pc = "down" /\ crashes' = crashes
       => \/ loop[Recoverer].failed
          \/ boot.unresolved # {}
          \/ boot.open # Working]_vars

\* The row of an order the venue has ended leaves the working states.
RowSettles ==
  \A a \in Attempts :
    (a \in Working /\ venue[a].state \in {"filled", "canceled"})
      ~> (a \notin Working \/ boot.pc # "up")
=============================================================================
