---------------------------- MODULE OrderRules ----------------------------
(***************************************************************************)
(* The decisions the order jobs take from what they have read: how a fill  *)
(* changes an order row, what external truth allows, which exposure is a   *)
(* duplicate, when a resting order is kept, replaced or canceled, and what *)
(* crash recovery takes for ghost exposure.  Sizes are counted in lots.    *)
(***************************************************************************)
EXTENDS Integers, FiniteSets, FiniteSetsExt

WorkingStatuses == {"submitted", "acknowledged", "partially_filled"}
RowStatuses == WorkingStatuses \cup {"none", "filled", "canceled", "rejected"}

\* What an error text makes the fill service conclude: it looks for the
\* substrings "retry", "failed" and "reject".
ErrorTexts == {"other", "retry", "failed"}
VenueLabels == {"none", "venue", "cancel_requested", "cancel_requested_for_replace",
                "trade_applied", "missing_from_open_orders"}

AtMost(m, n) == IF m < n THEN m ELSE n
AtLeastZero(n) == IF n < 0 THEN 0 ELSE n

-----------------------------------------------------------------------------
\* FillStateService and the status ReconcileFillsJob derives from it

Remaining(row, size) == AtLeastZero(size - row.filled)

CancelMentioned(row) ==
  row.label \in {"cancel_requested", "cancel_requested_for_replace"} \/ row.canceledAt

\* The lifecycle of a row that has just been credited a fill the venue's
\* trade list confirmed; the first condition that holds decides.
LifecycleAfterFill(row, filled, size) ==
  CASE row.status = "canceled"                  -> "economically_final_enough"
    [] row.status # "canceled" /\ row.error = "retry"  -> "retrying"
    [] row.status # "canceled" /\ row.error = "failed" -> "failed"
    [] row.status # "canceled" /\ row.error = "other" /\ CancelMentioned(row)
                                                -> "cancel_pending"
    [] row.status # "canceled" /\ row.error = "other" /\ ~CancelMentioned(row)
                                                ->
         IF filled >= size THEN "economically_final_enough" ELSE "mined"

\* mutant: a canceled row stays canceled when its late fills are booked
StatusAfterFillKeepingCanceled(row, filled, size) ==
  CASE row.status = "canceled" -> "canceled"
    [] row.status # "canceled" /\ filled >= size -> "filled"
    [] row.status # "canceled" /\ filled < size -> "partially_filled"

StatusAfterFill(row, filled, size) ==
  LET lifecycle == LifecycleAfterFill(row, filled, size)
  IN CASE lifecycle = "retrying" -> "acknowledged"
       [] lifecycle = "failed"   -> "rejected"
       [] lifecycle = "economically_final_enough" /\ filled >= size -> "filled"
       [] OTHER -> "partially_filled"

\* Whether the fill also closes the trade for the resolved-trade ledger.
EconomicallyResolved(row, filled, size) ==
  LET lifecycle == LifecycleAfterFill(row, filled, size)
  IN \/ lifecycle = "economically_final_enough"
     \/ lifecycle = "failed" /\ filled >= size

\* mutant: the filled size is not capped at the intended one
AfterFillUncapped(row, size) ==
  [row EXCEPT !.status = StatusAfterFill(row, row.filled + 1, size),
              !.filled = row.filled + 1,
              !.label = "trade_applied"]

AfterFill(row, size) ==
  LET filled == AtMost(size, row.filled + 1)
  IN [row EXCEPT !.status = StatusAfterFill(row, filled, size),
                 !.filled = filled,
                 !.label = "trade_applied"]

\* An order that has left the venue's open-order list.
MissingStatus(row, size) == IF Remaining(row, size) = 0 THEN "filled" ELSE "canceled"

-----------------------------------------------------------------------------
\* ExternalPortfolioService: what the books and the venue disagree about

DivergenceClasses(localPosition, externalPosition, localIds, venueIds) ==
  {c \in {"inventory_mismatch_vs_current_positions",
          "local_open_order_missing_on_venue",
          "venue_open_order_unknown_to_local"} :
     CASE c = "inventory_mismatch_vs_current_positions" ->
            localPosition # externalPosition
       [] c = "local_open_order_missing_on_venue" -> localIds \ venueIds # {}
       [] c = "venue_open_order_unknown_to_local" -> venueIds \ localIds # {}}

DivergenceStatus(classes) ==
  IF classes = {} THEN "none"
  ELSE IF "venue_open_order_unknown_to_local" \in classes THEN "blocking"
  ELSE "recoverable"

PlanRecovery(status) ==
  CASE status = "none"        -> [mode |-> "none", entriesBlocked |-> FALSE,
                                  managementBlocked |-> FALSE]
    [] status = "blocking"    -> [mode |-> "manual_review", entriesBlocked |-> TRUE,
                                  managementBlocked |-> TRUE]
    [] status = "recoverable" -> [mode |-> "rebuild_local_positions",
                                  entriesBlocked |-> TRUE, managementBlocked |-> FALSE]

-----------------------------------------------------------------------------
\* The last checks before an order leaves

\* PreTradeFundingValidator: the snapshot must be healthy for either side.
FundingPasses(view, side, size) ==
  /\ view.divergence = "none"
  /\ ~PlanRecovery(view.divergence).entriesBlocked
  /\ \/ side = "BUY" /\ view.cash >= size /\ AtLeastZero(view.cash - view.buyOpen) >= size
     \/ side = "SELL" /\ view.position >= size
                      /\ AtLeastZero(view.position - view.sellOpen) >= size

\* AccountStateService subtracts the local working buys from a headroom that
\* the venue's open buys have already reduced; the job asks it of every order.
DeployableRisk(view, localBuys) == AtLeastZero(AtLeastZero(view.cash - view.buyOpen) - localBuys)

\* mutant: an entry looks at working orders only
DuplicateExposureIgnoringPosition(side, size, position, localSame, venueSame) ==
  CASE side = "BUY"  -> localSame > 0 \/ venueSame > 0
    [] side = "SELL" -> position <= 0 \/ localSame > 0 \/ venueSame > 0 \/ size > position

DuplicateExposure(side, size, position, localSame, venueSame) ==
  CASE side = "BUY"  -> position > 0 \/ localSame > 0 \/ venueSame > 0
    [] side = "SELL" -> position <= 0 \/ localSame > 0 \/ venueSame > 0 \/ size > position

-----------------------------------------------------------------------------
\* CancelReplacePolicy, FillStateService.decideResidual and the way
\* ManageOpenOrdersJob combines them for a resting order that is not stale.
\* A fact says on which side of its threshold a measured quantity lies.

RestingFacts ==
  [signalTooOld : BOOLEAN, adverseMove : BOOLEAN, budgetSpent : BOOLEAN,
   restedTooLong : BOOLEAN, mayWait : BOOLEAN, fillUnlikely : BOOLEAN,
   fillVeryUnlikely : BOOLEAN, priceDrifted : BOOLEAN, residualTooSmall : BOOLEAN,
   ineligible : BOOLEAN]

CancelReplaceAction(entry, f) ==
  CASE f.signalTooOld \/ (entry /\ f.adverseMove) \/ f.budgetSpent \/ f.restedTooLong -> "cancel"
    [] OTHER -> IF f.mayWait THEN "keep"
                ELSE IF f.fillUnlikely \/ f.priceDrifted THEN "replace" ELSE "keep"

ResidualDecision(f) ==
  CASE f.residualTooSmall \/ f.signalTooOld -> "cancel"
    [] OTHER -> IF f.fillVeryUnlikely /\ f.priceDrifted THEN "replace" ELSE "keep"

\* The watchdog's directive: avoidBlindReposts turns a replace into a cancel and
\* leaves no reprice budget, cancelOnly cancels whatever the policy says.
RestingVerdict(entry, f, directive) ==
  LET policy == CancelReplaceAction(entry,
                  [f EXCEPT !.budgetSpent = f.budgetSpent \/ directive.avoidBlindReposts])
      forced == f.ineligible \/ directive.cancelOnly
      action == IF directive.avoidBlindReposts /\ policy = "replace" THEN "cancel" ELSE policy
      label  == IF policy = "replace" THEN "cancel_requested_for_replace" ELSE "cancel_requested"
  IN IF ~forced /\ (action = "keep" \/ ResidualDecision(f) = "keep")
     THEN [act |-> "keep", label |-> "none", rejects |-> FALSE]
     ELSE [act |-> "cancel", label |-> label,
           rejects |-> entry /\ (forced \/ action = "cancel")]

Directives == [avoidBlindReposts : BOOLEAN, cancelOnly : BOOLEAN]

RestingVerdicts(entry) ==
  {RestingVerdict(entry, f, d) : f \in RestingFacts, d \in Directives}

-----------------------------------------------------------------------------
\* FillStateService.detectGhostExposure, over whatever identifiers it is given

GhostExposure(localIds, venueIds, streamIds, unresolved) ==
  \/ \E id \in localIds : id \notin venueIds \cup streamIds
  \/ \E id \in venueIds : id \notin localIds \cup streamIds
  \/ unresolved # {}
=============================================================================
