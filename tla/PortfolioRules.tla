---------------------------- MODULE PortfolioRules ----------------------------
(***************************************************************************)
(* What the bot takes for the truth about its account: the permissions a   *)
(* capture of the venue grants (ExternalPortfolioService), the ledger of   *)
(* fills a refresh replays and the quantities it takes over                *)
(* (RefreshPortfolioJob).                                                  *)
(*                                                                         *)
(* A reading r of the venue has the working orders (records with id and    *)
(* token), and per token the balance and the Data API position: its size   *)
(* and whether it is "lost" (at price 0, past its end, redeemable, not     *)
(* mergeable, the whole stake gone); known are the tokens of stored        *)
(* markets and lastTrade the time of the newest Data API trade.  A local   *)
(* reading l has the quantity of the open rows per token, the venue ids of *)
(* the working rows and the time of the newest fill.  Times are in         *)
(* seconds, Never is no time.                                              *)
(***************************************************************************)
EXTENDS Integers, FiniteSetsExt, SequencesExt

CONSTANT Tokens

Never == -1

(***************************************************************************)
(* Freshness of the seven parts of a capture, as ranks: 0 healthy,         *)
(* 1 warning, 2 degraded, 3 stale.  The two of the collateral are stamped  *)
(* when it is read, the others before the listing begins.                  *)
(***************************************************************************)
HealthyAge ==
  [balances |-> 15, allowances |-> 15, openOrders |-> 10, clobTrades |-> 20,
   dataApiTrades |-> 30, currentPositions |-> 30, closedPositions |-> 300]

Staleness(part, age) ==
  LET h == HealthyAge[part]
  IN  IF 2 * age <= h THEN 0 ELSE IF age <= h THEN 1 ELSE IF age <= 2 * h THEN 2 ELSE 3

ManagementParts == {"openOrders", "clobTrades", "currentPositions"}
EntryParts == ManagementParts \cup {"balances", "allowances", "dataApiTrades"}

Freshness(age) ==
  LET rank == [p \in EntryParts \cup {"closedPositions"} |-> Staleness(p, age)]
  IN  [worst |-> Max({rank[p] : p \in DOMAIN rank}),
       entries |-> \A p \in EntryParts : rank[p] <= 1,
       management |-> \A p \in ManagementParts : rank[p] # 3]

(***************************************************************************)
(* Divergence between the venue and the local rows, and what follows.      *)
(***************************************************************************)
\* A loser nobody redeemed: held in full, worthless, with no order on it.
Residue(r, t) ==
  /\ r.size[t] > 0 /\ r.lost[t] /\ r.balance[t] = r.size[t]
  /\ \A o \in r.orders : o.token # t

Mismatched(r, l) ==
  {t \in Tokens : l.held[t] # r.size[t] /\ ~(l.held[t] = 0 /\ Residue(r, t))}

\* Mutant: the balance is not compared with the position.
BalanceTrusted(r) == {}
BalanceOff(r) == {t \in Tokens : r.balance[t] # r.size[t]}

Unmapped(r, l) ==
  {t \in Tokens \ r.known : r.size[t] > 0 /\ ~(l.held[t] = 0 /\ Residue(r, t))}

TradeUnknown(r, l) ==
  /\ r.lastTrade # Never
  /\ l.lastFill = Never \/ r.lastTrade - l.lastFill > 30
  /\ \E t \in Mismatched(r, l) : ~Residue(r, t)

Divergence(r, l) ==
  LET ids == {o.id : o \in r.orders}
      Class(name, found) == IF found THEN {name} ELSE {}
  IN  Class("inventory_mismatch", Mismatched(r, l) # {})
      \cup Class("balance_mismatch", BalanceOff(r) # {})
      \cup Class("order_missing_on_venue", l.orders \ ids # {})
      \cup Class("order_unknown_to_local", ids \ l.orders # {})
      \cup Class("unknown_market", Unmapped(r, l) # {})
      \cup Class("trade_unknown_to_local", TradeUnknown(r, l))

Recovery(divergence) ==
  CASE divergence = {} -> "none"
    [] divergence \cap {"order_unknown_to_local", "unknown_market"} # {} -> "manual_review"
    [] OTHER -> "rebuild_local_positions"

Permissions(fresh, recovery) ==
  [entries |-> fresh.entries /\ recovery = "none",
   management |-> fresh.management /\ recovery # "manual_review",
   confidence |-> CASE recovery = "manual_review" \/ fresh.worst = 3 -> "none"
                    [] recovery = "rebuild_local_positions" /\ fresh.worst < 3 -> "low"
                    [] recovery = "none" /\ fresh.worst = 2 -> "low"
                    [] recovery = "none" /\ fresh.worst = 1 -> "medium"
                    [] OTHER -> "high"]

(***************************************************************************)
(* The ledger of a token: the signed quantity, its cost (the quantity at   *)
(* the average entry price) and what each fill realized, its fee paid at   *)
(* once.  A sale of more than is held turns the ledger over.               *)
(***************************************************************************)
Size(n) == IF n < 0 THEN -n ELSE n
Opposite(m, n) == (m < 0 /\ n > 0) \/ (m > 0 /\ n < 0)

NewLedger == [quantity |-> 0, cost |-> 0, gains |-> <<>>]

\* Mutant: what is left of a turned ledger keeps the entry price of the old side.
PostUnturned(ledger, fill) ==
  LET held == ledger.quantity
      signed == IF fill.side = "BUY" THEN fill.size ELSE -fill.size
      next == held + signed
      entry == IF held = 0 THEN 0 ELSE ledger.cost \div Size(held)
      closed == IF Opposite(held, signed) THEN Min({Size(held), fill.size}) ELSE 0
  IN  [quantity |-> next,
       cost |-> IF ~Opposite(held, signed) THEN ledger.cost + fill.size * fill.price
                ELSE Size(next) * entry,
       gains |-> Append(ledger.gains,
                        (fill.price - entry) * (IF held < 0 THEN -closed ELSE closed) - fill.fee)]

Post(ledger, fill) ==
  LET held == ledger.quantity
      signed == IF fill.side = "BUY" THEN fill.size ELSE -fill.size
      next == held + signed
      entry == IF held = 0 THEN 0 ELSE ledger.cost \div Size(held)
      closed == IF Opposite(held, signed) THEN Min({Size(held), fill.size}) ELSE 0
  IN  [quantity |-> next,
       cost |-> CASE ~Opposite(held, signed) -> ledger.cost + fill.size * fill.price
                  [] Opposite(held, signed) /\ Opposite(held, next) -> Size(next) * fill.price
                  [] OTHER -> Size(next) * entry,
       gains |-> Append(ledger.gains,
                        (fill.price - entry) * (IF held < 0 THEN -closed ELSE closed) - fill.fee)]

Replay(fills) == FoldLeft(Post, NewLedger, fills)

Realized(ledger) == FoldLeft(+, 0, ledger.gains)

\* Losses since the last gain; a fill that realizes nothing is neither.
Streak(ledger) ==
  LET moving == SelectSeq(ledger.gains, LAMBDA g : g # 0)
      gains == {i \in DOMAIN moving : moving[i] > 0}
  IN  Len(moving) - Max({0} \cup gains)

\* The quantity a refresh takes over: a position outweighs the balance.
Canonical(r, t) ==
  IF t \notin r.known THEN 0 ELSE IF r.size[t] > 0 THEN r.size[t] ELSE r.balance[t]
=============================================================================
