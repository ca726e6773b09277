----------------------------- MODULE UserStream -----------------------------
(***************************************************************************)
(* UserWebSocketStateService: the bot's copy of its own open orders.       *)
(* A bootstrap lists the orders, buffers what the socket delivers, lists   *)
(* them again once traffic was seen, replays the buffer over the second    *)
(* listing and trusts the result.  start, syncSubscriptions and onOpen     *)
(* each begin a bootstrap, and each goes on across its awaits whatever the *)
(* others do meanwhile.  Trades are kept like orders and left out, and so  *)
(* are the timestamps: an order is opened once and ended once, so the      *)
(* phase of an event orders it.                                            *)
(***************************************************************************)
EXTENDS StreamClient, FiniteSets, Functions

CONSTANTS
  Orders,       \* the account's orders
  MaxCalls,     \* bound: REST calls under way at one time
  Faults,       \* what may go wrong: drop, silence, refuse, rest, timeout
  MaxFaults,    \* bound: how often
  MaxCommands,  \* bound: rotations and stops of the live loop
  Overlap,      \* whether a bootstrap may begin or go on while another one finishes
  LateClose     \* whether a close event may come after the next dial

UserStreamAssumption ==
  /\ ClientAssumption
  /\ Faults \subseteq {"drop", "silence", "refuse", "rest", "timeout"}
  /\ MaxCalls \in Nat \ {0} /\ MaxFaults \in Nat /\ MaxCommands \in Nat
  /\ Overlap \in BOOLEAN /\ LateClose \in BOOLEAN

VARIABLES
  link,     \* the client and its sockets
  user,     \* the service's fields
  calls,    \* bootstraps and finalizations waiting for a listing
  caller,   \* where start and syncSubscriptions are
  venue,    \* of an order at the venue: 0 not yet, 1 open, 2 ended
  bounds    \* faults, syncs and stops so far

vars == <<link, user, calls, caller, venue, bounds>>

Callers == {"start", "sync"}
Events == Orders \X {1, 2}
Listed == {o \in Orders : venue[o] = 1}

NoBoot == [buffer |-> <<>>, finalizing |-> FALSE, waiters |-> {"nobody"}]
NoCall == [job |-> "none", by |-> "none", at |-> "none", listing |-> {}, cut |-> 0]

(***************************************************************************)
(* The service's fields: the orders it knows, their cursors, the bootstrap.*)
(***************************************************************************)
Boot(u) == u.boot # NoBoot

(* cancelBootstrap, and what becomes of those who wait for it. *)
Cancel(u) == [u EXCEPT !.boot = NoBoot]
Settled(u, c, how) == [w \in Callers |-> IF w \in u.boot.waiters THEN how ELSE c[w]]

(* Mutant: a terminal event does not remove its order. *)
ApplyKeepingEnded(u, event) ==
  IF event[2] < u.cursor[event[1]] THEN u
  ELSE [u EXCEPT !.cursor[event[1]] = event[2], !.orders = @ \cup {event[1]}]

(* shouldApplyOrder and applyOrderEvent. *)
Apply(u, event) ==
  LET o == event[1]
      phase == event[2]
  IN  IF phase < u.cursor[o] THEN u
      ELSE [u EXCEPT !.cursor[o] = phase,
                     !.orders = IF phase = 1 THEN @ \cup {o} ELSE @ \ {o}]

ApplyAll(u, events) ==
  LET upTo[n \in 0 .. Len(events)] == IF n = 0 THEN u ELSE Apply(upTo[n - 1], events[n])
  IN  upTo[Len(events)]

(* replaceFromRestTruth: an order that is not listed loses its cursor. *)
Replace(u, listing) ==
  [u EXCEPT !.orders = listing,
            !.cursor = [o \in Orders |-> IF o \in listing THEN 1 ELSE 0]]

(* A bootstrap that ends badly: the reasons differ, the effect does not. *)
Broken(u) == [Cancel(u) EXCEPT !.status = "failed", !.failure = TRUE]

(* Mutant: a close does not ask for a bootstrap on the next open. *)
ClosedForgetting(u) == [Cancel(u) EXCEPT !.status = "disconnected", !.trusted = FALSE]

(* onClose. *)
Closed(u) == [Cancel(u) EXCEPT !.status = "disconnected", !.trusted = FALSE, !.needs = TRUE]

(* onConnecting and onPermanentFailure, when the link's step calls them. *)
Notified(u, l, next) ==
  IF Dialed(l, next) THEN [u EXCEPT !.status = "connecting", !.trusted = FALSE]
  ELSE IF Exhausted(l, next)
       THEN [Cancel(u) EXCEPT !.status = "failed", !.trusted = FALSE, !.failure = TRUE]
       ELSE u

(* rejectConnectWaiters. *)
GivenUp(c, l, next) ==
  [w \in Callers |-> IF Exhausted(l, next) /\ c[w] = "connecting" THEN "failed" ELSE c[w]]

(***************************************************************************)
(* Listings.  A slot holds who asked, how far the request is, what the     *)
(* venue answered and how much of the buffer is older than the request.    *)
(***************************************************************************)
Slots == 1 .. MaxCalls
FreeSlots(c) == {i \in Slots : c[i] = NoCall}

Put(c, call) ==
  [c EXCEPT ![CHOOSE i \in FreeSlots(c) : \A k \in FreeSlots(c) : i <= k] = call]

BeginCall(by) == [NoCall EXCEPT !.job = "begin", !.by = by, !.at = "asked"]
FinalCall == [NoCall EXCEPT !.job = "finalize", !.at = "delay"]

(* beginBootstrap up to its first await, by each of `who` in turn. *)
Begun(u) == [Cancel(u) EXCEPT !.failure = FALSE, !.trusted = FALSE]

Begin(u, c, who) ==
  LET more == {w \in Callers : w \in who}
      first == IF "open" \in who THEN Put(calls, BeginCall("open")) ELSE calls
      second == IF "start" \in who THEN Put(first, BeginCall("start")) ELSE first
  IN  /\ Cardinality(FreeSlots(calls)) >= Cardinality(who)
      /\ who # {} => Overlap \/ \A i \in Slots : calls[i].job # "finalize"
      /\ user' = IF who = {} THEN u ELSE Begun(u)
      /\ caller' = [w \in Callers |->
                      IF w \in who THEN "waiting"
                      ELSE IF who = {} THEN c[w] ELSE Settled(u, c, "failed")[w]]
      /\ calls' = IF "sync" \in who THEN Put(second, BeginCall("sync")) ELSE second

(* onTraffic: the first traffic of a bootstrap starts its finalization. *)
Traffic(u, c) ==
  IF Boot(u) /\ ~u.boot.finalizing
  THEN /\ FreeSlots(c) # {}
       /\ calls' = Put(c, FinalCall)
  ELSE calls' = c

Seen(u) == IF Boot(u) THEN [u EXCEPT !.boot.finalizing = TRUE] ELSE u

(***************************************************************************)
(* Initial state.                                                          *)
(***************************************************************************)
Init ==
  /\ link = FreshLink
  /\ user = [status |-> "idle", trusted |-> FALSE, needs |-> FALSE, failure |-> FALSE,
             boot |-> NoBoot, orders |-> {}, cursor |-> [o \in Orders |-> 0]]
  /\ calls = [i \in Slots |-> NoCall]
  /\ caller = [w \in Callers |-> "idle"]
  /\ venue = [o \in Orders |-> 0]
  /\ bounds = [faults |-> 0, syncs |-> 0, stops |-> 0]

Fault(kind) ==
  /\ kind \in Faults /\ bounds.faults < MaxFaults
  /\ bounds' = [bounds EXCEPT !.faults = @ + 1]

Prompt == LateClose \/ \A s \in Sockets : link.sockets[s].state # "closing"

(***************************************************************************)
(* start, syncSubscriptions with a market added, stop.                     *)
(***************************************************************************)
Start ==
  /\ caller["start"] = "idle" /\ Prompt
  /\ link' = StartClient(link)
  /\ user' = Notified([user EXCEPT !.failure = FALSE, !.trusted = FALSE, !.needs = TRUE],
                      link, link')
  /\ caller' = [caller EXCEPT !["start"] = "connecting"]
  /\ UNCHANGED <<calls, venue, bounds>>

Sync ==
  /\ caller["start"] = "done" /\ caller["sync"] \in {"idle", "done"}
  /\ bounds.syncs + bounds.stops < MaxCommands
  /\ bounds' = [bounds EXCEPT !.syncs = @ + 1]
  /\ UNCHANGED venue
  /\ IF IsOpen(link)
     THEN /\ Begin(user, caller, {"sync"})
          /\ UNCHANGED link
     ELSE /\ Prompt
          /\ link' = StartClient(link)
          /\ user' = Notified(user, link, link')
          /\ caller' = [caller EXCEPT !["sync"] = "connecting"]
          /\ UNCHANGED calls

Stop ==
  /\ caller["start"] \in {"done", "failed"} /\ bounds.syncs + bounds.stops < MaxCommands
  /\ bounds' = [bounds EXCEPT !.stops = @ + 1]
  /\ user' = [Cancel(user) EXCEPT !.status = "idle", !.trusted = FALSE,
                                  !.failure = FALSE, !.needs = FALSE]
  /\ caller' = [w \in Callers |->
                  IF w = "start" THEN "idle"
                  ELSE IF caller[w] = "connecting" THEN "failed"
                       ELSE Settled(user, caller, "failed")[w]]
  /\ link' = StopClient(link)
  /\ UNCHANGED <<calls, venue>>

(***************************************************************************)
(* The socket.                                                             *)
(***************************************************************************)
Open(s) ==
  /\ link.sockets[s].state = "dialing"
  /\ link' = HandleOpen(link, s)
  /\ UNCHANGED <<venue, bounds>>
  /\ LET opened == [user EXCEPT !.status = "connected", !.trusted = FALSE, !.needs = FALSE]
         resumed == {w \in Callers : link.sockets[s].mine /\ caller[w] = "connecting"}
     IN  IF Boot(opened) /\ ~user.needs /\ "start" \in resumed
         THEN Begin([opened EXCEPT !.boot.waiters = @ \cup {"start"}],
                    [caller EXCEPT !["start"] = "waiting"], resumed \ {"start"})
         ELSE Begin(opened, caller, resumed \cup (IF user.needs THEN {"open"} ELSE {}))

Deliver(s) ==
  /\ link.sockets[s].state = "open" /\ link.sockets[s].chan # <<>>
  /\ Traffic(user, calls)
  /\ link' = Receive(link, s)
  /\ LET event == Head(link.sockets[s].chan)
     IN  user' = IF Boot(user) THEN [Seen(user) EXCEPT !.boot.buffer = Append(@, event)]
                 ELSE Apply(user, event)
  /\ UNCHANGED <<caller, venue, bounds>>

Pong(s) ==
  /\ link.sockets[s].state = "open" /\ Boot(user) /\ ~user.boot.finalizing
  /\ Traffic(user, calls)
  /\ user' = Seen(user)
  /\ UNCHANGED <<link, caller, venue, bounds>>

Drop(s) ==
  /\ \/ link.sockets[s].state = "open" /\ Fault("drop")
     \/ link.sockets[s].state = "dialing" /\ Fault("refuse")
     \/ link.sockets[s].state = "closing" /\ UNCHANGED bounds
  /\ link' = HandleClose(link, s)
  /\ user' = Notified(Closed(user), link, link')
  /\ caller' = GivenUp(Settled(user, caller, "failed"), link, link')
  /\ UNCHANGED <<calls, venue>>

Silence ==
  /\ IsOpen(link) /\ Fault("silence")
  /\ link' = TriggerReconnect(link)
  /\ user' = Notified([user EXCEPT !.status = "disconnected", !.trusted = FALSE], link, link')
  /\ UNCHANGED <<calls, caller, venue>>

RedialTimer ==
  /\ link.client.redial /\ Prompt
  /\ link' = Redial(link)
  /\ user' = Notified(user, link, link')
  /\ UNCHANGED <<calls, caller, venue, bounds>>

(***************************************************************************)
(* The bootstrap.                                                          *)
(***************************************************************************)
Fail(u) ==
  /\ link' = TriggerReconnect(link)
  /\ user' = Notified(Broken(u), link, link')
  /\ caller' = GivenUp(Settled(u, caller, "failed"), link, link')

Ask(i) ==
  /\ calls[i].at = "delay"
  /\ Overlap \/ \A k \in Slots : calls[k].job # "begin"
  /\ calls' = [calls EXCEPT ![i].at = "asked",
                            ![i].cut = IF Boot(user) THEN Len(user.boot.buffer) ELSE 0]
  /\ UNCHANGED <<link, user, caller, venue, bounds>>

Answer(i) ==
  /\ calls[i].at = "asked"
  /\ calls' = [calls EXCEPT ![i].at = "answered", ![i].listing = Listed]
  /\ UNCHANGED <<link, user, caller, venue, bounds>>

(* The rest of beginBootstrap: it replaces a bootstrap it did not cancel.   *)
(* A buffer that starts now holds nothing older than any pending request.   *)
LandBegin(i) ==
  LET by == calls[i].by
  IN  /\ calls[i].job = "begin" /\ calls[i].at = "answered"
      /\ calls' = [k \in Slots |-> IF k = i THEN NoCall ELSE [calls[k] EXCEPT !.cut = 0]]
      /\ link' = IF link.client.running /\ ~IsOpen(link) /\ link.client.status # "connected"
                 THEN StartClient(link) ELSE link
      /\ link' = link \/ Prompt
      /\ user' = Notified([Replace(user, calls[i].listing) EXCEPT
                             !.boot = [buffer |-> <<>>, finalizing |-> FALSE,
                                       waiters |-> {by} \cap Callers]], link, link')
      /\ UNCHANGED <<caller, venue, bounds>>

(* The rest of finalizeBootstrapIfReady, on whatever bootstrap is there. *)
LandFinal(i) ==
  LET listing == calls[i].listing
      buffer == user.boot.buffer
      seeded == ApplyAll(Replace(user, listing), SubSeq(buffer, 1, calls[i].cut))
  IN  /\ calls[i].job = "finalize" /\ calls[i].at = "answered"
      /\ calls' = [calls EXCEPT ![i] = NoCall]
      /\ UNCHANGED <<venue, bounds>>
      /\ IF ~Boot(user) THEN Fail(user)
         ELSE IF seeded.orders # listing THEN Fail(seeded)
         ELSE /\ user' = ApplyAll([Cancel(seeded) EXCEPT !.trusted = TRUE, !.failure = FALSE,
                                                         !.status = "connected"],
                                  SubSeq(buffer, calls[i].cut + 1, Len(buffer)))
              /\ caller' = Settled(user, caller, "done")
              /\ UNCHANGED link

(* A listing that fails.  Nothing begins again for a bootstrap of onOpen. *)
RestFails(i) ==
  /\ calls[i].at = "asked" /\ Fault("rest")
  /\ calls' = [calls EXCEPT ![i] = NoCall]
  /\ UNCHANGED venue
  /\ IF calls[i].job = "finalize" THEN Fail(user)
     ELSE /\ user' = [user EXCEPT !.failure = @ \/ calls[i].by = "open"]
          /\ caller' = [w \in Callers |-> IF w = calls[i].by THEN "failed" ELSE caller[w]]
          /\ UNCHANGED link

BootTimeout ==
  /\ Boot(user) /\ Fault("timeout")
  /\ Fail(user)
  /\ UNCHANGED <<calls, venue>>

(***************************************************************************)
(* The venue.                                                              *)
(***************************************************************************)
OrderMoves(o) ==
  /\ venue[o] < 2
  /\ venue' = [venue EXCEPT ![o] = @ + 1]
  /\ link' = Broadcast(link, <<o, venue'[o]>>)
  /\ UNCHANGED <<user, calls, caller, bounds>>

Next ==
  \/ Start \/ Sync \/ Stop
  \/ \E s \in Sockets : Open(s) \/ Deliver(s) \/ Pong(s) \/ Drop(s)
  \/ Silence \/ RedialTimer \/ BootTimeout
  \/ \E i \in Slots : Ask(i) \/ Answer(i) \/ LandBegin(i) \/ LandFinal(i) \/ RestFails(i)
  \/ \E o \in Orders : OrderMoves(o)

Spec == Init /\ [][Next]_vars

(* Timers fire, sockets open or close, listings are answered, traffic flows. *)
CloseEvent(s) == link.sockets[s].state = "closing" /\ Drop(s)

Fairness ==
  /\ WF_vars(Start) /\ WF_vars(RedialTimer)
  /\ \A s \in Sockets : /\ WF_vars(Open(s)) /\ WF_vars(Deliver(s)) /\ WF_vars(Pong(s))
                        /\ WF_vars(CloseEvent(s))
  /\ \A i \in Slots : /\ WF_vars(Ask(i)) /\ WF_vars(Answer(i))
                      /\ WF_vars(LandBegin(i)) /\ WF_vars(LandFinal(i))

FairSpec == Spec /\ Fairness

(***************************************************************************)
(* Properties.                                                             *)
(***************************************************************************)
(* TypeOK: every variable keeps its type. *)
TypeOK ==
  /\ LinkOK(link, Events)
  /\ user.orders \subseteq Orders /\ user.cursor \in [Orders -> 0 .. 2]
  /\ user.status \in Statuses
  /\ {user.trusted, user.needs, user.failure, user.boot.finalizing} \subseteq BOOLEAN
  /\ user.boot.buffer \in Seq(Events)
  /\ caller \in [Callers -> {"idle", "connecting", "waiting", "done", "failed"}]
  /\ venue \in [Orders -> 0 .. 2]

Trusted == user.trusted /\ user.status = "connected" /\ ~user.failure

(* TrustedMeansCurrent: a trusted stream whose open socket has delivered    *)
(* everything shows exactly the orders that are open at the venue           *)
(* (finalizeBootstrapIfReady, replaceFromRestTruth, shouldApplyOrder).      *)
TrustedMeansCurrent ==
  /\ Trusted /\ IsOpen(link)
  /\ \A s \in Sockets : link.sockets[s].state = "open" => link.sockets[s].chan = <<>>
  => user.orders = Listed

(* OneListener: the client never keeps two subscribed sockets open          *)
(* (triggerReconnect, connectIfNeeded, handleClose).                        *)
OneListener ==
  Cardinality({s \in Sockets : link.sockets[s].state = "open" /\ link.sockets[s].subscribed}) <= 1

(* StartReturns: start() resolves or rejects; the command that starts the   *)
(* bot waits for it.                                                        *)
StartReturns == caller["start"] \in {"connecting", "waiting"} ~> caller["start"] \in {"done", "failed"}

(* TrustReturns: the stream is trusted again after whatever happened to it, *)
(* unless it was stopped or its reconnect attempts were exhausted.          *)
TrustReturns == []<>(Trusted \/ caller["start"] \in {"idle", "failed"} \/ link.client.failed)
=============================================================================
