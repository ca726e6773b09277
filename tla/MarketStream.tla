---------------------------- MODULE MarketStream ----------------------------
(***************************************************************************)
(* MarketWebSocketStateService: the live books of the tracked tokens.      *)
(* A bootstrap fetches a REST book for its tokens and then waits, for each *)
(* of them, for a book message it does not already know; when the last one *)
(* agrees with its REST book the stream is trusted.  A book is the number  *)
(* of its last change: a delta or a dump sets it, which is what absolute   *)
(* level sizes do.  An event is known by its kind and the state of the     *)
(* book (its hash), and its timestamp orders it.                           *)
(***************************************************************************)
EXTENDS StreamClient, SequencesExt

CONSTANTS
  First,        \* the tokens tracked at the start
  Second,       \* those tracked after the markets rotate
  MaxChanges,   \* bound: changes of a book
  MaxCalls,     \* bound: REST bootstraps under way at one time
  Faults,       \* what may go wrong: drop, silence, refuse, rest, timeout
  MaxFaults,    \* bound: how often
  MaxCommands,  \* bound: rotations and stops of the live loop
  Overlap,      \* whether a bootstrap may begin or go on while another one ends
  LateClose     \* whether a close event may come after the next dial

MarketStreamAssumption ==
  /\ ClientAssumption
  /\ Faults \subseteq {"drop", "silence", "refuse", "rest", "timeout"}
  /\ MaxChanges \in Nat /\ MaxCalls \in Nat \ {0} /\ MaxFaults \in Nat
  /\ MaxCommands \in Nat
  /\ Overlap \in BOOLEAN /\ LateClose \in BOOLEAN

Assets == First \cup Second
Callers == {"start", "sync"}
Versions == 0 .. MaxChanges
Messages == [asset : Assets, kind : {"book", "delta"}, version : Versions]

VARIABLES
  link,     \* the client and its sockets
  market,   \* the service's fields
  calls,    \* bootstraps waiting for REST
  caller,   \* where start and syncSubscriptions are
  books,    \* the venue's books
  shaken,   \* history: tokens whose dump was accepted on this connection
  bounds    \* faults, syncs and stops so far

vars == <<link, market, calls, caller, books, shaken, bounds>>

NoBoot == [awaiting |-> {}, rest |-> [a \in Assets |-> 0], waiters |-> {"nobody"}]
NoCall == [by |-> "none", at |-> "none", of |-> {}, rest |-> [a \in Assets |-> 0]]
Slots == 1 .. MaxCalls
FreeSlots == {i \in Slots : calls[i] = NoCall}

Boot(m) == m.boot # NoBoot
Cancel(m) == [m EXCEPT !.boot = NoBoot]
Settled(m, c, how) == [w \in Callers |-> IF w \in m.boot.waiters THEN how ELSE c[w]]

(* Mutant: an event is known by its kind alone. *)
KnownByKind(m, e) == \E v \in Versions : <<e.kind, v>> \in m.keys[e.asset]

(* shouldApplyEvent. *)
Known(m, e) ==
  \/ <<e.kind, e.version>> \in m.keys[e.asset]
  \/ e.version < m.cursor[e.asset]

Remember(m, e) ==
  [m EXCEPT !.keys[e.asset] = @ \cup {<<e.kind, e.version>>}, !.cursor[e.asset] = e.version]

(* updateTrackedAssets: what is no longer tracked is forgotten. *)
Track(m, assets) ==
  [m EXCEPT !.tracked = assets,
            !.shown = [a \in Assets |-> IF a \in assets THEN @[a] ELSE 0],
            !.cursor = [a \in Assets |-> IF a \in assets THEN @[a] ELSE 0],
            !.keys = [a \in Assets |-> IF a \in assets THEN @[a] ELSE {}]]

(* onClose; a bootstrap that ends badly; onConnecting and onPermanentFailure. *)
Closed(m) == [Cancel(m) EXCEPT !.status = "disconnected", !.trusted = FALSE, !.needs = TRUE]
Broken(m) == [Cancel(m) EXCEPT !.status = "failed", !.failure = TRUE]

Notified(m, l, next) ==
  IF Dialed(l, next) THEN [m EXCEPT !.status = "connecting", !.trusted = FALSE]
  ELSE IF Exhausted(l, next)
       THEN [Cancel(m) EXCEPT !.status = "failed", !.trusted = FALSE, !.failure = TRUE]
       ELSE m

GivenUp(c, l, next) ==
  [w \in Callers |-> IF Exhausted(l, next) /\ c[w] = "connecting" THEN "failed" ELSE c[w]]

(* initial_dump: one book message for each token a socket subscribes to. *)
Dump(l, assets) ==
  LET message(a) == [asset |-> a, kind |-> "book", version |-> books[a]]
      order == SetToSeq(assets)
      dump == [i \in 1 .. Len(order) |-> message(order[i])]
  IN  IF IsOpen(l) THEN [l EXCEPT !.sockets[l.client.socket].chan = @ \o dump] ELSE l

(* Mutant: the old trust stays while new tokens are bootstrapped. *)
BegunTrusting(m) == [Cancel(m) EXCEPT !.failure = FALSE]

(* beginBootstrap up to its first await, by each of `who` in turn. *)
Begun(m) == [Cancel(m) EXCEPT !.failure = FALSE, !.trusted = FALSE]

Put(c, call) ==
  LET free == {i \in Slots : c[i] = NoCall}
  IN  [c EXCEPT ![CHOOSE i \in free : \A k \in free : i <= k] = call]

Begin(m, c, who, of) ==
  LET call(by) == [NoCall EXCEPT !.by = by, !.at = "asked", !.of = of[by]]
      first == IF "open" \in who THEN Put(calls, call("open")) ELSE calls
      second == IF "start" \in who THEN Put(first, call("start")) ELSE first
  IN  /\ Cardinality(FreeSlots) >= Cardinality(who)
      /\ who # {} => Overlap \/ (FreeSlots = Slots /\ ~Boot(m))
      /\ market' = IF who = {} THEN m ELSE Begun(m)
      /\ caller' = [w \in Callers |->
                      IF w \in who THEN "waiting"
                      ELSE IF who = {} THEN c[w] ELSE Settled(m, c, "failed")[w]]
      /\ calls' = IF "sync" \in who THEN Put(second, call("sync")) ELSE second

(***************************************************************************)
(* Initial state.                                                          *)
(***************************************************************************)
Init ==
  /\ link = FreshLink
  /\ market = [status |-> "idle", trusted |-> FALSE, needs |-> FALSE, failure |-> FALSE,
               boot |-> NoBoot, tracked |-> {}, shown |-> [a \in Assets |-> 0],
               cursor |-> [a \in Assets |-> 0], keys |-> [a \in Assets |-> {}]]
  /\ calls = [i \in Slots |-> NoCall]
  /\ caller = [w \in Callers |-> "idle"]
  /\ books = [a \in Assets |-> 0]
  /\ shaken = {}
  /\ bounds = [faults |-> 0, syncs |-> 0, stops |-> 0]

Fault(kind) ==
  /\ kind \in Faults /\ bounds.faults < MaxFaults
  /\ bounds' = [bounds EXCEPT !.faults = @ + 1]

Prompt == LateClose \/ \A s \in Sockets : link.sockets[s].state # "closing"

(***************************************************************************)
(* start, syncSubscriptions after the markets rotated, stop.               *)
(***************************************************************************)
Start ==
  /\ caller["start"] = "idle" /\ Prompt
  /\ link' = StartClient(link)
  /\ market' = Notified([Track(market, IF bounds.syncs = 0 THEN First ELSE Second) EXCEPT
                           !.failure = FALSE, !.trusted = FALSE, !.needs = TRUE], link, link')
  /\ caller' = [caller EXCEPT !["start"] = "connecting"]
  /\ UNCHANGED <<calls, books, shaken, bounds>>

Sync ==
  /\ caller["start"] = "done" /\ caller["sync"] \in {"idle", "done"}
  /\ bounds.syncs + bounds.stops < MaxCommands
  /\ bounds' = [bounds EXCEPT !.syncs = @ + 1]
  /\ UNCHANGED <<books, shaken>>
  /\ LET rotated == [Track(market, Second) EXCEPT !.status = link.client.status]
     IN  IF IsOpen(link)
         THEN /\ Begin(rotated, caller, {"sync"}, [by \in {"sync"} |-> Second \ First])
              /\ link' = Dump(link, Second \ First)
         ELSE /\ Overlap /\ Prompt
              /\ link' = StartClient(link)
              /\ market' = Notified(rotated, link, link')
              /\ caller' = [caller EXCEPT !["sync"] = "connecting"]
              /\ UNCHANGED calls

Stop ==
  /\ caller["start"] \in {"done", "failed"} /\ bounds.syncs + bounds.stops < MaxCommands
  /\ bounds' = [bounds EXCEPT !.stops = @ + 1]
  /\ market' = [Cancel(market) EXCEPT !.status = "idle", !.trusted = FALSE,
                                      !.failure = FALSE, !.needs = FALSE]
  /\ caller' = [w \in Callers |->
                  IF w = "start" THEN "idle"
                  ELSE IF caller[w] = "connecting" THEN "failed"
                       ELSE Settled(market, caller, "failed")[w]]
  /\ link' = StopClient(link)
  /\ UNCHANGED <<calls, books, shaken>>

(***************************************************************************)
(* The socket.                                                             *)
(***************************************************************************)
Open(s) ==
  LET opened == [market EXCEPT !.status = "connected", !.trusted = FALSE, !.needs = FALSE]
      resumed == {w \in Callers : link.sockets[s].mine /\ caller[w] = "connecting"}
      again == IF "sync" \in resumed THEN Second \ First ELSE {}
      of == [by \in {"open", "start", "sync"} |->
               IF by = "sync" THEN Second \ First ELSE market.tracked]
  IN  /\ link.sockets[s].state = "dialing"
      /\ link' = Dump(Dump(HandleOpen(link, s), market.tracked), again)
      /\ shaken' = {}
      /\ UNCHANGED <<books, bounds>>
      /\ IF Boot(opened) /\ ~market.needs /\ "start" \in resumed
         THEN Begin([opened EXCEPT !.boot.waiters = @ \cup {"start"}],
                    [caller EXCEPT !["start"] = "waiting"], resumed \ {"start"}, of)
         ELSE Begin(opened, caller, resumed \cup (IF market.needs THEN {"open"} ELSE {}), of)

Drop(s) ==
  /\ \/ link.sockets[s].state = "open" /\ Fault("drop")
     \/ link.sockets[s].state = "dialing" /\ Fault("refuse")
     \/ link.sockets[s].state = "closing" /\ UNCHANGED bounds
  /\ link' = HandleClose(link, s)
  /\ market' = Notified(Closed(market), link, link')
  /\ caller' = GivenUp(Settled(market, caller, "failed"), link, link')
  /\ UNCHANGED <<calls, books, shaken>>

Silence ==
  /\ IsOpen(link) /\ Fault("silence")
  /\ link' = TriggerReconnect(link)
  /\ market' = Notified([market EXCEPT !.status = "disconnected", !.trusted = FALSE], link, link')
  /\ UNCHANGED <<calls, caller, books, shaken>>

RedialTimer ==
  /\ link.client.redial /\ Prompt
  /\ link' = Redial(link)
  /\ market' = Notified(market, link, link')
  /\ UNCHANGED <<calls, caller, books, shaken, bounds>>

(***************************************************************************)
(* The bootstrap.                                                          *)
(***************************************************************************)
Fail(m, l) ==
  /\ link' = TriggerReconnect(l)
  /\ market' = Notified(Broken(m), l, link')
  /\ caller' = GivenUp(Settled(m, caller, "failed"), l, link')
  /\ UNCHANGED shaken

Answer(i) ==
  /\ calls[i].at = "asked"
  /\ calls' = [calls EXCEPT ![i].at = "answered", ![i].rest = books]
  /\ UNCHANGED <<link, market, caller, books, shaken, bounds>>

(* The REST book replaces the streamed one, whichever is newer. *)
Land(i) ==
  LET call == calls[i]
  IN  /\ call.at = "answered"
      /\ calls' = [calls EXCEPT ![i] = NoCall]
      /\ link' = IF link.client.running /\ ~IsOpen(link) /\ link.client.status # "connected"
                 THEN StartClient(link) ELSE link
      /\ link' = link \/ Prompt
      /\ market' = Notified(
           [market EXCEPT
              !.status = "connected",
              !.shown = [a \in Assets |-> IF a \in call.of THEN call.rest[a] ELSE @[a]],
              !.boot = [awaiting |-> call.of, rest |-> call.rest,
                        waiters |-> {call.by} \cap Callers]], link, link')
      /\ UNCHANGED <<caller, books, shaken, bounds>>

RestFails(i) ==
  /\ calls[i].at = "asked" /\ Fault("rest")
  /\ calls' = [calls EXCEPT ![i] = NoCall]
  /\ market' = [market EXCEPT !.failure = @ \/ calls[i].by = "open"]
  /\ caller' = [w \in Callers |-> IF w = calls[i].by THEN "failed" ELSE caller[w]]
  /\ UNCHANGED <<link, books, shaken>>

BootTimeout ==
  /\ Boot(market) /\ Fault("timeout")
  /\ Fail(market, link)
  /\ UNCHANGED <<calls, books>>

(* handleBootstrapSnapshot: a dump far from its REST book is a divergence. *)
Handshake(m, a, version, l) ==
  IF ~Boot(m) \/ a \notin m.boot.awaiting
  THEN market' = m /\ link' = l /\ UNCHANGED <<caller, shaken>>
  ELSE \/ version # m.boot.rest[a] /\ Fail(m, l)
       \/ /\ link' = l /\ shaken' = shaken \cup {a}
          /\ IF m.boot.awaiting = {a}
             THEN /\ Overlap \/ FreeSlots = Slots
                  /\ market' = [Cancel(m) EXCEPT !.trusted = TRUE, !.failure = FALSE,
                                                 !.status = "connected"]
                  /\ caller' = Settled(m, caller, "done")
             ELSE /\ market' = [m EXCEPT !.boot.awaiting = @ \ {a}]
                  /\ UNCHANGED caller

(* handleMessagePayload. *)
Deliver(s) ==
  /\ link.sockets[s].state = "open" /\ link.sockets[s].chan # <<>>
  /\ UNCHANGED <<calls, books, bounds>>
  /\ LET e == Head(link.sockets[s].chan)
         told == [Remember(market, e) EXCEPT !.shown[e.asset] = e.version]
         l == Receive(link, s)
     IN  IF e.asset \notin market.tracked \/ Known(market, e)
         THEN link' = l /\ UNCHANGED <<market, caller, shaken>>
         ELSE IF e.kind = "delta"
              THEN link' = l /\ market' = told /\ UNCHANGED <<caller, shaken>>
              ELSE Handshake([told EXCEPT !.status = "connected"], e.asset, e.version, l)

(***************************************************************************)
(* The venue: a change is published as a level or, after a trade, a book.  *)
(***************************************************************************)
BookMoves(a) ==
  /\ books[a] < MaxChanges
  /\ books' = [books EXCEPT ![a] = @ + 1]
  /\ IF a \notin market.tracked THEN UNCHANGED link
     ELSE \E kind \in {"book", "delta"} :
            link' = Broadcast(link, [asset |-> a, kind |-> kind, version |-> books'[a]])
  /\ UNCHANGED <<market, calls, caller, shaken, bounds>>

Next ==
  \/ Start \/ Sync \/ Stop
  \/ \E s \in Sockets : Open(s) \/ Deliver(s) \/ Drop(s)
  \/ Silence \/ RedialTimer \/ BootTimeout
  \/ \E i \in Slots : Answer(i) \/ Land(i) \/ RestFails(i)
  \/ \E a \in Assets : BookMoves(a)

Spec == Init /\ [][Next]_vars

CloseEvent(s) == link.sockets[s].state = "closing" /\ Drop(s)

Fairness ==
  /\ WF_vars(Start) /\ WF_vars(RedialTimer)
  /\ \A s \in Sockets : WF_vars(Open(s)) /\ WF_vars(Deliver(s)) /\ WF_vars(CloseEvent(s))
  /\ \A i \in Slots : WF_vars(Answer(i)) /\ WF_vars(Land(i))

FairSpec == Spec /\ Fairness

(***************************************************************************)
(* Properties.                                                             *)
(***************************************************************************)
(* TypeOK: every variable keeps its type. *)
TypeOK ==
  /\ LinkOK(link, Messages)
  /\ market.tracked \subseteq Assets /\ market.boot.awaiting \subseteq Assets
  /\ market.status \in Statuses
  /\ market.shown \in [Assets -> Versions] /\ market.cursor \in [Assets -> Versions]
  /\ caller \in [Callers -> {"idle", "connecting", "waiting", "done", "failed"}]
  /\ books \in [Assets -> Versions] /\ shaken \subseteq Assets

Trusted == market.trusted /\ market.status = "connected" /\ ~market.failure

(* TrustedAfterHandshake: a trusted stream had the dump of every tracked    *)
(* token on this connection (beginBootstrap, handleBootstrapSnapshot).      *)
TrustedAfterHandshake == Trusted => market.tracked \subseteq shaken

(* BookIsCurrent: the book of a token whose handshake is done is the        *)
(* venue's, once everything sent has arrived (applySnapshot, deltas).       *)
BookIsCurrent ==
  Trusted /\ IsOpen(link) /\ link.sockets[link.client.socket].chan = <<>>
    => \A a \in market.tracked : market.shown[a] = books[a]

(* TrustReturns: the stream is trusted again after whatever happened to it, *)
(* unless it was stopped or its reconnect attempts were exhausted.          *)
TrustReturns == []<>(Trusted \/ caller["start"] \in {"idle", "failed"} \/ link.client.failed)
=============================================================================
