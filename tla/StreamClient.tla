---------------------------- MODULE StreamClient ----------------------------
(***************************************************************************)
(* PolymarketWebSocketClient, the connection under both streams, as        *)
(* functions of a link: the client's own fields and the sockets it opened. *)
(* A client forgets a socket when it closes it, and the close event of a   *)
(* forgotten socket still calls the client: it then lets go of whichever   *)
(* socket it holds.  Sockets are numbered and a number is used again once  *)
(* its socket is gone.  The channel of a socket holds what the venue sent  *)
(* and the client has not received.                                        *)
(***************************************************************************)
EXTENDS Naturals, Sequences

CONSTANTS
  MaxSockets,   \* sockets alive at one time
  MaxDials      \* reconnectMaxAttempts

ClientAssumption == MaxSockets \in Nat \ {0} /\ MaxDials \in Nat \ {0}

Sockets == 1 .. MaxSockets
NoSocket == 0

Statuses == {"idle", "connecting", "connected", "disconnected", "failed"}

FreshClient == [running |-> FALSE, socket |-> NoSocket, redial |-> FALSE,
                status |-> "idle", attempt |-> 0, failed |-> FALSE]

FreshSocket == [state |-> "gone", mine |-> TRUE, subscribed |-> FALSE, chan |-> <<>>]

FreshLink == [client |-> FreshClient, sockets |-> [s \in Sockets |-> FreshSocket]]

(* readyState = 1 of the socket the client holds. *)
IsOpen(l) == l.client.socket # NoSocket /\ l.sockets[l.client.socket].state = "open"

Free(l) == {s \in Sockets : l.sockets[s].state = "gone"}

(* connectIfNeeded: an attempt is counted when the socket is created. *)
ConnectIfNeeded(l) ==
  IF ~l.client.running \/ l.client.socket # NoSocket \/ l.client.redial \/ Free(l) = {}
  THEN l
  ELSE LET s == CHOOSE s \in Free(l) : \A t \in Free(l) : s <= t
       IN  [client  |-> [l.client EXCEPT !.socket = s, !.status = "connecting",
                                         !.attempt = @ + 1],
            sockets |-> [l.sockets EXCEPT ![s] = [FreshSocket EXCEPT !.state = "dialing"]]]

(* What the client tells its service: onConnecting, onPermanentFailure. *)
Dialed(l, next) == next.client.attempt > l.client.attempt
Exhausted(l, next) == next.client.failed /\ ~l.client.failed

(* start of an unconnected client: a permanent failure is forgotten. *)
StartClient(l) ==
  ConnectIfNeeded([l EXCEPT !.client.running = TRUE, !.client.failed = FALSE])

(* The reconnect timer, unless the attempts are exhausted. *)
ScheduleReconnect(l) ==
  IF ~l.client.running THEN l
  ELSE IF l.client.attempt >= MaxDials
       THEN [l EXCEPT !.client.status = "failed", !.client.failed = TRUE]
       ELSE [l EXCEPT !.client.redial = TRUE]

(* Mutant: the closed socket is not forgotten. *)
CloseSocketKept(l) ==
  IF l.client.socket = NoSocket THEN l
  ELSE [l EXCEPT !.sockets[l.client.socket] = [FreshSocket EXCEPT !.state = "closing"]]

(* socket.close(): no message is delivered any more, the close event comes later. *)
CloseSocket(l) ==
  IF l.client.socket = NoSocket THEN l
  ELSE [client  |-> [l.client EXCEPT !.socket = NoSocket],
        sockets |-> [l.sockets EXCEPT ![l.client.socket] =
                       [FreshSocket EXCEPT !.state = "closing"]]]

(* Mutant: the socket is forgotten without being closed. *)
TriggerReconnectLeaving(l) ==
  IF ~l.client.running THEN l
  ELSE ScheduleReconnect([l EXCEPT !.client.socket = NoSocket,
                                   !.client.status = "disconnected", !.client.redial = FALSE])

TriggerReconnect(l) ==
  IF ~l.client.running THEN l
  ELSE ScheduleReconnect([CloseSocket(l) EXCEPT !.client.status = "disconnected",
                                                !.client.redial = FALSE])

(* stop, and the service forgets the client: the next start makes a fresh one, *)
(* and the sockets of the old one are no longer the client's.                 *)
StopClient(l) ==
  [client  |-> FreshClient,
   sockets |-> [s \in Sockets |-> IF CloseSocket(l).sockets[s].state = "gone" THEN FreshSocket
                                  ELSE [CloseSocket(l).sockets[s] EXCEPT !.mine = FALSE]]]

(* handleOpen: the subscription goes out on the socket the client holds. *)
HandleOpen(l, s) ==
  [client  |-> IF l.sockets[s].mine
               THEN [l.client EXCEPT !.status = "connected", !.attempt = 0] ELSE l.client,
   sockets |-> [l.sockets EXCEPT ![s].state = "open",
                                 ![s].subscribed = (l.client.socket = s)]]

(* handleClose does not ask which socket closed. *)
HandleClose(l, s) ==
  LET gone == [l EXCEPT !.sockets[s] = FreshSocket]
  IN  IF l.sockets[s].mine
      THEN ScheduleReconnect([gone EXCEPT !.client.socket = NoSocket,
                                          !.client.status = "disconnected"])
      ELSE gone

(* The reconnect timer fires. *)
Redial(l) == ConnectIfNeeded([l EXCEPT !.client.redial = FALSE])

(* What the venue sends goes to every socket that subscribed. *)
Broadcast(l, message) ==
  [l EXCEPT !.sockets =
     [s \in Sockets |-> IF l.sockets[s].state = "open" /\ l.sockets[s].subscribed
                        THEN [l.sockets[s] EXCEPT !.chan = Append(@, message)]
                        ELSE l.sockets[s]]]

Receive(l, s) == [l EXCEPT !.sockets[s].chan = Tail(@)]

(* The shape of a link; the socket a client holds is dialing or open. *)
LinkOK(l, messages) ==
  /\ l.client \in [running : BOOLEAN, socket : Sockets \cup {NoSocket}, redial : BOOLEAN,
                   status : Statuses, attempt : Nat, failed : BOOLEAN]
  /\ l.sockets \in [Sockets -> [state : {"gone", "dialing", "open", "closing"},
                                mine : BOOLEAN, subscribed : BOOLEAN, chan : Seq(messages)]]
  /\ l.client.socket # NoSocket =>
       LET held == l.sockets[l.client.socket]
       IN  held.mine /\ held.state \in {"dialing", "open"}
=============================================================================
