-------------------------- MODULE UserStreamProofs --------------------------
(***************************************************************************)
(* Proofs about UserStream for any number of orders, sockets, reconnect    *)
(* attempts, REST calls under way, faults and commands: first what each    *)
(* operation of the socket client does to a link, then the types, the one  *)
(* listener, and the trust in the orders shown.                            *)
(***************************************************************************)
EXTENDS UserStream, FiniteSetTheorems, WellFoundedInduction, SequenceTheorems, TLAPS

-----------------------------------------------------------------------------
(* The link                                                                 *)

\* A set of numbers that is not empty has a least one.
LEMMA LeastNumber ==
  ASSUME NEW T, T \subseteq Nat, T # {}
  PROVE  \E x \in T : \A y \in T : x <= y
<1> DEFINE Less == {ss \in Nat \X Nat : ss[1] < ss[2]}
<1>1. IsWellFoundedOn(Less, Nat)
  BY NatLessThanWellFounded DEF OpToRel
<1>2. PICK x \in T : \A y \in T : ~(<<y, x>> \in Less)
  <2> HIDE DEF Less
  <2> QED
    BY <1>1, WFMin
<1>3. ASSUME NEW y \in T PROVE x <= y
  <2>1. y \in Nat /\ x \in Nat
    OBVIOUS
  <2>2. <<y, x>> \in Less <=> y < x
    BY <2>1
  <2>3. <<y, x>> \notin Less
    BY <1>2
  <2> QED
    BY <2>1, <2>2, <2>3
<1> QED
  BY <1>3

States == {"gone", "dialing", "open", "closing"}
Client == [running : BOOLEAN, socket : Sockets \cup {NoSocket}, redial : BOOLEAN,
           status : Statuses, attempt : Nat, failed : BOOLEAN]
Socket == [state : States, mine : BOOLEAN, subscribed : BOOLEAN, chan : Seq(Events)]
Links == [client : Client, sockets : [Sockets -> Socket]]

\* The socket a client holds is dialing or open, and is its own.
Holds(l) ==
  l.client.socket # NoSocket =>
    /\ l.sockets[l.client.socket].mine
    /\ l.sockets[l.client.socket].state \in {"dialing", "open"}

Dialing == [FreshSocket EXCEPT !.state = "dialing"]
Closing == [FreshSocket EXCEPT !.state = "closing"]

LEMMA SocketsTyped ==
  ASSUME UserStreamAssumption
  PROVE  /\ NoSocket \notin Sockets /\ Sockets \subseteq Nat
         /\ FreshSocket \in Socket /\ Dialing \in Socket /\ Closing \in Socket
         /\ FreshSocket = [state |-> "gone", mine |-> TRUE, subscribed |-> FALSE, chan |-> <<>>]
         /\ Dialing.state = "dialing" /\ Dialing.mine /\ ~Dialing.subscribed
         /\ Dialing.chan = <<>>
         /\ Closing.state = "closing" /\ Closing.chan = <<>>
         /\ FreshClient \in Client /\ FreshLink \in Links
<1>1. MaxSockets \in Nat
  BY DEF UserStreamAssumption, ClientAssumption
<1>2. NoSocket \notin Sockets /\ Sockets \subseteq Nat
  BY <1>1 DEF NoSocket, Sockets
<1>3. <<>> \in Seq(Events)
  OBVIOUS
<1>4. FreshSocket \in Socket /\ Dialing \in Socket /\ Closing \in Socket
  BY <1>3 DEF FreshSocket, Dialing, Closing, Socket, States
<1>5. FreshClient \in Client
  BY DEF FreshClient, Client, Statuses
<1>6. FreshLink \in Links
  BY <1>4, <1>5 DEF FreshLink, Links
<1>7. /\ FreshSocket = [state |-> "gone", mine |-> TRUE, subscribed |-> FALSE, chan |-> <<>>]
  BY DEF FreshSocket
<1>8. /\ Dialing.state = "dialing" /\ Dialing.mine /\ ~Dialing.subscribed
      /\ Dialing.chan = <<>>
  BY DEF Dialing, FreshSocket
<1>9. Closing.state = "closing" /\ Closing.chan = <<>>
  BY DEF Closing, FreshSocket
<1> QED
  BY <1>2, <1>4, <1>5, <1>6, <1>7, <1>8, <1>9

\* How an operation may change a link: nothing but the client's own fields,
\* or a socket is dialed, or the one that is held is closed and forgotten.
Calm(l, n) == n.sockets = l.sockets /\ n.client.socket = l.client.socket
Dials(l, n) ==
  /\ l.client.socket = NoSocket /\ n.client.running
  /\ \E s \in Sockets : /\ l.sockets[s].state = "gone" /\ n.client.socket = s
                        /\ n.sockets = [l.sockets EXCEPT ![s] = Dialing]
Leaves(l, n) ==
  /\ n.client.socket = NoSocket
  /\ n.sockets = IF l.client.socket = NoSocket THEN l.sockets
                 ELSE [l.sockets EXCEPT ![l.client.socket] = Closing]

LEMMA CloseSocketLeaves ==
  ASSUME UserStreamAssumption, NEW l \in Links
  PROVE  /\ CloseSocket(l) \in Links /\ Leaves(l, CloseSocket(l))
         /\ CloseSocket(l).client.running = l.client.running
<1>1. CASE l.client.socket = NoSocket
  BY <1>1 DEF CloseSocket, Leaves
<1>2. CASE l.client.socket # NoSocket
  <2> DEFINE c == [l.client EXCEPT !.socket = NoSocket]
             ss == [l.sockets EXCEPT ![l.client.socket] = Closing]
  <2>1. CloseSocket(l) = [client |-> c, sockets |-> ss]
    BY <1>2 DEF CloseSocket, Closing
  <2>2. c \in Client /\ c.socket = NoSocket /\ c.running = l.client.running
    BY DEF Links, Client
  <2>3. ss \in [Sockets -> Socket]
    BY SocketsTyped DEF Links
  <2> HIDE DEF c
  <2> QED
    BY <1>2, <2>1, <2>2, <2>3 DEF Links, Leaves
<1> QED
  BY <1>1, <1>2

LEMMA ScheduleCalm ==
  ASSUME NEW l \in Links
  PROVE  /\ ScheduleReconnect(l) \in Links /\ Calm(l, ScheduleReconnect(l))
         /\ ScheduleReconnect(l).client.running = l.client.running
<1>1. CASE ~l.client.running
  BY <1>1 DEF ScheduleReconnect, Calm
<1>2. CASE l.client.running
  <2>1. PICK c \in Client : /\ ScheduleReconnect(l) = [l EXCEPT !.client = c]
                            /\ c.socket = l.client.socket /\ c.running = l.client.running
    <3>1. CASE l.client.attempt >= MaxDials
      <4> DEFINE c == [l.client EXCEPT !.status = "failed", !.failed = TRUE]
      <4>1. c \in Client /\ c.socket = l.client.socket /\ c.running = l.client.running
        BY DEF Links, Client, Statuses
      <4>2. ScheduleReconnect(l) = [l EXCEPT !.client = c]
        BY <1>2, <3>1 DEF ScheduleReconnect, Links
      <4> QED
        BY <4>1, <4>2
    <3>2. CASE ~(l.client.attempt >= MaxDials)
      <4> DEFINE c == [l.client EXCEPT !.redial = TRUE]
      <4>1. c \in Client /\ c.socket = l.client.socket /\ c.running = l.client.running
        BY DEF Links, Client
      <4>2. ScheduleReconnect(l) = [l EXCEPT !.client = c]
        BY <1>2, <3>2 DEF ScheduleReconnect, Links
      <4> QED
        BY <4>1, <4>2
    <3> QED
      BY <3>1, <3>2
  <2> QED
    BY <2>1 DEF Links, Calm
<1> QED
  BY <1>1, <1>2

LEMMA TriggerLeaves ==
  ASSUME UserStreamAssumption, NEW l \in Links
  PROVE  /\ TriggerReconnect(l) \in Links
         /\ TriggerReconnect(l).client.running = l.client.running
         /\ l.client.running => Leaves(l, TriggerReconnect(l))
         /\ ~l.client.running => TriggerReconnect(l) = l
<1>1. CASE ~l.client.running
  BY <1>1 DEF TriggerReconnect
<1>2. CASE l.client.running
  <2> DEFINE k == CloseSocket(l)
             c == [k.client EXCEPT !.status = "disconnected", !.redial = FALSE]
             m == [k EXCEPT !.client = c]
  <2>1. k \in Links /\ Leaves(l, k) /\ k.client.running = l.client.running
    BY CloseSocketLeaves
  <2>2. TriggerReconnect(l) = ScheduleReconnect(m)
    BY <1>2, <2>1 DEF TriggerReconnect, Links
  <2> HIDE DEF k
  <2>3. c \in Client /\ c.socket = k.client.socket /\ c.running = k.client.running
    BY <2>1 DEF Links, Client, Statuses
  <2> HIDE DEF c
  <2>4. m \in Links /\ m.sockets = k.sockets /\ m.client = c
    BY <2>1, <2>3 DEF Links
  <2> HIDE DEF m
  <2> QED
    BY <1>2, <2>1, <2>2, <2>3, <2>4, ScheduleCalm DEF Leaves, Calm
<1> QED
  BY <1>1, <1>2

LEMMA ConnectDials ==
  ASSUME UserStreamAssumption, NEW l \in Links
  PROVE  /\ ConnectIfNeeded(l) \in Links
         /\ ConnectIfNeeded(l) = l \/ Dials(l, ConnectIfNeeded(l))
         /\ ConnectIfNeeded(l).client.running = l.client.running
<1>1. CASE ~l.client.running \/ l.client.socket # NoSocket \/ l.client.redial \/ Free(l) = {}
  BY <1>1 DEF ConnectIfNeeded
<1>2. CASE ~(~l.client.running \/ l.client.socket # NoSocket \/ l.client.redial \/ Free(l) = {})
  <2>1. \E s \in Free(l) : \A t \in Free(l) : s <= t
    <3>1. Free(l) \subseteq Nat
      BY SocketsTyped DEF Free
    <3> QED
      BY <1>2, <3>1, LeastNumber
  <2>2. PICK s : /\ s = CHOOSE f \in Free(l) : \A t \in Free(l) : f <= t
                 /\ s \in Free(l)
    BY <2>1
  <2> DEFINE c == [l.client EXCEPT !.socket = s, !.status = "connecting", !.attempt = @ + 1]
             ss == [l.sockets EXCEPT ![s] = Dialing]
  <2>3. ConnectIfNeeded(l) = [client |-> c, sockets |-> ss]
    BY <1>2, <2>2 DEF ConnectIfNeeded, Dialing
  <2>4. s \in Sockets /\ l.sockets[s].state = "gone"
    BY <2>2 DEF Free
  <2>5. c \in Client /\ c.socket = s /\ c.running = l.client.running
    <3>1. l.client \in Client
      BY DEF Links
    <3>2. c \in Client
      <4>1. PICK n \in Nat : n = l.client.attempt + 1
        BY <3>1 DEF Client
      <4>2. c = [l.client EXCEPT !.socket = s, !.status = "connecting", !.attempt = n]
        BY <4>1
      <4> QED
        BY <2>4, <3>1, <4>2 DEF Client, Statuses
    <3>3. c.socket = s
      BY <3>1 DEF Client
    <3>4. c.running = l.client.running
      BY <3>1 DEF Client
    <3> QED
      BY <3>2, <3>3, <3>4
  <2>6. ss \in [Sockets -> Socket]
    BY SocketsTyped DEF Links
  <2> HIDE DEF c
  <2> QED
    BY <1>2, <2>3, <2>4, <2>5, <2>6 DEF Links, Dials
<1> QED
  BY <1>1, <1>2

LEMMA StartDials ==
  ASSUME UserStreamAssumption, NEW l \in Links
  PROVE  /\ StartClient(l) \in Links /\ StartClient(l).client.running
         /\ Calm(l, StartClient(l)) \/ Dials(l, StartClient(l))
<1> DEFINE c == [l.client EXCEPT !.running = TRUE, !.failed = FALSE]
           m == [l EXCEPT !.client = c]
<1>1. StartClient(l) = ConnectIfNeeded(m)
  BY DEF StartClient, Links
<1>2. c \in Client /\ c.socket = l.client.socket /\ c.running = TRUE
  BY DEF Links, Client
<1> HIDE DEF c
<1>3. m \in Links /\ m.sockets = l.sockets /\ m.client = c
  BY <1>2 DEF Links
<1> HIDE DEF m
<1>4. /\ ConnectIfNeeded(m) \in Links /\ ConnectIfNeeded(m).client.running
      /\ ConnectIfNeeded(m) = m \/ Dials(m, ConnectIfNeeded(m))
  BY <1>2, <1>3, ConnectDials
<1> QED
  BY <1>1, <1>2, <1>3, <1>4 DEF Calm, Dials

LEMMA RedialDials ==
  ASSUME UserStreamAssumption, NEW l \in Links
  PROVE  /\ Redial(l) \in Links /\ Redial(l).client.running = l.client.running
         /\ Calm(l, Redial(l)) \/ Dials(l, Redial(l))
<1> DEFINE c == [l.client EXCEPT !.redial = FALSE]
           m == [l EXCEPT !.client = c]
<1>1. Redial(l) = ConnectIfNeeded(m)
  BY DEF Redial, Links
<1>2. c \in Client /\ c.socket = l.client.socket /\ c.running = l.client.running
  BY DEF Links, Client
<1> HIDE DEF c
<1>3. m \in Links /\ m.sockets = l.sockets /\ m.client = c
  BY <1>2 DEF Links
<1> HIDE DEF m
<1>4. /\ ConnectIfNeeded(m) \in Links /\ ConnectIfNeeded(m).client.running = m.client.running
      /\ ConnectIfNeeded(m) = m \/ Dials(m, ConnectIfNeeded(m))
  BY <1>3, ConnectDials
<1> QED
  BY <1>1, <1>2, <1>3, <1>4 DEF Calm, Dials

LEMMA StopForgets ==
  ASSUME UserStreamAssumption, NEW l \in Links, Holds(l)
  PROVE  /\ StopClient(l) \in Links
         /\ StopClient(l).client = FreshClient
         /\ \A s \in Sockets :
              /\ s = l.client.socket => StopClient(l).sockets[s].state = "closing"
              /\ s # l.client.socket => StopClient(l).sockets[s].state = l.sockets[s].state
              /\ StopClient(l).sockets[s].state = "dialing" => StopClient(l).sockets[s].chan = l.sockets[s].chan
<1> DEFINE k == CloseSocket(l)
           ss == [s \in Sockets |-> IF k.sockets[s].state = "gone" THEN FreshSocket
                                    ELSE [k.sockets[s] EXCEPT !.mine = FALSE]]
<1>1. k \in Links /\ Leaves(l, k)
  BY CloseSocketLeaves
<1>2. StopClient(l) = [client |-> FreshClient, sockets |-> ss]
  BY DEF StopClient
<1> HIDE DEF k
<1>3. ASSUME NEW s \in Sockets
      PROVE  ss[s] \in Socket /\ ss[s].state = k.sockets[s].state
             /\ (ss[s].state # "gone" => ss[s].chan = k.sockets[s].chan)
  <2>1. PICK t \in Socket : t = k.sockets[s]
    BY <1>1 DEF Links
  <2>2. CASE t.state = "gone"
    <3>1. ss[s] = FreshSocket
      BY <2>1, <2>2
    <3> QED
      BY <2>1, <2>2, <3>1, SocketsTyped
  <2>3. CASE t.state # "gone"
    <3>1. ss[s] = [t EXCEPT !.mine = FALSE]
      BY <2>1, <2>3
    <3>2. /\ [t EXCEPT !.mine = FALSE] \in Socket
          /\ [t EXCEPT !.mine = FALSE].state = t.state
          /\ [t EXCEPT !.mine = FALSE].chan = t.chan
      BY DEF Socket
    <3> QED
      BY <2>1, <3>1, <3>2
  <2> QED
    BY <2>2, <2>3
<1>4. ss \in [Sockets -> Socket]
  BY <1>3
<1>5. ASSUME NEW s \in Sockets
      PROVE  /\ s = l.client.socket => k.sockets[s].state = "closing"
             /\ s # l.client.socket => k.sockets[s] = l.sockets[s]
  BY <1>1, SocketsTyped DEF Leaves, Links, Closing, FreshSocket
<1> HIDE DEF ss
<1> QED
  BY <1>2, <1>3, <1>4, <1>5, SocketsTyped DEF Links

LEMMA HandleOpenOpens ==
  ASSUME UserStreamAssumption, NEW l \in Links, NEW s \in Sockets
  PROVE  LET n == HandleOpen(l, s)
         IN  /\ n \in Links
             /\ n.client.socket = l.client.socket /\ n.client.running = l.client.running
             /\ \A t \in Sockets \ {s} : n.sockets[t] = l.sockets[t]
             /\ n.sockets[s].state = "open" /\ n.sockets[s].mine = l.sockets[s].mine
             /\ n.sockets[s].chan = l.sockets[s].chan
             /\ n.sockets[s].subscribed = (l.client.socket = s)
<1> DEFINE c == IF l.sockets[s].mine
                THEN [l.client EXCEPT !.status = "connected", !.attempt = 0] ELSE l.client
           k == [l.sockets[s] EXCEPT !.state = "open", !.subscribed = (l.client.socket = s)]
           ss == [l.sockets EXCEPT ![s] = k]
<1>1. l.sockets \in [Sockets -> Socket] /\ l.sockets[s] \in Socket /\ l.client \in Client
  BY DEF Links
<1>2. HandleOpen(l, s) = [client |-> c, sockets |-> ss]
  BY <1>1 DEF HandleOpen
<1>3. c \in Client /\ c.socket = l.client.socket /\ c.running = l.client.running
  BY <1>1 DEF Client, Statuses
<1>4. /\ k \in Socket /\ k.state = "open" /\ k.mine = l.sockets[s].mine
      /\ k.chan = l.sockets[s].chan /\ k.subscribed = (l.client.socket = s)
  BY <1>1 DEF Socket, States
<1> HIDE DEF c, k
<1>5. ss \in [Sockets -> Socket] /\ ss[s] = k /\ \A t \in Sockets \ {s} : ss[t] = l.sockets[t]
  BY <1>1, <1>4
<1> HIDE DEF ss
<1> QED
  BY <1>2, <1>3, <1>4, <1>5 DEF Links

LEMMA HandleCloseDrops ==
  ASSUME UserStreamAssumption, NEW l \in Links, NEW s \in Sockets
  PROVE  LET n == HandleClose(l, s)
         IN  /\ n \in Links /\ n.client.running = l.client.running
             /\ n.sockets = [l.sockets EXCEPT ![s] = FreshSocket]
             /\ n.client.socket = IF l.sockets[s].mine THEN NoSocket ELSE l.client.socket
<1> DEFINE gone == [l EXCEPT !.sockets[s] = FreshSocket]
           c == [l.client EXCEPT !.socket = NoSocket, !.status = "disconnected"]
           m == [gone EXCEPT !.client = c]
<1>1. gone \in Links /\ gone.client = l.client
      /\ gone.sockets = [l.sockets EXCEPT ![s] = FreshSocket]
  BY SocketsTyped DEF Links
<1>2. CASE ~l.sockets[s].mine
  BY <1>1, <1>2 DEF HandleClose
<1>3. CASE l.sockets[s].mine
  <2>1. HandleClose(l, s) = ScheduleReconnect(m)
    BY <1>1, <1>3 DEF HandleClose, Links
  <2> HIDE DEF gone
  <2>2. c \in Client /\ c.socket = NoSocket /\ c.running = l.client.running
    BY DEF Links, Client, Statuses
  <2> HIDE DEF c
  <2>3. m \in Links /\ m.client = c /\ m.sockets = gone.sockets
    BY <1>1, <2>2 DEF Links
  <2> HIDE DEF m
  <2> QED
    BY <1>1, <1>3, <2>1, <2>2, <2>3, ScheduleCalm DEF Calm
<1> QED
  BY <1>2, <1>3

LEMMA BroadcastAppends ==
  ASSUME NEW l \in Links, NEW e \in Events
  PROVE  LET n == Broadcast(l, e)
         IN  /\ n \in Links /\ n.client = l.client
             /\ \A s \in Sockets :
                  /\ n.sockets[s].state = l.sockets[s].state
                  /\ n.sockets[s].mine = l.sockets[s].mine
                  /\ n.sockets[s].subscribed = l.sockets[s].subscribed
                  /\ n.sockets[s].chan =
                       IF l.sockets[s].state = "open" /\ l.sockets[s].subscribed
                       THEN Append(l.sockets[s].chan, e) ELSE l.sockets[s].chan
<1> DEFINE k(s) == IF l.sockets[s].state = "open" /\ l.sockets[s].subscribed
                   THEN [l.sockets[s] EXCEPT !.chan = Append(l.sockets[s].chan, e)]
                   ELSE l.sockets[s]
           ss == [s \in Sockets |-> k(s)]
<1>1. ASSUME NEW s \in Sockets
      PROVE  /\ k(s) \in Socket
             /\ k(s).state = l.sockets[s].state
             /\ k(s).mine = l.sockets[s].mine
             /\ k(s).subscribed = l.sockets[s].subscribed
             /\ k(s).chan = IF l.sockets[s].state = "open" /\ l.sockets[s].subscribed
                            THEN Append(l.sockets[s].chan, e) ELSE l.sockets[s].chan
  <2>1. l.sockets[s] \in Socket /\ Append(l.sockets[s].chan, e) \in Seq(Events)
    BY DEF Links, Socket
  <2>2. CASE l.sockets[s].state = "open" /\ l.sockets[s].subscribed
    BY <2>1, <2>2 DEF Socket
  <2>3. CASE ~(l.sockets[s].state = "open" /\ l.sockets[s].subscribed)
    BY <2>1, <2>3
  <2> QED
    BY <2>2, <2>3
<1> HIDE DEF k
<1>2. ss \in [Sockets -> Socket] /\ \A s \in Sockets : ss[s] = k(s)
  BY <1>1
<1>3. Broadcast(l, e) = [l EXCEPT !.sockets = ss]
  BY DEF Broadcast, k
<1> HIDE DEF ss
<1> QED
  BY <1>1, <1>2, <1>3 DEF Links

LEMMA ReceiveTakes ==
  ASSUME NEW l \in Links, NEW s \in Sockets, l.sockets[s].chan # <<>>
  PROVE  LET n == Receive(l, s)
         IN  /\ n \in Links /\ n.client = l.client
             /\ \A t \in Sockets :
                  /\ n.sockets[t].state = l.sockets[t].state
                  /\ n.sockets[t].mine = l.sockets[t].mine
                  /\ n.sockets[t].subscribed = l.sockets[t].subscribed
                  /\ n.sockets[t].chan =
                       IF t = s THEN Tail(l.sockets[s].chan) ELSE l.sockets[t].chan
<1> DEFINE k == [l.sockets[s] EXCEPT !.chan = Tail(l.sockets[s].chan)]
           ss == [l.sockets EXCEPT ![s] = k]
<1>1. l.sockets \in [Sockets -> Socket] /\ l.sockets[s] \in Socket
      /\ Tail(l.sockets[s].chan) \in Seq(Events)
  BY DEF Links, Socket
<1>2. Receive(l, s) = [l EXCEPT !.sockets = ss]
  BY <1>1 DEF Receive
<1>3. /\ k \in Socket /\ k.state = l.sockets[s].state /\ k.mine = l.sockets[s].mine
      /\ k.subscribed = l.sockets[s].subscribed /\ k.chan = Tail(l.sockets[s].chan)
  BY <1>1 DEF Socket
<1> HIDE DEF k
<1>4. ss \in [Sockets -> Socket] /\ ss[s] = k /\ \A t \in Sockets \ {s} : ss[t] = l.sockets[t]
  BY <1>1, <1>3
<1> HIDE DEF ss
<1> QED
  BY <1>2, <1>3, <1>4 DEF Links

-----------------------------------------------------------------------------
(* The service's fields                                                     *)

Waiters == Callers \cup {"nobody"}
Boots == [buffer : Seq(Events), finalizing : BOOLEAN, waiters : SUBSET Waiters]
Users == [status : Statuses, trusted : BOOLEAN, needs : BOOLEAN, failure : BOOLEAN,
          boot : Boots, orders : SUBSET Orders, cursor : [Orders -> 0 .. 2]]
CallerStates == {"idle", "connecting", "waiting", "done", "failed"}
CallRecords == [job : {"none", "begin", "finalize"}, by : {"none", "open", "start", "sync"},
                at : {"none", "delay", "asked", "answered"},
                listing : SUBSET Orders, cut : Nat]

LEMMA NoBootTyped == NoBoot \in Boots /\ NoBoot.buffer = <<>> /\ ~NoBoot.finalizing
<1>1. <<>> \in Seq(Events)
  OBVIOUS
<1> QED
  BY <1>1 DEF NoBoot, Boots, Waiters

LEMMA NoCallTyped ==
  /\ NoCall \in CallRecords /\ NoCall.job = "none" /\ NoCall.at = "none" /\ NoCall.cut = 0
  /\ NoCall.by = "none"
  /\ FinalCall \in CallRecords /\ FinalCall.job = "finalize" /\ FinalCall.at = "delay"
  /\ FinalCall.cut = 0 /\ FinalCall.by = "none"
  /\ \A by \in {"open", "start", "sync"} :
       /\ BeginCall(by) \in CallRecords /\ BeginCall(by).job = "begin"
       /\ BeginCall(by).at = "asked" /\ BeginCall(by).by = by /\ BeginCall(by).cut = 0
<1>1. /\ NoCall \in CallRecords /\ NoCall.job = "none" /\ NoCall.at = "none" /\ NoCall.cut = 0
      /\ NoCall.by = "none"
  BY DEF NoCall, CallRecords
<1> QED
  BY <1>1 DEF CallRecords, FinalCall, BeginCall

LEMMA CancelKeeps ==
  ASSUME NEW u \in Users
  PROVE  /\ Cancel(u) \in Users /\ Cancel(u).boot = NoBoot
         /\ Cancel(u).trusted = u.trusted /\ Cancel(u).needs = u.needs
         /\ Cancel(u).orders = u.orders /\ Cancel(u).cursor = u.cursor
BY NoBootTyped DEF Cancel, Users

\* What the link's step makes of the fields: trust is never gained.
LEMMA NotifiedKeeps ==
  ASSUME NEW u \in Users, NEW l, NEW n
  PROVE  /\ Notified(u, l, n) \in Users
         /\ Notified(u, l, n).orders = u.orders /\ Notified(u, l, n).cursor = u.cursor
         /\ Notified(u, l, n).needs = u.needs
         /\ Notified(u, l, n).trusted => u.trusted
         /\ Notified(u, l, n).boot \in {u.boot, NoBoot}
<1>1. CASE Dialed(l, n)
  BY <1>1 DEF Notified, Users, Statuses
<1>2. CASE ~Dialed(l, n) /\ Exhausted(l, n)
  <2> DEFINE k == Cancel(u)
  <2>1. k \in Users /\ k.boot = NoBoot /\ k.needs = u.needs
        /\ k.orders = u.orders /\ k.cursor = u.cursor
    BY CancelKeeps
  <2>2. Notified(u, l, n) = [k EXCEPT !.status = "failed", !.trusted = FALSE, !.failure = TRUE]
    BY <1>2 DEF Notified
  <2> HIDE DEF k
  <2> QED
    BY <2>1, <2>2 DEF Users, Statuses
<1>3. CASE ~Dialed(l, n) /\ ~Exhausted(l, n)
  BY <1>3 DEF Notified
<1> QED
  BY <1>1, <1>2, <1>3

LEMMA EventsTyped ==
  ASSUME NEW e \in Events
  PROVE  e[1] \in Orders /\ e[2] \in {1, 2} /\ e = <<e[1], e[2]>>
BY DEF Events

LEMMA ApplyKeeps ==
  ASSUME NEW u \in Users, NEW e \in Events
  PROVE  /\ Apply(u, e) \in Users
         /\ Apply(u, e).boot = u.boot /\ Apply(u, e).trusted = u.trusted
         /\ Apply(u, e).needs = u.needs
         /\ e[2] < u.cursor[e[1]] =>
              Apply(u, e).orders = u.orders /\ Apply(u, e).cursor = u.cursor
         /\ ~(e[2] < u.cursor[e[1]]) =>
              /\ Apply(u, e).cursor = [u.cursor EXCEPT ![e[1]] = e[2]]
              /\ Apply(u, e).orders = IF e[2] = 1 THEN u.orders \cup {e[1]}
                                      ELSE u.orders \ {e[1]}
<1>1. CASE e[2] < u.cursor[e[1]]
  BY <1>1 DEF Apply
<1>2. CASE ~(e[2] < u.cursor[e[1]])
  <2> DEFINE c == [u.cursor EXCEPT ![e[1]] = e[2]]
             os == IF e[2] = 1 THEN u.orders \cup {e[1]} ELSE u.orders \ {e[1]}
  <2>1. c \in [Orders -> 0 .. 2]
    <3>1. u.cursor \in [Orders -> 0 .. 2]
      BY DEF Users
    <3>2. e[2] \in 0 .. 2
      BY EventsTyped
    <3> QED
      BY <3>1, <3>2
  <2>2. os \in SUBSET Orders
    BY EventsTyped DEF Users
  <2>3. Apply(u, e) = [u EXCEPT !.cursor = c, !.orders = os]
    BY <1>2 DEF Apply, Users
  <2> HIDE DEF c, os
  <2>4. Apply(u, e) \in Users
    BY <2>1, <2>2, <2>3 DEF Users
  <2>5. Apply(u, e).cursor = c /\ Apply(u, e).orders = os /\ Apply(u, e).boot = u.boot
    BY <2>3 DEF Users
  <2>6. Apply(u, e).trusted = u.trusted
    BY <2>3 DEF Users
  <2>7. Apply(u, e).needs = u.needs
    BY <2>3 DEF Users
  <2> QED
    BY <1>2, <2>4, <2>5, <2>6, <2>7 DEF c, os
<1> QED
  BY <1>1, <1>2

LEMMA ReplaceKeeps ==
  ASSUME NEW u \in Users, NEW L \in SUBSET Orders
  PROVE  /\ Replace(u, L) \in Users /\ Replace(u, L).boot = u.boot
         /\ Replace(u, L).trusted = u.trusted /\ Replace(u, L).needs = u.needs
         /\ Replace(u, L).orders = L
         /\ \A o \in Orders : Replace(u, L).cursor[o] = IF o \in L THEN 1 ELSE 0
<1> DEFINE c == [o \in Orders |-> IF o \in L THEN 1 ELSE 0]
<1>1. c \in [Orders -> 0 .. 2] /\ \A o \in Orders : c[o] = IF o \in L THEN 1 ELSE 0
  OBVIOUS
<1>2. Replace(u, L) = [u EXCEPT !.orders = L, !.cursor = c]
  BY DEF Replace
<1> HIDE DEF c
<1>3. Replace(u, L) \in Users /\ Replace(u, L).boot = u.boot
  BY <1>1, <1>2 DEF Users
<1>4. Replace(u, L).orders = L /\ Replace(u, L).cursor = c
  BY <1>2 DEF Users
<1>5. Replace(u, L).trusted = u.trusted
  BY <1>2 DEF Users
<1>6. Replace(u, L).needs = u.needs
  BY <1>2 DEF Users
<1> QED
  BY <1>1, <1>3, <1>4, <1>5, <1>6

(***************************************************************************)
(* ApplyAll, whose recursive function exists by induction.                 *)
(***************************************************************************)
Replays(g, u, events, n) ==
  /\ g \in [0 .. n -> Users] /\ g[0] = u
  /\ \A k \in 1 .. n : g[k] = Apply(g[k - 1], events[k])

LEMMA ReplaysExist ==
  ASSUME NEW u \in Users, NEW events \in Seq(Events)
  PROVE  \E g : Replays(g, u, events, Len(events))
<1> DEFINE Bad == {n \in 0 .. Len(events) : ~ \E g : Replays(g, u, events, n)}
<1>0. Len(events) \in Nat
  OBVIOUS
<1>1. SUFFICES ASSUME Bad # {} PROVE FALSE
  BY <1>0
<1>2. PICK n \in Bad : \A m \in Bad : n <= m
  <2>1. Bad \subseteq Nat
    BY <1>0
  <2> QED
    BY <1>1, <2>1, LeastNumber
<1>3. n # 0
  <2>1. Replays([k \in 0 .. 0 |-> u], u, events, 0)
    BY DEF Replays
  <2> QED
    BY <2>1
<1>4. n \in 1 .. Len(events) /\ n - 1 \in 0 .. Len(events) /\ n - 1 < n
  BY <1>0, <1>2, <1>3
<1>5. n - 1 \notin Bad
  BY <1>0, <1>2, <1>4
<1>6. PICK g : Replays(g, u, events, n - 1)
  BY <1>4, <1>5
<1> HIDE DEF Bad
<1> DEFINE h == [k \in 0 .. n |-> IF k = n THEN Apply(g[n - 1], events[n]) ELSE g[k]]
<1>7. Replays(h, u, events, n)
  <2>1. events[n] \in Events
    BY <1>4
  <2>2. g[n - 1] \in Users
    BY <1>4, <1>6 DEF Replays
  <2>3. Apply(g[n - 1], events[n]) \in Users
    BY <2>1, <2>2, ApplyKeeps
  <2>4. h \in [0 .. n -> Users]
    BY <1>0, <1>4, <1>6, <2>3 DEF Replays
  <2>5. h[0] = u
    BY <1>0, <1>4, <1>6 DEF Replays
  <2>6. ASSUME NEW k \in 1 .. n PROVE h[k] = Apply(h[k - 1], events[k])
    BY <1>0, <1>4, <1>6 DEF Replays
  <2> HIDE DEF h
  <2> QED
    BY <2>4, <2>5, <2>6 DEF Replays
<1> QED
  BY <1>2, <1>7 DEF Bad

\* ApplyAll is the last of the states that applying the events one by one makes.
LEMMA ApplyAllReplays ==
  ASSUME NEW u \in Users, NEW events \in Seq(Events)
  PROVE  \E g : /\ Replays(g, u, events, Len(events))
                /\ ApplyAll(u, events) = g[Len(events)]
<1> DEFINE F(f) == [n \in 0 .. Len(events) |->
                      IF n = 0 THEN u ELSE Apply(f[n - 1], events[n])]
           f == CHOOSE f : f = F(f)
<1>0. Len(events) \in Nat
  OBVIOUS
<1>1. PICK g : Replays(g, u, events, Len(events))
  BY ReplaysExist
<1>2. g = F(g)
  <2>1. ASSUME NEW n \in 0 .. Len(events) PROVE g[n] = F(g)[n]
    <3>1. CASE n = 0
      BY <1>1, <3>1 DEF Replays
    <3>2. CASE n # 0
      <4>1. n \in 1 .. Len(events)
        BY <1>0, <3>2
      <4> QED
        BY <1>1, <3>2, <4>1 DEF Replays
    <3> QED
      BY <3>1, <3>2
  <2> QED
    BY <1>1, <2>1 DEF Replays
<1>3. f = F(f)
  BY <1>2
<1>4. ApplyAll(u, events) = f[Len(events)]
  BY DEF ApplyAll
<1>5. Replays(f, u, events, Len(events))
  <2> HIDE DEF f
  <2>1. f[0] = u
    BY <1>0, <1>3
  <2>2. \A k \in 1 .. Len(events) : f[k] = Apply(f[k - 1], events[k])
    BY <1>0, <1>3
  <2> DEFINE Bad == {n \in 0 .. Len(events) : f[n] \notin Users}
  <2>3. Bad = {}
    <3>1. SUFFICES ASSUME Bad # {} PROVE FALSE
      OBVIOUS
    <3>2. PICK n \in Bad : \A m \in Bad : n <= m
      <4>1. Bad \subseteq Nat
        BY <1>0
      <4> QED
        BY <3>1, <4>1, LeastNumber
    <3>3. n \in 1 .. Len(events) /\ n - 1 \in 0 .. Len(events) /\ n - 1 < n
      BY <1>0, <2>1, <3>2
    <3>4. n - 1 \notin Bad
      BY <1>0, <3>2, <3>3
    <3>5. f[n - 1] \in Users
      BY <3>3, <3>4
    <3>6. events[n] \in Events
      BY <3>3
    <3>7. f[n] \in Users
      BY <2>2, <3>3, <3>5, <3>6, ApplyKeeps
    <3> QED
      BY <3>2, <3>7
  <2>4. f \in [0 .. Len(events) -> Users]
    <3>1. \A n \in 0 .. Len(events) : f[n] \in Users
      BY <2>3
    <3>2. f = [n \in 0 .. Len(events) |-> f[n]]
      BY <1>3
    <3> QED
      BY <3>1, <3>2
  <2> QED
    BY <2>1, <2>2, <2>4 DEF Replays
<1> QED
  BY <1>4, <1>5

-----------------------------------------------------------------------------
(* The calls and the callers                                                *)

LEMMA PutKeeps ==
  ASSUME NEW c \in [Slots -> CallRecords], NEW call \in CallRecords
  PROVE  /\ Put(c, call) \in [Slots -> CallRecords]
         /\ \A i \in Slots : Put(c, call)[i] \in {c[i], call}
         /\ \A i, j \in Slots : Put(c, call)[i] # c[i] /\ Put(c, call)[j] # c[j] => i = j
<1>1. PICK j : j = CHOOSE i \in FreeSlots(c) : \A k \in FreeSlots(c) : i <= k
  OBVIOUS
<1>2. Put(c, call) = [c EXCEPT ![j] = call]
  BY <1>1 DEF Put
<1> QED
  BY <1>2

LEMMA SettledTyped ==
  ASSUME NEW u, NEW c \in [Callers -> CallerStates], NEW how \in CallerStates
  PROVE  /\ Settled(u, c, how) \in [Callers -> CallerStates]
         /\ \A w \in Callers : w \notin u.boot.waiters => Settled(u, c, how)[w] = c[w]
BY DEF Settled

LEMMA GivenUpTyped ==
  ASSUME NEW c \in [Callers -> CallerStates], NEW l, NEW n
  PROVE  /\ GivenUp(c, l, n) \in [Callers -> CallerStates]
         /\ \A w \in Callers : c[w] # "connecting" => GivenUp(c, l, n)[w] = c[w]
BY DEF GivenUp, CallerStates

Typed ==
  /\ link \in Links /\ Holds(link)
  /\ user \in Users
  /\ calls \in [Slots -> CallRecords]
  /\ caller \in [Callers -> CallerStates]
  /\ venue \in [Orders -> 0 .. 2]

\* beginBootstrap: each of who has its call, and what was there is canceled.
LEMMA BeginCalls ==
  ASSUME calls \in [Slots -> CallRecords], NEW u, NEW c,
         NEW who \in SUBSET {"open", "start", "sync"}, Begin(u, c, who)
  PROVE  /\ calls' \in [Slots -> CallRecords]
         /\ \A i \in Slots : calls'[i] # calls[i] =>
              /\ calls'[i].job = "begin" /\ calls'[i].by \in who
              /\ calls'[i].at = "asked" /\ calls'[i].cut = 0
         /\ \A i, j \in Slots :
              /\ calls'[i] # calls[i] /\ calls'[j] # calls[j]
              /\ calls'[i].by = calls'[j].by
              => i = j
<1> DEFINE first == IF "open" \in who THEN Put(calls, BeginCall("open")) ELSE calls
           second == IF "start" \in who THEN Put(first, BeginCall("start")) ELSE first
           third == IF "sync" \in who THEN Put(second, BeginCall("sync")) ELSE second
<1>1. calls' = third
  BY DEF Begin
<1>2. \A by \in {"open", "start", "sync"} :
        /\ BeginCall(by) \in CallRecords /\ BeginCall(by).job = "begin"
        /\ BeginCall(by).at = "asked" /\ BeginCall(by).by = by /\ BeginCall(by).cut = 0
  BY NoCallTyped
<1>3. /\ first \in [Slots -> CallRecords]
      /\ \A i \in Slots : first[i] # calls[i] => first[i] = BeginCall("open") /\ "open" \in who
      /\ \A i, j \in Slots : first[i] # calls[i] /\ first[j] # calls[j] => i = j
  <2>1. CASE "open" \in who
    <3>1. first = Put(calls, BeginCall("open"))
      BY <2>1
    <3>2. BeginCall("open") \in CallRecords
      BY <1>2
    <3> HIDE DEF first
    <3> QED
      BY <2>1, <3>1, <3>2, PutKeeps
  <2>2. CASE "open" \notin who
    BY <2>2
  <2> QED
    BY <2>1, <2>2
<1> HIDE DEF first
<1>4. /\ second \in [Slots -> CallRecords]
      /\ \A i \in Slots : second[i] # first[i] => second[i] = BeginCall("start") /\ "start" \in who
      /\ \A i, j \in Slots : second[i] # first[i] /\ second[j] # first[j] => i = j
  <2>1. CASE "start" \in who
    <3>1. second = Put(first, BeginCall("start"))
      BY <2>1
    <3>2. BeginCall("start") \in CallRecords
      BY <1>2
    <3>3. first \in [Slots -> CallRecords]
      BY <1>3
    <3> HIDE DEF second
    <3>4. /\ second \in [Slots -> CallRecords]
          /\ \A i \in Slots : second[i] \in {first[i], BeginCall("start")}
          /\ \A i, j \in Slots : second[i] # first[i] /\ second[j] # first[j] => i = j
      BY <3>1, <3>2, <3>3, PutKeeps
    <3> QED
      BY <2>1, <3>4
  <2>2. CASE "start" \notin who
    BY <1>3, <2>2
  <2> QED
    BY <2>1, <2>2
<1> HIDE DEF second
<1>5. /\ third \in [Slots -> CallRecords]
      /\ \A i \in Slots : third[i] # second[i] => third[i] = BeginCall("sync") /\ "sync" \in who
      /\ \A i, j \in Slots : third[i] # second[i] /\ third[j] # second[j] => i = j
  <2>1. CASE "sync" \in who
    <3>1. third = Put(second, BeginCall("sync"))
      BY <2>1
    <3>2. BeginCall("sync") \in CallRecords
      BY <1>2
    <3>3. second \in [Slots -> CallRecords]
      BY <1>4
    <3> HIDE DEF third
    <3>4. /\ third \in [Slots -> CallRecords]
          /\ \A i \in Slots : third[i] \in {second[i], BeginCall("sync")}
          /\ \A i, j \in Slots : third[i] # second[i] /\ third[j] # second[j] => i = j
      BY <3>1, <3>2, <3>3, PutKeeps
    <3> QED
      BY <2>1, <3>4
  <2>2. CASE "sync" \notin who
    BY <1>4, <2>2
  <2> QED
    BY <2>1, <2>2
<1> HIDE DEF third
<1>6. \A i \in Slots : third[i] # calls[i] =>
        \/ third[i] # second[i] /\ third[i] = BeginCall("sync") /\ "sync" \in who
        \/ second[i] # first[i] /\ third[i] = BeginCall("start") /\ "start" \in who
        \/ first[i] # calls[i] /\ third[i] = BeginCall("open") /\ "open" \in who
  BY <1>3, <1>4, <1>5
<1>7. \A i \in Slots : third[i] # calls[i] =>
        /\ third[i].job = "begin" /\ third[i].by \in who
        /\ third[i].at = "asked" /\ third[i].cut = 0
  BY <1>2, <1>6
<1>8. ASSUME NEW i \in Slots, NEW j \in Slots, third[i] # calls[i], third[j] # calls[j],
             third[i].by = third[j].by
      PROVE  i = j
  <2>1. CASE third[i].by = "sync"
    BY <1>2, <1>5, <1>6, <1>8, <2>1
  <2>2. CASE third[i].by = "start"
    BY <1>2, <1>4, <1>6, <1>8, <2>2
  <2>3. CASE third[i].by = "open"
    BY <1>2, <1>3, <1>6, <1>8, <2>3
  <2> QED
    BY <1>7, <1>8, <2>1, <2>2, <2>3
<1> QED
  BY <1>1, <1>5, <1>7, <1>8

LEMMA BegunKeeps ==
  ASSUME NEW u \in Users
  PROVE  /\ Begun(u) \in Users /\ Begun(u).boot = NoBoot /\ ~Begun(u).trusted
         /\ Begun(u).needs = u.needs
<1> DEFINE k == Cancel(u)
<1>1. k \in Users /\ k.boot = NoBoot /\ k.needs = u.needs
  BY CancelKeeps
<1>2. Begun(u) = [k EXCEPT !.failure = FALSE, !.trusted = FALSE]
  BY DEF Begun
<1> HIDE DEF k
<1> QED
  BY <1>1, <1>2 DEF Users

LEMMA BeginFields ==
  ASSUME NEW u \in Users, NEW c \in [Callers -> CallerStates],
         NEW who \in SUBSET {"open", "start", "sync"}, Begin(u, c, who)
  PROVE  /\ user' \in Users /\ caller' \in [Callers -> CallerStates]
         /\ user'.needs = u.needs
         /\ who = {} => user' = u /\ caller' = c
         /\ who # {} => /\ user'.boot = NoBoot /\ ~user'.trusted
                        /\ Overlap \/ \A i \in Slots : calls[i].job # "finalize"
         /\ \A w \in Callers : w \in who => caller'[w] = "waiting"
         /\ \A w \in Callers : w \notin who /\ w \notin u.boot.waiters => caller'[w] = c[w]
<1>1. user' = IF who = {} THEN u ELSE Begun(u)
  BY DEF Begin
<1>2. caller' = [w \in Callers |-> IF w \in who THEN "waiting"
                                   ELSE IF who = {} THEN c[w] ELSE Settled(u, c, "failed")[w]]
  BY DEF Begin
<1>3. who # {} => Overlap \/ \A i \in Slots : calls[i].job # "finalize"
  BY DEF Begin
<1>4. /\ Settled(u, c, "failed") \in [Callers -> CallerStates]
      /\ \A w \in Callers : w \notin u.boot.waiters => Settled(u, c, "failed")[w] = c[w]
  BY SettledTyped DEF CallerStates
<1>5. caller' \in [Callers -> CallerStates]
  BY <1>2, <1>4 DEF CallerStates
<1>6. /\ Begun(u) \in Users /\ Begun(u).boot = NoBoot /\ ~Begun(u).trusted
      /\ Begun(u).needs = u.needs
  BY BegunKeeps
<1>7. who = {} => caller' = c
  BY <1>2
<1> QED
  BY <1>1, <1>2, <1>3, <1>4, <1>5, <1>6, <1>7

\* onTraffic adds at most a finalization that waits for its delay.
LEMMA TrafficCalls ==
  ASSUME Typed, Traffic(user, calls)
  PROVE  /\ calls' \in [Slots -> CallRecords]
         /\ \A i \in Slots : calls'[i] # calls[i] =>
              /\ calls'[i].job = "finalize" /\ calls'[i].at = "delay"
              /\ calls'[i].cut = 0 /\ calls'[i].by = "none"
<1>1. CASE calls' = calls
  BY <1>1 DEF Typed
<1>2. CASE calls' = Put(calls, FinalCall)
  BY <1>2, PutKeeps, NoCallTyped DEF Typed
<1> QED
  BY <1>1, <1>2 DEF Traffic

LEMMA SeenKeeps ==
  ASSUME NEW u \in Users
  PROVE  /\ Seen(u) \in Users /\ Seen(u).trusted = u.trusted /\ Seen(u).needs = u.needs
         /\ Seen(u).orders = u.orders /\ Seen(u).cursor = u.cursor
         /\ Seen(u).boot.buffer = u.boot.buffer /\ Seen(u).boot.waiters = u.boot.waiters
         /\ ~Boot(u) => Seen(u) = u
<1>1. CASE ~Boot(u)
  BY <1>1 DEF Seen
<1>2. CASE Boot(u)
  <2> DEFINE b == [u.boot EXCEPT !.finalizing = TRUE]
  <2>1. b \in Boots /\ b.buffer = u.boot.buffer /\ b.waiters = u.boot.waiters
    BY DEF Users, Boots
  <2>2. Seen(u) = [u EXCEPT !.boot = b]
    BY <1>2 DEF Seen, Users
  <2> HIDE DEF b
  <2>3. Seen(u) \in Users /\ Seen(u).boot = b /\ Seen(u).orders = u.orders /\ Seen(u).cursor = u.cursor
    BY <2>1, <2>2 DEF Users
  <2>4. Seen(u).trusted = u.trusted
    BY <2>2 DEF Users
  <2>5. Seen(u).needs = u.needs
    BY <2>2 DEF Users
  <2> QED
    BY <1>2, <2>1, <2>3, <2>4, <2>5
<1> QED
  BY <1>1, <1>2

-----------------------------------------------------------------------------
(* Type correctness                                                         *)

\* However an operation changes a link, the socket held is the client's own.
LEMMA HoldsOn ==
  ASSUME UserStreamAssumption, NEW l \in Links, NEW n \in Links, Holds(l),
         Calm(l, n) \/ Dials(l, n) \/ Leaves(l, n) \/ n = l
  PROVE  Holds(n)
<1>1. CASE Calm(l, n)
  BY <1>1 DEF Calm, Holds
<1>2. CASE Dials(l, n)
  <2>1. PICK s \in Sockets : n.client.socket = s /\ n.sockets = [l.sockets EXCEPT ![s] = Dialing]
    BY <1>2 DEF Dials
  <2>2. n.sockets[s] = Dialing
    BY <2>1 DEF Links
  <2> QED
    BY <2>1, <2>2, SocketsTyped DEF Holds
<1>3. CASE Leaves(l, n)
  BY <1>3 DEF Leaves, Holds
<1> QED
  BY <1>1, <1>2, <1>3

\* What start and the reconnect timer do to the link and tell the service.
LEMMA DialTyped ==
  ASSUME UserStreamAssumption, Typed, NEW n, n = StartClient(link) \/ n = Redial(link) \/ n = link
  PROVE  n \in Links /\ Holds(n)
<1>1. CASE n = StartClient(link)
  <2>1. PICK k \in Links : k = StartClient(link) /\ (Calm(link, k) \/ Dials(link, k))
    BY StartDials DEF Typed
  <2> QED
    BY <1>1, <2>1, HoldsOn DEF Typed
<1>2. CASE n = Redial(link)
  <2>1. PICK k \in Links : k = Redial(link) /\ (Calm(link, k) \/ Dials(link, k))
    BY RedialDials DEF Typed
  <2> QED
    BY <1>2, <2>1, HoldsOn DEF Typed
<1> QED
  BY <1>1, <1>2 DEF Typed

LEMMA TriggerTyped ==
  ASSUME UserStreamAssumption, Typed
  PROVE  TriggerReconnect(link) \in Links /\ Holds(TriggerReconnect(link))
<1>1. PICK k \in Links : /\ k = TriggerReconnect(link)
                         /\ Leaves(link, k) \/ k = link
  BY TriggerLeaves DEF Typed
<1> QED
  BY <1>1, HoldsOn DEF Typed

LEMMA FailTyped ==
  ASSUME UserStreamAssumption, Typed, NEW u \in Users, Fail(u)
  PROVE  /\ link' \in Links /\ Holds(link')
         /\ user' \in Users /\ user'.boot = NoBoot /\ user'.needs = u.needs
         /\ user'.trusted => u.trusted
         /\ caller' \in [Callers -> CallerStates]
<1> DEFINE b == Broken(u)
<1>1. b \in Users /\ b.boot = NoBoot /\ b.needs = u.needs /\ (b.trusted => u.trusted)
  <2> DEFINE k == Cancel(u)
  <2>1. k \in Users /\ k.boot = NoBoot /\ k.needs = u.needs /\ k.trusted = u.trusted
    BY CancelKeeps
  <2>2. b = [k EXCEPT !.status = "failed", !.failure = TRUE]
    BY DEF Broken
  <2> HIDE DEF k, b
  <2> QED
    BY <2>1, <2>2 DEF Users, Statuses
<1>2. user' = Notified(b, link, link')
  BY DEF Fail
<1> HIDE DEF b
<1>3. user' \in Users /\ user'.boot = NoBoot /\ user'.needs = u.needs /\ (user'.trusted => u.trusted)
  BY <1>1, <1>2, NotifiedKeeps
<1>4. Settled(user, caller, "failed") \in [Callers -> CallerStates]
  BY SettledTyped DEF Typed, CallerStates
<1>4a. Settled(u, caller, "failed") \in [Callers -> CallerStates]
  BY SettledTyped DEF Typed, CallerStates
<1>5. caller' \in [Callers -> CallerStates]
  BY <1>4a, GivenUpTyped DEF Fail
<1>6. link' \in Links /\ Holds(link')
  BY TriggerTyped DEF Fail
<1> QED
  BY <1>3, <1>5, <1>6

LEMMA InitTyped ==
  ASSUME UserStreamAssumption, Init
  PROVE  Typed
<1>1. link \in Links /\ Holds(link)
  BY SocketsTyped DEF Init, Holds, FreshLink, FreshClient
<1>2. user \in Users
  BY NoBootTyped DEF Init, Users, Statuses
<1>3. calls \in [Slots -> CallRecords]
  BY NoCallTyped DEF Init
<1>4. caller \in [Callers -> CallerStates]
  BY DEF Init, CallerStates
<1>5. venue \in [Orders -> 0 .. 2]
  BY DEF Init
<1> QED
  BY <1>1, <1>2, <1>3, <1>4, <1>5 DEF Typed

LEMMA StartTyped ==
  ASSUME UserStreamAssumption, Typed, Start
  PROVE  Typed'
<1>1. link' \in Links /\ Holds(link')
  BY DialTyped DEF Start
<1>2. PICK u \in Users : u = [user EXCEPT !.failure = FALSE, !.trusted = FALSE, !.needs = TRUE]
  BY DEF Typed, Users
<1>3. user' \in Users
  BY <1>2, NotifiedKeeps DEF Start
<1>4. caller' \in [Callers -> CallerStates]
  BY DEF Start, Typed, CallerStates
<1>5. calls' = calls /\ venue' = venue
  BY DEF Start
<1> QED
  BY <1>1, <1>3, <1>4, <1>5 DEF Typed, Holds

LEMMA SyncTyped ==
  ASSUME UserStreamAssumption, Typed, Sync
  PROVE  Typed'
<1>1. CASE IsOpen(link)
  <2>1. Begin(user, caller, {"sync"}) /\ link' = link /\ venue' = venue
    BY <1>1 DEF Sync
  <2>2. user' \in Users /\ caller' \in [Callers -> CallerStates]
    BY <2>1, BeginFields DEF Typed
  <2>3. calls' \in [Slots -> CallRecords]
    BY <2>1, BeginCalls DEF Typed
  <2> QED
    BY <2>1, <2>2, <2>3 DEF Typed, Holds
<1>2. CASE ~IsOpen(link)
  <2>1. link' \in Links /\ Holds(link')
    BY <1>2, DialTyped DEF Sync
  <2>2. user' \in Users
    BY <1>2, NotifiedKeeps DEF Sync, Typed
  <2>3. caller' \in [Callers -> CallerStates]
    BY <1>2 DEF Sync, Typed, CallerStates
  <2>4. calls' = calls /\ venue' = venue
    BY <1>2 DEF Sync
  <2> QED
    BY <2>1, <2>2, <2>3, <2>4 DEF Typed, Holds
<1> QED
  BY <1>1, <1>2

LEMMA StopTyped ==
  ASSUME UserStreamAssumption, Typed, Stop
  PROVE  Typed'
<1>1. link' \in Links /\ link'.client = FreshClient
  BY StopForgets DEF Stop, Typed
<1>2. PICK k \in Users : k = Cancel(user)
  BY CancelKeeps DEF Typed
<1>3. user' = [k EXCEPT !.status = "idle", !.trusted = FALSE, !.failure = FALSE, !.needs = FALSE]
  BY <1>2 DEF Stop
<1>4. user' \in Users
  BY <1>3 DEF Users, Statuses
<1>5. Settled(user, caller, "failed") \in [Callers -> CallerStates]
  BY SettledTyped DEF Typed, CallerStates
<1>6. caller' \in [Callers -> CallerStates]
  BY <1>5 DEF Stop, CallerStates
<1>7. calls' = calls /\ venue' = venue
  BY DEF Stop
<1> QED
  BY <1>1, <1>4, <1>6, <1>7 DEF Typed, Holds, FreshClient

\* onOpen, whichever callers it resumes and whether or not it asks itself.
LEMMA OpenBegins ==
  ASSUME Typed, NEW s \in Sockets, Open(s)
  PROVE  \E u \in Users, c \in [Callers -> CallerStates], who \in SUBSET {"open", "start", "sync"} :
           /\ Begin(u, c, who)
           /\ ~u.trusted /\ ~u.needs
           /\ \A w \in who \ {"open"} : caller[w] = "connecting"
           /\ u.boot.buffer = user.boot.buffer /\ (Boot(u) => Boot(user))
           /\ user.needs => "open" \in who /\ c = caller /\ u.boot.waiters = user.boot.waiters
<1> DEFINE opened == [user EXCEPT !.status = "connected", !.trusted = FALSE, !.needs = FALSE]
           resumed == {w \in Callers : link.sockets[s].mine /\ caller[w] = "connecting"}
<1>1. opened \in Users /\ opened.boot = user.boot /\ ~opened.trusted /\ ~opened.needs
  BY DEF Typed, Users, Statuses
<1>2. resumed \in SUBSET {"start", "sync"} /\ \A w \in resumed : caller[w] = "connecting"
  BY DEF Callers
<1>3. CASE Boot(opened) /\ ~user.needs /\ "start" \in resumed
  <2> DEFINE b == [opened.boot EXCEPT !.waiters = @ \cup {"start"}]
             u == [opened EXCEPT !.boot = b]
             c == [caller EXCEPT !["start"] = "waiting"]
  <2>1. Begin([opened EXCEPT !.boot.waiters = @ \cup {"start"}], c, resumed \ {"start"})
    BY <1>3 DEF Open
  <2> HIDE DEF opened
  <2>2. b \in Boots /\ b.buffer = user.boot.buffer
    BY <1>1 DEF Users, Boots, Waiters, Callers
  <2>3. u = [opened EXCEPT !.boot.waiters = @ \cup {"start"}]
    BY <1>1 DEF Users
  <2> HIDE DEF b
  <2>4. u \in Users /\ ~u.trusted /\ ~u.needs /\ u.boot = b
    BY <1>1, <2>2 DEF Users
  <2>5. c \in [Callers -> CallerStates]
    BY DEF Typed, CallerStates
  <2>6. Begin(u, c, resumed \ {"start"})
    BY <2>1, <2>3
  <2>7. Boot(user)
    BY <1>1, <1>3 DEF Boot
  <2> HIDE DEF u, c, resumed
  <2> QED
    BY <1>2, <1>3, <2>2, <2>4, <2>5, <2>6, <2>7
<1>4. CASE ~(Boot(opened) /\ ~user.needs /\ "start" \in resumed)
  <2> DEFINE who == resumed \cup (IF user.needs THEN {"open"} ELSE {})
  <2>1. Begin(opened, caller, who)
    BY <1>4 DEF Open
  <2>2. who \in SUBSET {"open", "start", "sync"} /\ (user.needs => "open" \in who)
        /\ \A w \in who \ {"open"} : caller[w] = "connecting"
    BY <1>2
  <2> HIDE DEF opened, resumed, who
  <2> QED
    BY <1>1, <2>1, <2>2 DEF Typed, Boot
<1> QED
  BY <1>3, <1>4

LEMMA OpenTyped ==
  ASSUME UserStreamAssumption, Typed, NEW s \in Sockets, Open(s)
  PROVE  Typed'
<1>1. PICK u \in Users, c \in [Callers -> CallerStates], who \in SUBSET {"open", "start", "sync"} :
        Begin(u, c, who)
  BY OpenBegins
<1>2. user' \in Users /\ caller' \in [Callers -> CallerStates] /\ calls' \in [Slots -> CallRecords]
  BY <1>1, BeginFields, BeginCalls DEF Typed
<1>3. /\ link' \in Links
      /\ link'.client.socket = link.client.socket
      /\ \A t \in Sockets \ {s} : link'.sockets[t] = link.sockets[t]
      /\ link'.sockets[s].state = "open" /\ link'.sockets[s].mine = link.sockets[s].mine
  BY HandleOpenOpens DEF Open, Typed
<1>4. Holds(link')
  BY <1>3 DEF Holds, Typed, Links, Client
<1> QED
  BY <1>2, <1>3, <1>4 DEF Typed, Open, Holds

LEMMA ReceiveTyped ==
  ASSUME Typed, NEW s \in Sockets, link.sockets[s].chan # <<>>
  PROVE  /\ Receive(link, s) \in Links /\ Holds(Receive(link, s))
         /\ Head(link.sockets[s].chan) \in Events
<1>1. PICK n \in Links :
        /\ n = Receive(link, s) /\ n.client = link.client
        /\ \A t \in Sockets : /\ n.sockets[t].state = link.sockets[t].state
                              /\ n.sockets[t].mine = link.sockets[t].mine
  BY ReceiveTakes DEF Typed
<1>2. Holds(n)
  BY <1>1 DEF Typed, Holds, Links, Client
<1>3. Head(link.sockets[s].chan) \in Events
  BY DEF Typed, Links, Socket
<1> QED
  BY <1>1, <1>2, <1>3

\* What a delivered event does to the fields.
LEMMA DeliverFields ==
  ASSUME Typed, NEW s \in Sockets, Deliver(s)
  PROVE  \E e \in Events :
           /\ e = Head(link.sockets[s].chan)
           /\ ~Boot(user) => user' = Apply(user, e)
           /\ Boot(user) => /\ user' \in Users
                            /\ user'.boot.buffer = Append(user.boot.buffer, e)
                            /\ user'.boot.waiters = user.boot.waiters
                            /\ user'.trusted = user.trusted /\ user'.needs = user.needs
<1>1. PICK e \in Events : e = Head(link.sockets[s].chan)
  BY ReceiveTyped DEF Deliver
<1>2. CASE ~Boot(user)
  BY <1>1, <1>2 DEF Deliver
<1>3. CASE Boot(user)
  <2>1. PICK k \in Users : /\ k = Seen(user)
                           /\ k.trusted = user.trusted /\ k.needs = user.needs
                           /\ k.boot.buffer = user.boot.buffer
                           /\ k.boot.waiters = user.boot.waiters
    BY SeenKeeps DEF Typed
  <2> DEFINE q == Append(user.boot.buffer, e)
             b == [k.boot EXCEPT !.buffer = q]
  <2>2. q \in Seq(Events) /\ q = Append(user.boot.buffer, e)
    <3>1. user.boot.buffer \in Seq(Events)
      BY DEF Typed, Users, Boots
    <3> QED
      BY <3>1
  <2> HIDE DEF q
  <2>3. b \in Boots /\ b.buffer = q /\ b.waiters = k.boot.waiters
    BY <2>1, <2>2 DEF Users, Boots
  <2>4. user' = [k EXCEPT !.boot.buffer = Append(@, e)]
    BY <1>1, <1>3, <2>1 DEF Deliver
  <2>5. user' = [k EXCEPT !.boot = b]
    BY <2>1, <2>2, <2>4 DEF Users
  <2> HIDE DEF b
  <2>6. user' \in Users /\ user'.boot = b
    BY <2>3, <2>5 DEF Users
  <2>7. user'.trusted = k.trusted
    BY <2>5 DEF Users
  <2>8. user'.needs = k.needs
    BY <2>5 DEF Users
  <2> QED
    BY <1>1, <1>3, <2>1, <2>2, <2>3, <2>6, <2>7, <2>8
<1> QED
  BY <1>1, <1>2, <1>3

LEMMA DeliverTyped ==
  ASSUME Typed, NEW s \in Sockets, Deliver(s)
  PROVE  Typed'
<1>1. link' \in Links /\ Holds(link')
  BY ReceiveTyped DEF Deliver
<1>2. calls' \in [Slots -> CallRecords]
  BY TrafficCalls DEF Deliver
<1>3. user' \in Users
  <2>1. PICK e \in Events : /\ ~Boot(user) => user' = Apply(user, e)
                            /\ Boot(user) => user' \in Users
    BY DeliverFields
  <2>2. Apply(user, e) \in Users
    BY ApplyKeeps DEF Typed
  <2> QED
    BY <2>1, <2>2
<1> QED
  BY <1>1, <1>2, <1>3 DEF Typed, Deliver, Holds

LEMMA PongTyped ==
  ASSUME Typed, NEW s \in Sockets, Pong(s)
  PROVE  Typed'
<1>1. user' \in Users
  BY SeenKeeps DEF Typed, Pong
<1>2. calls' \in [Slots -> CallRecords]
  BY TrafficCalls DEF Pong
<1> QED
  BY <1>1, <1>2 DEF Typed, Pong, Holds

LEMMA ClosedKeeps ==
  ASSUME NEW u \in Users
  PROVE  /\ Closed(u) \in Users /\ Closed(u).boot = NoBoot
         /\ ~Closed(u).trusted /\ Closed(u).needs
<1>1. PICK k \in Users : k = Cancel(u) /\ k.boot = NoBoot
  BY CancelKeeps
<1>2. Closed(u) = [k EXCEPT !.status = "disconnected", !.trusted = FALSE, !.needs = TRUE]
  BY <1>1 DEF Closed
<1> QED
  BY <1>1, <1>2 DEF Users, Statuses

LEMMA DropTyped ==
  ASSUME UserStreamAssumption, Typed, NEW s \in Sockets, Drop(s)
  PROVE  Typed' /\ user'.boot = NoBoot /\ ~user'.trusted /\ user'.needs
<1>1. PICK n \in Links :
        /\ n = HandleClose(link, s) /\ n.client.running = link.client.running
        /\ n.sockets = [link.sockets EXCEPT ![s] = FreshSocket]
        /\ n.client.socket = IF link.sockets[s].mine THEN NoSocket ELSE link.client.socket
  BY HandleCloseDrops DEF Typed
<1>2. Holds(n)
  <2>1. CASE link.sockets[s].mine
    BY <1>1, <2>1 DEF Holds
  <2>2. CASE ~link.sockets[s].mine /\ link.client.socket # NoSocket
    <3>1. link.client.socket # s /\ link.client.socket \in Sockets
      BY <2>2 DEF Typed, Holds, Links, Client
    <3>2. n.sockets[link.client.socket] = link.sockets[link.client.socket]
      BY <1>1, <3>1 DEF Typed, Links
    <3> QED
      BY <1>1, <2>2, <3>2 DEF Typed, Holds
  <2>3. CASE ~link.sockets[s].mine /\ link.client.socket = NoSocket
    BY <1>1, <2>3 DEF Holds
  <2> QED
    BY <2>1, <2>2, <2>3
<1>3. link' \in Links /\ Holds(link')
  BY <1>1, <1>2 DEF Drop
<1>4. user' \in Users /\ user'.boot = NoBoot /\ ~user'.trusted /\ user'.needs
  BY ClosedKeeps, NotifiedKeeps DEF Drop, Typed
<1>5. Settled(user, caller, "failed") \in [Callers -> CallerStates]
  BY SettledTyped DEF Typed, CallerStates
<1>6. caller' \in [Callers -> CallerStates]
  BY <1>5, GivenUpTyped DEF Drop
<1>7. calls' = calls /\ venue' = venue
  BY DEF Drop
<1> QED
  BY <1>3, <1>4, <1>6, <1>7 DEF Typed, Holds

LEMMA SilenceTyped ==
  ASSUME UserStreamAssumption, Typed, Silence
  PROVE  Typed' /\ ~user'.trusted /\ user'.needs = user.needs
         /\ user'.boot \in {user.boot, NoBoot}
<1>1. link' \in Links /\ Holds(link')
  BY TriggerTyped DEF Silence
<1> DEFINE u == [user EXCEPT !.status = "disconnected", !.trusted = FALSE]
<1>2. u \in Users /\ ~u.trusted /\ u.boot = user.boot
  BY DEF Typed, Users, Statuses
<1>2a. u.needs = user.needs
  BY DEF Typed, Users
<1>2b. user' = Notified(u, link, link')
  BY DEF Silence
<1> HIDE DEF u
<1>3. /\ user' \in Users /\ (user'.trusted => u.trusted) /\ user'.needs = u.needs
      /\ user'.boot \in {u.boot, NoBoot}
  BY <1>2, <1>2b, NotifiedKeeps
<1> QED
  BY <1>1, <1>2, <1>2a, <1>3 DEF Typed, Silence, Holds

LEMMA RedialTyped ==
  ASSUME UserStreamAssumption, Typed, RedialTimer
  PROVE  Typed'
<1>1. link' \in Links /\ Holds(link')
  BY DialTyped DEF RedialTimer
<1>2. user' \in Users
  BY NotifiedKeeps DEF RedialTimer, Typed
<1> QED
  BY <1>1, <1>2 DEF Typed, RedialTimer, Holds

\* What asking and answering do to the calls.
LEMMA AskCalls ==
  ASSUME Typed, NEW i \in Slots, Ask(i)
  PROVE  /\ calls' \in [Slots -> CallRecords]
         /\ \A k \in Slots \ {i} : calls'[k] = calls[k]
         /\ calls'[i].at = "asked" /\ calls'[i].job = calls[i].job /\ calls'[i].by = calls[i].by
         /\ calls'[i].cut = IF Boot(user) THEN Len(user.boot.buffer) ELSE 0
<1>1. PICK n \in Nat : n = IF Boot(user) THEN Len(user.boot.buffer) ELSE 0
  BY DEF Typed, Users, Boots
<1>2. PICK c \in CallRecords : c = calls[i]
  BY DEF Typed
<1> DEFINE k == [c EXCEPT !.at = "asked", !.cut = n]
<1>3. k \in CallRecords /\ k.at = "asked" /\ k.job = c.job /\ k.by = c.by /\ k.cut = n
  BY DEF CallRecords
<1>4. calls' = [calls EXCEPT ![i] = k]
  BY <1>1, <1>2 DEF Ask, Typed
<1> HIDE DEF k
<1> QED
  BY <1>1, <1>2, <1>3, <1>4 DEF Typed

LEMMA AnswerCalls ==
  ASSUME Typed, NEW i \in Slots, Answer(i)
  PROVE  /\ calls' \in [Slots -> CallRecords]
         /\ \A k \in Slots \ {i} : calls'[k] = calls[k]
         /\ calls'[i].at = "answered" /\ calls'[i].job = calls[i].job
         /\ calls'[i].by = calls[i].by
         /\ calls'[i].cut = calls[i].cut /\ calls'[i].listing = Listed
<1>1. PICK L \in SUBSET Orders : L = Listed
  BY DEF Listed
<1>2. PICK c \in CallRecords : c = calls[i]
  BY DEF Typed
<1> DEFINE k == [c EXCEPT !.at = "answered", !.listing = L]
<1>3. k \in CallRecords /\ k.at = "answered" /\ k.job = c.job /\ k.by = c.by
      /\ k.cut = c.cut /\ k.listing = L
  BY DEF CallRecords
<1>4. calls' = [calls EXCEPT ![i] = k]
  BY <1>1, <1>2 DEF Answer, Typed
<1> HIDE DEF k
<1> QED
  BY <1>1, <1>2, <1>3, <1>4 DEF Typed

LEMMA AskTyped ==
  ASSUME Typed, NEW i \in Slots, Ask(i) \/ Answer(i)
  PROVE  Typed'
<1>1. calls' \in [Slots -> CallRecords]
  BY AskCalls, AnswerCalls
<1> QED
  BY <1>1 DEF Typed, Ask, Answer, Holds

\* A bootstrap that has its first listing starts with an empty buffer.
LEMMA LandBeginFields ==
  ASSUME UserStreamAssumption, Typed, NEW i \in Slots, LandBegin(i)
  PROVE  /\ calls' \in [Slots -> CallRecords] /\ calls'[i] = NoCall
         /\ \A k \in Slots \ {i} :
              /\ calls'[k].job = calls[k].job /\ calls'[k].by = calls[k].by
              /\ calls'[k].at = calls[k].at /\ calls'[k].listing = calls[k].listing
              /\ calls'[k].cut = 0
         /\ user' \in Users /\ user'.needs = user.needs /\ (user'.trusted => user.trusted)
         /\ user'.boot.buffer = <<>>
         /\ user'.boot.waiters \in {{calls[i].by} \cap Callers, {"nobody"}}
<1> DEFINE Kept(k) == [calls[k] EXCEPT !.cut = 0]
           cs == [k \in Slots |-> IF k = i THEN NoCall ELSE Kept(k)]
<1>1. ASSUME NEW k \in Slots
      PROVE  /\ Kept(k) \in CallRecords /\ Kept(k).job = calls[k].job
             /\ Kept(k).by = calls[k].by /\ Kept(k).at = calls[k].at
             /\ Kept(k).listing = calls[k].listing /\ Kept(k).cut = 0
  BY DEF Typed, CallRecords
<1>2. calls' = cs
  BY DEF LandBegin
<1> HIDE DEF Kept
<1>3. /\ cs \in [Slots -> CallRecords] /\ cs[i] = NoCall
      /\ \A k \in Slots \ {i} : cs[k] = Kept(k)
  BY <1>1, NoCallTyped
<1> HIDE DEF cs
<1>4. PICK u \in Users : /\ u = Replace(user, calls[i].listing)
                         /\ u.trusted = user.trusted /\ u.needs = user.needs
  BY ReplaceKeeps DEF Typed, CallRecords
<1> DEFINE b == [buffer |-> <<>>, finalizing |-> FALSE, waiters |-> {calls[i].by} \cap Callers]
           v == [u EXCEPT !.boot = b]
<1>5. b \in Boots /\ b.buffer = <<>> /\ b.waiters = {calls[i].by} \cap Callers
  <2>1. <<>> \in Seq(Events)
    OBVIOUS
  <2>2. {calls[i].by} \cap Callers \in SUBSET Waiters
    BY DEF Waiters
  <2> QED
    BY <2>1, <2>2 DEF Boots
<1>6. user' = Notified(v, link, link')
  BY <1>4 DEF LandBegin
<1> HIDE DEF b
<1>7. v \in Users /\ v.boot = b /\ v.needs = u.needs /\ (v.trusted => u.trusted)
  BY <1>4, <1>5 DEF Users
<1> HIDE DEF v
<1>8. /\ user' \in Users /\ user'.needs = v.needs /\ (user'.trusted => v.trusted)
      /\ user'.boot \in {v.boot, NoBoot}
  BY <1>6, <1>7, NotifiedKeeps
<1>9. user'.boot.buffer = <<>> /\ user'.boot.waiters \in {{calls[i].by} \cap Callers, {"nobody"}}
  BY <1>5, <1>7, <1>8 DEF NoBoot
<1> QED
  BY <1>1, <1>2, <1>3, <1>4, <1>7, <1>8, <1>9

LEMMA LandBeginTyped ==
  ASSUME UserStreamAssumption, Typed, NEW i \in Slots, LandBegin(i)
  PROVE  Typed'
<1>1. link' = StartClient(link) \/ link' = link
  BY DEF LandBegin
<1>2. link' \in Links /\ Holds(link')
  BY <1>1, DialTyped
<1>3. user' \in Users /\ calls' \in [Slots -> CallRecords]
  BY LandBeginFields
<1> QED
  BY <1>2, <1>3 DEF Typed, LandBegin, Holds

LEMMA ApplyAllKeeps ==
  ASSUME NEW u \in Users, NEW events \in Seq(Events)
  PROVE  /\ ApplyAll(u, events) \in Users
         /\ ApplyAll(u, events).boot = u.boot
         /\ ApplyAll(u, events).trusted = u.trusted /\ ApplyAll(u, events).needs = u.needs
<1>1. PICK g : Replays(g, u, events, Len(events)) /\ ApplyAll(u, events) = g[Len(events)]
  BY ApplyAllReplays
<1>0. Len(events) \in Nat
  OBVIOUS
<1> DEFINE Same(v) == v.boot = u.boot /\ v.trusted = u.trusted /\ v.needs = u.needs
           Bad == {n \in 0 .. Len(events) : ~Same(g[n])}
<1>2. Bad = {}
  <2>1. SUFFICES ASSUME Bad # {} PROVE FALSE
    OBVIOUS
  <2>2. PICK n \in Bad : \A m \in Bad : n <= m
    <3>1. Bad \subseteq Nat
      BY <1>0
    <3> QED
      BY <2>1, <3>1, LeastNumber
  <2>3. Same(g[0])
    BY <1>1 DEF Replays
  <2> HIDE DEF Same
  <2>4. n \in 1 .. Len(events) /\ n - 1 \in 0 .. Len(events) /\ n - 1 < n
    BY <1>0, <2>2, <2>3
  <2>5. Same(g[n - 1])
    BY <1>0, <2>2, <2>4
  <2>6. g[n - 1] \in Users /\ events[n] \in Events /\ g[n] = Apply(g[n - 1], events[n])
    BY <1>1, <2>4 DEF Replays
  <2>7. Same(g[n])
    <3>1. PICK v \in Users : v = g[n - 1]
      BY <2>6
    <3>2. /\ Apply(v, events[n]).boot = v.boot /\ Apply(v, events[n]).trusted = v.trusted
          /\ Apply(v, events[n]).needs = v.needs
      BY <2>6, ApplyKeeps
    <3>3. g[n] = Apply(v, events[n])
      BY <2>6, <3>1
    <3> QED
      BY <2>5, <3>1, <3>2, <3>3 DEF Same
  <2> QED
    BY <2>2, <2>7
<1>3. Same(g[Len(events)])
  BY <1>0, <1>2
<1> QED
  BY <1>0, <1>1, <1>3 DEF Replays

(***************************************************************************)
(* The part of the buffer that is older than a request lies in the buffer. *)
(***************************************************************************)
Cuts == Boot(user) => \A i \in Slots : calls[i].cut <= Len(user.boot.buffer)

LEMMA PartsTyped ==
  ASSUME Typed, NEW i \in Slots, calls[i].cut <= Len(user.boot.buffer)
  PROVE  /\ user.boot.buffer \in Seq(Events) /\ calls[i].cut \in Nat
         /\ SubSeq(user.boot.buffer, 1, calls[i].cut) \in Seq(Events)
         /\ SubSeq(user.boot.buffer, calls[i].cut + 1, Len(user.boot.buffer)) \in Seq(Events)
<1> DEFINE q == user.boot.buffer
           n == calls[i].cut
<1>1. q \in Seq(Events) /\ n \in Nat
  BY DEF Typed, Users, Boots, CallRecords
<1>2. n <= Len(q)
  OBVIOUS
<1> HIDE DEF q, n
<1>3. Len(q) \in Nat
  BY <1>1
<1>4. 1 \in 1 .. Len(q) + 1 /\ n \in 1 - 1 .. Len(q)
      /\ n + 1 \in 1 .. Len(q) + 1 /\ Len(q) \in (n + 1) - 1 .. Len(q)
  BY <1>1, <1>2, <1>3
<1>5. SubSeq(q, 1, n) \in Seq(Events)
  BY <1>1, <1>4, SubSeqProperties
<1>6. SubSeq(q, n + 1, Len(q)) \in Seq(Events)
  BY <1>1, <1>4, SubSeqProperties
<1> QED
  BY <1>1, <1>5, <1>6 DEF q, n

\* What a finalization makes of the fields: it fails, or the bootstrap is over.
LEMMA LandFinalFields ==
  ASSUME UserStreamAssumption, Typed, Cuts, NEW i \in Slots, LandFinal(i)
  PROVE  LET seeded == ApplyAll(Replace(user, calls[i].listing),
                                SubSeq(user.boot.buffer, 1, calls[i].cut))
             rest == SubSeq(user.boot.buffer, calls[i].cut + 1, Len(user.boot.buffer))
         IN  \/ \E u \in Users : Fail(u) /\ u.needs = user.needs /\ u.trusted = user.trusted
                                 /\ u.boot = user.boot
             \/ /\ Boot(user) /\ seeded \in Users /\ seeded.orders = calls[i].listing
                /\ \E v \in Users : /\ v.orders = seeded.orders /\ v.cursor = seeded.cursor
                                    /\ v.boot = NoBoot /\ v.needs = user.needs
                                    /\ user' = ApplyAll(v, rest)
                /\ caller' = Settled(user, caller, "done") /\ link' = link
<1> DEFINE old == SubSeq(user.boot.buffer, 1, calls[i].cut)
           rest == SubSeq(user.boot.buffer, calls[i].cut + 1, Len(user.boot.buffer))
           based == Replace(user, calls[i].listing)
           seeded == ApplyAll(based, old)
<1>1. CASE ~Boot(user)
  <2>1. Fail(user)
    BY <1>1 DEF LandFinal
  <2> QED
    BY <2>1 DEF Typed
<1>2. CASE Boot(user)
  <2>1. old \in Seq(Events) /\ rest \in Seq(Events)
    BY <1>2, PartsTyped DEF Cuts
  <2>2. /\ based \in Users /\ based.boot = user.boot
        /\ based.trusted = user.trusted /\ based.needs = user.needs
    BY ReplaceKeeps DEF Typed, CallRecords
  <2> HIDE DEF based, old
  <2>3. /\ seeded \in Users /\ seeded.boot = based.boot
        /\ seeded.trusted = based.trusted /\ seeded.needs = based.needs
    BY <2>1, <2>2, ApplyAllKeeps
  <2>4. CASE seeded.orders # calls[i].listing
    <3>1. Fail(seeded)
      BY <1>2, <2>4 DEF LandFinal, based, old
    <3> HIDE DEF seeded
    <3>2. \E u \in Users : Fail(u) /\ u.needs = user.needs /\ u.trusted = user.trusted
                           /\ u.boot = user.boot
      BY <2>2, <2>3, <3>1
    <3> QED
      BY <3>2
  <2>5. CASE seeded.orders = calls[i].listing
    <3> DEFINE k == Cancel(seeded)
               v == [k EXCEPT !.trusted = TRUE, !.failure = FALSE, !.status = "connected"]
    <3>1. user' = ApplyAll(v, rest) /\ caller' = Settled(user, caller, "done") /\ link' = link
      BY <1>2, <2>5 DEF LandFinal, based, old
    <3>2. /\ k \in Users /\ k.boot = NoBoot /\ k.needs = seeded.needs
          /\ k.orders = seeded.orders /\ k.cursor = seeded.cursor
      BY <2>3, CancelKeeps
    <3> HIDE DEF k, seeded
    <3>3. v \in Users /\ v.boot = NoBoot /\ v.orders = seeded.orders /\ v.cursor = seeded.cursor
      BY <3>2 DEF Users, Statuses
    <3>4. v.needs = k.needs
      BY <3>2 DEF Users
    <3> HIDE DEF v, rest
    <3>5. \E w \in Users : /\ w.orders = seeded.orders /\ w.cursor = seeded.cursor
                           /\ w.boot = NoBoot /\ w.needs = user.needs
                           /\ user' = ApplyAll(w, rest)
      BY <2>2, <2>3, <3>1, <3>2, <3>3, <3>4
    <3> QED
      BY <1>2, <2>3, <2>5, <3>1, <3>5 DEF seeded, based, old, rest
  <2> QED
    BY <2>4, <2>5
<1> QED
  BY <1>1, <1>2

LEMMA LandFinalTyped ==
  ASSUME UserStreamAssumption, Typed, Cuts, NEW i \in Slots, LandFinal(i)
  PROVE  Typed'
<1> DEFINE rest == SubSeq(user.boot.buffer, calls[i].cut + 1, Len(user.boot.buffer))
<1>1. calls' \in [Slots -> CallRecords] /\ venue' = venue
  BY NoCallTyped DEF LandFinal, Typed
<1>2. CASE \E u \in Users : Fail(u)
  BY <1>1, <1>2, FailTyped DEF Typed, Holds
<1>3. CASE /\ Boot(user) /\ link' = link /\ caller' = Settled(user, caller, "done")
           /\ \E v \in Users : user' = ApplyAll(v, rest)
  <2>1. rest \in Seq(Events)
    BY <1>3, PartsTyped DEF Cuts
  <2> HIDE DEF rest
  <2>2. user' \in Users
    BY <1>3, <2>1, ApplyAllKeeps
  <2>3. caller' \in [Callers -> CallerStates]
    BY <1>3, SettledTyped DEF Typed, CallerStates
  <2> QED
    BY <1>1, <1>3, <2>2, <2>3 DEF Typed, Holds
<1> QED
  BY <1>2, <1>3, LandFinalFields

LEMMA RestFailsFields ==
  ASSUME Typed, NEW i \in Slots, RestFails(i)
  PROVE  \/ Fail(user) /\ calls[i].job = "finalize"
         \/ /\ user' \in Users /\ user'.boot = user.boot
            /\ user'.trusted = user.trusted /\ user'.needs = user.needs
            /\ user'.orders = user.orders /\ user'.cursor = user.cursor
            /\ caller' \in [Callers -> CallerStates] /\ link' = link
            /\ \A w \in Callers : w # calls[i].by => caller'[w] = caller[w]
<1>1. CASE calls[i].job = "finalize"
  BY <1>1 DEF RestFails
<1>2. CASE calls[i].job # "finalize"
  <2>1. PICK f \in BOOLEAN : f = (user.failure \/ calls[i].by = "open")
    OBVIOUS
  <2>2. user' = [user EXCEPT !.failure = f]
    BY <1>2, <2>1 DEF RestFails
  <2>3. user' \in Users /\ user'.boot = user.boot
        /\ user'.orders = user.orders /\ user'.cursor = user.cursor
    BY <2>2 DEF Typed, Users
  <2>4. user'.trusted = user.trusted
    BY <2>2 DEF Typed, Users
  <2>5. user'.needs = user.needs
    BY <2>2 DEF Typed, Users
  <2>6. /\ caller' \in [Callers -> CallerStates] /\ link' = link
        /\ \A w \in Callers : w # calls[i].by => caller'[w] = caller[w]
    BY <1>2 DEF RestFails, Typed, CallerStates
  <2> QED
    BY <2>3, <2>4, <2>5, <2>6
<1> QED
  BY <1>1, <1>2

LEMMA RestFailsTyped ==
  ASSUME UserStreamAssumption, Typed, NEW i \in Slots, RestFails(i)
  PROVE  Typed'
<1>1. calls' \in [Slots -> CallRecords] /\ venue' = venue
  BY NoCallTyped DEF RestFails, Typed
<1>2. CASE Fail(user)
  BY <1>1, <1>2, FailTyped DEF Typed, Holds
<1>3. CASE user' \in Users /\ caller' \in [Callers -> CallerStates] /\ link' = link
  BY <1>1, <1>3 DEF Typed, Holds
<1> QED
  BY <1>2, <1>3, RestFailsFields

LEMMA BootTimeoutTyped ==
  ASSUME UserStreamAssumption, Typed, BootTimeout
  PROVE  Typed'
BY FailTyped DEF Typed, BootTimeout, Holds

LEMMA MovesTyped ==
  ASSUME Typed, NEW o \in Orders, OrderMoves(o)
  PROVE  /\ venue[o] \in {0, 1} /\ venue' = [venue EXCEPT ![o] = venue[o] + 1]
         /\ <<o, venue[o] + 1>> \in Events /\ link' = Broadcast(link, <<o, venue[o] + 1>>)
<1>1. venue[o] \in {0, 1}
  BY DEF Typed, OrderMoves
<1>2. venue' = [venue EXCEPT ![o] = venue[o] + 1] /\ venue'[o] = venue[o] + 1
  BY DEF Typed, OrderMoves
<1>3. venue[o] + 1 \in {1, 2}
  BY <1>1
<1>4. link' = Broadcast(link, <<o, venue'[o]>>)
  BY DEF OrderMoves
<1> QED
  BY <1>1, <1>2, <1>3, <1>4 DEF Events

LEMMA OrderMovesTyped ==
  ASSUME Typed, NEW o \in Orders, OrderMoves(o)
  PROVE  Typed'
<1>1. PICK e \in Events : e = <<o, venue[o] + 1>>
  BY MovesTyped
<1>2. PICK n \in Links :
        /\ n = Broadcast(link, e) /\ n.client = link.client
        /\ \A s \in Sockets : /\ n.sockets[s].state = link.sockets[s].state
                              /\ n.sockets[s].mine = link.sockets[s].mine
  BY BroadcastAppends DEF Typed
<1>3. Holds(n)
  BY <1>2 DEF Typed, Holds, Links, Client
<1>4. link' = n
  BY <1>1, <1>2, MovesTyped
<1>5. venue' \in [Orders -> 0 .. 2]
  <2>0. venue[o] \in {0, 1}
    BY MovesTyped
  <2>1. venue[o] + 1 \in 0 .. 2
    BY <2>0
  <2>3. venue' = [venue EXCEPT ![o] = venue[o] + 1]
    BY MovesTyped
  <2>2. venue \in [Orders -> 0 .. 2]
    BY DEF Typed
  <2> QED
    BY <2>1, <2>2, <2>3
<1> QED
  BY <1>2, <1>3, <1>4, <1>5 DEF Typed, OrderMoves, Holds

LEMMA StepTyped ==
  ASSUME UserStreamAssumption, Typed, Cuts, [Next]_vars
  PROVE  Typed'
<1>1. CASE Start
  BY <1>1, StartTyped
<1>2. CASE Sync
  BY <1>2, SyncTyped
<1>3. CASE Stop
  BY <1>3, StopTyped
<1>4. ASSUME NEW s \in Sockets, Open(s) \/ Deliver(s) \/ Pong(s) \/ Drop(s) PROVE Typed'
  BY <1>4, OpenTyped, DeliverTyped, PongTyped, DropTyped
<1>5. CASE Silence
  BY <1>5, SilenceTyped
<1>6. CASE RedialTimer
  BY <1>6, RedialTyped
<1>7. CASE BootTimeout
  BY <1>7, BootTimeoutTyped
<1>8. ASSUME NEW i \in Slots,
             Ask(i) \/ Answer(i) \/ LandBegin(i) \/ LandFinal(i) \/ RestFails(i)
      PROVE  Typed'
  BY <1>8, AskTyped, LandBeginTyped, LandFinalTyped, RestFailsTyped
<1>9. ASSUME NEW o \in Orders, OrderMoves(o) PROVE Typed'
  BY <1>9, OrderMovesTyped
<1>10. CASE UNCHANGED vars
  BY <1>10 DEF Typed, Holds, vars
<1> QED
  BY <1>1, <1>2, <1>3, <1>4, <1>5, <1>6, <1>7, <1>8, <1>9, <1>10 DEF Next

\* What most steps do to the fields: no bootstrap starts, and no trust.
Subsides ==
  /\ Boot(user') => Boot(user) /\ user'.boot.buffer = user.boot.buffer
  /\ user'.trusted => user.trusted

LEMMA NotBooting == \A u : u.boot = NoBoot => ~Boot(u)
BY DEF Boot

LEMMA NotifiedSubsides ==
  ASSUME Typed, NEW u \in Users, user' = Notified(u, link, link'),
         u.boot = user.boot, u.trusted => user.trusted
  PROVE  Subsides
<1>1. user'.boot \in {user.boot, NoBoot} /\ (user'.trusted => user.trusted)
  BY NotifiedKeeps
<1> QED
  BY <1>1 DEF Subsides, Boot

LEMMA StartSubsides ==
  ASSUME Typed, Start
  PROVE  Subsides /\ ~user'.trusted /\ user'.needs
<1> DEFINE u == [user EXCEPT !.failure = FALSE, !.trusted = FALSE, !.needs = TRUE]
<1>1. u \in Users /\ u.boot = user.boot /\ ~u.trusted /\ u.needs
  BY DEF Typed, Users
<1>2. user' = Notified(u, link, link')
  BY DEF Start
<1> HIDE DEF u
<1>3. Subsides
  BY <1>1, <1>2, NotifiedSubsides
<1>4. ~user'.trusted
  BY <1>1, <1>2, NotifiedKeeps
<1>5. user'.needs
  BY <1>1, <1>2, NotifiedKeeps
<1> QED
  BY <1>3, <1>4, <1>5

LEMMA SyncSubsides ==
  ASSUME Typed, Sync
  PROVE  Subsides
<1>1. CASE IsOpen(link)
  <2>1. user'.boot = NoBoot /\ ~user'.trusted
    BY <1>1, BeginFields DEF Sync, Typed
  <2> QED
    BY <2>1 DEF Subsides, Boot
<1>2. CASE ~IsOpen(link)
  BY <1>2, NotifiedSubsides DEF Sync, Typed
<1> QED
  BY <1>1, <1>2

LEMMA StopSubsides ==
  ASSUME Typed, Stop
  PROVE  Subsides /\ user'.boot = NoBoot /\ ~user'.trusted
<1>1. PICK k \in Users : k = Cancel(user) /\ k.boot = NoBoot
  BY CancelKeeps DEF Typed
<1>2. user' = [k EXCEPT !.status = "idle", !.trusted = FALSE, !.failure = FALSE, !.needs = FALSE]
  BY <1>1 DEF Stop
<1>3. user'.boot = NoBoot /\ ~user'.trusted
  BY <1>1, <1>2 DEF Users
<1> QED
  BY <1>3 DEF Subsides, Boot

LEMMA OpenSubsides ==
  ASSUME Typed, NEW s \in Sockets, Open(s)
  PROVE  Subsides /\ ~user'.trusted
<1>1. PICK u \in Users, c \in [Callers -> CallerStates], who \in SUBSET {"open", "start", "sync"} :
        /\ Begin(u, c, who) /\ ~u.trusted
        /\ u.boot.buffer = user.boot.buffer /\ (Boot(u) => Boot(user))
  BY OpenBegins
<1>2. /\ who = {} => user' = u
      /\ who # {} => user'.boot = NoBoot /\ ~user'.trusted
  BY <1>1, BeginFields
<1> QED
  BY <1>1, <1>2 DEF Subsides, Boot

LEMMA PongSubsides ==
  ASSUME Typed, NEW s \in Sockets, Pong(s)
  PROVE  Subsides /\ user'.orders = user.orders /\ user'.cursor = user.cursor
BY SeenKeeps DEF Subsides, Pong, Typed

LEMMA SilenceSubsides ==
  ASSUME UserStreamAssumption, Typed, Silence
  PROVE  Subsides
BY SilenceTyped DEF Subsides, Boot

LEMMA RedialSubsides ==
  ASSUME Typed, RedialTimer
  PROVE  Subsides
BY NotifiedSubsides DEF RedialTimer, Typed

LEMMA FailSubsides ==
  ASSUME UserStreamAssumption, Typed, NEW u \in Users, u.trusted = user.trusted, Fail(u)
  PROVE  Subsides
<1>1. user'.boot = NoBoot /\ (user'.trusted => u.trusted)
  BY FailTyped
<1> QED
  BY <1>1 DEF Subsides, Boot

LEMMA CutsOn ==
  ASSUME Typed, Typed', Cuts, Subsides,
         \A i \in Slots : calls'[i] = calls[i] \/ calls'[i].cut = 0
  PROVE  Cuts'
<1> SUFFICES ASSUME Boot(user'), NEW i \in Slots
             PROVE  calls'[i].cut <= Len(user'.boot.buffer)
  BY DEF Cuts, Boot
<1>1. calls[i].cut <= Len(user.boot.buffer) /\ user'.boot.buffer = user.boot.buffer
  BY DEF Cuts, Subsides
<1>2. Len(user'.boot.buffer) \in Nat
  BY DEF Typed, Users, Boots
<1> QED
  BY <1>1, <1>2

LEMMA CutsStep ==
  ASSUME UserStreamAssumption, Typed, Cuts, [Next]_vars
  PROVE  Cuts'
<1>0. Typed'
  BY StepTyped
<1>1. CASE Start
  BY <1>0, <1>1, StartSubsides, CutsOn DEF Start
<1>2. CASE Sync
  <2>1. \A i \in Slots : calls'[i] = calls[i] \/ calls'[i].cut = 0
    <3>1. CASE IsOpen(link)
      BY <1>2, <3>1, BeginCalls DEF Sync, Typed
    <3>2. CASE ~IsOpen(link)
      BY <1>2, <3>2 DEF Sync
    <3> QED
      BY <3>1, <3>2
  <2> QED
    BY <1>0, <1>2, <2>1, SyncSubsides, CutsOn
<1>3. CASE Stop
  BY <1>0, <1>3, StopSubsides, CutsOn DEF Stop
<1>4. ASSUME NEW s \in Sockets, Open(s) PROVE Cuts'
  <2>1. \A i \in Slots : calls'[i] = calls[i] \/ calls'[i].cut = 0
    BY <1>4, OpenBegins, BeginCalls DEF Typed
  <2> QED
    BY <1>0, <1>4, <2>1, OpenSubsides, CutsOn
<1>5. ASSUME NEW s \in Sockets, Deliver(s) PROVE Cuts'
  <2>1. \A i \in Slots : calls'[i] = calls[i] \/ calls'[i].cut = 0
    BY <1>5, TrafficCalls DEF Deliver
  <2>2. CASE ~Boot(user)
    <3>1. PICK e \in Events : user' = Apply(user, e)
      BY <1>5, <2>2, DeliverFields
    <3>2. user'.boot = user.boot
      BY <3>1, ApplyKeeps DEF Typed
    <3> QED
      BY <2>2, <3>2 DEF Cuts, Boot
  <2>3. CASE Boot(user)
    <3>1. PICK e \in Events : user'.boot.buffer = Append(user.boot.buffer, e)
      BY <1>5, <2>3, DeliverFields
    <3>2. ASSUME NEW i \in Slots PROVE calls'[i].cut <= Len(user'.boot.buffer)
      <4>1. user.boot.buffer \in Seq(Events) /\ calls[i].cut \in Nat
        BY DEF Typed, Users, Boots, CallRecords
      <4>2. Len(user'.boot.buffer) = Len(user.boot.buffer) + 1 /\ Len(user.boot.buffer) \in Nat
        BY <3>1, <4>1
      <4>3. calls[i].cut <= Len(user.boot.buffer)
        BY <2>3 DEF Cuts
      <4> QED
        BY <2>1, <4>1, <4>2, <4>3
    <3> QED
      BY <3>2 DEF Cuts
  <2> QED
    BY <2>2, <2>3
<1>6. ASSUME NEW s \in Sockets, Pong(s) PROVE Cuts'
  <2>1. \A i \in Slots : calls'[i] = calls[i] \/ calls'[i].cut = 0
    BY <1>6, TrafficCalls DEF Pong
  <2> QED
    BY <1>0, <1>6, <2>1, PongSubsides, CutsOn
<1>7. ASSUME NEW s \in Sockets, Drop(s) PROVE Cuts'
  BY <1>7, DropTyped DEF Cuts, Boot
<1>8. CASE Silence
  BY <1>0, <1>8, SilenceSubsides, CutsOn DEF Silence
<1>9. CASE RedialTimer
  BY <1>0, <1>9, RedialSubsides, CutsOn DEF RedialTimer
<1>10. ASSUME NEW u \in Users, Fail(u) PROVE Cuts'
  BY <1>10, FailTyped DEF Cuts, Boot
<1>11. CASE BootTimeout
  BY <1>10, <1>11 DEF BootTimeout, Typed
<1>12. ASSUME NEW i \in Slots, Ask(i) PROVE Cuts'
  <2>1. user' = user
    BY <1>12 DEF Ask
  <2>2. ASSUME Boot(user), NEW k \in Slots PROVE calls'[k].cut <= Len(user.boot.buffer)
    <3>1. CASE k = i
      <4>1. calls'[k].cut = Len(user.boot.buffer) /\ Len(user.boot.buffer) \in Nat
        BY <1>12, <2>2, <3>1, AskCalls DEF Typed, Users, Boots
      <4> QED
        BY <4>1
    <3>2. CASE k # i
      BY <1>12, <2>2, <3>2, AskCalls DEF Cuts
    <3> QED
      BY <3>1, <3>2
  <2> QED
    BY <2>1, <2>2 DEF Cuts
<1>13. ASSUME NEW i \in Slots, Answer(i) PROVE Cuts'
  <2>1. user' = user
    BY <1>13 DEF Answer
  <2>2. \A k \in Slots : calls'[k].cut = calls[k].cut
    BY <1>13, AnswerCalls
  <2> QED
    BY <2>1, <2>2 DEF Cuts
<1>14. ASSUME NEW i \in Slots, LandBegin(i) PROVE Cuts'
  <2>1. user'.boot.buffer = <<>> /\ \A k \in Slots : calls'[k].cut = 0
    BY <1>14, LandBeginFields, NoCallTyped
  <2> QED
    BY <2>1 DEF Cuts
<1>15. ASSUME NEW i \in Slots, LandFinal(i) PROVE Cuts'
  <2>1. CASE \E u \in Users : Fail(u)
    BY <1>10, <2>1
  <2>2. CASE Boot(user) /\ \E v \in Users :
               /\ v.boot = NoBoot
               /\ user' = ApplyAll(v, SubSeq(user.boot.buffer, calls[i].cut + 1,
                                             Len(user.boot.buffer)))
    <3> DEFINE rest == SubSeq(user.boot.buffer, calls[i].cut + 1, Len(user.boot.buffer))
    <3>2. rest \in Seq(Events)
      BY <2>2, PartsTyped DEF Cuts
    <3>3. PICK v \in Users : v.boot = NoBoot /\ user' = ApplyAll(v, rest)
      BY <2>2
    <3> HIDE DEF rest
    <3>1. user'.boot = NoBoot
      BY <3>2, <3>3, ApplyAllKeeps
    <3> QED
      BY <3>1 DEF Cuts, Boot
  <2> QED
    BY <1>15, <2>1, <2>2, LandFinalFields
<1>16. ASSUME NEW i \in Slots, RestFails(i) PROVE Cuts'
  <2>1. CASE Fail(user)
    BY <1>10, <2>1 DEF Typed
  <2>2. CASE user'.boot = user.boot
    <3>1. \A k \in Slots : calls'[k] = calls[k] \/ calls'[k].cut = 0
      BY <1>16, NoCallTyped DEF RestFails, Typed
    <3>2. Len(user.boot.buffer) \in Nat
      BY DEF Typed, Users, Boots
    <3>3. ASSUME Boot(user), NEW k \in Slots PROVE calls'[k].cut <= Len(user.boot.buffer)
      BY <3>1, <3>2, <3>3 DEF Cuts
    <3> QED
      BY <2>2, <3>3 DEF Cuts, Boot
  <2> QED
    BY <1>16, <2>1, <2>2, RestFailsFields
<1>17. ASSUME NEW o \in Orders, OrderMoves(o) PROVE Cuts'
  BY <1>17 DEF OrderMoves, Cuts
<1>18. CASE UNCHANGED vars
  BY <1>18 DEF vars, Cuts
<1> QED
  BY <1>1, <1>2, <1>3, <1>4, <1>5, <1>6, <1>7, <1>8, <1>9, <1>11, <1>12, <1>13, <1>14, <1>15,
     <1>16, <1>17, <1>18 DEF Next

LEMMA TypedShown ==
  ASSUME Typed
  PROVE  TypeOK
<1>1. LinkOK(link, Events)
  BY DEF Typed, Holds, LinkOK, Links, Client, Socket, States
<1>2. /\ user.orders \subseteq Orders /\ user.cursor \in [Orders -> 0 .. 2]
      /\ user.status \in Statuses
  BY DEF Typed, Users
<1>3. {user.trusted, user.needs, user.failure, user.boot.finalizing} \subseteq BOOLEAN
  BY DEF Typed, Users, Boots
<1>4. user.boot.buffer \in Seq(Events)
  BY DEF Typed, Users, Boots
<1> QED
  BY <1>1, <1>2, <1>3, <1>4 DEF TypeOK, Typed, CallerStates

(***************************************************************************)
(* TypeCorrect: whatever sockets, listings, faults and commands do, the    *)
(* link, the orders and their cursors, the bootstrap's buffer and the      *)
(* callers keep their types, and the socket held is the client's own.      *)
(***************************************************************************)
THEOREM TypeCorrect == ASSUME UserStreamAssumption PROVE Spec => []TypeOK
<1>1. Init => Typed /\ Cuts
  <2>1. Init => Cuts
    BY DEF Init, Cuts, Boot
  <2> QED
    BY <2>1, InitTyped
<1>2. Typed /\ Cuts /\ [Next]_vars => (Typed /\ Cuts)'
  BY StepTyped, CutsStep
<1>3. Typed => TypeOK
  BY TypedShown
<1> QED
  BY <1>1, <1>2, <1>3, PTL DEF Spec

-----------------------------------------------------------------------------
(* One socket                                                               *)

NoneClosing(l) == \A s \in Sockets : l.sockets[s].state # "closing"

\* Every live socket is the one the client holds; while it holds one it runs
\* and none is closing; an open socket is subscribed, a dialing one is silent.
Linked(l) ==
  /\ \A s \in Sockets : l.sockets[s].state \in {"dialing", "open"} => l.client.socket = s
  /\ l.client.socket # NoSocket => l.client.running /\ NoneClosing(l)
  /\ \A s \in Sockets : l.sockets[s].state = "open" => l.sockets[s].subscribed
  /\ \A s \in Sockets : l.sockets[s].state = "dialing" => l.sockets[s].chan = <<>>

\* An open link after the step was open before, with the same undelivered events.
Steady(l, n) ==
  IsOpen(n) => /\ IsOpen(l) /\ n.client.socket = l.client.socket
               /\ n.sockets[n.client.socket].chan = l.sockets[l.client.socket].chan

LEMMA CalmLinked ==
  ASSUME NEW l \in Links, NEW n \in Links, Linked(l), Calm(l, n),
         l.client.running => n.client.running
  PROVE  Linked(n) /\ Steady(l, n) /\ (IsOpen(l) => IsOpen(n))
BY DEF Linked, Calm, NoneClosing, Steady, IsOpen

LEMMA DialsLinked ==
  ASSUME UserStreamAssumption, NEW l \in Links, NEW n \in Links, Linked(l), Dials(l, n),
         NoneClosing(l)
  PROVE  Linked(n) /\ Steady(l, n) /\ NoneClosing(n) /\ ~IsOpen(l)
<1>1. PICK s \in Sockets : n.client.socket = s /\ n.sockets = [l.sockets EXCEPT ![s] = Dialing]
  BY DEF Dials
<1>2. n.sockets[s] = Dialing /\ \A t \in Sockets \ {s} : n.sockets[t] = l.sockets[t]
  BY <1>1 DEF Links
<1>3. NoneClosing(n)
  BY <1>2, SocketsTyped DEF NoneClosing
<1>4. l.client.socket = NoSocket /\ n.client.running
  BY DEF Dials
<1>5. \A t \in Sockets : l.sockets[t].state \notin {"dialing", "open"}
  BY <1>4, SocketsTyped DEF Linked
<1>6. ~IsOpen(n)
  BY <1>1, <1>2, SocketsTyped DEF IsOpen
<1>7. \A t \in Sockets : n.sockets[t].state \in {"dialing", "open"} => n.client.socket = t
  BY <1>1, <1>2, <1>5
<1>8. \A t \in Sockets : n.sockets[t].state = "open" => n.sockets[t].subscribed
  BY <1>2, <1>5, SocketsTyped
<1>9. \A t \in Sockets : n.sockets[t].state = "dialing" => n.sockets[t].chan = <<>>
  BY <1>2, <1>5, SocketsTyped
<1> QED
  BY <1>3, <1>4, <1>6, <1>7, <1>8, <1>9 DEF Linked, Steady, IsOpen

LEMMA LeavesLinked ==
  ASSUME UserStreamAssumption, NEW l \in Links, NEW n \in Links, Linked(l), Leaves(l, n)
  PROVE  /\ Linked(n) /\ ~IsOpen(n)
         /\ IsOpen(l) => ~NoneClosing(n)
         /\ ~NoneClosing(l) => ~NoneClosing(n)
<1>1. n.client.socket = NoSocket
  BY DEF Leaves
<1>2. CASE l.client.socket = NoSocket
  <2>1. n.sockets = l.sockets /\ \A t \in Sockets : l.sockets[t].state \notin {"dialing", "open"}
    BY <1>2, SocketsTyped DEF Leaves, Linked
  <2> QED
    BY <1>1, <1>2, <2>1 DEF Linked, NoneClosing, IsOpen
<1>3. CASE l.client.socket # NoSocket
  <2>1. PICK s \in Sockets : l.client.socket = s
    BY <1>3 DEF Links, Client
  <2>2. n.sockets[s] = Closing /\ \A t \in Sockets \ {s} : n.sockets[t] = l.sockets[t]
    BY <1>3, <2>1 DEF Leaves, Links
  <2>3. ~NoneClosing(n)
    BY <2>1, <2>2, SocketsTyped DEF NoneClosing
  <2>4. \A t \in Sockets : n.sockets[t].state \notin {"dialing", "open"}
    BY <2>1, <2>2, SocketsTyped DEF Linked
  <2> QED
    BY <1>1, <2>3, <2>4 DEF Linked, IsOpen
<1> QED
  BY <1>2, <1>3

LEMMA OpensLinked ==
  ASSUME UserStreamAssumption, NEW l \in Links, Linked(l), NEW s \in Sockets,
         l.sockets[s].state = "dialing"
  PROVE  /\ Linked(HandleOpen(l, s)) /\ IsOpen(HandleOpen(l, s))
         /\ HandleOpen(l, s).client.socket = s
         /\ HandleOpen(l, s).sockets[s].chan = <<>>
         /\ HandleOpen(l, s).client.running = l.client.running
<1>1. PICK n \in Links : n = HandleOpen(l, s)
  BY HandleOpenOpens
<1>2. /\ n.client.socket = l.client.socket /\ n.client.running = l.client.running
      /\ \A t \in Sockets \ {s} : n.sockets[t] = l.sockets[t]
      /\ n.sockets[s].state = "open"
      /\ n.sockets[s].chan = l.sockets[s].chan
      /\ n.sockets[s].subscribed = (l.client.socket = s)
  BY <1>1, HandleOpenOpens
<1>3. l.client.socket = s /\ l.sockets[s].chan = <<>> /\ l.client.running /\ NoneClosing(l)
  BY SocketsTyped DEF Linked
<1>4. IsOpen(n)
  BY <1>2, <1>3, SocketsTyped DEF IsOpen
<1>5. \A t \in Sockets : n.sockets[t].state \in {"dialing", "open"} => n.client.socket = t
  BY <1>2, <1>3 DEF Linked
<1>6. NoneClosing(n)
  BY <1>2, <1>3 DEF NoneClosing
<1>7. \A t \in Sockets : n.sockets[t].state = "open" => n.sockets[t].subscribed
  <2>1. n.sockets[s].subscribed
    BY <1>2, <1>3
  <2> QED
    BY <1>2, <2>1 DEF Linked
<1>8. \A t \in Sockets : n.sockets[t].state = "dialing" => n.sockets[t].chan = <<>>
  BY <1>2 DEF Linked
<1>9. n.client.running
  BY <1>2, <1>3
<1> QED
  BY <1>1, <1>2, <1>3, <1>4, <1>5, <1>6, <1>7, <1>8, <1>9 DEF Linked

LEMMA ClosesLinked ==
  ASSUME UserStreamAssumption, NEW l \in Links, Holds(l), Linked(l), NEW s \in Sockets,
         l.sockets[s].state \in {"open", "dialing", "closing"}
  PROVE  Linked(HandleClose(l, s)) /\ ~IsOpen(HandleClose(l, s))
<1>1. PICK n \in Links :
        /\ n = HandleClose(l, s)
        /\ n.sockets = [l.sockets EXCEPT ![s] = FreshSocket]
        /\ n.client.socket = IF l.sockets[s].mine THEN NoSocket ELSE l.client.socket
  BY HandleCloseDrops
<1>2. n.sockets[s] = FreshSocket /\ \A t \in Sockets \ {s} : n.sockets[t] = l.sockets[t]
  BY <1>1 DEF Links
<1>3. n.client.socket = NoSocket
  <2>1. CASE l.sockets[s].state = "closing"
    BY <1>1, <2>1 DEF Linked, NoneClosing
  <2>2. CASE l.sockets[s].state \in {"open", "dialing"}
    <3>1. l.client.socket = s
      BY <2>2 DEF Linked
    <3> QED
      BY <1>1, <3>1, SocketsTyped DEF Holds
  <2> QED
    BY <2>1, <2>2
<1>4. \A t \in Sockets : n.sockets[t].state \notin {"dialing", "open"}
  <2>1. ASSUME NEW t \in Sockets, l.sockets[t].state \in {"dialing", "open"} PROVE t = s
    <3>1. l.client.socket = t /\ NoneClosing(l)
      BY <2>1, SocketsTyped DEF Linked
    <3>2. l.client.socket = s
      BY <3>1 DEF Linked, NoneClosing
    <3> QED
      BY <3>1, <3>2
  <2> QED
    BY <1>2, <2>1, SocketsTyped
<1> QED
  BY <1>1, <1>3, <1>4 DEF Linked, IsOpen

LEMMA StopsLinked ==
  ASSUME UserStreamAssumption, NEW l \in Links, Holds(l), Linked(l)
  PROVE  Linked(StopClient(l)) /\ ~IsOpen(StopClient(l)) /\ ~StopClient(l).client.running
<1>1. PICK n \in Links :
        /\ n = StopClient(l) /\ n.client = FreshClient
        /\ \A s \in Sockets :
             /\ s = l.client.socket => n.sockets[s].state = "closing"
             /\ s # l.client.socket => n.sockets[s].state = l.sockets[s].state
  BY StopForgets
<1>2. n.client.socket = NoSocket /\ ~n.client.running
  BY <1>1 DEF FreshClient
<1>3. \A t \in Sockets : n.sockets[t].state \notin {"dialing", "open"}
  BY <1>1 DEF Linked
<1> QED
  BY <1>1, <1>2, <1>3 DEF Linked, IsOpen

\* Messages move without the sockets changing hands.
LEMMA MessagesLinked ==
  ASSUME NEW l \in Links, NEW n \in Links, Linked(l), n.client = l.client,
         \A s \in Sockets : /\ n.sockets[s].state = l.sockets[s].state
                            /\ n.sockets[s].subscribed = l.sockets[s].subscribed
                            /\ l.sockets[s].state = "dialing" => n.sockets[s].chan = l.sockets[s].chan
  PROVE  Linked(n) /\ (IsOpen(n) <=> IsOpen(l)) /\ (NoneClosing(n) <=> NoneClosing(l))
<1>1. IsOpen(n) <=> IsOpen(l)
  BY DEF IsOpen, Links, Client
<1> QED
  BY <1>1 DEF Linked, NoneClosing

\* start and the reconnect timer dial only when no socket is closing.
LEMMA DialLinked ==
  ASSUME UserStreamAssumption, Typed, Linked(link), NEW n,
         \/ n = StartClient(link) /\ NoneClosing(link)
         \/ n = Redial(link) /\ NoneClosing(link)
         \/ n = link
  PROVE  /\ Linked(n) /\ Steady(link, n) /\ (IsOpen(link) => IsOpen(n))
         /\ link.client.running => n.client.running
<1>1. CASE n = StartClient(link) /\ NoneClosing(link)
  <2>1. PICK k \in Links : /\ k = StartClient(link) /\ k.client.running
                           /\ Calm(link, k) \/ Dials(link, k)
    BY StartDials DEF Typed
  <2> QED
    BY <1>1, <2>1, CalmLinked, DialsLinked DEF Typed
<1>2. CASE n = Redial(link) /\ NoneClosing(link)
  <2>1. PICK k \in Links : /\ k = Redial(link) /\ k.client.running = link.client.running
                           /\ Calm(link, k) \/ Dials(link, k)
    BY RedialDials DEF Typed
  <2> QED
    BY <1>2, <2>1, CalmLinked, DialsLinked DEF Typed
<1>3. CASE n = link
  BY <1>3 DEF Steady
<1> QED
  BY <1>1, <1>2, <1>3

LEMMA TriggerLinked ==
  ASSUME UserStreamAssumption, Typed, Linked(link)
  PROVE  /\ Linked(TriggerReconnect(link)) /\ ~IsOpen(TriggerReconnect(link))
         /\ TriggerReconnect(link).client.running = link.client.running
         /\ IsOpen(link) => ~NoneClosing(TriggerReconnect(link))
         /\ ~NoneClosing(link) => ~NoneClosing(TriggerReconnect(link))
<1>1. PICK k \in Links : /\ k = TriggerReconnect(link)
                         /\ k.client.running = link.client.running
                         /\ link.client.running => Leaves(link, k)
                         /\ ~link.client.running => k = link
  BY TriggerLeaves DEF Typed
<1>2. CASE link.client.running
  BY <1>1, <1>2, LeavesLinked DEF Typed
<1>3. CASE ~link.client.running
  <2>1. k = link /\ ~IsOpen(link)
    BY <1>1, <1>3 DEF Linked, IsOpen
  <2> QED
    BY <1>1, <2>1
<1> QED
  BY <1>2, <1>3

LEMMA PromptMeans == ASSUME ~LateClose, Prompt PROVE NoneClosing(link)
BY DEF Prompt, NoneClosing

LEMMA FailLinked ==
  ASSUME UserStreamAssumption, Typed, Linked(link), NEW u, Fail(u)
  PROVE  Linked(link') /\ ~IsOpen(link') /\ Steady(link, link')
BY TriggerLinked DEF Fail, Steady

LEMMA DeliverLinked ==
  ASSUME Typed, Linked(link), NEW s \in Sockets, Deliver(s)
  PROVE  /\ Linked(link') /\ (IsOpen(link') <=> IsOpen(link))
         /\ (NoneClosing(link') <=> NoneClosing(link))
         /\ link'.client = link.client /\ link.client.socket = s
         /\ link'.sockets[s].chan = Tail(link.sockets[s].chan)
<1>1. PICK n \in Links :
        /\ n = Receive(link, s) /\ n.client = link.client
        /\ \A t \in Sockets :
             /\ n.sockets[t].state = link.sockets[t].state
             /\ n.sockets[t].subscribed = link.sockets[t].subscribed
             /\ n.sockets[t].chan = IF t = s THEN Tail(link.sockets[s].chan) ELSE link.sockets[t].chan
  BY ReceiveTakes DEF Typed, Deliver
<1>2. \A t \in Sockets : link.sockets[t].state = "dialing" => n.sockets[t].chan = link.sockets[t].chan
  BY <1>1 DEF Deliver
<1>3. Linked(n) /\ (IsOpen(n) <=> IsOpen(link)) /\ (NoneClosing(n) <=> NoneClosing(link))
  BY <1>1, <1>2, MessagesLinked DEF Typed
<1>4. link.client.socket = s
  BY DEF Deliver, Linked
<1>5. link' = n
  BY <1>1 DEF Deliver
<1> QED
  BY <1>1, <1>3, <1>4, <1>5

LEMMA OrderMovesLinked ==
  ASSUME Typed, Linked(link), NEW o \in Orders, OrderMoves(o)
  PROVE  /\ Linked(link') /\ (IsOpen(link') <=> IsOpen(link))
         /\ (NoneClosing(link') <=> NoneClosing(link))
         /\ link'.client = link.client
         /\ IsOpen(link) => link'.sockets[link.client.socket].chan =
                              Append(link.sockets[link.client.socket].chan, <<o, venue[o] + 1>>)
<1>1. PICK e \in Events : e = <<o, venue[o] + 1>>
  BY MovesTyped
<1>2. PICK n \in Links :
        /\ n = Broadcast(link, e) /\ n.client = link.client
        /\ \A s \in Sockets :
             /\ n.sockets[s].state = link.sockets[s].state
             /\ n.sockets[s].subscribed = link.sockets[s].subscribed
             /\ n.sockets[s].chan =
                  IF link.sockets[s].state = "open" /\ link.sockets[s].subscribed
                  THEN Append(link.sockets[s].chan, e) ELSE link.sockets[s].chan
  BY BroadcastAppends DEF Typed
<1>3. \A s \in Sockets : link.sockets[s].state = "dialing" => n.sockets[s].chan = link.sockets[s].chan
  BY <1>2
<1>4. Linked(n) /\ (IsOpen(n) <=> IsOpen(link)) /\ (NoneClosing(n) <=> NoneClosing(link))
  BY <1>2, <1>3, MessagesLinked DEF Typed
<1>5. link' = n
  BY <1>1, <1>2, MovesTyped
<1>6. ASSUME IsOpen(link)
      PROVE  n.sockets[link.client.socket].chan =
               Append(link.sockets[link.client.socket].chan, e)
  <2>1. PICK s \in Sockets : s = link.client.socket
    BY <1>6 DEF IsOpen, Typed, Links, Client
  <2>2. link.sockets[s].state = "open" /\ link.sockets[s].subscribed
    BY <1>6, <2>1 DEF IsOpen, Linked
  <2> QED
    BY <1>2, <2>1, <2>2
<1> QED
  BY <1>1, <1>2, <1>4, <1>5, <1>6

\* The steps after which no link is open that was not, and nothing was delivered.
LEMMA SteadySteps ==
  ASSUME UserStreamAssumption, ~LateClose, Typed, Cuts, Linked(link),
         \/ Start \/ Sync \/ Stop \/ Silence \/ RedialTimer \/ BootTimeout
         \/ \E s \in Sockets : Pong(s) \/ Drop(s)
         \/ \E i \in Slots : Ask(i) \/ Answer(i) \/ LandBegin(i) \/ LandFinal(i) \/ RestFails(i)
         \/ UNCHANGED vars
  PROVE  Linked(link') /\ Steady(link, link')
<1>0. CASE link' = link
  BY <1>0 DEF Steady
<1>1. CASE Start
  BY <1>1, PromptMeans, DialLinked DEF Start
<1>2. CASE Sync
  <2>1. CASE IsOpen(link)
    BY <1>0, <1>2, <2>1 DEF Sync
  <2>2. CASE ~IsOpen(link)
    BY <1>2, <2>2, PromptMeans, DialLinked DEF Sync
  <2> QED
    BY <2>1, <2>2
<1>3. CASE Stop
  BY <1>3, StopsLinked DEF Stop, Typed, Steady
<1>4. CASE Silence
  BY <1>4, TriggerLinked DEF Silence, Steady
<1>5. CASE RedialTimer
  BY <1>5, PromptMeans, DialLinked DEF RedialTimer
<1>6. CASE BootTimeout
  BY <1>6, FailLinked DEF BootTimeout
<1>7. ASSUME NEW s \in Sockets, Pong(s) PROVE Linked(link') /\ Steady(link, link')
  BY <1>0, <1>7 DEF Pong
<1>8. ASSUME NEW s \in Sockets, Drop(s) PROVE Linked(link') /\ Steady(link, link')
  BY <1>8, ClosesLinked DEF Drop, Typed, Steady
<1>9. ASSUME NEW i \in Slots, Ask(i) \/ Answer(i) PROVE Linked(link') /\ Steady(link, link')
  BY <1>0, <1>9 DEF Ask, Answer
<1>10. ASSUME NEW i \in Slots, LandBegin(i) PROVE Linked(link') /\ Steady(link, link')
  <2>1. (link' = StartClient(link) /\ NoneClosing(link)) \/ link' = link
    BY <1>10, PromptMeans DEF LandBegin
  <2> QED
    BY <2>1, DialLinked
<1>11. ASSUME NEW i \in Slots, LandFinal(i) PROVE Linked(link') /\ Steady(link, link')
  <2>1. (\E u \in Users : Fail(u)) \/ link' = link
    BY <1>11, LandFinalFields
  <2> QED
    BY <1>0, <2>1, FailLinked
<1>12. ASSUME NEW i \in Slots, RestFails(i) PROVE Linked(link') /\ Steady(link, link')
  <2>1. Fail(user) \/ link' = link
    BY <1>12 DEF RestFails
  <2> QED
    BY <1>0, <2>1, FailLinked
<1>13. CASE UNCHANGED vars
  BY <1>0, <1>13 DEF vars
<1> QED
  BY <1>1, <1>2, <1>3, <1>4, <1>5, <1>6, <1>7, <1>8, <1>9, <1>10, <1>11, <1>12, <1>13

LEMMA LinkStep ==
  ASSUME UserStreamAssumption, ~LateClose, Typed, Cuts, Linked(link), [Next]_vars
  PROVE  Linked(link')
<1>1. ASSUME NEW s \in Sockets, Open(s) PROVE Linked(link')
  BY <1>1, OpensLinked DEF Open, Typed
<1>2. ASSUME NEW s \in Sockets, Deliver(s) PROVE Linked(link')
  BY <1>2, DeliverLinked
<1>3. ASSUME NEW o \in Orders, OrderMoves(o) PROVE Linked(link')
  BY <1>3, OrderMovesLinked
<1> QED
  BY <1>1, <1>2, <1>3, SteadySteps DEF Next

LEMMA LinkedInit == ASSUME UserStreamAssumption, Init PROVE Linked(link)
BY SocketsTyped DEF Init, Linked, NoneClosing, FreshLink, FreshClient

LEMMA LinkedMeansOne ==
  ASSUME Linked(link)
  PROVE  OneListener
<1> DEFINE live == {s \in Sockets : link.sockets[s].state = "open" /\ link.sockets[s].subscribed}
<1>1. live \subseteq {link.client.socket}
  BY DEF Linked
<1>2. IsFiniteSet({link.client.socket}) /\ Cardinality({link.client.socket}) = 1
  BY FS_Singleton
<1>3. Cardinality(live) <= Cardinality({link.client.socket})
  BY <1>1, <1>2, FS_Subset
<1> QED
  BY <1>2, <1>3 DEF OneListener

(***************************************************************************)
(* SingleListener: when the close event of a socket comes before the next  *)
(* dial, the client never has two subscribed sockets open, through any     *)
(* number of drops, silences, stops, restarts and failed bootstraps.  The  *)
(* condition is needed: the close event of a socket the client forgot      *)
(* makes it forget the next one as well, and a third is dialed beside it.  *)
(***************************************************************************)
THEOREM SingleListener ==
  ASSUME UserStreamAssumption, ~LateClose
  PROVE  Spec => []OneListener
<1> DEFINE Inv == Typed /\ Cuts /\ Linked(link)
<1>1. Init => Inv
  <2>1. Init => Cuts
    BY DEF Init, Cuts, Boot
  <2> QED
    BY <2>1, InitTyped, LinkedInit
<1>2. Inv /\ [Next]_vars => Inv'
  BY StepTyped, CutsStep, LinkStep
<1>3. Inv => OneListener
  BY LinkedMeansOne
<1> QED
  BY <1>1, <1>2, <1>3, PTL DEF Spec

-----------------------------------------------------------------------------
(* Who waits for a bootstrap, and who asks for the next one                 *)

StartCall(i) == calls[i].by = "start"

\* start has at most one call, waits while it has one, and is idle while the
\* client does not run.
Waiting ==
  /\ \A i \in Slots : StartCall(i) => caller["start"] = "waiting" /\ "start" \notin user.boot.waiters
  /\ \A i, j \in Slots : StartCall(i) /\ StartCall(j) => i = j
  /\ ~link.client.running => caller["start"] = "idle" /\ "start" \notin user.boot.waiters

\* A running client without an open socket, none closing, knows that the next
\* open socket needs a bootstrap.
Asking == user.needs \/ IsOpen(link) \/ ~link.client.running \/ ~NoneClosing(link)

\* What most steps leave of it.
Undisturbed ==
  /\ \A i \in Slots : calls'[i].by = "start" => StartCall(i)
  /\ "start" \notin user.boot.waiters => "start" \notin user'.boot.waiters
  /\ "start" \notin user.boot.waiters /\ caller["start"] # "connecting" =>
       caller'["start"] = caller["start"]

LEMMA UndisturbedWaits ==
  ASSUME Waiting, Undisturbed, link'.client.running \/ ~link.client.running
  PROVE  Waiting'
<1>1. ASSUME NEW i \in Slots, StartCall(i)'
      PROVE  StartCall(i) /\ caller'["start"] = "waiting" /\ "start" \notin user'.boot.waiters
  BY <1>1 DEF Waiting, Undisturbed, StartCall
<1>2. ASSUME ~link'.client.running
      PROVE  caller'["start"] = "idle" /\ "start" \notin user'.boot.waiters
  BY <1>2 DEF Waiting, Undisturbed
<1>3. \A i, j \in Slots : StartCall(i) /\ StartCall(j) => i = j
  BY DEF Waiting
<1> QED
  BY <1>1, <1>2, <1>3 DEF Waiting

LEMMA StartIsCaller == "start" \in Callers /\ "sync" \in Callers /\ "start" # "sync"
                       /\ "start" \notin NoBoot.waiters
BY DEF Callers, NoBoot

LEMMA FailUndisturbed ==
  ASSUME UserStreamAssumption, Typed, NEW u \in Users, Fail(u), u.boot = user.boot,
         \A i \in Slots : calls'[i] = calls[i] \/ calls'[i] = NoCall
  PROVE  Undisturbed
<1>1. user'.boot = NoBoot
  BY FailTyped
<1>2. \A i \in Slots : calls'[i].by = "start" => StartCall(i)
  BY NoCallTyped DEF StartCall
<1>3. ASSUME "start" \notin user.boot.waiters, caller["start"] # "connecting"
      PROVE  caller'["start"] = caller["start"]
  <2> DEFINE c == Settled(u, caller, "failed")
  <2>1. c \in [Callers -> CallerStates] /\ c["start"] = caller["start"]
    BY <1>3, SettledTyped, StartIsCaller DEF Typed, CallerStates
  <2>2. caller' = GivenUp(c, link, link')
    BY DEF Fail
  <2> HIDE DEF c
  <2> QED
    BY <1>3, <2>1, <2>2, GivenUpTyped, StartIsCaller
<1> QED
  BY <1>1, <1>2, <1>3, StartIsCaller DEF Undisturbed

LEMMA DropUndisturbed ==
  ASSUME UserStreamAssumption, Typed, NEW s \in Sockets, Drop(s)
  PROVE  Undisturbed
<1>1. user'.boot = NoBoot
  BY DropTyped
<1>2. calls' = calls
  BY DEF Drop
<1>3. ASSUME "start" \notin user.boot.waiters, caller["start"] # "connecting"
      PROVE  caller'["start"] = caller["start"]
  <2> DEFINE c == Settled(user, caller, "failed")
  <2>1. c \in [Callers -> CallerStates] /\ c["start"] = caller["start"]
    BY <1>3, SettledTyped, StartIsCaller DEF Typed, CallerStates
  <2>2. caller' = GivenUp(c, link, link')
    BY DEF Drop
  <2> HIDE DEF c
  <2> QED
    BY <1>3, <2>1, <2>2, GivenUpTyped, StartIsCaller
<1> QED
  BY <1>1, <1>2, <1>3, StartIsCaller DEF Undisturbed, StartCall

LEMMA SyncUndisturbed ==
  ASSUME Typed, Sync
  PROVE  Undisturbed /\ user'.needs = user.needs
<1>1. CASE IsOpen(link)
  <2>1. Begin(user, caller, {"sync"})
    BY <1>1 DEF Sync
  <2>2. /\ user'.boot = NoBoot /\ user'.needs = user.needs
        /\ "start" \notin user.boot.waiters => caller'["start"] = caller["start"]
    BY <2>1, BeginFields, StartIsCaller DEF Typed
  <2>3. \A i \in Slots : calls'[i] # calls[i] => calls'[i].by = "sync"
    BY <2>1, BeginCalls DEF Typed
  <2> QED
    BY <2>2, <2>3, StartIsCaller DEF Undisturbed, StartCall
<1>2. CASE ~IsOpen(link)
  <2>1. user'.boot \in {user.boot, NoBoot} /\ user'.needs = user.needs
    BY <1>2, NotifiedKeeps DEF Sync, Typed
  <2>2. calls' = calls /\ caller'["start"] = caller["start"]
    BY <1>2, StartIsCaller DEF Sync, Typed
  <2> QED
    BY <2>1, <2>2, StartIsCaller DEF Undisturbed, StartCall
<1> QED
  BY <1>1, <1>2

LEMMA DeliverUndisturbed ==
  ASSUME Typed, NEW s \in Sockets, Deliver(s)
  PROVE  Undisturbed /\ user'.needs = user.needs
<1>1. user'.boot.waiters = user.boot.waiters
  <2>1. PICK e \in Events : /\ ~Boot(user) => user' = Apply(user, e)
                            /\ Boot(user) => user'.boot.waiters = user.boot.waiters
    BY DeliverFields
  <2>2. Apply(user, e).boot = user.boot
    BY ApplyKeeps DEF Typed
  <2> QED
    BY <2>1, <2>2
<1>2. user'.needs = user.needs
  <2>1. PICK e \in Events : /\ ~Boot(user) => user' = Apply(user, e)
                            /\ Boot(user) => user'.needs = user.needs
    BY DeliverFields
  <2>2. Apply(user, e).needs = user.needs
    BY ApplyKeeps DEF Typed
  <2> QED
    BY <2>1, <2>2
<1>3. caller' = caller
  BY DEF Deliver
<1>4. \A i \in Slots : calls'[i] # calls[i] => calls'[i].by = "none"
  BY TrafficCalls DEF Deliver
<1> QED
  BY <1>1, <1>2, <1>3, <1>4 DEF Undisturbed, StartCall

LEMMA PongUndisturbed ==
  ASSUME Typed, NEW s \in Sockets, Pong(s)
  PROVE  Undisturbed /\ user'.needs = user.needs
<1>1. user'.boot.waiters = user.boot.waiters
  BY SeenKeeps DEF Pong, Typed
<1>2. user'.needs = user.needs
  BY SeenKeeps DEF Pong, Typed
<1>3. \A i \in Slots : calls'[i] # calls[i] => calls'[i].by = "none"
  BY TrafficCalls DEF Pong
<1> QED
  BY <1>1, <1>2, <1>3 DEF Undisturbed, StartCall, Pong

LEMMA AskUndisturbed ==
  ASSUME Typed, NEW i \in Slots, Ask(i) \/ Answer(i)
  PROVE  Undisturbed /\ user'.needs = user.needs
<1>1. \A k \in Slots : calls'[k].job = calls[k].job /\ calls'[k].by = calls[k].by
  BY AskCalls, AnswerCalls
<1> QED
  BY <1>1 DEF Undisturbed, StartCall, Ask, Answer

LEMMA LandFinalUndisturbed ==
  ASSUME UserStreamAssumption, Typed, Cuts, NEW i \in Slots, LandFinal(i)
  PROVE  Undisturbed
<1>0. \A k \in Slots : calls'[k] = calls[k] \/ calls'[k] = NoCall
  BY DEF LandFinal, Typed
<1>1. CASE \E u \in Users : Fail(u) /\ u.boot = user.boot
  BY <1>0, <1>1, FailUndisturbed
<1>2. CASE /\ Boot(user) /\ caller' = Settled(user, caller, "done")
           /\ \E v \in Users : /\ v.boot = NoBoot
                               /\ user' = ApplyAll(v, SubSeq(user.boot.buffer, calls[i].cut + 1,
                                                             Len(user.boot.buffer)))
  <2> DEFINE rest == SubSeq(user.boot.buffer, calls[i].cut + 1, Len(user.boot.buffer))
  <2>1. rest \in Seq(Events)
    BY <1>2, PartsTyped DEF Cuts
  <2>2. PICK v \in Users : v.boot = NoBoot /\ user' = ApplyAll(v, rest)
    BY <1>2
  <2> HIDE DEF rest
  <2>3. user'.boot = NoBoot
    BY <2>1, <2>2, ApplyAllKeeps
  <2>4. "start" \notin user.boot.waiters => caller'["start"] = caller["start"]
    BY <1>2, SettledTyped, StartIsCaller DEF Typed, CallerStates
  <2> QED
    BY <1>0, <2>3, <2>4, NoCallTyped, StartIsCaller DEF Undisturbed, StartCall
<1> QED
  BY <1>1, <1>2, LandFinalFields

LEMMA WaitingStep ==
  ASSUME UserStreamAssumption, ~LateClose, Typed, Cuts, Linked(link), Waiting, Asking, [Next]_vars
  PROVE  Waiting'
<1>1. CASE Start
  <2>1. /\ caller["start"] = "idle" /\ calls' = calls
        /\ link' = StartClient(link)
    BY <1>1 DEF Start
  <2>2. link'.client.running
    BY <2>1, StartDials DEF Typed
  <2> QED
    BY <2>1, <2>2 DEF Waiting, StartCall
<1>2. CASE Sync
  <2>1. link'.client.running \/ ~link.client.running
    BY <1>2, StartDials DEF Sync, Typed
  <2> QED
    BY <1>2, <2>1, SyncUndisturbed, UndisturbedWaits
<1>3. CASE Stop
  <2>1. caller["start"] # "waiting" /\ calls' = calls /\ caller'["start"] = "idle"
    BY <1>3, StartIsCaller DEF Stop, Typed
  <2>2. user'.boot = NoBoot
    BY <1>3, StopSubsides
  <2> QED
    BY <2>1, <2>2, StartIsCaller DEF Waiting, StartCall
<1>4. ASSUME NEW s \in Sockets, Open(s) PROVE Waiting'
  <2>1. link.client.socket = s /\ link.client.running /\ ~IsOpen(link) /\ NoneClosing(link)
    BY <1>4, SocketsTyped DEF Open, Linked, IsOpen
  <2>2. user.needs
    BY <2>1 DEF Asking
  <2>3. PICK u \in Users, c \in [Callers -> CallerStates], who \in SUBSET {"open", "start", "sync"} :
          /\ Begin(u, c, who) /\ "open" \in who /\ c = caller
          /\ u.boot.waiters = user.boot.waiters
          /\ \A w \in who \ {"open"} : caller[w] = "connecting"
    BY <1>4, <2>2, OpenBegins
  <2>4. user'.boot = NoBoot
    BY <2>3, BeginFields
  <2>5. link'.client.running
    BY <1>4, <2>1, OpensLinked DEF Open, Typed
  <2>6. /\ \A i \in Slots : calls'[i] # calls[i] => calls'[i].by \in who
        /\ \A i, j \in Slots : /\ calls'[i] # calls[i] /\ calls'[j] # calls[j]
                               /\ calls'[i].by = calls'[j].by
                               => i = j
    BY <2>3, BeginCalls DEF Typed
  <2>7. CASE "start" \in who
    <3>1. \A i \in Slots : ~StartCall(i)
      BY <2>3, <2>7 DEF Waiting
    <3>2. caller'["start"] = "waiting"
      BY <2>3, <2>7, BeginFields, StartIsCaller
    <3> QED
      BY <2>4, <2>5, <2>6, <3>1, <3>2, StartIsCaller DEF Waiting, StartCall
  <2>8. CASE "start" \notin who
    <3>1. "start" \notin user.boot.waiters => caller'["start"] = caller["start"]
      BY <2>3, <2>8, BeginFields, StartIsCaller
    <3>2. Undisturbed
      BY <2>4, <2>6, <2>8, <3>1, StartIsCaller DEF Undisturbed, StartCall
    <3> QED
      BY <2>5, <3>2, UndisturbedWaits
  <2> QED
    BY <2>7, <2>8
<1>5. ASSUME NEW s \in Sockets, Deliver(s) PROVE Waiting'
  BY <1>5, DeliverUndisturbed, DeliverLinked, UndisturbedWaits
<1>6. ASSUME NEW s \in Sockets, Pong(s) PROVE Waiting'
  BY <1>6, PongUndisturbed, UndisturbedWaits DEF Pong
<1>7. ASSUME NEW s \in Sockets, Drop(s) PROVE Waiting'
  <2>1. link'.client.running = link.client.running
    BY <1>7, HandleCloseDrops DEF Drop, Typed
  <2> QED
    BY <1>7, <2>1, DropUndisturbed, UndisturbedWaits
<1>8. CASE Silence
  <2>1. user'.boot \in {user.boot, NoBoot}
    BY <1>8, SilenceTyped
  <2>2. Undisturbed
    BY <1>8, <2>1, StartIsCaller DEF Silence, Undisturbed, StartCall
  <2> QED
    BY <1>8, <2>2, TriggerLinked, UndisturbedWaits DEF Silence
<1>9. CASE RedialTimer
  <2>1. user'.boot \in {user.boot, NoBoot}
    BY <1>9, NotifiedKeeps DEF RedialTimer, Typed
  <2>2. Undisturbed
    BY <1>9, <2>1, StartIsCaller DEF RedialTimer, Undisturbed, StartCall
  <2>3. link'.client.running = link.client.running
    BY <1>9, RedialDials DEF RedialTimer, Typed
  <2> QED
    BY <2>2, <2>3, UndisturbedWaits
<1>10. ASSUME NEW u, Fail(u) PROVE link'.client.running = link.client.running
  BY <1>10, TriggerLinked DEF Fail
<1>11. CASE BootTimeout
  BY <1>10, <1>11, FailUndisturbed, UndisturbedWaits DEF BootTimeout, Typed
<1>12. ASSUME NEW i \in Slots, Ask(i) \/ Answer(i) PROVE Waiting'
  BY <1>12, AskUndisturbed, UndisturbedWaits DEF Ask, Answer
<1>13. ASSUME NEW i \in Slots, LandBegin(i) PROVE Waiting'
  <2>1. /\ user'.boot.waiters \in {{calls[i].by} \cap Callers, {"nobody"}}
        /\ calls'[i] = NoCall /\ \A k \in Slots \ {i} : calls'[k].by = calls[k].by
    BY <1>13, LandBeginFields
  <2>2. caller' = caller
    BY <1>13 DEF LandBegin
  <2>3. link'.client.running \/ ~link.client.running
    <3>1. link' = StartClient(link) \/ link' = link
      BY <1>13 DEF LandBegin
    <3> QED
      BY <3>1, StartDials DEF Typed
  <2>4. CASE StartCall(i)
    <3>1. caller["start"] = "waiting" /\ \A k \in Slots : StartCall(k) => k = i
      BY <2>4 DEF Waiting
    <3>2. link.client.running
      BY <3>1 DEF Waiting
    <3> QED
      BY <2>1, <2>2, <2>3, <3>1, <3>2, NoCallTyped DEF Waiting, StartCall
  <2>5. CASE ~StartCall(i)
    <3>1. "start" \notin user'.boot.waiters
      BY <2>1, <2>5 DEF StartCall
    <3>2. Undisturbed
      BY <2>1, <2>2, <3>1, NoCallTyped DEF Undisturbed, StartCall
    <3> QED
      BY <2>3, <3>2, UndisturbedWaits
  <2> QED
    BY <2>4, <2>5
<1>14. ASSUME NEW i \in Slots, LandFinal(i) PROVE Waiting'
  <2>1. link'.client.running = link.client.running
    BY <1>10, <1>14 DEF LandFinal
  <2> QED
    BY <1>14, <2>1, LandFinalUndisturbed, UndisturbedWaits
<1>15. ASSUME NEW i \in Slots, RestFails(i) PROVE Waiting'
  <2>0. /\ calls'[i] = NoCall /\ \A k \in Slots \ {i} : calls'[k] = calls[k]
    BY <1>15 DEF RestFails, Typed
  <2>1. CASE Fail(user)
    BY <1>10, <2>0, <2>1, FailUndisturbed, UndisturbedWaits DEF Typed
  <2>2. CASE /\ user'.boot = user.boot /\ link' = link
             /\ \A w \in Callers : w # calls[i].by => caller'[w] = caller[w]
    <3>1. CASE StartCall(i)
      <4>1. caller["start"] = "waiting" /\ \A k \in Slots : StartCall(k) => k = i
        BY <3>1 DEF Waiting
      <4>2. link.client.running
        BY <4>1 DEF Waiting
      <4> QED
        BY <2>0, <2>2, <4>1, <4>2, NoCallTyped DEF Waiting, StartCall
    <3>2. CASE ~StartCall(i)
      <4>1. Undisturbed
        BY <2>0, <2>2, <3>2, NoCallTyped, StartIsCaller DEF Undisturbed, StartCall
      <4> QED
        BY <2>2, <4>1, UndisturbedWaits
    <3> QED
      BY <3>1, <3>2
  <2> QED
    BY <1>15, <2>1, <2>2, RestFailsFields
<1>16. ASSUME NEW o \in Orders, OrderMoves(o) PROVE Waiting'
  BY <1>16, OrderMovesLinked DEF OrderMoves, Waiting, StartCall
<1>17. CASE UNCHANGED vars
  BY <1>17 DEF vars, Waiting, StartCall
<1> QED
  BY <1>1, <1>2, <1>3, <1>4, <1>5, <1>6, <1>7, <1>8, <1>9, <1>11, <1>12, <1>13, <1>14, <1>15,
     <1>16, <1>17 DEF Next

LEMMA AskingStep ==
  ASSUME UserStreamAssumption, ~LateClose, Typed, Cuts, Linked(link), Waiting, Asking, [Next]_vars
  PROVE  Asking'
<1>0. CASE link' = link /\ user'.needs = user.needs
  BY <1>0 DEF Asking
<1>1. CASE Start
  BY <1>1, StartSubsides DEF Asking
<1>2. CASE Sync
  <2>1. user'.needs = user.needs
    BY <1>2, SyncUndisturbed
  <2>2. CASE IsOpen(link)
    BY <1>0, <1>2, <2>1, <2>2 DEF Sync
  <2>3. CASE ~IsOpen(link)
    <3>1. NoneClosing(link) /\ link.client.running
      BY <1>2, <2>3, PromptMeans DEF Sync, Waiting
    <3> QED
      BY <2>1, <2>3, <3>1 DEF Asking
  <2> QED
    BY <2>2, <2>3
<1>3. CASE Stop
  BY <1>3, StopsLinked DEF Stop, Typed, Asking
<1>4. ASSUME NEW s \in Sockets, Open(s) PROVE Asking'
  BY <1>4, OpensLinked DEF Open, Typed, Asking
<1>5. ASSUME NEW s \in Sockets, Deliver(s) PROVE Asking'
  BY <1>5, DeliverUndisturbed, DeliverLinked DEF Asking
<1>6. ASSUME NEW s \in Sockets, Pong(s) PROVE Asking'
  BY <1>0, <1>6, PongUndisturbed DEF Pong
<1>7. ASSUME NEW s \in Sockets, Drop(s) PROVE Asking'
  BY <1>7, DropTyped DEF Asking
<1>8. CASE Silence
  BY <1>8, TriggerLinked DEF Silence, Asking
<1>9. CASE RedialTimer
  <2>1. NoneClosing(link) /\ link' = Redial(link)
    BY <1>9, PromptMeans DEF RedialTimer
  <2>2. IsOpen(link) => IsOpen(link')
    BY <2>1, DialLinked
  <2>3. link'.client.running = link.client.running
    BY <2>1, RedialDials DEF Typed
  <2>4. user'.needs = user.needs
    BY <1>9, NotifiedKeeps DEF RedialTimer, Typed
  <2> QED
    BY <2>1, <2>2, <2>3, <2>4 DEF Asking
<1>10. ASSUME NEW u \in Users, u.needs = user.needs, Fail(u) PROVE Asking'
  <2>1. user'.needs = user.needs
    BY <1>10, FailTyped
  <2> QED
    BY <1>10, <2>1, TriggerLinked DEF Fail, Asking
<1>11. CASE BootTimeout
  BY <1>10, <1>11 DEF BootTimeout, Typed
<1>12. ASSUME NEW i \in Slots, Ask(i) \/ Answer(i) PROVE Asking'
  BY <1>0, <1>12 DEF Ask, Answer
<1>13. ASSUME NEW i \in Slots, LandBegin(i) PROVE Asking'
  <2>1. user'.needs = user.needs
    BY <1>13, LandBeginFields
  <2>2. CASE link' = link
    BY <1>0, <2>1, <2>2
  <2>3. CASE link' # link
    <3>1. link.client.running /\ ~IsOpen(link) /\ NoneClosing(link)
      BY <1>13, <2>3, PromptMeans DEF LandBegin
    <3> QED
      BY <2>1, <3>1 DEF Asking
  <2> QED
    BY <2>2, <2>3
<1>14. ASSUME NEW i \in Slots, LandFinal(i) PROVE Asking'
  <2>1. CASE \E u \in Users : Fail(u) /\ u.needs = user.needs
    BY <1>10, <2>1
  <2>2. CASE /\ Boot(user) /\ link' = link
             /\ \E v \in Users : /\ v.needs = user.needs
                                 /\ user' = ApplyAll(v, SubSeq(user.boot.buffer, calls[i].cut + 1,
                                                               Len(user.boot.buffer)))
    <3> DEFINE rest == SubSeq(user.boot.buffer, calls[i].cut + 1, Len(user.boot.buffer))
    <3>1. rest \in Seq(Events)
      BY <2>2, PartsTyped DEF Cuts
    <3>2. PICK v \in Users : v.needs = user.needs /\ user' = ApplyAll(v, rest)
      BY <2>2
    <3> HIDE DEF rest
    <3>3. user'.needs = user.needs
      BY <3>1, <3>2, ApplyAllKeeps
    <3> QED
      BY <1>0, <2>2, <3>3
  <2> QED
    BY <1>14, <2>1, <2>2, LandFinalFields
<1>15. ASSUME NEW i \in Slots, RestFails(i) PROVE Asking'
  <2>1. CASE Fail(user)
    BY <1>10, <2>1 DEF Typed
  <2>2. CASE user'.needs = user.needs /\ link' = link
    BY <1>0, <2>2
  <2> QED
    BY <1>15, <2>1, <2>2, RestFailsFields
<1>16. ASSUME NEW o \in Orders, OrderMoves(o) PROVE Asking'
  BY <1>16, OrderMovesLinked DEF OrderMoves, Asking
<1>17. CASE UNCHANGED vars
  BY <1>0, <1>17 DEF vars
<1> QED
  BY <1>1, <1>2, <1>3, <1>4, <1>5, <1>6, <1>7, <1>8, <1>9, <1>11, <1>12, <1>13, <1>14, <1>15,
     <1>16, <1>17 DEF Next

-----------------------------------------------------------------------------
(* The calls                                                                *)

Asked(i) == calls[i].job = "finalize" /\ calls[i].at \in {"asked", "answered"}

\* While a bootstrap is begun or there is one, the fields are not trusted.
Distrusts == Boot(user) \/ (\E i \in Slots : calls[i].job = "begin") => ~user.trusted

\* No bootstrap begins while a finalization waits for its listing.
Exclusive == \A i, j \in Slots : Asked(i) => calls[j].job # "begin"

\* A listing holds orders that were open when it was made.
Listings == \A i \in Slots : calls[i].at = "answered" => \A o \in calls[i].listing : venue[o] # 0

\* What most steps do to the calls.
Fewer ==
  \A i \in Slots :
    \/ calls'[i] = NoCall
    \/ /\ calls'[i].job = calls[i].job /\ calls'[i].at = calls[i].at
       /\ calls'[i].listing = calls[i].listing

LEMMA FewerListings ==
  ASSUME Typed, Exclusive, Listings, Fewer, \A o \in Orders : venue[o] # 0 => venue'[o] # 0
  PROVE  Exclusive' /\ Listings'
<1>1. \A i \in Slots : Asked(i)' => Asked(i)
  BY NoCallTyped DEF Fewer, Asked
<1>2. \A j \in Slots : calls'[j].job = "begin" => calls[j].job = "begin"
  BY NoCallTyped DEF Fewer
<1>3. \A i \in Slots : calls'[i].at = "answered" =>
        calls[i].at = "answered" /\ calls'[i].listing = calls[i].listing
  BY NoCallTyped DEF Fewer
<1>4. \A i \in Slots : calls[i].listing \subseteq Orders
  BY DEF Typed, CallRecords
<1>5. Exclusive'
  BY <1>1, <1>2 DEF Exclusive
<1>6. Listings'
  BY <1>3, <1>4 DEF Listings
<1> QED
  BY <1>5, <1>6

\* A step that adds calls which have no answer yet.
LEMMA MoreListings ==
  ASSUME Typed, Exclusive, Listings, venue' = venue,
         \A i \in Slots : calls'[i] # calls[i] => ~Asked(i)' /\ calls'[i].at # "answered",
         \/ \A j \in Slots : calls'[j].job = "begin" => calls[j].job = "begin"
         \/ \A i \in Slots : calls[i].job # "finalize"
  PROVE  Exclusive' /\ Listings'
<1>1. Listings'
  BY DEF Listings
<1>2. \A i \in Slots : Asked(i)' => Asked(i)
  BY DEF Asked
<1>3. Exclusive'
  BY <1>2 DEF Exclusive, Asked
<1> QED
  BY <1>1, <1>3

LEMMA FewerSteps ==
  ASSUME Typed,
         \/ Start \/ Stop \/ Silence \/ RedialTimer \/ BootTimeout \/ UNCHANGED vars
         \/ Sync /\ ~IsOpen(link)
         \/ \E s \in Sockets : Drop(s)
         \/ \E i \in Slots : LandFinal(i) \/ RestFails(i)
         \/ \E o \in Orders : OrderMoves(o)
  PROVE  \A i \in Slots : calls'[i] = NoCall \/ calls'[i] = calls[i]
<1>1. CASE calls' = calls
  BY <1>1
<1>2. CASE \E i \in Slots : calls' = [calls EXCEPT ![i] = NoCall]
  BY <1>2 DEF Typed
<1> QED
  BY <1>1, <1>2 DEF Start, Stop, Silence, RedialTimer, BootTimeout, vars, Sync, Drop, LandFinal,
     RestFails, OrderMoves

LEMMA ListingsStep ==
  ASSUME UserStreamAssumption, ~Overlap, Typed, Exclusive, Listings, [Next]_vars
  PROVE  Exclusive' /\ Listings'
<1>0. ASSUME venue' = venue, Fewer PROVE Exclusive' /\ Listings'
  BY <1>0, FewerListings
<1>1. ASSUME venue' = venue, \A i \in Slots : calls'[i] = NoCall \/ calls'[i] = calls[i]
      PROVE  Exclusive' /\ Listings'
  BY <1>0, <1>1 DEF Fewer
<1>2. CASE Start \/ Stop \/ Silence \/ RedialTimer \/ BootTimeout \/ UNCHANGED vars
  <2>1. venue' = venue
    BY <1>2 DEF Start, Stop, Silence, RedialTimer, BootTimeout, vars
  <2> QED
    BY <1>1, <1>2, <2>1, FewerSteps
<1>3. CASE Sync
  <2>1. CASE IsOpen(link)
    <3>1. Begin(user, caller, {"sync"}) /\ venue' = venue
      BY <1>3, <2>1 DEF Sync
    <3>2. \A i \in Slots : calls[i].job # "finalize"
      BY <3>1 DEF Begin
    <3>3. \A i \in Slots : calls'[i] # calls[i] => calls'[i].job = "begin" /\ calls'[i].at = "asked"
      BY <3>1, BeginCalls DEF Typed
    <3> QED
      BY <3>1, <3>2, <3>3, MoreListings DEF Asked
  <2>2. CASE ~IsOpen(link)
    BY <1>1, <1>3, <2>2, FewerSteps DEF Sync
  <2> QED
    BY <2>1, <2>2
<1>4. ASSUME NEW s \in Sockets, Open(s) PROVE Exclusive' /\ Listings'
  <2>1. PICK u \in Users, c \in [Callers -> CallerStates], who \in SUBSET {"open", "start", "sync"} :
          Begin(u, c, who)
    BY <1>4, OpenBegins
  <2>2. \A i \in Slots : calls'[i] # calls[i] =>
          calls'[i].job = "begin" /\ calls'[i].by \in who /\ calls'[i].at = "asked"
    BY <2>1, BeginCalls DEF Typed
  <2>3. who = {} \/ \A i \in Slots : calls[i].job # "finalize"
    BY <2>1 DEF Begin
  <2>4. \/ \A j \in Slots : calls'[j].job = "begin" => calls[j].job = "begin"
        \/ \A i \in Slots : calls[i].job # "finalize"
    BY <2>2, <2>3
  <2> QED
    BY <1>4, <2>2, <2>4, MoreListings DEF Asked, Open
<1>5. ASSUME NEW s \in Sockets, Deliver(s) \/ Pong(s) PROVE Exclusive' /\ Listings'
  <2>1. \A i \in Slots : calls'[i] # calls[i] => calls'[i].job = "finalize" /\ calls'[i].at = "delay"
    BY <1>5, TrafficCalls DEF Deliver, Pong
  <2>2. venue' = venue
    BY <1>5 DEF Deliver, Pong
  <2> QED
    BY <2>1, <2>2, MoreListings DEF Asked
<1>6. ASSUME NEW s \in Sockets, Drop(s) PROVE Exclusive' /\ Listings'
  BY <1>1, <1>6, FewerSteps DEF Drop
<1>7. ASSUME NEW i \in Slots, Ask(i) PROVE Exclusive' /\ Listings'
  <2>1. /\ \A k \in Slots \ {i} : calls'[k] = calls[k]
        /\ calls'[i].at = "asked" /\ calls'[i].job = calls[i].job
    BY <1>7, AskCalls
  <2>2. \A k \in Slots : calls[k].job # "begin"
    BY <1>7 DEF Ask
  <2>3. Exclusive'
    BY <2>1, <2>2 DEF Exclusive
  <2>4. Listings'
    BY <1>7, <2>1 DEF Listings, Ask
  <2> QED
    BY <2>3, <2>4
<1>8. ASSUME NEW i \in Slots, Answer(i) PROVE Exclusive' /\ Listings'
  <2>1. /\ \A k \in Slots \ {i} : calls'[k] = calls[k]
        /\ calls'[i].at = "answered" /\ calls'[i].job = calls[i].job
        /\ calls'[i].listing = Listed
    BY <1>8, AnswerCalls
  <2>2. calls[i].at = "asked" /\ venue' = venue
    BY <1>8 DEF Answer
  <2>3. Exclusive'
    BY <2>1, <2>2 DEF Exclusive, Asked
  <2>4. \A o \in Listed : venue[o] # 0
    BY DEF Listed
  <2>5. Listings'
    BY <2>1, <2>2, <2>4 DEF Listings
  <2> QED
    BY <2>3, <2>5
<1>9. ASSUME NEW i \in Slots, LandBegin(i) PROVE Exclusive' /\ Listings'
  <2>1. Fewer
    BY <1>9, LandBeginFields DEF Fewer
  <2> QED
    BY <1>0, <1>9, <2>1 DEF LandBegin
<1>10. ASSUME NEW i \in Slots, LandFinal(i) \/ RestFails(i) PROVE Exclusive' /\ Listings'
  <2>1. venue' = venue
    BY <1>10 DEF LandFinal, RestFails
  <2> QED
    BY <1>1, <1>10, <2>1, FewerSteps
<1>11. ASSUME NEW o \in Orders, OrderMoves(o) PROVE Exclusive' /\ Listings'
  <2>1. \A x \in Orders : venue[x] # 0 => venue'[x] # 0
    <3>1. venue' = [venue EXCEPT ![o] = venue[o] + 1] /\ venue \in [Orders -> 0 .. 2]
      BY <1>11, MovesTyped DEF Typed
    <3>2. venue[o] + 1 # 0
      BY <3>1
    <3> QED
      BY <3>1, <3>2
  <2>2. Fewer
    BY <1>11 DEF Fewer, OrderMoves
  <2> QED
    BY <2>1, <2>2, FewerListings
<1> QED
  BY <1>2, <1>3, <1>4, <1>5, <1>6, <1>7, <1>8, <1>9, <1>10, <1>11 DEF Next

LEMMA DistrustsStep ==
  ASSUME UserStreamAssumption, ~Overlap, Typed, Cuts, Distrusts, Exclusive, [Next]_vars
  PROVE  Distrusts'
<1>0. ASSUME Subsides, \A j \in Slots : calls'[j].job = "begin" => calls[j].job = "begin"
      PROVE  Distrusts'
  BY <1>0 DEF Subsides, Distrusts, Boot
<1>1. ASSUME Subsides, \A i \in Slots : calls'[i] = NoCall \/ calls'[i] = calls[i]
      PROVE  Distrusts'
  BY <1>0, <1>1, NoCallTyped
<1>2. ASSUME ~user'.trusted PROVE Distrusts'
  BY <1>2 DEF Distrusts
<1>3. CASE Start
  BY <1>2, <1>3, StartSubsides
<1>4. CASE Sync
  <2>1. CASE IsOpen(link)
    BY <1>2, <1>4, <2>1, BeginFields DEF Sync, Typed
  <2>2. CASE ~IsOpen(link)
    BY <1>1, <1>4, <2>2, SyncSubsides, FewerSteps
  <2> QED
    BY <2>1, <2>2
<1>5. CASE Stop
  BY <1>2, <1>5, StopSubsides
<1>6. ASSUME NEW s \in Sockets, Open(s) PROVE Distrusts'
  BY <1>2, <1>6, OpenSubsides
<1>7. ASSUME NEW s \in Sockets, Deliver(s) PROVE Distrusts'
  <2>1. \A i \in Slots : calls'[i] # calls[i] => calls'[i].job = "finalize"
    BY <1>7, TrafficCalls DEF Deliver
  <2>2. PICK e \in Events : /\ ~Boot(user) => user' = Apply(user, e)
                            /\ Boot(user) => user'.trusted = user.trusted
    BY <1>7, DeliverFields
  <2>3. CASE Boot(user)
    BY <1>2, <2>2, <2>3 DEF Distrusts
  <2>4. CASE ~Boot(user)
    <3>1. user'.boot = user.boot /\ user'.trusted = user.trusted
      <4>1. user' = Apply(user, e)
        BY <2>2, <2>4
      <4>2. Apply(user, e).boot = user.boot
        BY ApplyKeeps DEF Typed
      <4>3. Apply(user, e).trusted = user.trusted
        BY ApplyKeeps DEF Typed
      <4> QED
        BY <4>1, <4>2, <4>3
    <3> QED
      BY <2>1, <3>1 DEF Distrusts, Boot
  <2> QED
    BY <2>3, <2>4
<1>8. ASSUME NEW s \in Sockets, Pong(s) PROVE Distrusts'
  <2>1. \A i \in Slots : calls'[i] # calls[i] => calls'[i].job = "finalize"
    BY <1>8, TrafficCalls DEF Pong
  <2> QED
    BY <1>0, <1>8, <2>1, PongSubsides
<1>9. ASSUME NEW s \in Sockets, Drop(s) PROVE Distrusts'
  BY <1>2, <1>9, DropTyped
<1>10. CASE Silence
  BY <1>2, <1>10, SilenceTyped
<1>11. CASE RedialTimer
  BY <1>1, <1>11, RedialSubsides, FewerSteps
<1>12. CASE BootTimeout
  BY <1>1, <1>12, FailSubsides, FewerSteps DEF BootTimeout, Typed
<1>13. ASSUME NEW i \in Slots, Ask(i) \/ Answer(i) PROVE Distrusts'
  <2>1. \A k \in Slots : calls'[k].job = calls[k].job
    BY <1>13, AskCalls, AnswerCalls
  <2> QED
    BY <1>13, <2>1 DEF Distrusts, Ask, Answer
<1>14. ASSUME NEW i \in Slots, LandBegin(i) PROVE Distrusts'
  <2>1. ~user.trusted
    BY <1>14 DEF LandBegin, Distrusts
  <2> QED
    BY <1>2, <1>14, <2>1, LandBeginFields
<1>15. ASSUME NEW i \in Slots, LandFinal(i) PROVE Distrusts'
  <2>1. \A k \in Slots : calls'[k] = NoCall \/ calls'[k] = calls[k]
    BY <1>15, FewerSteps
  <2>2. CASE \E u \in Users : Fail(u) /\ u.trusted = user.trusted
    BY <1>1, <2>1, <2>2, FailSubsides
  <2>3. CASE Boot(user) /\ \E v \in Users :
               /\ v.boot = NoBoot
               /\ user' = ApplyAll(v, SubSeq(user.boot.buffer, calls[i].cut + 1,
                                             Len(user.boot.buffer)))
    <3> DEFINE rest == SubSeq(user.boot.buffer, calls[i].cut + 1, Len(user.boot.buffer))
    <3>1. rest \in Seq(Events)
      BY <2>3, PartsTyped DEF Cuts
    <3>2. PICK v \in Users : v.boot = NoBoot /\ user' = ApplyAll(v, rest)
      BY <2>3
    <3> HIDE DEF rest
    <3>3. user'.boot = NoBoot
      BY <3>1, <3>2, ApplyAllKeeps
    <3>4. Asked(i)
      BY <1>15 DEF LandFinal, Asked
    <3>5. \A k \in Slots : calls'[k].job # "begin"
      BY <2>1, <3>4, NoCallTyped DEF Exclusive
    <3> QED
      BY <3>3, <3>5 DEF Distrusts, Boot
  <2> QED
    BY <1>15, <2>2, <2>3, LandFinalFields
<1>16. ASSUME NEW i \in Slots, RestFails(i) PROVE Distrusts'
  <2>1. \A k \in Slots : calls'[k] = NoCall \/ calls'[k] = calls[k]
    BY <1>16, FewerSteps
  <2>2. CASE Fail(user)
    BY <1>1, <2>1, <2>2, FailSubsides DEF Typed
  <2>3. CASE user'.boot = user.boot /\ user'.trusted = user.trusted
    BY <2>1, <2>3, NoCallTyped DEF Distrusts, Boot
  <2> QED
    BY <1>16, <2>2, <2>3, RestFailsFields
<1>17. ASSUME NEW o \in Orders, OrderMoves(o) PROVE Distrusts'
  BY <1>17 DEF OrderMoves, Distrusts
<1>18. CASE UNCHANGED vars
  BY <1>18 DEF vars, Distrusts
<1> QED
  BY <1>3, <1>4, <1>5, <1>6, <1>7, <1>8, <1>9, <1>10, <1>11, <1>12, <1>13, <1>14, <1>15, <1>16,
     <1>17, <1>18 DEF Next

-----------------------------------------------------------------------------
(* What is still to come                                                    *)

\* What the service will see: its buffer, then what its socket has not delivered.
Chan == link.sockets[link.client.socket].chan
Stream == IF Boot(user) THEN user.boot.buffer \o Chan ELSE Chan

\* No event is ahead of the venue v, and where one is behind, a later one tells.
Fit(q, v) ==
  \A p \in 1 .. Len(q) :
    /\ q[p][2] <= v[q[p][1]]
    /\ q[p][2] = 1 /\ v[q[p][1]] = 2 => \E r \in 1 .. Len(q) : r > p /\ q[r] = <<q[p][1], 2>>

ToCome(q, n, e) == \E p \in 1 .. Len(q) : p > n /\ q[p] = e

\* The orders os are those of v as soon as the events of q after n are applied.
Shown(os, q, n, v) ==
  \A o \in Orders :
    /\ o \in os => v[o] # 0
    /\ v[o] = 1 => o \in os \/ ToCome(q, n, <<o, 1>>)
    /\ v[o] = 2 => o \notin os \/ ToCome(q, n, <<o, 2>>)

\* No cursor is ahead of the venue.
Behind(c, v) == \A o \in Orders : c[o] <= v[o]

Venues == [Orders -> 0 .. 2]

\* r is what is left of q after its first k events.
After(r, q, k) == Len(r) = Len(q) - k /\ \A p \in 1 .. Len(r) : r[p] = q[p + k]

LEMMA FitAfter ==
  ASSUME NEW q \in Seq(Events), NEW r \in Seq(Events), NEW k \in 0 .. Len(q), NEW v \in Venues,
         Fit(q, v), After(r, q, k)
  PROVE  Fit(r, v)
<1>0. Len(q) \in Nat /\ Len(r) \in Nat /\ Len(r) = Len(q) - k
  BY DEF After
<1> SUFFICES ASSUME NEW p \in 1 .. Len(r)
             PROVE  /\ r[p][2] <= v[r[p][1]]
                    /\ r[p][2] = 1 /\ v[r[p][1]] = 2 =>
                         \E s \in 1 .. Len(r) : s > p /\ r[s] = <<r[p][1], 2>>
  BY DEF Fit
<1>1. p + k \in 1 .. Len(q) /\ r[p] = q[p + k]
  BY <1>0 DEF After
<1>2. r[p][2] <= v[r[p][1]]
  BY <1>1 DEF Fit
<1>3. ASSUME r[p][2] = 1, v[r[p][1]] = 2
      PROVE  \E s \in 1 .. Len(r) : s > p /\ r[s] = <<r[p][1], 2>>
  <2>1. PICK s \in 1 .. Len(q) : s > p + k /\ q[s] = <<r[p][1], 2>>
    BY <1>1, <1>3 DEF Fit
  <2>2. s - k \in 1 .. Len(r) /\ s - k > p /\ (s - k) + k = s
    BY <1>0, <2>1
  <2>3. r[s - k] = <<r[p][1], 2>>
    BY <2>1, <2>2 DEF After
  <2> QED
    BY <2>2, <2>3
<1> QED
  BY <1>2, <1>3

LEMMA ShownAfter ==
  ASSUME NEW q \in Seq(Events), NEW r \in Seq(Events), NEW k \in 0 .. Len(q),
         NEW os, NEW v \in Venues, Shown(os, q, k, v), After(r, q, k)
  PROVE  Shown(os, r, 0, v)
<1>0. Len(q) \in Nat /\ Len(r) \in Nat /\ Len(r) = Len(q) - k
  BY DEF After
<1>1. ASSUME NEW e, ToCome(q, k, e) PROVE ToCome(r, 0, e)
  <2>1. PICK p \in 1 .. Len(q) : p > k /\ q[p] = e
    BY <1>1 DEF ToCome
  <2>2. p - k \in 1 .. Len(r) /\ (p - k) + k = p /\ p - k > 0
    BY <1>0, <2>1
  <2>3. r[p - k] = e
    BY <2>1, <2>2 DEF After
  <2> QED
    BY <2>2, <2>3 DEF ToCome
<1> QED
  BY <1>1 DEF Shown

LEMMA TailAfter ==
  ASSUME NEW q \in Seq(Events), q # <<>>
  PROVE  /\ Tail(q) \in Seq(Events) /\ After(Tail(q), q, 1)
         /\ 1 \in 0 .. Len(q) /\ Head(q) = q[1] /\ Len(q) >= 1
<1>1. Len(q) \in Nat /\ Len(q) >= 1
  BY EmptySeq
<1>2. /\ Tail(q) \in Seq(Events) /\ Len(Tail(q)) = Len(q) - 1
      /\ \A i \in 1 .. Len(Tail(q)) : Tail(q)[i] = q[i + 1]
  BY HeadTailProperties
<1>3. Head(q) = q[1]
  OBVIOUS
<1> QED
  BY <1>1, <1>2, <1>3 DEF After

LEMMA ConcatAfter ==
  ASSUME NEW b \in Seq(Events), NEW c \in Seq(Events)
  PROVE  /\ b \o c \in Seq(Events) /\ After(c, b \o c, Len(b)) /\ Len(b) \in 0 .. Len(b \o c)
         /\ Len(b \o c) = Len(b) + Len(c)
         /\ \A p \in 1 .. Len(b) : (b \o c)[p] = b[p]
<1>1. Len(b) \in Nat /\ Len(c) \in Nat
  OBVIOUS
<1>2. /\ b \o c \in Seq(Events) /\ Len(b \o c) = Len(b) + Len(c)
      /\ \A i \in 1 .. Len(b) + Len(c) :
           (b \o c)[i] = IF i <= Len(b) THEN b[i] ELSE c[i - Len(b)]
  BY ConcatProperties
<1>3. ASSUME NEW p \in 1 .. Len(c) PROVE c[p] = (b \o c)[p + Len(b)]
  <2>1. p + Len(b) \in 1 .. Len(b) + Len(c) /\ ~(p + Len(b) <= Len(b))
        /\ (p + Len(b)) - Len(b) = p
    BY <1>1
  <2> QED
    BY <1>2, <2>1
<1>4. \A p \in 1 .. Len(b) : (b \o c)[p] = b[p]
  BY <1>1, <1>2
<1>5. Len(c) = Len(b \o c) - Len(b) /\ Len(b) \in 0 .. Len(b \o c)
  BY <1>1, <1>2
<1> QED
  BY <1>2, <1>3, <1>4, <1>5 DEF After

\* An order moves at the venue and its event joins the stream.
Moved(v, o) == [v EXCEPT ![o] = v[o] + 1]

LEMMA MovedVenue ==
  ASSUME NEW v \in Venues, NEW o \in Orders, v[o] \in {0, 1}
  PROVE  /\ Moved(v, o)[o] = v[o] + 1 /\ \A x \in Orders \ {o} : Moved(v, o)[x] = v[x]
         /\ \A x \in Orders : v[x] \in 0 .. 2 /\ Moved(v, o)[x] \in 0 .. 2
         /\ <<o, v[o] + 1>> \in Events
BY DEF Moved, Venues, Events

LEMMA FitMoves ==
  ASSUME NEW q \in Seq(Events), NEW v \in Venues, NEW o \in Orders, v[o] \in {0, 1}, Fit(q, v)
  PROVE  Fit(Append(q, <<o, v[o] + 1>>), Moved(v, o))
<1> DEFINE e == <<o, v[o] + 1>>
           w == Moved(v, o)
           t == Append(q, e)
<1>1. /\ w[o] = v[o] + 1 /\ \A x \in Orders \ {o} : w[x] = v[x]
      /\ \A x \in Orders : v[x] \in 0 .. 2 /\ w[x] \in 0 .. 2
      /\ e \in Events
  BY MovedVenue
<1>2. Len(q) \in Nat /\ Len(t) = Len(q) + 1 /\ t[Len(q) + 1] = e
      /\ \A p \in 1 .. Len(q) : t[p] = q[p]
  BY <1>1, AppendProperties
<1>2a. e[1] = o /\ e[2] = v[o] + 1
  OBVIOUS
<1> HIDE DEF w, t, e
<1> SUFFICES ASSUME NEW p \in 1 .. Len(t)
             PROVE  /\ t[p][2] <= w[t[p][1]]
                    /\ t[p][2] = 1 /\ w[t[p][1]] = 2 =>
                         \E s \in 1 .. Len(t) : s > p /\ t[s] = <<t[p][1], 2>>
  BY DEF Fit, t, w, e
<1>3. CASE p \in 1 .. Len(q)
  <2>1. t[p] = q[p] /\ q[p] \in Events
    BY <1>2, <1>3
  <2>2. q[p][1] \in Orders /\ q[p][2] \in {1, 2}
    BY <2>1, EventsTyped
  <2>3. q[p][2] <= v[q[p][1]]
    BY <1>3 DEF Fit
  <2>4. t[p][2] <= w[t[p][1]]
    BY <1>1, <2>1, <2>2, <2>3
  <2>5. ASSUME t[p][2] = 1, w[t[p][1]] = 2
        PROVE  \E s \in 1 .. Len(t) : s > p /\ t[s] = <<t[p][1], 2>>
    <3>1. CASE q[p][1] = o
      <4>1. v[o] + 1 = 2
        BY <1>1, <2>1, <2>5, <3>1
      <4>2. e = <<t[p][1], 2>>
        BY <2>1, <3>1, <4>1 DEF e
      <4>3. Len(q) + 1 \in 1 .. Len(t) /\ Len(q) + 1 > p
        BY <1>2, <1>3
      <4> QED
        BY <1>2, <4>2, <4>3
    <3>2. CASE q[p][1] # o
      <4>1. v[q[p][1]] = 2
        BY <1>1, <2>1, <2>2, <2>5, <3>2
      <4>2. PICK s \in 1 .. Len(q) : s > p /\ q[s] = <<q[p][1], 2>>
        BY <1>3, <2>1, <2>5, <4>1 DEF Fit
      <4>3. s \in 1 .. Len(t) /\ t[s] = q[s]
        BY <1>2
      <4> QED
        BY <2>1, <4>2, <4>3
    <3> QED
      BY <3>1, <3>2
  <2> QED
    BY <2>4, <2>5
<1>4. CASE p = Len(q) + 1
  <2>1. t[p] = e
    BY <1>2, <1>4
  <2>2. t[p][1] = o /\ t[p][2] = w[o]
    BY <1>1, <1>2a, <2>1
  <2>3. t[p][2] <= w[t[p][1]]
    BY <1>1, <2>2
  <2>4. ~(t[p][2] = 1 /\ w[t[p][1]] = 2)
    BY <2>2
  <2> QED
    BY <2>3, <2>4
<1> QED
  BY <1>2, <1>3, <1>4

LEMMA ShownMoves ==
  ASSUME NEW q \in Seq(Events), NEW n \in 0 .. Len(q), NEW v \in Venues, NEW o \in Orders,
         v[o] \in {0, 1}, NEW os, Shown(os, q, n, v)
  PROVE  Shown(os, Append(q, <<o, v[o] + 1>>), n, Moved(v, o))
<1> DEFINE e == <<o, v[o] + 1>>
           w == Moved(v, o)
           t == Append(q, e)
<1>1. /\ w[o] = v[o] + 1 /\ \A x \in Orders \ {o} : w[x] = v[x]
      /\ \A x \in Orders : v[x] \in 0 .. 2 /\ w[x] \in 0 .. 2
      /\ e \in Events
  BY MovedVenue
<1>2. Len(q) \in Nat /\ Len(t) = Len(q) + 1 /\ t[Len(q) + 1] = e
      /\ \A p \in 1 .. Len(q) : t[p] = q[p]
  BY <1>1, AppendProperties
<1> HIDE DEF w, t, e
<1>3. ASSUME NEW f, ToCome(q, n, f) PROVE ToCome(t, n, f)
  BY <1>2, <1>3 DEF ToCome
<1>4. ToCome(t, n, e)
  <2>1. Len(q) + 1 \in 1 .. Len(t) /\ Len(q) + 1 > n
    BY <1>2
  <2> QED
    BY <1>2, <2>1 DEF ToCome
<1>5. ASSUME NEW x \in Orders
      PROVE  /\ x \in os => w[x] # 0
             /\ w[x] = 1 => x \in os \/ ToCome(t, n, <<x, 1>>)
             /\ w[x] = 2 => x \notin os \/ ToCome(t, n, <<x, 2>>)
  <2>1. CASE x # o
    <3>1. w[x] = v[x]
      BY <1>1, <2>1
    <3>2. /\ x \in os => v[x] # 0
          /\ v[x] = 1 => x \in os \/ ToCome(q, n, <<x, 1>>)
          /\ v[x] = 2 => x \notin os \/ ToCome(q, n, <<x, 2>>)
      BY DEF Shown
    <3> QED
      BY <1>3, <3>1, <3>2
  <2>2. CASE x = o
    <3>1. w[x] # 0 /\ w[x] \in {1, 2} /\ e = <<x, w[x]>>
      BY <1>1, <2>2 DEF e
    <3> QED
      BY <1>4, <3>1
  <2> QED
    BY <2>1, <2>2
<1>6. Shown(os, t, n, w)
  BY <1>5 DEF Shown
<1> QED
  BY <1>6 DEF t, w, e

\* Applying an event of a stream that fits keeps the cursors behind the venue.
LEMMA BehindApplied ==
  ASSUME NEW u \in Users, NEW q \in Seq(Events), NEW p \in 1 .. Len(q), NEW v \in Venues,
         Fit(q, v), Behind(u.cursor, v)
  PROVE  Behind(Apply(u, q[p]).cursor, v)
<1>1. PICK e \in Events : e = q[p]
  OBVIOUS
<1>2. e[1] \in Orders /\ e[2] <= v[e[1]]
  BY <1>1, EventsTyped DEF Fit
<1>3. CASE e[2] < u.cursor[e[1]]
  BY <1>1, <1>3, ApplyKeeps
<1>4. CASE ~(e[2] < u.cursor[e[1]])
  <2>1. PICK c : c = Apply(u, e).cursor
    OBVIOUS
  <2>2. c = [u.cursor EXCEPT ![e[1]] = e[2]] /\ u.cursor \in [Orders -> 0 .. 2]
    BY <1>4, <2>1, ApplyKeeps DEF Users
  <2>3. c[e[1]] = e[2] /\ \A o \in Orders \ {e[1]} : c[o] = u.cursor[o]
    BY <1>2, <2>2
  <2>4. Behind(c, v)
    BY <1>2, <2>3 DEF Behind
  <2> QED
    BY <1>1, <2>1, <2>4
<1> QED
  BY <1>3, <1>4

\* Applying the next event of the stream leaves the rest to come.
LEMMA ShownApplied ==
  ASSUME NEW u \in Users, NEW q \in Seq(Events), NEW n \in 0 .. Len(q), n + 1 <= Len(q),
         NEW v \in Venues, Fit(q, v), Behind(u.cursor, v), Shown(u.orders, q, n, v)
  PROVE  Shown(Apply(u, q[n + 1]).orders, q, n + 1, v)
<1>0. Len(q) \in Nat /\ n + 1 \in 1 .. Len(q)
  OBVIOUS
<1>1. PICK e \in Events : e = q[n + 1]
  BY <1>0
<1>2. e[1] \in Orders /\ e[2] \in {1, 2} /\ e = <<e[1], e[2]>>
  BY EventsTyped
<1>3. /\ e[2] <= v[e[1]]
      /\ e[2] = 1 /\ v[e[1]] = 2 => \E r \in 1 .. Len(q) : r > n + 1 /\ q[r] = <<e[1], 2>>
  BY <1>0, <1>1 DEF Fit
<1>4. \A x \in Orders : v[x] \in 0 .. 2 /\ u.cursor[x] \in 0 .. 2
  BY DEF Venues, Users
<1>5. ASSUME NEW f, ToCome(q, n, f), f # e PROVE ToCome(q, n + 1, f)
  <2>1. PICK p \in 1 .. Len(q) : p > n /\ q[p] = f
    BY <1>5 DEF ToCome
  <2>2. p # n + 1
    BY <1>1, <1>5, <2>1
  <2>3. p > n + 1
    BY <1>0, <2>1, <2>2
  <2> QED
    BY <2>1, <2>3 DEF ToCome
<1>6. ASSUME NEW x \in Orders, x # e[1]
      PROVE  \A y : ToCome(q, n, <<x, y>>) => ToCome(q, n + 1, <<x, y>>)
  BY <1>2, <1>5, <1>6
<1>7. PICK os : os = Apply(u, e).orders
  OBVIOUS
<1>8. CASE e[2] < u.cursor[e[1]]
  <2>1. os = u.orders
    BY <1>7, <1>8, ApplyKeeps
  <2>2. u.cursor[e[1]] <= v[e[1]]
    BY <1>2 DEF Behind
  <2>3. e[2] = 1 /\ v[e[1]] = 2
    BY <1>2, <1>4, <1>8, <2>2
  <2>4. ASSUME NEW x \in Orders
        PROVE  /\ x \in os => v[x] # 0
               /\ v[x] = 1 => x \in os \/ ToCome(q, n + 1, <<x, 1>>)
               /\ v[x] = 2 => x \notin os \/ ToCome(q, n + 1, <<x, 2>>)
    <3>1. /\ x \in u.orders => v[x] # 0
          /\ v[x] = 1 => x \in u.orders \/ ToCome(q, n, <<x, 1>>)
          /\ v[x] = 2 => x \notin u.orders \/ ToCome(q, n, <<x, 2>>)
      BY DEF Shown
    <3>2. CASE x # e[1]
      BY <1>6, <2>1, <3>1, <3>2
    <3>3. CASE x = e[1]
      <4>1. ToCome(q, n + 1, <<x, 2>>)
        BY <1>3, <2>3, <3>3 DEF ToCome
      <4> QED
        BY <2>3, <3>3, <4>1
    <3> QED
      BY <3>2, <3>3
  <2> QED
    BY <1>1, <1>7, <2>4 DEF Shown
<1>9. CASE ~(e[2] < u.cursor[e[1]])
  <2>1. os = IF e[2] = 1 THEN u.orders \cup {e[1]} ELSE u.orders \ {e[1]}
    BY <1>7, <1>9, ApplyKeeps
  <2>2. ASSUME NEW x \in Orders
        PROVE  /\ x \in os => v[x] # 0
               /\ v[x] = 1 => x \in os \/ ToCome(q, n + 1, <<x, 1>>)
               /\ v[x] = 2 => x \notin os \/ ToCome(q, n + 1, <<x, 2>>)
    <3>1. /\ x \in u.orders => v[x] # 0
          /\ v[x] = 1 => x \in u.orders \/ ToCome(q, n, <<x, 1>>)
          /\ v[x] = 2 => x \notin u.orders \/ ToCome(q, n, <<x, 2>>)
      BY DEF Shown
    <3>2. CASE x # e[1]
      <4>1. x \in os <=> x \in u.orders
        BY <2>1, <3>2
      <4> QED
        BY <1>6, <3>1, <3>2, <4>1
    <3>3. CASE x = e[1] /\ e[2] = 1
      <4>1. x \in os
        BY <2>1, <3>3
      <4>2. v[x] # 0
        BY <1>3, <1>4, <3>3
      <4>3. v[x] = 2 => ToCome(q, n + 1, <<x, 2>>)
        BY <1>3, <3>3 DEF ToCome
      <4> QED
        BY <4>1, <4>2, <4>3
    <3>4. CASE x = e[1] /\ e[2] = 2
      <4>1. x \notin os
        BY <2>1, <3>4
      <4>2. v[x] = 2
        BY <1>3, <1>4, <3>4
      <4> QED
        BY <4>1, <4>2
    <3> QED
      BY <1>2, <3>2, <3>3, <3>4
  <2> QED
    BY <1>1, <1>7, <2>2 DEF Shown
<1> QED
  BY <1>8, <1>9

-----------------------------------------------------------------------------
(* Trust                                                                    *)

\* Nothing in the stream of an open socket contradicts the venue.
Fitting == IsOpen(link) => Fit(Stream, venue)

\* A listing that was answered becomes the truth with what the stream brings.
Pending ==
  \A i \in Slots :
    calls[i].job = "finalize" /\ calls[i].at = "answered" /\ Boot(user) /\ IsOpen(link)
      => Shown(calls[i].listing, Stream, calls[i].cut, venue)

\* So do the orders of trusted fields, without a bootstrap.
Shows ==
  user.trusted /\ IsOpen(link) => Shown(user.orders, Chan, 0, venue) /\ Behind(user.cursor, venue)

StreamOK ==
  /\ Chan \in Seq(Events) /\ user.boot.buffer \in Seq(Events) /\ Stream \in Seq(Events)
  /\ venue \in Venues /\ link.client.socket \in Sockets
  /\ Boot(user) => /\ After(Chan, Stream, Len(user.boot.buffer))
                   /\ Len(user.boot.buffer) \in 0 .. Len(Stream)
                   /\ \A p \in 1 .. Len(user.boot.buffer) : Stream[p] = user.boot.buffer[p]
  /\ ~Boot(user) => Stream = Chan

LEMMA StreamTyped ==
  ASSUME Typed, IsOpen(link)
  PROVE  StreamOK
<1>1. link.client.socket \in Sockets
  BY DEF Typed, Links, Client, IsOpen
<1>2. Chan \in Seq(Events) /\ user.boot.buffer \in Seq(Events) /\ venue \in Venues
  BY <1>1 DEF Typed, Links, Socket, Users, Boots, Venues, Chan
<1>3. CASE Boot(user)
  <2>1. Stream = user.boot.buffer \o Chan
    BY <1>3 DEF Stream
  <2> QED
    BY <1>1, <1>2, <1>3, <2>1, ConcatAfter DEF StreamOK
<1>4. CASE ~Boot(user)
  BY <1>1, <1>2, <1>4 DEF Stream, StreamOK
<1> QED
  BY <1>3, <1>4

\* Dropping the buffer drops a part of the stream.
LEMMA FitChan ==
  ASSUME Typed, IsOpen(link), Fitting
  PROVE  Fit(Chan, venue)
<1>1. StreamOK /\ Fit(Stream, venue)
  BY StreamTyped DEF Fitting
<1>2. CASE Boot(user)
  BY <1>1, <1>2, FitAfter DEF StreamOK
<1>3. CASE ~Boot(user)
  BY <1>1, <1>3 DEF StreamOK
<1> QED
  BY <1>2, <1>3

\* No bootstrap starts, and the one there is keeps its buffer.
Drains == Boot(user') => Boot(user) /\ user'.boot.buffer = user.boot.buffer

LEMMA DrainSteps ==
  ASSUME UserStreamAssumption, Typed, Cuts,
         \/ Start \/ Sync \/ Stop \/ Silence \/ RedialTimer \/ BootTimeout
         \/ \E s \in Sockets : Pong(s) \/ Drop(s)
         \/ \E i \in Slots : Ask(i) \/ Answer(i) \/ LandFinal(i) \/ RestFails(i)
         \/ UNCHANGED vars
  PROVE  Drains /\ venue' = venue
<1>0. venue' = venue
  BY DEF Start, Sync, Stop, Silence, RedialTimer, BootTimeout, Pong, Drop, Ask, Answer, LandFinal,
         RestFails, vars
<1>1. ASSUME Subsides PROVE Drains
  BY <1>1 DEF Subsides, Drains
<1>2. ASSUME user'.boot = user.boot \/ user'.boot = NoBoot PROVE Drains
  BY <1>2 DEF Drains, Boot
<1>3. CASE Start \/ Sync \/ Stop \/ Silence \/ RedialTimer
  <2>1. Subsides
    BY <1>3, StartSubsides, SyncSubsides, StopSubsides, SilenceSubsides, RedialSubsides
  <2> QED
    BY <1>0, <1>1, <2>1
<1>4. ASSUME NEW u \in Users, Fail(u) PROVE Drains
  BY <1>2, <1>4, FailTyped
<1>5. CASE BootTimeout
  BY <1>4, <1>5 DEF BootTimeout, Typed
<1>6. ASSUME NEW s \in Sockets, Pong(s) \/ Drop(s) PROVE Drains
  BY <1>1, <1>2, <1>6, PongSubsides, DropTyped
<1>7. ASSUME NEW i \in Slots, Ask(i) \/ Answer(i) PROVE Drains
  BY <1>2, <1>7 DEF Ask, Answer
<1>8. ASSUME NEW i \in Slots, LandFinal(i) PROVE Drains
  <2>1. CASE \E u \in Users : Fail(u)
    BY <1>4, <2>1
  <2>2. CASE Boot(user) /\ \E v \in Users :
               /\ v.boot = NoBoot
               /\ user' = ApplyAll(v, SubSeq(user.boot.buffer, calls[i].cut + 1,
                                             Len(user.boot.buffer)))
    <3> DEFINE rest == SubSeq(user.boot.buffer, calls[i].cut + 1, Len(user.boot.buffer))
    <3>1. rest \in Seq(Events)
      BY <2>2, PartsTyped DEF Cuts
    <3>2. PICK v \in Users : v.boot = NoBoot /\ user' = ApplyAll(v, rest)
      BY <2>2
    <3> HIDE DEF rest
    <3> QED
      BY <1>2, <3>1, <3>2, ApplyAllKeeps
  <2> QED
    BY <1>8, <2>1, <2>2, LandFinalFields
<1>9. ASSUME NEW i \in Slots, RestFails(i) PROVE Drains
  BY <1>2, <1>4, <1>9, RestFailsFields DEF Typed
<1>10. CASE UNCHANGED vars
  BY <1>2, <1>10 DEF vars
<1> QED
  BY <1>0, <1>3, <1>5, <1>6, <1>7, <1>8, <1>9, <1>10

LEMMA SteadyStream ==
  ASSUME Steady(link, link'), IsOpen(link')
  PROVE  /\ IsOpen(link) /\ Chan' = Chan
         /\ Drains /\ Boot(user') => Stream' = Stream
         /\ ~Boot(user') => Stream' = Chan
<1>1. IsOpen(link) /\ Chan' = Chan
  BY DEF Steady, Chan
<1>2. Boot(user)' <=> Boot(user')
  BY DEF Boot
<1> QED
  BY <1>1, <1>2 DEF Stream, Drains

LEMMA FittingSteady ==
  ASSUME Typed, Fitting, Steady(link, link'), Drains, venue' = venue
  PROVE  Fitting'
<1> SUFFICES ASSUME IsOpen(link') PROVE Fit(Stream', venue)
  BY DEF Fitting, IsOpen
<1>1. CASE Boot(user')
  BY <1>1, SteadyStream DEF Fitting
<1>2. CASE ~Boot(user')
  BY <1>2, SteadyStream, FitChan
<1> QED
  BY <1>1, <1>2

\* A socket that opens while the fields ask for a bootstrap has delivered nothing,
\* and no bootstrap is under way.
LEMMA OpenStream ==
  ASSUME UserStreamAssumption, ~LateClose, Typed, Linked(link), Asking,
         NEW s \in Sockets, Open(s)
  PROVE  /\ ~Boot(user') /\ Stream' = <<>> /\ venue' = venue /\ ~user'.trusted
<1>1. link.client.socket = s /\ link.client.running /\ ~IsOpen(link) /\ NoneClosing(link)
  BY SocketsTyped DEF Open, Linked, IsOpen
<1>2. user.needs
  BY <1>1 DEF Asking
<1>3. PICK u \in Users, c \in [Callers -> CallerStates], who \in SUBSET {"open", "start", "sync"} :
        Begin(u, c, who) /\ "open" \in who
  BY <1>2, OpenBegins
<1>4. ~Boot(user') /\ ~user'.trusted
  BY <1>3, BeginFields, NotBooting
<1>5. link'.client.socket = s /\ link'.sockets[s].chan = <<>>
  BY OpensLinked DEF Open, Typed
<1>6. Boot(user)' <=> Boot(user')
  BY DEF Boot
<1>7. Stream' = <<>>
  BY <1>4, <1>5, <1>6 DEF Stream, Chan
<1> QED
  BY <1>4, <1>7 DEF Open

\* Moving the first event of c to the end of b, and appending to what follows b.
LEMMA ShiftedSame ==
  ASSUME NEW b \in Seq(Events), NEW c \in Seq(Events), c # <<>>
  PROVE  Append(b, Head(c)) \o Tail(c) = b \o c
<1>1. Head(c) \in Events /\ Tail(c) \in Seq(Events)
  BY HeadTailProperties
<1>2. c = <<Head(c)>> \o Tail(c)
  BY <1>1
<1>3. Append(b, Head(c)) = b \o <<Head(c)>>
  BY <1>1
<1> QED
  BY <1>1, <1>2, <1>3

LEMMA AppendedSame ==
  ASSUME NEW b \in Seq(Events), NEW c \in Seq(Events), NEW e \in Events
  PROVE  b \o Append(c, e) = Append(b \o c, e)
OBVIOUS

\* A delivered event leaves the channel and joins the buffer, if there is one.
LEMMA DeliverStream ==
  ASSUME UserStreamAssumption, Typed, Linked(link), NEW s \in Sockets, Deliver(s)
  PROVE  /\ IsOpen(link) /\ venue' = venue /\ Chan # <<>> /\ Chan' = Tail(Chan)
         /\ Boot(user) => Stream' = Stream \/ ~Boot(user')
         /\ ~Boot(user') => Stream' = Tail(Chan)
         /\ ~Boot(user) => ~Boot(user') /\ user' = Apply(user, Head(Chan))
         /\ Boot(user) => user'.trusted = user.trusted
<1>1. link.client.socket = s /\ link'.client.socket = s /\ IsOpen(link)
  BY DeliverLinked, SocketsTyped DEF Deliver, IsOpen
<1>2. Chan # <<>> /\ Chan' = Tail(Chan) /\ Chan = link.sockets[s].chan
  BY <1>1, DeliverLinked DEF Chan, Deliver
<1>3. StreamOK
  BY <1>1, StreamTyped
<1>4. PICK e \in Events :
        /\ e = Head(Chan)
        /\ ~Boot(user) => user' = Apply(user, e)
        /\ Boot(user) => /\ user'.boot.buffer = Append(user.boot.buffer, e)
                         /\ user'.trusted = user.trusted
  BY <1>2, DeliverFields
<1>5. Boot(user)' <=> Boot(user')
  BY DEF Boot
<1>6. ~Boot(user') => Stream' = Tail(Chan)
  BY <1>2, <1>5 DEF Stream
<1>7. ASSUME ~Boot(user) PROVE ~Boot(user')
  <2>1. user' = Apply(user, e)
    BY <1>4, <1>7
  <2>2. user'.boot = user.boot
    BY <2>1, ApplyKeeps DEF Typed
  <2> QED
    BY <1>7, <2>2 DEF Boot
<1>8. ASSUME Boot(user), Boot(user') PROVE Stream' = Stream
  <2> DEFINE b == user.boot.buffer
             c == Chan
  <2>1. b \in Seq(Events) /\ c \in Seq(Events) /\ c # <<>> /\ e = Head(c)
    BY <1>2, <1>3, <1>4 DEF StreamOK
  <2>2. Stream = b \o c /\ Stream' = Append(b, e) \o Tail(c)
    BY <1>2, <1>4, <1>5, <1>8 DEF Stream
  <2> HIDE DEF b, c
  <2>3. Append(b, e) \o Tail(c) = b \o c
    BY <2>1, ShiftedSame
  <2> QED
    BY <2>2, <2>3
<1>9. venue' = venue
  BY DEF Deliver
<1> QED
  BY <1>1, <1>2, <1>4, <1>6, <1>7, <1>8, <1>9

\* An order that moves appends its event to the stream.
LEMMA MovesStream ==
  ASSUME Typed, Linked(link), NEW o \in Orders, OrderMoves(o), IsOpen(link')
  PROVE  /\ IsOpen(link) /\ user' = user /\ calls' = calls
         /\ venue[o] \in {0, 1} /\ venue' = Moved(venue, o)
         /\ Chan' = Append(Chan, <<o, venue[o] + 1>>)
         /\ Stream' = Append(Stream, <<o, venue[o] + 1>>)
<1>1. IsOpen(link) /\ link'.client = link.client
      /\ Chan' = Append(Chan, <<o, venue[o] + 1>>)
  BY OrderMovesLinked DEF Chan
<1>2. venue[o] \in {0, 1} /\ venue' = Moved(venue, o)
  BY MovesTyped DEF Moved
<1>3. PICK e \in Events : e = <<o, venue[o] + 1>>
  BY MovesTyped
<1>4. user' = user /\ calls' = calls
  BY DEF OrderMoves
<1>5. StreamOK
  BY <1>1, StreamTyped
<1>6. Boot(user)' <=> Boot(user)
  BY <1>4 DEF Boot
<1>7. CASE ~Boot(user)
  BY <1>1, <1>2, <1>4, <1>6, <1>7 DEF Stream
<1>8. CASE Boot(user)
  <2> DEFINE b == user.boot.buffer
             c == Chan
  <2>1. b \in Seq(Events) /\ c \in Seq(Events)
    BY <1>5 DEF StreamOK
  <2>2. Stream = b \o c /\ Stream' = b \o Append(c, e)
    BY <1>1, <1>3, <1>4, <1>6, <1>8 DEF Stream
  <2> HIDE DEF b, c
  <2>3. b \o Append(c, e) = Append(b \o c, e)
    BY <2>1, AppendedSame
  <2> QED
    BY <1>1, <1>2, <1>3, <1>4, <2>2, <2>3
<1> QED
  BY <1>1, <1>2, <1>4, <1>7, <1>8

LEMMA FittingStep ==
  ASSUME UserStreamAssumption, ~LateClose, ~Overlap, Typed, Cuts, Linked(link), Asking, Fitting,
         [Next]_vars
  PROVE  Fitting'
<1>1. CASE \/ Start \/ Sync \/ Stop \/ Silence \/ RedialTimer \/ BootTimeout
           \/ \E s \in Sockets : Pong(s) \/ Drop(s)
           \/ \E i \in Slots : Ask(i) \/ Answer(i) \/ LandFinal(i) \/ RestFails(i)
           \/ UNCHANGED vars
  <2>1. Drains /\ venue' = venue
    BY <1>1, DrainSteps
  <2>2. Steady(link, link')
    BY <1>1, SteadySteps
  <2> QED
    BY <2>1, <2>2, FittingSteady
<1>2. ASSUME NEW i \in Slots, LandBegin(i) PROVE Fitting'
  <2> SUFFICES ASSUME IsOpen(link') PROVE Fit(Stream', venue')
    BY DEF Fitting, IsOpen
  <2>1. Steady(link, link') /\ user'.boot.buffer = <<>> /\ venue' = venue
    BY <1>2, SteadySteps, LandBeginFields DEF LandBegin
  <2>2. IsOpen(link) /\ Chan' = Chan
    BY <2>1 DEF Steady, Chan
  <2>3. Chan \in Seq(Events)
    BY <2>2, StreamTyped DEF StreamOK
  <2>4. <<>> \o Chan = Chan
    BY <2>3, ConcatEmptySeq
  <2>5. Stream' = Chan
    BY <2>1, <2>2, <2>4 DEF Stream
  <2> QED
    BY <2>1, <2>2, <2>5, FitChan
<1>3. ASSUME NEW s \in Sockets, Open(s) PROVE Fitting'
  <2>1. Stream' = <<>>
    BY <1>3, OpenStream
  <2> QED
    BY <2>1 DEF Fitting, Fit
<1>4. ASSUME NEW s \in Sockets, Deliver(s) PROVE Fitting'
  <2>1. IsOpen(link) /\ venue' = venue /\ Chan # <<>>
    BY <1>4, DeliverStream
  <2>2. CASE Stream' = Stream
    BY <2>1, <2>2 DEF Fitting
  <2>3. CASE Stream' = Tail(Chan)
    <3>1. Chan \in Seq(Events) /\ venue \in Venues /\ Fit(Chan, venue)
      BY <2>1, StreamTyped, FitChan DEF StreamOK
    <3>2. Fit(Tail(Chan), venue)
      BY <2>1, <3>1, TailAfter, FitAfter
    <3> QED
      BY <2>1, <2>3, <3>2 DEF Fitting
  <2> QED
    BY <1>4, <2>2, <2>3, DeliverStream
<1>5. ASSUME NEW o \in Orders, OrderMoves(o) PROVE Fitting'
  <2> SUFFICES ASSUME IsOpen(link') PROVE Fit(Stream', venue')
    BY DEF Fitting, IsOpen
  <2>1. /\ IsOpen(link) /\ venue[o] \in {0, 1} /\ venue' = Moved(venue, o)
        /\ Stream' = Append(Stream, <<o, venue[o] + 1>>)
    BY <1>5, MovesStream
  <2>2. Stream \in Seq(Events) /\ venue \in Venues /\ Fit(Stream, venue)
    BY <2>1, StreamTyped DEF StreamOK, Fitting
  <2> QED
    BY <2>1, <2>2, FitMoves
<1> QED
  BY <1>1, <1>2, <1>3, <1>4, <1>5 DEF Next

\* Only Answer answers a finalization.
Answers(i) == calls[i].job = "finalize" /\ calls[i].at = "answered"

LEMMA AnsweredSteps ==
  ASSUME UserStreamAssumption, ~Overlap, Typed, Exclusive, [Next]_vars, ~ \E i \in Slots : Answer(i),
         NEW k \in Slots, Answers(k)'
  PROVE  calls'[k] = calls[k]
<1>0. calls'[k].job = "finalize" /\ calls'[k].at = "answered"
  BY DEF Answers
<1>1. ASSUME \A i \in Slots : calls'[i] = NoCall \/ calls'[i] = calls[i] PROVE calls'[k] = calls[k]
  BY <1>0, <1>1, NoCallTyped
<1>2. ASSUME \A i \in Slots : calls'[i] # calls[i] => calls'[i].at \in {"asked", "delay"}
      PROVE  calls'[k] = calls[k]
  BY <1>0, <1>2
<1>3. CASE \/ Start \/ Stop \/ Silence \/ RedialTimer \/ BootTimeout \/ UNCHANGED vars
           \/ Sync /\ ~IsOpen(link)
           \/ \E s \in Sockets : Drop(s)
           \/ \E i \in Slots : LandFinal(i) \/ RestFails(i)
           \/ \E o \in Orders : OrderMoves(o)
  BY <1>1, <1>3, FewerSteps
<1>4. CASE Sync /\ IsOpen(link)
  BY <1>2, <1>4, BeginCalls DEF Sync, Typed
<1>5. ASSUME NEW s \in Sockets, Open(s) PROVE calls'[k] = calls[k]
  <2>1. \A i \in Slots : calls'[i] # calls[i] => calls'[i].at \in {"asked", "delay"}
    BY <1>5, OpenBegins, BeginCalls DEF Typed
  <2> QED
    BY <1>2, <2>1
<1>6. ASSUME NEW s \in Sockets, Deliver(s) \/ Pong(s) PROVE calls'[k] = calls[k]
  BY <1>2, <1>6, TrafficCalls DEF Deliver, Pong
<1>7. ASSUME NEW i \in Slots, Ask(i) PROVE calls'[k] = calls[k]
  BY <1>0, <1>7, AskCalls
<1>8. ASSUME NEW i \in Slots, LandBegin(i) PROVE calls'[k] = calls[k]
  <2>1. k # i => Asked(k)
    BY <1>0, <1>8, LandBeginFields DEF Asked
  <2>2. calls[i].job = "begin" /\ calls'[i] = NoCall
    BY <1>8, LandBeginFields DEF LandBegin
  <2> QED
    BY <1>0, <2>1, <2>2, NoCallTyped DEF Exclusive
<1> QED
  BY <1>3, <1>4, <1>5, <1>6, <1>7, <1>8 DEF Next

LEMMA ListedShown ==
  ASSUME NEW q, NEW n, venue \in Venues
  PROVE  Shown(Listed, q, n, venue)
BY DEF Shown, Listed, Venues

LEMMA PendingStep ==
  ASSUME UserStreamAssumption, ~LateClose, ~Overlap, Typed, Cuts, Linked(link), Asking, Exclusive,
         Fitting, Pending, [Next]_vars
  PROVE  Pending'
<1> SUFFICES ASSUME NEW k \in Slots, Answers(k)', Boot(user'), IsOpen(link')
             PROVE  Shown(calls'[k].listing, Stream', calls'[k].cut, venue')
  BY DEF Pending, Answers, Boot, IsOpen
<1>0. ASSUME calls'[k] = calls[k], Boot(user), IsOpen(link)
      PROVE  Shown(calls'[k].listing, Stream, calls'[k].cut, venue)
  BY <1>0 DEF Pending, Answers
<1>1. ASSUME \/ Start \/ Sync \/ Stop \/ Silence \/ RedialTimer \/ BootTimeout
             \/ \E s \in Sockets : Pong(s) \/ Drop(s)
             \/ \E i \in Slots : Ask(i) \/ LandFinal(i) \/ RestFails(i)
             \/ UNCHANGED vars,
             calls'[k] = calls[k]
      PROVE  Shown(calls'[k].listing, Stream', calls'[k].cut, venue')
  <2>1. Drains /\ venue' = venue
    BY <1>1, DrainSteps
  <2>2. Steady(link, link')
    BY <1>1, SteadySteps
  <2>3. IsOpen(link) /\ Stream' = Stream /\ Boot(user)
    BY <2>1, <2>2, SteadyStream DEF Drains
  <2> QED
    BY <1>0, <1>1, <2>1, <2>3
<1>2. ASSUME NEW i \in Slots, Answer(i)
      PROVE  Shown(calls'[k].listing, Stream', calls'[k].cut, venue')
  <2>1. user' = user /\ link' = link /\ venue' = venue
    BY <1>2 DEF Answer
  <2>2. Boot(user) /\ IsOpen(link) /\ Stream' = Stream
    BY <2>1 DEF Stream, Chan, Boot, IsOpen
  <2>3. CASE k = i
    BY <1>2, <2>1, <2>2, <2>3, AnswerCalls, ListedShown, StreamTyped DEF StreamOK
  <2>4. CASE k # i
    BY <1>0, <1>2, <2>1, <2>2, <2>4, AnswerCalls
  <2> QED
    BY <2>3, <2>4
<1>3. ASSUME NEW i \in Slots, LandBegin(i), calls'[k] = calls[k] PROVE FALSE
  BY <1>3 DEF Exclusive, LandBegin, Answers, Asked
<1>4. ASSUME NEW s \in Sockets, Open(s) PROVE FALSE
  BY <1>4, OpenStream
<1>5. ASSUME NEW s \in Sockets, Deliver(s), calls'[k] = calls[k]
      PROVE  Shown(calls'[k].listing, Stream', calls'[k].cut, venue')
  <2>1. Boot(user) /\ IsOpen(link) /\ Stream' = Stream /\ venue' = venue
    BY <1>5, DeliverStream
  <2> QED
    BY <1>0, <1>5, <2>1
<1>6. ASSUME NEW o \in Orders, OrderMoves(o)
      PROVE  Shown(calls'[k].listing, Stream', calls'[k].cut, venue')
  <2>1. /\ IsOpen(link) /\ user' = user /\ calls' = calls
        /\ venue[o] \in {0, 1} /\ venue' = Moved(venue, o)
        /\ Stream' = Append(Stream, <<o, venue[o] + 1>>)
    BY <1>6, MovesStream
  <2>2. Boot(user)
    BY <2>1
  <2>3. StreamOK
    BY <2>1, StreamTyped
  <2>4. Shown(calls'[k].listing, Stream, calls'[k].cut, venue)
    BY <1>0, <2>1, <2>2
  <2>5. calls'[k].cut \in 0 .. Len(Stream)
    <3>1. calls[k].cut \in Nat /\ calls[k].cut <= Len(user.boot.buffer)
      BY <2>2 DEF Cuts, Typed, CallRecords
    <3>2. Len(user.boot.buffer) \in 0 .. Len(Stream) /\ Len(Stream) \in Nat
      BY <2>2, <2>3 DEF StreamOK
    <3>3. calls[k].cut \in 0 .. Len(Stream)
      BY <3>1, <3>2
    <3> QED
      BY <2>1, <3>3
  <2>6. Stream \in Seq(Events) /\ venue \in Venues
    BY <2>3 DEF StreamOK
  <2> QED
    BY <2>1, <2>4, <2>5, <2>6, ShownMoves
<1>7. CASE \E i \in Slots : Answer(i)
  BY <1>2, <1>7
<1>8. CASE ~ \E i \in Slots : Answer(i)
  <2>1. calls'[k] = calls[k]
    BY <1>8, AnsweredSteps
  <2> QED
    BY <1>1, <1>3, <1>4, <1>5, <1>6, <1>8, <2>1 DEF Next
<1> QED
  BY <1>7, <1>8

\* Replaying a part of a stream that fits keeps the cursors behind the venue
\* and leaves to come what follows that part.
LEMMA ReplayShown ==
  ASSUME NEW u \in Users, NEW events \in Seq(Events), NEW q \in Seq(Events), NEW n \in Nat,
         NEW v \in Venues, n + Len(events) <= Len(q),
         \A p \in 1 .. Len(events) : events[p] = q[n + p],
         Fit(q, v), Behind(u.cursor, v)
  PROVE  /\ Behind(ApplyAll(u, events).cursor, v)
         /\ Shown(u.orders, q, n, v) =>
              Shown(ApplyAll(u, events).orders, q, n + Len(events), v)
<1>0. Len(events) \in Nat /\ Len(q) \in Nat
  OBVIOUS
<1>1. PICK g : Replays(g, u, events, Len(events)) /\ ApplyAll(u, events) = g[Len(events)]
  BY ApplyAllReplays
<1> DEFINE Good(k) == /\ Behind(g[k].cursor, v)
                      /\ Shown(u.orders, q, n, v) => Shown(g[k].orders, q, n + k, v)
           Bad == {k \in 0 .. Len(events) : ~Good(k)}
<1>2. Good(0)
  BY <1>1 DEF Replays
<1>3. Bad = {}
  <2>1. SUFFICES ASSUME Bad # {} PROVE FALSE
    OBVIOUS
  <2>2. PICK k \in Bad : \A m \in Bad : k <= m
    <3>1. Bad \subseteq Nat
      BY <1>0
    <3> QED
      BY <2>1, <3>1, LeastNumber
  <2> HIDE DEF Good
  <2>3. k \in 1 .. Len(events) /\ k - 1 \in 0 .. Len(events) /\ k - 1 < k
    BY <1>0, <1>2, <2>2
  <2>4. Good(k - 1)
    BY <1>0, <2>2, <2>3
  <2>5. g[k - 1] \in Users /\ events[k] = q[n + k] /\ g[k] = Apply(g[k - 1], events[k])
    BY <1>1, <2>3 DEF Replays
  <2>6. /\ n + (k - 1) \in 0 .. Len(q) /\ (n + (k - 1)) + 1 = n + k
        /\ (n + (k - 1)) + 1 <= Len(q) /\ n + k \in 1 .. Len(q)
    BY <1>0, <2>3
  <2>7. PICK w \in Users : w = g[k - 1]
    BY <2>5
  <2>8. PICK j \in 0 .. Len(q) : j = n + (k - 1)
    BY <2>6
  <2>9. j + 1 = n + k /\ j + 1 <= Len(q) /\ j + 1 \in 1 .. Len(q)
    BY <2>6, <2>8
  <2>10. g[k] = Apply(w, q[j + 1])
    BY <2>5, <2>7, <2>9
  <2>11. Behind(w.cursor, v) /\ (Shown(u.orders, q, n, v) => Shown(w.orders, q, j, v))
    BY <2>4, <2>7, <2>8 DEF Good
  <2>12. Behind(Apply(w, q[j + 1]).cursor, v)
    BY <2>9, <2>11, BehindApplied
  <2>13. Shown(w.orders, q, j, v) => Shown(Apply(w, q[j + 1]).orders, q, j + 1, v)
    BY <2>9, <2>11, ShownApplied
  <2>14. Good(k)
    BY <2>9, <2>10, <2>11, <2>12, <2>13 DEF Good
  <2> QED
    BY <2>2, <2>14
<1>4. Good(Len(events))
  BY <1>0, <1>3
<1> QED
  BY <1>1, <1>4

\* A finalization that succeeds: the listing, with what the buffer says after it.
LEMMA LandFinalShows ==
  ASSUME UserStreamAssumption, Typed, Cuts, Listings, Fitting, Pending, NEW i \in Slots, LandFinal(i),
         IsOpen(link), Boot(user),
         NEW seeded \in Users, NEW v \in Users,
         seeded = ApplyAll(Replace(user, calls[i].listing),
                           SubSeq(user.boot.buffer, 1, calls[i].cut)),
         seeded.orders = calls[i].listing, v.orders = seeded.orders, v.cursor = seeded.cursor,
         user' = ApplyAll(v, SubSeq(user.boot.buffer, calls[i].cut + 1, Len(user.boot.buffer)))
  PROVE  Shown(user'.orders, Chan, 0, venue) /\ Behind(user'.cursor, venue)
<1> DEFINE b == user.boot.buffer
           n == calls[i].cut
           L == calls[i].listing
           old == SubSeq(b, 1, n)
           rest == SubSeq(b, n + 1, Len(b))
           based == Replace(user, L)
<1>1. StreamOK /\ Fit(Stream, venue) /\ Shown(L, Stream, n, venue)
  BY StreamTyped DEF Fitting, Pending, LandFinal
<1>2. /\ n \in Nat /\ n <= Len(b) /\ b \in Seq(Events) /\ L \in SUBSET Orders
      /\ Stream \in Seq(Events) /\ venue \in Venues /\ Chan \in Seq(Events)
      /\ After(Chan, Stream, Len(b)) /\ Len(b) \in 0 .. Len(Stream)
      /\ \A p \in 1 .. Len(b) : Stream[p] = b[p]
  BY <1>1 DEF StreamOK, Cuts, Typed, CallRecords
<1>3. based \in Users /\ \A o \in Orders : based.cursor[o] = IF o \in L THEN 1 ELSE 0
  BY <1>2, ReplaceKeeps DEF Typed
<1>4. \A o \in L : venue[o] # 0
  BY DEF Listings, LandFinal
<1>5. Behind(based.cursor, venue)
  BY <1>2, <1>3, <1>4 DEF Behind, Venues
<1>6. seeded = ApplyAll(based, old) /\ user' = ApplyAll(v, rest)
  OBVIOUS
<1>6a. seeded.orders = L /\ v.orders = seeded.orders /\ v.cursor = seeded.cursor
  OBVIOUS
<1> HIDE DEF b, n, L, based
<1>7. Len(b) \in Nat /\ Len(Stream) \in Nat
  BY <1>2
<1>8. old \in Seq(Events) /\ Len(old) = n /\ \A p \in 1 .. Len(old) : old[p] = b[p]
  <2>1. 1 \in 1 .. Len(b) + 1 /\ n \in 1 - 1 .. Len(b)
    BY <1>2, <1>7
  <2>2. /\ old \in Seq(Events)
        /\ Len(old) = IF 1 <= n THEN n - 1 + 1 ELSE 0
        /\ \A p \in 1 .. n - 1 + 1 : old[p] = b[1 + p - 1]
    BY <1>2, <2>1, SubSeqProperties
  <2>3. Len(old) = n
    BY <1>2, <2>2
  <2>4. ASSUME NEW p \in 1 .. Len(old) PROVE old[p] = b[p]
    <3>1. p \in 1 .. n - 1 + 1 /\ 1 + p - 1 = p
      BY <1>2, <2>3
    <3> QED
      BY <2>2, <3>1
  <2> QED
    BY <2>2, <2>3, <2>4
<1>9. rest \in Seq(Events) /\ Len(rest) = Len(b) - n /\ \A p \in 1 .. Len(rest) : rest[p] = b[n + p]
  <2>1. n + 1 \in 1 .. Len(b) + 1 /\ Len(b) \in (n + 1) - 1 .. Len(b)
    BY <1>2, <1>7
  <2>2. /\ rest \in Seq(Events)
        /\ Len(rest) = IF n + 1 <= Len(b) THEN Len(b) - (n + 1) + 1 ELSE 0
        /\ \A p \in 1 .. Len(b) - (n + 1) + 1 : rest[p] = b[(n + 1) + p - 1]
    BY <1>2, <2>1, SubSeqProperties
  <2>3. Len(rest) = Len(b) - n
    BY <1>2, <1>7, <2>2
  <2>4. ASSUME NEW p \in 1 .. Len(rest) PROVE rest[p] = b[n + p]
    <3>1. p \in 1 .. Len(b) - (n + 1) + 1 /\ (n + 1) + p - 1 = n + p
      BY <1>2, <1>7, <2>3
    <3> QED
      BY <2>2, <3>1
  <2> QED
    BY <2>2, <2>3, <2>4
<1> HIDE DEF old, rest
<1>10. Behind(seeded.cursor, venue)
  <2>1. 0 + Len(old) <= Len(Stream)
    BY <1>2, <1>7, <1>8
  <2>2. \A p \in 1 .. Len(old) : old[p] = Stream[0 + p]
    BY <1>2, <1>7, <1>8
  <2> QED
    BY <1>1, <1>2, <1>3, <1>5, <1>6, <1>8, <2>1, <2>2, ReplayShown
<1>11. Behind(user'.cursor, venue) /\ Shown(user'.orders, Stream, Len(b), venue)
  <2>1. n + Len(rest) = Len(b) /\ n + Len(rest) <= Len(Stream)
    BY <1>2, <1>7, <1>9
  <2>2. ASSUME NEW p \in 1 .. Len(rest) PROVE rest[p] = Stream[n + p]
    <3>1. n + p \in 1 .. Len(b)
      BY <1>2, <1>7, <1>9
    <3> QED
      BY <1>2, <1>9, <3>1
  <2>3. Behind(v.cursor, venue) /\ Shown(v.orders, Stream, n, venue)
    BY <1>1, <1>6a, <1>10
  <2>4. /\ Behind(ApplyAll(v, rest).cursor, venue)
        /\ Shown(v.orders, Stream, n, venue) =>
             Shown(ApplyAll(v, rest).orders, Stream, n + Len(rest), venue)
    BY <1>1, <1>2, <1>9, <2>1, <2>2, <2>3, ReplayShown
  <2> QED
    BY <1>6, <2>1, <2>3, <2>4
<1>12. Shown(user'.orders, Chan, 0, venue)
  BY <1>2, <1>11, ShownAfter
<1> QED
  BY <1>11, <1>12

LEMMA ShowsSteady ==
  ASSUME Shows, Steady(link, link'), venue' = venue,
         user'.trusted => /\ user.trusted /\ user'.orders = user.orders
                          /\ user'.cursor = user.cursor
  PROVE  Shows'
<1> SUFFICES ASSUME user'.trusted, IsOpen(link')
             PROVE  Shown(user'.orders, Chan', 0, venue') /\ Behind(user'.cursor, venue')
  BY DEF Shows, IsOpen
<1>1. IsOpen(link) /\ Chan' = Chan
  BY DEF Steady, Chan
<1> QED
  BY <1>1 DEF Shows

LEMMA ShowsStep ==
  ASSUME UserStreamAssumption, ~LateClose, ~Overlap, Typed, Cuts, Linked(link), Asking, Distrusts,
         Listings, Fitting, Pending, Shows, [Next]_vars
  PROVE  Shows'
<1>1. ASSUME ~user'.trusted PROVE Shows'
  BY <1>1 DEF Shows
<1>2. ASSUME ~IsOpen(link') PROVE Shows'
  BY <1>2 DEF Shows, IsOpen
<1>3. CASE Start
  BY <1>1, <1>3, StartSubsides
<1>4. CASE Sync
  <2>1. CASE IsOpen(link)
    BY <1>1, <1>4, <2>1, BeginFields DEF Sync, Typed
  <2>2. CASE ~IsOpen(link)
    <3>1. /\ user'.orders = user.orders /\ user'.cursor = user.cursor
          /\ user'.trusted => user.trusted
      BY <1>4, <2>2, NotifiedKeeps DEF Sync, Typed
    <3> QED
      BY <1>4, <3>1, SteadySteps, ShowsSteady DEF Sync
  <2> QED
    BY <2>1, <2>2
<1>5. CASE Stop
  BY <1>1, <1>5, StopSubsides
<1>6. ASSUME NEW s \in Sockets, Open(s) PROVE Shows'
  BY <1>1, <1>6, OpenSubsides
<1>7. ASSUME NEW s \in Sockets, Deliver(s) PROVE Shows'
  <2> SUFFICES ASSUME user'.trusted, IsOpen(link')
               PROVE  Shown(user'.orders, Chan', 0, venue') /\ Behind(user'.cursor, venue')
    BY DEF Shows, IsOpen
  <2>1. /\ IsOpen(link) /\ venue' = venue /\ Chan # <<>> /\ Chan' = Tail(Chan)
        /\ Boot(user) => user'.trusted = user.trusted
        /\ ~Boot(user) => user' = Apply(user, Head(Chan))
    BY <1>7, DeliverStream
  <2>2. ~Boot(user)
    BY <2>1 DEF Distrusts
  <2>3. PICK q \in Seq(Events) : q = Chan
    BY <2>1, StreamTyped DEF StreamOK
  <2>4. venue \in Venues /\ Fit(q, venue) /\ user \in Users
    BY <2>1, <2>3, StreamTyped, FitChan DEF StreamOK, Typed
  <2>5. /\ Tail(q) \in Seq(Events) /\ After(Tail(q), q, 1)
        /\ 1 \in 0 .. Len(q) /\ Head(q) = q[1] /\ Len(q) >= 1
    BY <2>1, <2>3, TailAfter
  <2>6. user' = Apply(user, q[1])
    BY <2>1, <2>2, <2>3, <2>5
  <2>7. user'.trusted = user.trusted
    <3>1. q[1] \in Events
      BY <2>5
    <3>2. Apply(user, q[1]).trusted = user.trusted
      BY <2>4, <3>1, ApplyKeeps
    <3> QED
      BY <2>6, <3>2
  <2>8. Shown(user.orders, q, 0, venue) /\ Behind(user.cursor, venue)
    BY <2>1, <2>3, <2>7 DEF Shows
  <2>9. 0 \in 0 .. Len(q) /\ 0 + 1 <= Len(q) /\ 0 + 1 = 1 /\ 1 \in 1 .. Len(q)
    <3>1. Len(q) \in Nat
      OBVIOUS
    <3> QED
      BY <2>5, <3>1
  <2>10. Behind(user'.cursor, venue)
    BY <2>4, <2>6, <2>8, <2>9, BehindApplied
  <2>11. Shown(user'.orders, q, 1, venue)
    BY <2>4, <2>6, <2>8, <2>9, ShownApplied
  <2>12. Shown(user'.orders, Tail(q), 0, venue)
    BY <2>4, <2>5, <2>11, ShownAfter
  <2> QED
    BY <2>1, <2>3, <2>10, <2>12
<1>8. ASSUME NEW s \in Sockets, Pong(s) PROVE Shows'
  <2>1. /\ user'.orders = user.orders /\ user'.cursor = user.cursor
        /\ user'.trusted => user.trusted
    BY <1>8, PongSubsides DEF Subsides
  <2> QED
    BY <1>8, <2>1, SteadySteps, ShowsSteady DEF Pong
<1>9. ASSUME NEW s \in Sockets, Drop(s) PROVE Shows'
  BY <1>1, <1>9, DropTyped
<1>10. CASE Silence
  BY <1>1, <1>10, SilenceTyped
<1>11. CASE RedialTimer
  <2>1. /\ user'.orders = user.orders /\ user'.cursor = user.cursor
        /\ user'.trusted => user.trusted
    BY <1>11, NotifiedKeeps DEF RedialTimer, Typed
  <2> QED
    BY <1>11, <2>1, SteadySteps, ShowsSteady DEF RedialTimer
<1>12. ASSUME NEW u \in Users, Fail(u) PROVE Shows'
  BY <1>2, <1>12, FailLinked
<1>13. CASE BootTimeout
  BY <1>12, <1>13 DEF BootTimeout, Typed
<1>14. ASSUME NEW i \in Slots, Ask(i) \/ Answer(i) PROVE Shows'
  BY <1>14, SteadySteps, ShowsSteady DEF Ask, Answer
<1>15. ASSUME NEW i \in Slots, LandBegin(i) PROVE Shows'
  <2>1. ~user.trusted
    BY <1>15 DEF LandBegin, Distrusts
  <2> QED
    BY <1>1, <1>15, <2>1, LandBeginFields
<1>16. ASSUME NEW i \in Slots, LandFinal(i) PROVE Shows'
  <2> DEFINE seeded == ApplyAll(Replace(user, calls[i].listing),
                                SubSeq(user.boot.buffer, 1, calls[i].cut))
             rest == SubSeq(user.boot.buffer, calls[i].cut + 1, Len(user.boot.buffer))
  <2>1. CASE \E u \in Users : Fail(u)
    BY <1>12, <2>1
  <2>2. CASE /\ Boot(user) /\ seeded \in Users /\ seeded.orders = calls[i].listing
             /\ \E v \in Users : /\ v.orders = seeded.orders /\ v.cursor = seeded.cursor
                                 /\ user' = ApplyAll(v, rest)
             /\ link' = link
    <3>1. CASE ~IsOpen(link)
      BY <1>2, <2>2, <3>1
    <3>2. CASE IsOpen(link)
      <4>1. PICK u \in Users : u = seeded
        BY <2>2
      <4>2. PICK v \in Users : /\ v.orders = u.orders /\ v.cursor = u.cursor
                               /\ user' = ApplyAll(v, rest)
        BY <2>2, <4>1
      <4>3. u.orders = calls[i].listing
        BY <2>2, <4>1
      <4>4. Shown(user'.orders, Chan, 0, venue) /\ Behind(user'.cursor, venue)
        BY <1>16, <2>2, <3>2, <4>1, <4>2, <4>3, LandFinalShows
      <4>5. Chan' = Chan /\ venue' = venue
        BY <1>16, <2>2 DEF Chan, LandFinal
      <4> QED
        BY <4>4, <4>5 DEF Shows
    <3> QED
      BY <3>1, <3>2
  <2> QED
    BY <1>16, <2>1, <2>2, LandFinalFields
<1>17. ASSUME NEW i \in Slots, RestFails(i) PROVE Shows'
  <2>1. CASE Fail(user)
    BY <1>12, <2>1 DEF Typed
  <2>2. CASE user'.trusted = user.trusted /\ user'.orders = user.orders /\ user'.cursor = user.cursor
    BY <1>17, <2>2, SteadySteps, ShowsSteady DEF RestFails
  <2> QED
    BY <1>17, <2>1, <2>2, RestFailsFields
<1>18. ASSUME NEW o \in Orders, OrderMoves(o) PROVE Shows'
  <2> SUFFICES ASSUME user'.trusted, IsOpen(link')
               PROVE  Shown(user'.orders, Chan', 0, venue') /\ Behind(user'.cursor, venue')
    BY DEF Shows, IsOpen
  <2>1. /\ IsOpen(link) /\ user' = user /\ venue[o] \in {0, 1} /\ venue' = Moved(venue, o)
        /\ Chan' = Append(Chan, <<o, venue[o] + 1>>)
    BY <1>18, MovesStream
  <2>2. Chan \in Seq(Events) /\ venue \in Venues /\ 0 \in 0 .. Len(Chan)
    BY <2>1, StreamTyped DEF StreamOK
  <2>3. Shown(user.orders, Chan, 0, venue) /\ Behind(user.cursor, venue)
    BY <2>1 DEF Shows
  <2>4. Shown(user.orders, Chan', 0, venue')
    BY <2>1, <2>2, <2>3, ShownMoves
  <2>5. Behind(user.cursor, venue')
    <3>1. \A x \in Orders : user.cursor[x] \in 0 .. 2
      BY DEF Typed, Users
    <3>2. /\ venue'[o] = venue[o] + 1 /\ \A x \in Orders \ {o} : venue'[x] = venue[x]
          /\ \A x \in Orders : venue[x] \in 0 .. 2 /\ venue'[x] \in 0 .. 2
      BY <2>1, <2>2, MovedVenue
    <3> QED
      BY <2>3, <3>1, <3>2 DEF Behind
  <2> QED
    BY <2>1, <2>4, <2>5
<1>19. CASE UNCHANGED vars
  BY <1>19, SteadySteps, ShowsSteady DEF vars
<1> QED
  BY <1>3, <1>4, <1>5, <1>6, <1>7, <1>8, <1>9, <1>10, <1>11, <1>13, <1>14, <1>15, <1>16, <1>17,
     <1>18, <1>19 DEF Next

\* When everything is delivered, nothing is left to come.
LEMMA ShownMeansCurrent ==
  ASSUME Typed, Shows
  PROVE  TrustedMeansCurrent
<1> SUFFICES ASSUME Trusted, IsOpen(link),
                    \A s \in Sockets : link.sockets[s].state = "open" => link.sockets[s].chan = <<>>
             PROVE  user.orders = Listed
  BY DEF TrustedMeansCurrent
<1>1. link.client.socket \in Sockets /\ venue \in Venues
  BY StreamTyped DEF StreamOK
<1>2. Chan = <<>>
  BY <1>1 DEF Chan, IsOpen
<1>3. Shown(user.orders, <<>>, 0, venue)
  BY <1>2 DEF Shows, Trusted
<1>4. \A e : ~ToCome(<<>>, 0, e)
  BY DEF ToCome
<1>5. \A o \in Orders : venue[o] \in {0, 1, 2}
  BY <1>1 DEF Venues
<1>6. user.orders \subseteq Orders
  BY DEF Typed, Users
<1> QED
  BY <1>3, <1>4, <1>5, <1>6 DEF Shown, Listed

(***************************************************************************)
(* TrustCurrent: however orders open and end, sockets drop or fall silent, *)
(* listings fail or come late and bootstraps time out, a trusted stream    *)
(* that has received everything shows the account's open orders and no     *)
(* others.  It needs two conditions on the schedule: no bootstrap begins   *)
(* while another one finishes, and the close event of a socket comes       *)
(* before the next dial.                                                   *)
(***************************************************************************)
THEOREM TrustCurrent ==
  ASSUME UserStreamAssumption, ~Overlap, ~LateClose
  PROVE  Spec => []TrustedMeansCurrent
<1> DEFINE Known == Typed /\ Cuts /\ Linked(link) /\ Waiting /\ Asking
           Asks == Exclusive /\ Listings /\ Distrusts
           Truth == Fitting /\ Pending /\ Shows
           Inv == Known /\ Asks /\ Truth
<1>1. Init => Inv
  <2> SUFFICES ASSUME Init PROVE Inv
    OBVIOUS
  <2>1. ~Boot(user) /\ ~user.trusted
    BY DEF Init, Boot
  <2>2. ~IsOpen(link) /\ ~link.client.running
    BY DEF Init, FreshLink, FreshClient, IsOpen
  <2>3. \A i \in Slots : calls[i] = NoCall
    BY DEF Init
  <2>4. "start" \notin user.boot.waiters /\ caller["start"] = "idle"
    BY StartIsCaller DEF Init
  <2>5. Typed /\ Linked(link) /\ Cuts
    BY <2>1, InitTyped, LinkedInit DEF Cuts
  <2>6. Waiting
    BY <2>3, <2>4, NoCallTyped DEF Waiting, StartCall
  <2>7. Asking
    BY <2>2 DEF Asking
  <2>8. Asks
    BY <2>1, <2>3, NoCallTyped DEF Exclusive, Asked, Listings, Distrusts
  <2>9. Truth
    BY <2>1, <2>2 DEF Fitting, Pending, Shows
  <2> QED
    BY <2>5, <2>6, <2>7, <2>8, <2>9
<1>2. Inv /\ [Next]_vars => Inv'
  <2> SUFFICES ASSUME Inv, [Next]_vars PROVE Inv'
    OBVIOUS
  <2>1. Typed' /\ Cuts'
    BY StepTyped, CutsStep
  <2>2. Linked(link')
    BY LinkStep
  <2>3. Waiting'
    BY WaitingStep
  <2>4. Asking'
    BY AskingStep
  <2>5. Exclusive' /\ Listings'
    BY ListingsStep
  <2>6. Distrusts'
    BY DistrustsStep
  <2>7. Fitting'
    BY FittingStep
  <2>8. Pending'
    BY PendingStep
  <2>9. Shows'
    BY ShowsStep
  <2> QED
    BY <2>1, <2>2, <2>3, <2>4, <2>5, <2>6, <2>7, <2>8, <2>9
<1>3. Inv => TrustedMeansCurrent
  BY ShownMeansCurrent
<1> QED
  BY <1>1, <1>2, <1>3, PTL DEF Spec
=============================================================================
