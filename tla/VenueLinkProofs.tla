--------------------------- MODULE VenueLinkProofs ---------------------------
(***************************************************************************)
(* What is proved of the services the runs check side by side.  A          *)
(* behaviour of MCVenueLink is one of each service; the user stream, the   *)
(* heartbeat and the account are those of their own theorems, and the      *)
(* market stream is proved about here.                                     *)
(***************************************************************************)
EXTENDS MCVenueLink, FiniteSetTheorems, TLAPS

-----------------------------------------------------------------------------
(* The market stream: what each operation of the client does to its link.   *)

LEMMA LeastSocket ==
  ASSUME NEW T, T \subseteq Market!Sockets, T # {}
  PROVE  \E x \in T : \A y \in T : x <= y
<1>1. \A x \in T : x = 1 \/ x = 2
  <2>1. \A x \in 1 .. 2 : x = 1 \/ x = 2
    OBVIOUS
  <2> QED
    BY <2>1 DEF Market!Sockets
<1>2. CASE 1 \in T
  BY <1>1, <1>2
<1>3. CASE 1 \notin T
  BY <1>1, <1>3
<1> QED
  BY <1>2, <1>3

LinkStates == {"gone", "dialing", "open", "closing"}
ClientFields == [running : BOOLEAN, socket : Market!Sockets \cup {Market!NoSocket},
    redial : BOOLEAN,
           status : Market!Statuses, attempt : Nat, failed : BOOLEAN]
SocketFields == [state : LinkStates, mine : BOOLEAN, subscribed : BOOLEAN,
    chan : Seq(Market!Messages)]
MarketLinks == [client : ClientFields, sockets : [Market!Sockets -> SocketFields]]

Held(l) == l.sockets[l.client.socket]

\* The socket a client holds is dialing or open, and is its own.
Holds(l) ==
  l.client.socket # Market!NoSocket =>
    /\ l.sockets[l.client.socket].mine
    /\ l.sockets[l.client.socket].state \in {"dialing", "open"}

DialingSocket == [Market!FreshSocket EXCEPT !.state = "dialing"]
ClosingSocket == [Market!FreshSocket EXCEPT !.state = "closing"]

LEMMA SocketsTyped ==
  /\ Market!NoSocket \notin Market!Sockets /\ Market!Sockets \subseteq Nat
         /\ Market!FreshSocket \in SocketFields /\ DialingSocket \in SocketFields /\
            ClosingSocket \in SocketFields
         /\ Market!FreshSocket = [state |-> "gone", mine |-> TRUE, subscribed |-> FALSE,
            chan |-> <<>>]
         /\ DialingSocket.state = "dialing" /\ DialingSocket.mine /\ ~DialingSocket.subscribed
         /\ DialingSocket.chan = <<>>
         /\ ClosingSocket.state = "closing" /\ ClosingSocket.chan = <<>>
         /\ Market!FreshClient \in ClientFields /\ Market!FreshLink \in MarketLinks
<1>2. Market!NoSocket \notin Market!Sockets /\ Market!Sockets \subseteq Nat
  BY DEF Market!NoSocket, Market!Sockets
<1>3. <<>> \in Seq(Market!Messages)
  OBVIOUS
<1>4. Market!FreshSocket \in SocketFields /\ DialingSocket \in SocketFields /\
        ClosingSocket \in SocketFields
  BY <1>3 DEF Market!FreshSocket, DialingSocket, ClosingSocket, SocketFields, LinkStates
<1>5. Market!FreshClient \in ClientFields
  BY DEF Market!FreshClient, ClientFields, Market!Statuses
<1>6. Market!FreshLink \in MarketLinks
  BY <1>4, <1>5 DEF Market!FreshLink, MarketLinks
<1>7. /\ Market!FreshSocket = [state |-> "gone", mine |-> TRUE, subscribed |-> FALSE, chan |-> <<>>]
  BY DEF Market!FreshSocket
<1>8. /\ DialingSocket.state = "dialing" /\ DialingSocket.mine /\ ~DialingSocket.subscribed
      /\ DialingSocket.chan = <<>>
  BY DEF DialingSocket, Market!FreshSocket
<1>9. ClosingSocket.state = "closing" /\ ClosingSocket.chan = <<>>
  BY DEF ClosingSocket, Market!FreshSocket
<1> QED
  BY <1>2, <1>4, <1>5, <1>6, <1>7, <1>8, <1>9

\* How an operation may change a link: nothing but the client's own fields,
\* or a socket is dialed, or the one that is held is closed and forgotten.
Calm(l, n) == n.sockets = l.sockets /\ n.client.socket = l.client.socket
Dials(l, n) ==
  /\ l.client.socket = Market!NoSocket /\ n.client.running
  /\ \E s \in Market!Sockets : /\ l.sockets[s].state = "gone" /\ n.client.socket = s
                               /\ n.sockets = [l.sockets EXCEPT ![s] = DialingSocket]
Leaves(l, n) ==
  /\ n.client.socket = Market!NoSocket
  /\ n.sockets = IF l.client.socket = Market!NoSocket THEN l.sockets
                 ELSE [l.sockets EXCEPT ![l.client.socket] = ClosingSocket]

LEMMA CloseSocketLeaves ==
  ASSUME NEW l \in MarketLinks
  PROVE  /\ Market!CloseSocket(l) \in MarketLinks /\ Leaves(l, Market!CloseSocket(l))
         /\ Market!CloseSocket(l).client.running = l.client.running
<1>1. CASE l.client.socket = Market!NoSocket
  BY <1>1 DEF Market!CloseSocket, Leaves
<1>2. CASE l.client.socket # Market!NoSocket
  <2> DEFINE c == [l.client EXCEPT !.socket = Market!NoSocket]
             ss == [l.sockets EXCEPT ![l.client.socket] = ClosingSocket]
  <2>1. Market!CloseSocket(l) = [client |-> c, sockets |-> ss]
    BY <1>2 DEF Market!CloseSocket, ClosingSocket
  <2>2. c \in ClientFields /\ c.socket = Market!NoSocket /\ c.running = l.client.running
    BY DEF MarketLinks, ClientFields
  <2>3. ss \in [Market!Sockets -> SocketFields]
    BY SocketsTyped DEF MarketLinks
  <2> HIDE DEF c
  <2> QED
    BY <1>2, <2>1, <2>2, <2>3 DEF MarketLinks, Leaves
<1> QED
  BY <1>1, <1>2

LEMMA ScheduleCalm ==
  ASSUME NEW l \in MarketLinks
  PROVE  /\ Market!ScheduleReconnect(l) \in MarketLinks /\ Calm(l, Market!ScheduleReconnect(l))
         /\ Market!ScheduleReconnect(l).client.running = l.client.running
<1>1. CASE ~l.client.running
  BY <1>1 DEF Market!ScheduleReconnect, Calm
<1>2. CASE l.client.running
  <2>1. PICK c \in ClientFields : /\ Market!ScheduleReconnect(l) = [l EXCEPT !.client = c]
                            /\ c.socket = l.client.socket /\ c.running = l.client.running
    <3>1. CASE l.client.attempt >= 2
      <4> DEFINE c == [l.client EXCEPT !.status = "failed", !.failed = TRUE]
      <4>1. c \in ClientFields /\ c.socket = l.client.socket /\ c.running = l.client.running
        BY DEF MarketLinks, ClientFields, Market!Statuses
      <4>2. Market!ScheduleReconnect(l) = [l EXCEPT !.client = c]
        BY <1>2, <3>1 DEF Market!ScheduleReconnect, MarketLinks
      <4> QED
        BY <4>1, <4>2
    <3>2. CASE ~(l.client.attempt >= 2)
      <4> DEFINE c == [l.client EXCEPT !.redial = TRUE]
      <4>1. c \in ClientFields /\ c.socket = l.client.socket /\ c.running = l.client.running
        BY DEF MarketLinks, ClientFields
      <4>2. Market!ScheduleReconnect(l) = [l EXCEPT !.client = c]
        BY <1>2, <3>2 DEF Market!ScheduleReconnect, MarketLinks
      <4> QED
        BY <4>1, <4>2
    <3> QED
      BY <3>1, <3>2
  <2> QED
    BY <2>1 DEF MarketLinks, Calm
<1> QED
  BY <1>1, <1>2

LEMMA TriggerLeaves ==
  ASSUME NEW l \in MarketLinks
  PROVE  /\ Market!TriggerReconnect(l) \in MarketLinks
         /\ Market!TriggerReconnect(l).client.running = l.client.running
         /\ l.client.running => Leaves(l, Market!TriggerReconnect(l))
         /\ ~l.client.running => Market!TriggerReconnect(l) = l
<1>1. CASE ~l.client.running
  BY <1>1 DEF Market!TriggerReconnect
<1>2. CASE l.client.running
  <2> DEFINE k == Market!CloseSocket(l)
             c == [k.client EXCEPT !.status = "disconnected", !.redial = FALSE]
             m == [k EXCEPT !.client = c]
  <2>1. k \in MarketLinks /\ Leaves(l, k) /\ k.client.running = l.client.running
    BY CloseSocketLeaves
  <2>2. Market!TriggerReconnect(l) = Market!ScheduleReconnect(m)
    BY <1>2, <2>1 DEF Market!TriggerReconnect, MarketLinks
  <2> HIDE DEF k
  <2>3. c \in ClientFields /\ c.socket = k.client.socket /\ c.running = k.client.running
    BY <2>1 DEF MarketLinks, ClientFields, Market!Statuses
  <2> HIDE DEF c
  <2>4. m \in MarketLinks /\ m.sockets = k.sockets /\ m.client = c
    BY <2>1, <2>3 DEF MarketLinks
  <2> HIDE DEF m
  <2> QED
    BY <1>2, <2>1, <2>2, <2>3, <2>4, ScheduleCalm DEF Leaves, Calm
<1> QED
  BY <1>1, <1>2

LEMMA ConnectDials ==
  ASSUME NEW l \in MarketLinks
  PROVE  /\ Market!ConnectIfNeeded(l) \in MarketLinks
         /\ Market!ConnectIfNeeded(l) = l \/ Dials(l, Market!ConnectIfNeeded(l))
         /\ Market!ConnectIfNeeded(l).client.running = l.client.running
         /\ Market!ConnectIfNeeded(l).client.failed = l.client.failed
<1>1. CASE ~l.client.running \/ l.client.socket # Market!NoSocket \/ l.client.redial \/
             Market!Free(l) = {}
  BY <1>1 DEF Market!ConnectIfNeeded
<1>2. CASE ~(~l.client.running \/ l.client.socket # Market!NoSocket \/ l.client.redial \/
             Market!Free(l) = {})
  <2>1. \E s \in Market!Free(l) : \A t \in Market!Free(l) : s <= t
    <3>1. Market!Free(l) \subseteq Market!Sockets
      BY DEF Market!Free
    <3> QED
      BY <1>2, <3>1, LeastSocket
  <2>2. PICK s : /\ s = CHOOSE f \in Market!Free(l) : \A t \in Market!Free(l) : f <= t
                 /\ s \in Market!Free(l)
    BY <2>1
  <2> DEFINE c == [l.client EXCEPT !.socket = s, !.status = "connecting", !.attempt = @ + 1]
             ss == [l.sockets EXCEPT ![s] = DialingSocket]
  <2>3. Market!ConnectIfNeeded(l) = [client |-> c, sockets |-> ss]
    BY <1>2, <2>2 DEF Market!ConnectIfNeeded, DialingSocket
  <2>4. s \in Market!Sockets /\ l.sockets[s].state = "gone"
    BY <2>2 DEF Market!Free
  <2>5. /\ c \in ClientFields /\ c.socket = s /\ c.running = l.client.running
        /\ c.failed = l.client.failed
    <3>1. l.client \in ClientFields
      BY DEF MarketLinks
    <3>2. c \in ClientFields
      <4>1. PICK n \in Nat : n = l.client.attempt + 1
        BY <3>1 DEF ClientFields
      <4>2. c = [l.client EXCEPT !.socket = s, !.status = "connecting", !.attempt = n]
        BY <4>1
      <4> QED
        BY <2>4, <3>1, <4>2 DEF ClientFields, Market!Statuses
    <3>3. c.socket = s
      BY <3>1 DEF ClientFields
    <3>4. c.running = l.client.running
      BY <3>1 DEF ClientFields
    <3>5. c.failed = l.client.failed
      BY <3>1 DEF ClientFields
    <3> QED
      BY <3>2, <3>3, <3>4, <3>5
  <2>6. ss \in [Market!Sockets -> SocketFields]
    BY SocketsTyped DEF MarketLinks
  <2> HIDE DEF c
  <2> QED
    BY <1>2, <2>3, <2>4, <2>5, <2>6 DEF MarketLinks, Dials
<1> QED
  BY <1>1, <1>2

LEMMA StartDials ==
  ASSUME NEW l \in MarketLinks
  PROVE  /\ Market!StartClient(l) \in MarketLinks /\ Market!StartClient(l).client.running
         /\ ~Market!StartClient(l).client.failed
         /\ Calm(l, Market!StartClient(l)) \/ Dials(l, Market!StartClient(l))
<1> DEFINE c == [l.client EXCEPT !.running = TRUE, !.failed = FALSE]
           m == [l EXCEPT !.client = c]
<1>1. Market!StartClient(l) = Market!ConnectIfNeeded(m)
  BY DEF Market!StartClient, MarketLinks
<1>2. c \in ClientFields /\ c.socket = l.client.socket /\ c.running = TRUE /\ c.failed = FALSE
  <2>1. c \in ClientFields /\ c.socket = l.client.socket
    BY DEF MarketLinks, ClientFields
  <2>2. c.running = TRUE
    BY DEF MarketLinks, ClientFields
  <2>3. c.failed = FALSE
    BY DEF MarketLinks, ClientFields
  <2> QED
    BY <2>1, <2>2, <2>3
<1> HIDE DEF c
<1>3. m \in MarketLinks /\ m.sockets = l.sockets /\ m.client = c
  BY <1>2 DEF MarketLinks
<1> HIDE DEF m
<1>4. /\ Market!ConnectIfNeeded(m) \in MarketLinks /\ Market!ConnectIfNeeded(m).client.running
      /\ ~Market!ConnectIfNeeded(m).client.failed
      /\ Market!ConnectIfNeeded(m) = m \/ Dials(m, Market!ConnectIfNeeded(m))
  BY <1>2, <1>3, ConnectDials
<1> QED
  BY <1>1, <1>2, <1>3, <1>4 DEF Calm, Dials

LEMMA RedialDials ==
  ASSUME NEW l \in MarketLinks
  PROVE  /\ Market!Redial(l) \in MarketLinks /\ Market!Redial(l).client.running = l.client.running
         /\ Market!Redial(l).client.failed = l.client.failed
         /\ Calm(l, Market!Redial(l)) \/ Dials(l, Market!Redial(l))
<1> DEFINE c == [l.client EXCEPT !.redial = FALSE]
           m == [l EXCEPT !.client = c]
<1>1. Market!Redial(l) = Market!ConnectIfNeeded(m)
  BY DEF Market!Redial, MarketLinks
<1>2. /\ c \in ClientFields /\ c.socket = l.client.socket /\ c.running = l.client.running
      /\ c.failed = l.client.failed
  <2>1. c \in ClientFields /\ c.socket = l.client.socket
    BY DEF MarketLinks, ClientFields
  <2>2. c.running = l.client.running
    BY DEF MarketLinks, ClientFields
  <2>3. c.failed = l.client.failed
    BY DEF MarketLinks, ClientFields
  <2> QED
    BY <2>1, <2>2, <2>3
<1> HIDE DEF c
<1>3. m \in MarketLinks /\ m.sockets = l.sockets /\ m.client = c
  BY <1>2 DEF MarketLinks
<1> HIDE DEF m
<1>4. /\ Market!ConnectIfNeeded(m) \in MarketLinks /\
           Market!ConnectIfNeeded(m).client.running = m.client.running
      /\ Market!ConnectIfNeeded(m).client.failed = m.client.failed
      /\ Market!ConnectIfNeeded(m) = m \/ Dials(m, Market!ConnectIfNeeded(m))
  BY <1>3, ConnectDials
<1> QED
  BY <1>1, <1>2, <1>3, <1>4 DEF Calm, Dials

LEMMA StopForgets ==
  ASSUME NEW l \in MarketLinks, Holds(l)
  PROVE  /\ Market!StopClient(l) \in MarketLinks
         /\ Market!StopClient(l).client = Market!FreshClient
         /\ \A s \in Market!Sockets :
              /\ s = l.client.socket => Market!StopClient(l).sockets[s].state = "closing"
              /\ s # l.client.socket => Market!StopClient(l).sockets[s].state = l.sockets[s].state
              /\ Market!StopClient(l).sockets[s].state = "dialing" =>
                 Market!StopClient(l).sockets[s].chan = l.sockets[s].chan
<1> DEFINE k == Market!CloseSocket(l)
           ss == [s \in Market!Sockets |-> IF k.sockets[s].state = "gone" THEN Market!FreshSocket
                                    ELSE [k.sockets[s] EXCEPT !.mine = FALSE]]
<1>1. k \in MarketLinks /\ Leaves(l, k)
  BY CloseSocketLeaves
<1>2. Market!StopClient(l) = [client |-> Market!FreshClient, sockets |-> ss]
  BY DEF Market!StopClient
<1> HIDE DEF k
<1>3. ASSUME NEW s \in Market!Sockets
      PROVE  ss[s] \in SocketFields /\ ss[s].state = k.sockets[s].state
             /\ (ss[s].state # "gone" => ss[s].chan = k.sockets[s].chan)
  <2>1. PICK t \in SocketFields : t = k.sockets[s]
    BY <1>1 DEF MarketLinks
  <2>2. CASE t.state = "gone"
    <3>1. ss[s] = Market!FreshSocket
      BY <2>1, <2>2
    <3> QED
      BY <2>1, <2>2, <3>1, SocketsTyped
  <2>3. CASE t.state # "gone"
    <3>1. ss[s] = [t EXCEPT !.mine = FALSE]
      BY <2>1, <2>3
    <3>2. /\ [t EXCEPT !.mine = FALSE] \in SocketFields
          /\ [t EXCEPT !.mine = FALSE].state = t.state
          /\ [t EXCEPT !.mine = FALSE].chan = t.chan
      BY DEF SocketFields
    <3> QED
      BY <2>1, <3>1, <3>2
  <2> QED
    BY <2>2, <2>3
<1>4. ss \in [Market!Sockets -> SocketFields]
  BY <1>3
<1>5. ASSUME NEW s \in Market!Sockets
      PROVE  /\ s = l.client.socket => k.sockets[s].state = "closing"
             /\ s # l.client.socket => k.sockets[s] = l.sockets[s]
  BY <1>1, SocketsTyped DEF Leaves, MarketLinks, ClosingSocket, Market!FreshSocket
<1> HIDE DEF ss
<1> QED
  BY <1>2, <1>3, <1>4, <1>5, SocketsTyped DEF MarketLinks

LEMMA HandleOpenOpens ==
  ASSUME NEW l \in MarketLinks, NEW s \in Market!Sockets
  PROVE  LET n == Market!HandleOpen(l, s)
         IN  /\ n \in MarketLinks
             /\ n.client.socket = l.client.socket /\ n.client.running = l.client.running
             /\ \A t \in Market!Sockets \ {s} : n.sockets[t] = l.sockets[t]
             /\ n.sockets[s].state = "open" /\ n.sockets[s].mine = l.sockets[s].mine
             /\ n.sockets[s].chan = l.sockets[s].chan
             /\ n.sockets[s].subscribed = (l.client.socket = s)
<1> DEFINE c == IF l.sockets[s].mine
                THEN [l.client EXCEPT !.status = "connected", !.attempt = 0] ELSE l.client
           k == [l.sockets[s] EXCEPT !.state = "open", !.subscribed = (l.client.socket = s)]
           ss == [l.sockets EXCEPT ![s] = k]
<1>1. l.sockets \in [Market!Sockets -> SocketFields] /\ l.sockets[s] \in SocketFields /\
        l.client \in ClientFields
  BY DEF MarketLinks
<1>2. Market!HandleOpen(l, s) = [client |-> c, sockets |-> ss]
  BY <1>1 DEF Market!HandleOpen
<1>3. c \in ClientFields /\ c.socket = l.client.socket /\ c.running = l.client.running
  BY <1>1 DEF ClientFields, Market!Statuses
<1>4. /\ k \in SocketFields /\ k.state = "open" /\ k.mine = l.sockets[s].mine
      /\ k.chan = l.sockets[s].chan /\ k.subscribed = (l.client.socket = s)
  BY <1>1 DEF SocketFields, LinkStates
<1> HIDE DEF c, k
<1>5. ss \in [Market!Sockets -> SocketFields] /\ ss[s] = k /\
        \A t \in Market!Sockets \ {s} : ss[t] = l.sockets[t]
  BY <1>1, <1>4
<1> HIDE DEF ss
<1> QED
  BY <1>2, <1>3, <1>4, <1>5 DEF MarketLinks

LEMMA HandleCloseDrops ==
  ASSUME NEW l \in MarketLinks, NEW s \in Market!Sockets
  PROVE  LET n == Market!HandleClose(l, s)
         IN  /\ n \in MarketLinks /\ n.client.running = l.client.running
             /\ n.sockets = [l.sockets EXCEPT ![s] = Market!FreshSocket]
             /\ n.client.socket = IF l.sockets[s].mine THEN Market!NoSocket ELSE l.client.socket
<1> DEFINE gone == [l EXCEPT !.sockets[s] = Market!FreshSocket]
           c == [l.client EXCEPT !.socket = Market!NoSocket, !.status = "disconnected"]
           m == [gone EXCEPT !.client = c]
<1>1. gone \in MarketLinks /\ gone.client = l.client
      /\ gone.sockets = [l.sockets EXCEPT ![s] = Market!FreshSocket]
  BY SocketsTyped DEF MarketLinks
<1>2. CASE ~l.sockets[s].mine
  BY <1>1, <1>2 DEF Market!HandleClose
<1>3. CASE l.sockets[s].mine
  <2>1. Market!HandleClose(l, s) = Market!ScheduleReconnect(m)
    BY <1>1, <1>3 DEF Market!HandleClose, MarketLinks
  <2> HIDE DEF gone
  <2>2. c \in ClientFields /\ c.socket = Market!NoSocket /\ c.running = l.client.running
    BY DEF MarketLinks, ClientFields, Market!Statuses
  <2> HIDE DEF c
  <2>3. m \in MarketLinks /\ m.client = c /\ m.sockets = gone.sockets
    BY <1>1, <2>2 DEF MarketLinks
  <2> HIDE DEF m
  <2> QED
    BY <1>1, <1>3, <2>1, <2>2, <2>3, ScheduleCalm DEF Calm
<1> QED
  BY <1>2, <1>3

LEMMA BroadcastAppends ==
  ASSUME NEW l \in MarketLinks, NEW e \in Market!Messages
  PROVE  LET n == Market!Broadcast(l, e)
         IN  /\ n \in MarketLinks /\ n.client = l.client
             /\ \A s \in Market!Sockets :
                  /\ n.sockets[s].state = l.sockets[s].state
                  /\ n.sockets[s].mine = l.sockets[s].mine
                  /\ n.sockets[s].subscribed = l.sockets[s].subscribed
                  /\ n.sockets[s].chan =
                       IF l.sockets[s].state = "open" /\ l.sockets[s].subscribed
                       THEN Append(l.sockets[s].chan, e) ELSE l.sockets[s].chan
<1> DEFINE k(s) == IF l.sockets[s].state = "open" /\ l.sockets[s].subscribed
                   THEN [l.sockets[s] EXCEPT !.chan = Append(l.sockets[s].chan, e)]
                   ELSE l.sockets[s]
           ss == [s \in Market!Sockets |-> k(s)]
<1>1. ASSUME NEW s \in Market!Sockets
      PROVE  /\ k(s) \in SocketFields
             /\ k(s).state = l.sockets[s].state
             /\ k(s).mine = l.sockets[s].mine
             /\ k(s).subscribed = l.sockets[s].subscribed
             /\ k(s).chan = IF l.sockets[s].state = "open" /\ l.sockets[s].subscribed
                            THEN Append(l.sockets[s].chan, e) ELSE l.sockets[s].chan
  <2>1. l.sockets[s] \in SocketFields /\ Append(l.sockets[s].chan, e) \in Seq(Market!Messages)
    BY DEF MarketLinks, SocketFields
  <2>2. CASE l.sockets[s].state = "open" /\ l.sockets[s].subscribed
    BY <2>1, <2>2 DEF SocketFields
  <2>3. CASE ~(l.sockets[s].state = "open" /\ l.sockets[s].subscribed)
    BY <2>1, <2>3
  <2> QED
    BY <2>2, <2>3
<1> HIDE DEF k
<1>2. ss \in [Market!Sockets -> SocketFields] /\ \A s \in Market!Sockets : ss[s] = k(s)
  BY <1>1
<1>3. Market!Broadcast(l, e) = [l EXCEPT !.sockets = ss]
  BY DEF Market!Broadcast, k
<1> HIDE DEF ss
<1> QED
  BY <1>1, <1>2, <1>3 DEF MarketLinks

-----------------------------------------------------------------------------
(* The market stream: its fields, calls and callers.                        *)

TokenNumbers == [Market!Assets -> Market!Versions]
MarketWaiters == Market!Callers \cup {"nobody"}
MarketBoots == [awaiting : SUBSET Market!Assets, rest : TokenNumbers,
    waiters : SUBSET MarketWaiters]
MarketKeys == SUBSET ({"book", "delta"} \X Market!Versions)
MarketFields ==
  [status : Market!Statuses, trusted : BOOLEAN, needs : BOOLEAN, failure : BOOLEAN,
   boot : MarketBoots, tracked : SUBSET Market!Assets, shown : TokenNumbers, cursor : TokenNumbers,
   keys : [Market!Assets -> MarketKeys]]
MarketCalls == [by : {"none", "open", "start", "sync"}, at : {"none", "asked", "answered"},
                of : SUBSET Market!Assets, rest : TokenNumbers]
MarketCallers == {"idle", "connecting", "waiting", "done", "failed"}

\* What the stream knows of the books, and for which tokens.
SameBooks(m, n) ==
  /\ n \in MarketFields
  /\ n.tracked = m.tracked /\ n.shown = m.shown /\ n.cursor = m.cursor /\ n.keys = m.keys

LEMMA TokensTyped ==
  /\ Market!Assets = FirstTokens \cup SecondTokens
  /\ Market!Versions \subseteq Nat /\ 0 \in Market!Versions /\ 1 \in Market!Versions
  /\ [a \in Market!Assets |-> 0] \in TokenNumbers
  /\ Market!NoBoot \in MarketBoots /\ Market!NoBoot.awaiting = {} /\
     "nobody" \in Market!NoBoot.waiters
  /\ Market!NoCall \in MarketCalls /\ Market!NoCall.at = "none" /\ Market!NoCall.by = "none"
<1>1. Market!Assets = FirstTokens \cup SecondTokens
  BY DEF Market!Assets
<1>2. Market!Versions \subseteq Nat /\ 0 \in Market!Versions /\ 1 \in Market!Versions
  BY DEF Market!Versions
<1>3. [a \in Market!Assets |-> 0] \in TokenNumbers
  BY <1>2 DEF TokenNumbers
<1>4. Market!NoBoot \in MarketBoots /\ Market!NoBoot.awaiting = {} /\
        "nobody" \in Market!NoBoot.waiters
  BY <1>3 DEF Market!NoBoot, MarketBoots, MarketWaiters
<1>5. Market!NoCall \in MarketCalls /\ Market!NoCall.at = "none" /\ Market!NoCall.by = "none"
  BY <1>3 DEF Market!NoCall, MarketCalls
<1> QED
  BY <1>1, <1>2, <1>3, <1>4, <1>5

\* A record of fields with a boot, a status and flags of its own.
LEMMA CancelForgets ==
  ASSUME NEW m \in MarketFields
  PROVE  /\ SameBooks(m, Market!Cancel(m)) /\ Market!Cancel(m).boot = Market!NoBoot
         /\ Market!Cancel(m).trusted = m.trusted /\ Market!Cancel(m).needs = m.needs
<1>1. Market!Cancel(m) \in MarketFields
  BY TokensTyped DEF Market!Cancel, MarketFields
<1>2. /\ Market!Cancel(m).tracked = m.tracked /\ Market!Cancel(m).shown = m.shown
      /\ Market!Cancel(m).cursor = m.cursor /\ Market!Cancel(m).keys = m.keys /\
         Market!Cancel(m).boot = Market!NoBoot
  BY DEF Market!Cancel, MarketFields
<1>3. Market!Cancel(m).trusted = m.trusted
  BY DEF Market!Cancel, MarketFields
<1>4. Market!Cancel(m).needs = m.needs
  BY DEF Market!Cancel, MarketFields
<1> QED
  BY <1>1, <1>2, <1>3, <1>4 DEF SameBooks

\* What the link's step makes of the fields: trust is never gained, and a
\* bootstrap ends only when the attempts are exhausted.
LEMMA NotifiedLeaves ==
  ASSUME NEW m \in MarketFields, NEW l, NEW n
  PROVE  /\ SameBooks(m, Market!Notified(m, l, n)) /\ Market!Notified(m, l, n).needs = m.needs
         /\ Market!Notified(m, l, n).trusted => m.trusted
         /\ Market!Notified(m, l, n).boot \in {m.boot, Market!NoBoot}
         /\ ~Market!Exhausted(l, n) => Market!Notified(m, l, n).boot = m.boot
<1>1. CASE Market!Dialed(l, n)
  <2> DEFINE k == [m EXCEPT !.status = "connecting", !.trusted = FALSE]
  <2>1. Market!Notified(m, l, n) = k
    BY <1>1 DEF Market!Notified
  <2>2. SameBooks(m, k) /\ k.boot = m.boot
    BY DEF MarketFields, Market!Statuses, SameBooks
  <2>3. k.trusted = FALSE
    BY DEF MarketFields
  <2>4. k.needs = m.needs
    BY DEF MarketFields
  <2> HIDE DEF k
  <2> QED
    BY <2>1, <2>2, <2>3, <2>4
<1>2. CASE ~Market!Dialed(l, n) /\ Market!Exhausted(l, n)
  <2> DEFINE k == Market!Cancel(m)
             j == [k EXCEPT !.status = "failed", !.trusted = FALSE, !.failure = TRUE]
  <2>1. Market!Notified(m, l, n) = j
    BY <1>2 DEF Market!Notified
  <2>2. SameBooks(m, k) /\ k.boot = Market!NoBoot /\ k.needs = m.needs
    BY CancelForgets
  <2> HIDE DEF k
  <2>3. SameBooks(k, j) /\ j.boot = k.boot
    BY <2>2 DEF MarketFields, Market!Statuses, SameBooks
  <2>4. j.trusted = FALSE
    BY <2>2 DEF MarketFields, SameBooks
  <2>5. j.needs = k.needs
    BY <2>2 DEF MarketFields, SameBooks
  <2> HIDE DEF j
  <2> QED
    BY <1>2, <2>1, <2>2, <2>3, <2>4, <2>5 DEF SameBooks
<1>3. CASE ~Market!Dialed(l, n) /\ ~Market!Exhausted(l, n)
  BY <1>3 DEF Market!Notified, SameBooks
<1> QED
  BY <1>1, <1>2, <1>3

LEMMA BootEnds ==
  ASSUME NEW m \in MarketFields
  PROVE  /\ SameBooks(m, Market!Closed(m)) /\ Market!Closed(m).boot = Market!NoBoot /\
              ~Market!Closed(m).trusted
         /\ Market!Closed(m).needs
         /\ SameBooks(m, Market!Broken(m)) /\ Market!Broken(m).boot = Market!NoBoot
         /\ Market!Broken(m).trusted = m.trusted /\ Market!Broken(m).needs = m.needs
         /\ SameBooks(m, Market!Begun(m)) /\ Market!Begun(m).boot = Market!NoBoot /\
            ~Market!Begun(m).trusted
         /\ Market!Begun(m).needs = m.needs
<1> DEFINE k == Market!Cancel(m)
<1>1. SameBooks(m, k) /\ k.boot = Market!NoBoot /\ k.trusted = m.trusted /\ k.needs = m.needs
  BY CancelForgets
<1>2. /\ Market!Closed(m) = [k EXCEPT !.status = "disconnected", !.trusted = FALSE, !.needs = TRUE]
      /\ Market!Broken(m) = [k EXCEPT !.status = "failed", !.failure = TRUE]
      /\ Market!Begun(m) = [k EXCEPT !.failure = FALSE, !.trusted = FALSE]
  BY DEF Market!Closed, Market!Broken, Market!Begun
<1> HIDE DEF k
<1>3. SameBooks(k, Market!Closed(m)) /\ Market!Closed(m).boot = k.boot
  BY <1>1, <1>2 DEF SameBooks, MarketFields, Market!Statuses
<1>4. Market!Closed(m).trusted = FALSE
  BY <1>1, <1>2 DEF SameBooks, MarketFields
<1>5. Market!Closed(m).needs = TRUE
  BY <1>1, <1>2 DEF SameBooks, MarketFields
<1>6. SameBooks(k, Market!Broken(m)) /\ Market!Broken(m).boot = k.boot
  BY <1>1, <1>2 DEF SameBooks, MarketFields, Market!Statuses
<1>7. Market!Broken(m).trusted = k.trusted
  BY <1>1, <1>2 DEF SameBooks, MarketFields
<1>8. Market!Broken(m).needs = k.needs
  BY <1>1, <1>2 DEF SameBooks, MarketFields
<1>9. SameBooks(k, Market!Begun(m)) /\ Market!Begun(m).boot = k.boot
  BY <1>1, <1>2 DEF SameBooks, MarketFields, Market!Statuses
<1>10. Market!Begun(m).trusted = FALSE
  BY <1>1, <1>2 DEF SameBooks, MarketFields
<1>11. Market!Begun(m).needs = k.needs
  BY <1>1, <1>2 DEF SameBooks, MarketFields
<1> QED
  BY <1>1, <1>3, <1>4, <1>5, <1>6, <1>7, <1>8, <1>9, <1>10, <1>11 DEF SameBooks

\* A set of tokens as a sequence: each of them, and nothing else.
LEMMA TokensListed ==
  ASSUME NEW S \in SUBSET Market!Assets
  PROVE  /\ Market!SetToSeq(S) \in Seq(S)
         /\ \A a \in S : \E i \in 1 .. Len(Market!SetToSeq(S)) : Market!SetToSeq(S)[i] = a
<1> DEFINE n == Cardinality(S)
<1>1. IsFiniteSet(S)
  <2>1. Market!Assets = {1, 2, 3}
    BY DEF Market!Assets, FirstTokens, SecondTokens
  <2>2. IsFiniteSet(1 .. 3)
    <3>1. 1 \in Int /\ 3 \in Int
      OBVIOUS
    <3> QED
      BY <3>1, FS_Interval
  <2>3. S \in SUBSET (1 .. 3)
    BY <2>1
  <2> QED
    BY <2>2, <2>3, FS_Subset
<1>2. n \in Nat /\ ExistsBijection(1 .. n, S)
  BY <1>1, FS_CardinalityType
<1>3. PICK g : g \in Bijection(1 .. n, S)
  BY <1>2 DEF ExistsBijection
<1>4. g \in [1 .. n -> S] /\ Market!IsInjective(g)
  BY <1>3 DEF Bijection, Injection, IsInjective, Market!IsInjective
<1>5. Market!SetToSeq(S) = CHOOSE f \in [1 .. n -> S] : Market!IsInjective(f)
  BY DEF Market!SetToSeq, Market!Cardinality, Cardinality, Market!IsFiniteSet, IsFiniteSet
<1> DEFINE f == Market!SetToSeq(S)
<1> HIDE DEF n
<1>6. f \in [1 .. n -> S] /\ Market!IsInjective(f)
  BY <1>4, <1>5
<1> HIDE DEF f
<1>7. f \in Injection(1 .. n, S)
  BY <1>6 DEF Injection, IsInjective, Market!IsInjective
<1>8. Cardinality(1 .. n) = n
  BY <1>2, FS_Interval
<1>9. f \in Surjection(1 .. n, S)
  BY <1>1, <1>7, <1>8, FS_Injection DEF n
<1>10. f \in Seq(S) /\ Len(f) = n
  BY <1>2, <1>6
<1> QED
  BY <1>9, <1>10 DEF Surjection, f

\* The venue answers a subscription with the books of the tokens, each once.
Dumped(d, assets) ==
  /\ d \in Seq(Market!Messages)
  /\ \A i \in 1 .. Len(d) : d[i].asset \in assets /\ d[i].version = books[d[i].asset]
  /\ \A a \in assets : \E i \in 1 .. Len(d) : d[i].asset = a

\* A link whose client received more, or sockets whose channels grew.
Fed(l, n) ==
  /\ n.client = l.client
  /\ \A s \in Market!Sockets :
       /\ n.sockets[s].state = l.sockets[s].state
       /\ n.sockets[s].mine = l.sockets[s].mine
       /\ n.sockets[s].subscribed = l.sockets[s].subscribed
       /\ s # l.client.socket => n.sockets[s].chan = l.sockets[s].chan

Sends(l, n, T) == \E d : Dumped(d, T) /\ Held(n).chan = Held(l).chan \o d

LEMMA DumpSends ==
  ASSUME NEW l \in MarketLinks, books \in TokenNumbers, NEW assets \in SUBSET Market!Assets,
         NEW n, n = Market!Dump(l, assets)
  PROVE  /\ n \in MarketLinks /\ Fed(l, n)
         /\ ~Market!IsOpen(l) => n = l
         /\ Market!IsOpen(l) => Sends(l, n, assets)
<1>1. CASE ~Market!IsOpen(l)
  <2>1. n = l
    BY <1>1 DEF Market!Dump
  <2>2. Fed(l, n)
    BY <2>1 DEF Fed
  <2> QED
    BY <1>1, <2>1, <2>2
<1>2. CASE Market!IsOpen(l)
  <2> DEFINE h == l.client.socket
             q == Market!SetToSeq(assets)
             d == [i \in 1 .. Len(q) |->
                     [asset |-> q[i], kind |-> "book", version |-> books[q[i]]]]
             c == l.sockets[h].chan \o d
             k == [l.sockets[h] EXCEPT !.chan = c]
             ss == [l.sockets EXCEPT ![h] = k]
  <2>1. h \in Market!Sockets /\ l.sockets \in [Market!Sockets -> SocketFields] /\
          l.sockets[h] \in SocketFields
    BY <1>2 DEF Market!IsOpen, MarketLinks, ClientFields
  <2>2. /\ q \in Seq(assets)
        /\ \A a \in assets : \E i \in 1 .. Len(q) : q[i] = a
    BY TokensListed
  <2>3. n = [l EXCEPT !.sockets = ss]
    BY <1>2, <2>1 DEF Market!Dump
  <2> HIDE DEF q
  <2>4. \A i \in 1 .. Len(q) : q[i] \in assets /\ q[i] \in Market!Assets
    BY <2>2
  <2>5. Len(q) \in Nat
    BY <2>2
  <2>6. Dumped(d, assets)
    <3>1. ASSUME NEW i \in 1 .. Len(q)
          PROVE  [asset |-> q[i], kind |-> "book", version |-> books[q[i]]] \in Market!Messages
      BY <2>4 DEF Market!Messages, TokenNumbers
    <3>2. d \in Seq(Market!Messages) /\ Len(d) = Len(q)
      BY <2>5, <3>1
    <3>3. \A i \in 1 .. Len(q) : d[i].asset = q[i] /\ d[i].version = books[q[i]]
      OBVIOUS
    <3> HIDE DEF d
    <3> QED
      BY <2>2, <2>4, <3>2, <3>3 DEF Dumped
  <2> HIDE DEF d
  <2>7. c \in Seq(Market!Messages)
    BY <2>1, <2>6 DEF Dumped, SocketFields
  <2> HIDE DEF c
  <2>8. /\ k \in SocketFields /\ k.state = l.sockets[h].state /\ k.mine = l.sockets[h].mine
        /\ k.subscribed = l.sockets[h].subscribed /\ k.chan = c
    BY <2>1, <2>7 DEF SocketFields
  <2> HIDE DEF k
  <2>9. ss \in [Market!Sockets -> SocketFields] /\ ss[h] = k /\
          \A t \in Market!Sockets \ {h} : ss[t] = l.sockets[t]
    BY <2>1, <2>8
  <2> HIDE DEF ss
  <2>10. n.client = l.client /\ n.sockets = ss
    BY <2>3 DEF MarketLinks
  <2>11. n \in MarketLinks
    BY <2>3, <2>9 DEF MarketLinks
  <2>12. Fed(l, n)
    BY <2>8, <2>9, <2>10 DEF Fed
  <2>13. Held(n).chan = c
    BY <2>8, <2>9, <2>10 DEF Held
  <2>14. c = Held(l).chan \o d
    BY DEF c, Held
  <2>15. Sends(l, n, assets)
    BY <2>6, <2>13, <2>14, Zenon DEF Sends
  <2> QED
    BY <1>2, <2>11, <2>12, <2>15
<1> QED
  BY <1>1, <1>2

\* The tokens no longer tracked are forgotten, the others are as they were.
LEMMA TrackForgets ==
  ASSUME NEW m \in MarketFields, NEW assets \in SUBSET Market!Assets
  PROVE  /\ Market!Track(m, assets) \in MarketFields /\ Market!Track(m, assets).tracked = assets
         /\ Market!Track(m, assets).boot = m.boot /\ Market!Track(m, assets).status = m.status
         /\ \A a \in assets : /\ Market!Track(m, assets).shown[a] = m.shown[a]
                              /\ Market!Track(m, assets).cursor[a] = m.cursor[a]
                              /\ Market!Track(m, assets).keys[a] = m.keys[a]
         /\ \A a \in Market!Assets \ assets : /\ Market!Track(m, assets).cursor[a] = 0
                                              /\ Market!Track(m, assets).keys[a] = {}
<1> DEFINE sh == [a \in Market!Assets |-> IF a \in assets THEN m.shown[a] ELSE 0]
           cu == [a \in Market!Assets |-> IF a \in assets THEN m.cursor[a] ELSE 0]
           ke == [a \in Market!Assets |-> IF a \in assets THEN m.keys[a] ELSE {}]
<1>1. sh \in TokenNumbers /\ \A a \in assets : sh[a] = m.shown[a]
  BY TokensTyped DEF TokenNumbers, MarketFields
<1>2. cu \in TokenNumbers /\ \A a \in assets : cu[a] = m.cursor[a]
  BY TokensTyped DEF TokenNumbers, MarketFields
<1>3. \A a \in Market!Assets \ assets : cu[a] = 0
  OBVIOUS
<1>4. ke \in [Market!Assets -> MarketKeys] /\ \A a \in assets : ke[a] = m.keys[a]
  BY DEF MarketFields, MarketKeys
<1>5. \A a \in Market!Assets \ assets : ke[a] = {}
  OBVIOUS
<1>6. Market!Track(m, assets) = [m EXCEPT !.tracked = assets, !.shown = sh, !.cursor = cu,
        !.keys = ke]
  BY DEF Market!Track, MarketFields
<1> HIDE DEF sh, cu, ke
<1>7. Market!Track(m, assets) \in MarketFields
  BY <1>1, <1>2, <1>4, <1>6 DEF MarketFields
<1>8. /\ Market!Track(m, assets).tracked = assets /\ Market!Track(m, assets).boot = m.boot
      /\ Market!Track(m, assets).shown = sh /\ Market!Track(m, assets).cursor = cu
      /\ Market!Track(m, assets).keys = ke /\ Market!Track(m, assets).status = m.status
  BY <1>6 DEF MarketFields
<1> QED
  BY <1>1, <1>2, <1>3, <1>4, <1>5, <1>7, <1>8

\* The fields after an event that was not known.
Told(m, e) == [Market!Remember(m, e) EXCEPT !.shown[e.asset] = e.version]

LEMMA ToldShows ==
  ASSUME NEW m \in MarketFields, NEW e \in Market!Messages
  PROVE  /\ Told(m, e) \in MarketFields
         /\ Told(m, e).tracked = m.tracked /\ Told(m, e).boot = m.boot
         /\ Told(m, e).trusted = m.trusted /\ Told(m, e).needs = m.needs
         /\ Told(m, e).shown = [m.shown EXCEPT ![e.asset] = e.version]
         /\ Told(m, e).cursor = [m.cursor EXCEPT ![e.asset] = e.version]
         /\ Told(m, e).keys = [m.keys EXCEPT ![e.asset] = @ \cup {<<e.kind, e.version>>}]
<1> DEFINE sh == [m.shown EXCEPT ![e.asset] = e.version]
           cu == [m.cursor EXCEPT ![e.asset] = e.version]
           ke == [m.keys EXCEPT ![e.asset] = @ \cup {<<e.kind, e.version>>}]
<1>1. e.asset \in Market!Assets /\ e.version \in Market!Versions /\ e.kind \in {"book", "delta"}
  BY DEF Market!Messages
<1>2. m.shown \in TokenNumbers /\ m.cursor \in TokenNumbers /\
        m.keys \in [Market!Assets -> MarketKeys]
  BY DEF MarketFields
<1>3. sh \in TokenNumbers /\ cu \in TokenNumbers
  BY <1>1, <1>2 DEF TokenNumbers
<1>4. ke \in [Market!Assets -> MarketKeys]
  <2>1. m.keys[e.asset] \cup {<<e.kind, e.version>>} \in MarketKeys
    BY <1>1, <1>2 DEF MarketKeys
  <2> QED
    BY <1>2, <2>1
<1>5. Told(m, e) = [m EXCEPT !.keys = ke, !.cursor = cu, !.shown = sh]
  BY DEF Told, Market!Remember, MarketFields
<1> HIDE DEF sh, cu, ke
<1>6. Told(m, e) \in MarketFields
  BY <1>3, <1>4, <1>5 DEF MarketFields
<1>7. /\ Told(m, e).tracked = m.tracked /\ Told(m, e).boot = m.boot
      /\ Told(m, e).shown = sh /\ Told(m, e).cursor = cu /\ Told(m, e).keys = ke
  BY <1>5 DEF MarketFields
<1>8. Told(m, e).trusted = m.trusted
  BY <1>5 DEF MarketFields
<1>9. Told(m, e).needs = m.needs
  BY <1>5 DEF MarketFields
<1> QED
  BY <1>6, <1>7, <1>8, <1>9 DEF sh, cu, ke

\* The slots of the calls.
LEMMA LeastSlot ==
  ASSUME NEW T, T \subseteq Market!Slots, T # {}
  PROVE  \E x \in T : \A y \in T : x <= y
<1>1. \A x \in T : x = 1 \/ x = 2
  <2>1. \A x \in 1 .. 2 : x = 1 \/ x = 2
    OBVIOUS
  <2> QED
    BY <2>1 DEF Market!Slots
<1>2. CASE 1 \in T
  BY <1>1, <1>2
<1>3. CASE 1 \notin T
  BY <1>1, <1>3
<1> QED
  BY <1>2, <1>3

LEMMA PutFills ==
  ASSUME NEW c \in [Market!Slots -> MarketCalls], NEW k \in MarketCalls
  PROVE  /\ Market!Put(c, k) \in [Market!Slots -> MarketCalls]
         /\ \A i \in Market!Slots : Market!Put(c, k)[i] \in {c[i], k}
         /\ (\E i \in Market!Slots : c[i] = Market!NoCall) =>
              \E i \in Market!Slots : c[i] = Market!NoCall /\ Market!Put(c, k) = [c EXCEPT ![i] = k]
<1> DEFINE free == {i \in Market!Slots : c[i] = Market!NoCall}
           x == CHOOSE i \in free : \A j \in free : i <= j
<1>1. Market!Put(c, k) = [c EXCEPT ![x] = k]
  BY DEF Market!Put
<1>2. ASSUME \E i \in Market!Slots : c[i] = Market!NoCall
      PROVE  x \in free
  <2>1. \E i \in free : \A j \in free : i <= j
    BY <1>2, LeastSlot
  <2> QED
    BY <2>1
<1>3. free \subseteq Market!Slots /\ \A i \in free : c[i] = Market!NoCall
  OBVIOUS
<1> HIDE DEF free, x
<1> QED
  BY <1>1, <1>2, <1>3

\* The call of a bootstrap that begins.
Asked(by, of) == [Market!NoCall EXCEPT !.by = by, !.at = "asked", !.of = of]

LEMMA AskedCall ==
  ASSUME NEW by \in {"open", "start", "sync"}, NEW of \in SUBSET Market!Assets
  PROVE  /\ Asked(by, of) \in MarketCalls /\ Asked(by, of).of = of
         /\ Asked(by, of) # Market!NoCall
<1>1. Market!NoCall \in MarketCalls /\ Market!NoCall.at = "none"
  BY TokensTyped
<1>2. Asked(by, of) \in MarketCalls /\ Asked(by, of).of = of /\ Asked(by, of).at = "asked"
  BY <1>1 DEF Asked, MarketCalls
<1> QED
  BY <1>1, <1>2

\* Nobody is made to connect or to be idle.
Waits(c, d, who) ==
  \A w \in Market!Callers :
    /\ d[w] = "connecting" => w \notin who /\ c[w] = "connecting"
    /\ d[w] = "idle" => w \notin who /\ c[w] = "idle"

LEMMA BeginTyped ==
  ASSUME mcalls \in [Market!Slots -> MarketCalls], NEW m \in MarketFields,
         NEW c \in [Market!Callers -> MarketCallers],
         NEW who \in SUBSET {"open", "start", "sync"}, NEW of,
         \A w \in who : of[w] \in SUBSET Market!Assets, Market!Begin(m, c, who, of)
  PROVE  /\ mcalls' \in [Market!Slots -> MarketCalls]
         /\ mcaller' \in [Market!Callers -> MarketCallers]
         /\ market' = IF who = {} THEN m ELSE Market!Begun(m)
         /\ Waits(c, mcaller', who)
<1> DEFINE first == IF "open" \in who THEN Market!Put(mcalls, Asked("open", of["open"])) ELSE mcalls
           second == IF "start" \in who THEN Market!Put(first, Asked("start", of["start"]))
               ELSE first
<1>1. /\ market' = IF who = {} THEN m ELSE Market!Begun(m)
      /\ mcaller' = [w \in Market!Callers |->
                      IF w \in who THEN "waiting"
                      ELSE IF who = {} THEN c[w] ELSE Market!Settled(m, c, "failed")[w]]
      /\ mcalls' = IF "sync" \in who THEN Market!Put(second, Asked("sync", of["sync"])) ELSE second
  BY DEF Market!Begin, Asked
<1>2. first \in [Market!Slots -> MarketCalls]
  BY AskedCall, PutFills
<1> HIDE DEF first
<1>3. second \in [Market!Slots -> MarketCalls]
  BY <1>2, AskedCall, PutFills
<1> HIDE DEF second
<1>4. mcalls' \in [Market!Slots -> MarketCalls]
  BY <1>1, <1>3, AskedCall, PutFills
<1>5. \A w \in Market!Callers : Market!Settled(m, c, "failed")[w] = IF w \in m.boot.waiters
        THEN "failed" ELSE c[w]
  BY DEF Market!Settled
<1>6. \A w \in Market!Callers : mcaller'[w] \in {"waiting", "failed", c[w]}
  BY <1>1, <1>5
<1>7. \A w \in Market!Callers : w \in who => mcaller'[w] = "waiting"
  BY <1>1
<1>8. mcaller' \in [Market!Callers -> MarketCallers]
  <2>1. mcaller' = [w \in Market!Callers |-> mcaller'[w]]
    BY <1>1
  <2>2. \A w \in Market!Callers : mcaller'[w] \in MarketCallers
    BY <1>6 DEF MarketCallers
  <2> QED
    BY <2>1, <2>2
<1> QED
  BY <1>1, <1>4, <1>6, <1>7, <1>8 DEF Waits

\* Bootstraps that do not overlap: the calls are the ones that just began.
LEMMA BeginAsks ==
  ASSUME mcalls \in [Market!Slots -> MarketCalls], NEW m, NEW c,
         NEW who \in SUBSET {"open", "start", "sync"}, who # {}, NEW of,
         \A w \in who : of[w] \in SUBSET Market!Assets, Market!Begin(m, c, who, of), ~Overlap
  PROVE  /\ ~Market!Boot(m) /\ \A i \in Market!Slots : mcalls[i] = Market!NoCall
         /\ \A i \in Market!Slots : mcalls'[i] # Market!NoCall =>
            \E w \in who : mcalls'[i].of = of[w]
         /\ \E i \in Market!Slots : mcalls'[i] # Market!NoCall
         /\ who = {"sync"} =>
            \E i \in Market!Slots : \A j \in Market!Slots \ {i} : mcalls'[j] = Market!NoCall
<1> DEFINE first == IF "open" \in who THEN Market!Put(mcalls, Asked("open", of["open"])) ELSE mcalls
           second == IF "start" \in who THEN Market!Put(first, Asked("start", of["start"]))
               ELSE first
           third == IF "sync" \in who THEN Market!Put(second, Asked("sync", of["sync"])) ELSE second
<1>1. mcalls' = third /\ ~Market!Boot(m) /\ Market!FreeSlots = Market!Slots
  BY DEF Market!Begin, Asked
<1>2. \A i \in Market!Slots : mcalls[i] = Market!NoCall
  BY <1>1 DEF Market!FreeSlots
<1>3. 1 \in Market!Slots
  BY DEF Market!Slots
<1> DEFINE Fair(k) == /\ k \in [Market!Slots -> MarketCalls]
                      /\ \A i \in Market!Slots : k[i] # Market!NoCall =>
                         \E w \in who : k[i].of = of[w]
           Some(k) == \E i \in Market!Slots : k[i] # Market!NoCall
<1>4. ASSUME NEW k, Fair(k), NEW w \in who
      PROVE  /\ Fair(Market!Put(k, Asked(w, of[w])))
             /\ (\A i \in Market!Slots : k[i] = Market!NoCall) =>
                Some(Market!Put(k, Asked(w, of[w])))
             /\ Some(k) => Some(Market!Put(k, Asked(w, of[w])))
             /\ (\A i \in Market!Slots : k[i] = Market!NoCall) =>
                  \E i \in Market!Slots : \A j \in Market!Slots \ {i} : Market!Put(k,
                      Asked(w, of[w]))[j] = Market!NoCall
  <2>1. /\ Asked(w, of[w]) \in MarketCalls /\ Asked(w, of[w]).of = of[w]
        /\ Asked(w, of[w]) # Market!NoCall
    BY AskedCall
  <2> DEFINE g == Asked(w, of[w])
             p == Market!Put(k, g)
  <2> HIDE DEF g
  <2>2. /\ p \in [Market!Slots -> MarketCalls] /\ \A i \in Market!Slots : p[i] \in {k[i], g}
        /\ (\E i \in Market!Slots : k[i] = Market!NoCall) =>
             \E i \in Market!Slots : k[i] = Market!NoCall /\ p = [k EXCEPT ![i] = g]
    <3>1. k \in [Market!Slots -> MarketCalls]
      BY <1>4
    <3>2. g \in MarketCalls
      BY <2>1 DEF g
    <3> QED
      BY <3>1, <3>2, PutFills
  <2> HIDE DEF p
  <2>3. Fair(p)
    BY <1>4, <2>1, <2>2 DEF g
  <2>4. Some(k) => Some(p)
    BY <2>1, <2>2 DEF g
  <2>5. ASSUME \A i \in Market!Slots : k[i] = Market!NoCall
        PROVE  Some(p) /\ \E i \in Market!Slots : \A j \in Market!Slots \ {i} : p[j] = Market!NoCall
    <3>1. PICK i \in Market!Slots : p = [k EXCEPT ![i] = g]
      BY <1>3, <2>2, <2>5
    <3>2. k \in [Market!Slots -> MarketCalls]
      BY <1>4
    <3>3. p[i] = g /\ \A j \in Market!Slots \ {i} : p[j] = k[j]
      BY <3>1, <3>2
    <3> QED
      BY <2>1, <2>5, <3>3 DEF g
  <2> QED
    BY <2>3, <2>4, <2>5 DEF p, g
<1>5. Fair(mcalls)
  BY <1>2
<1> HIDE DEF Fair, Some
<1>6. Fair(first) /\ ("open" \in who => Some(first)) /\ ("open" \notin who => first = mcalls)
  BY <1>2, <1>4, <1>5
<1> HIDE DEF first
<1>7. /\ Fair(second) /\ ("open" \in who \/ "start" \in who => Some(second))
      /\ ("open" \notin who /\ "start" \notin who => second = mcalls)
  <2>1. CASE "start" \in who
    <3>1. second = Market!Put(first, Asked("start", of["start"]))
      BY <2>1
    <3>2. Fair(second) /\ (Some(first) => Some(second))
          /\ ((\A i \in Market!Slots : first[i] = Market!NoCall) => Some(second))
      BY <1>4, <1>6, <2>1, <3>1
    <3> QED
      BY <1>2, <1>6, <2>1, <3>2
  <2>2. CASE "start" \notin who
    BY <1>6, <2>2
  <2> QED
    BY <2>1, <2>2
<1> HIDE DEF second
<1>8. /\ Fair(third) /\ Some(third)
      /\ (who = {"sync"} =>
         \E i \in Market!Slots : \A j \in Market!Slots \ {i} : third[j] = Market!NoCall)
  <2>1. CASE "sync" \in who
    <3>1. third = Market!Put(second, Asked("sync", of["sync"]))
      BY <2>1
    <3>2. /\ Fair(third) /\ (Some(second) => Some(third))
          /\ ((\A i \in Market!Slots : second[i] = Market!NoCall) =>
                Some(third) /\
                    \E i \in Market!Slots : \A j \in Market!Slots \ {i} : third[j] = Market!NoCall)
      BY <1>4, <1>7, <2>1, <3>1
    <3>3. CASE who = {"sync"}
      BY <1>2, <1>7, <3>2, <3>3
    <3>4. CASE who # {"sync"}
      BY <1>2, <1>7, <3>2, <3>4
    <3> QED
      BY <3>3, <3>4
  <2>2. CASE "sync" \notin who
    BY <1>7, <2>2
  <2> QED
    BY <2>1, <2>2
<1> QED
  BY <1>1, <1>2, <1>8 DEF Fair, Some

-----------------------------------------------------------------------------
(* The market stream: what is on its way about one token.  The versions do  *)
(* not fall, lie between what was taken and what the venue holds, and the   *)
(* last of them is what the venue holds.                                    *)

Flow(ch, a, lo, hi) ==
  /\ \A i, j \in 1 .. Len(ch) :
       i <= j /\ ch[i].asset = a /\ ch[j].asset = a => ch[i].version <= ch[j].version
  /\ \A i \in 1 .. Len(ch) : ch[i].asset = a => lo <= ch[i].version /\ ch[i].version <= hi

Full(ch, a, lo, hi) ==
  /\ \A i \in 1 .. Len(ch) :
       ch[i].asset = a /\ (\A j \in 1 .. Len(ch) : i < j => ch[j].asset # a)
         => ch[i].version = hi
  /\ (\A i \in 1 .. Len(ch) : ch[i].asset # a) => lo = hi

LEMMA MessagesTyped ==
  ASSUME NEW e \in Market!Messages
  PROVE  e.asset \in Market!Assets /\ e.version \in Market!Versions /\ e.version \in Nat
<1>1. e.asset \in Market!Assets /\ e.version \in Market!Versions
  BY DEF Market!Messages
<1> QED
  BY <1>1, TokensTyped

LEMMA FlowWider ==
  ASSUME NEW ch \in Seq(Market!Messages), NEW a, NEW lo \in Nat, NEW hi \in Nat,
         NEW lo2 \in Nat, NEW hi2 \in Nat, lo2 <= lo, hi <= hi2, Flow(ch, a, lo, hi)
  PROVE  Flow(ch, a, lo2, hi2)
<1>1. ASSUME NEW i \in 1 .. Len(ch), ch[i].asset = a
      PROVE  lo2 <= ch[i].version /\ ch[i].version <= hi2
  <2>1. ch[i].version \in Nat
    <3>1. ch[i] \in Market!Messages
      OBVIOUS
    <3> QED
      BY <3>1, MessagesTyped
  <2> QED
    BY <1>1, <2>1 DEF Flow
<1> QED
  BY <1>1 DEF Flow

LEMMA FlowDump ==
  ASSUME NEW ch \in Seq(Market!Messages), NEW d \in Seq(Market!Messages), NEW a, NEW lo \in Nat,
         NEW hi \in Nat,
         lo <= hi, Flow(ch, a, lo, hi),
         \A i \in 1 .. Len(d) : d[i].asset = a => d[i].version = hi
  PROVE  /\ Flow(ch \o d, a, lo, hi)
         /\ (\E i \in 1 .. Len(d) : d[i].asset = a) => Full(ch \o d, a, lo, hi)
         /\ (\A i \in 1 .. Len(d) : d[i].asset # a) /\ Full(ch, a, lo, hi)
              => Full(ch \o d, a, lo, hi)
<1> DEFINE n == Len(ch)
           s == ch \o d
<1>1. n \in Nat /\ Len(d) \in Nat /\ Len(s) = n + Len(d)
  OBVIOUS
<1>2. \A i \in 1 .. n : i \in 1 .. Len(s) /\ s[i] = ch[i]
  OBVIOUS
<1>3. \A i \in 1 .. Len(d) : n + i \in 1 .. Len(s) /\ s[n + i] = d[i]
  OBVIOUS
<1>4. ASSUME NEW i \in 1 .. Len(s)
      PROVE  i \in 1 .. n \/ \E k \in 1 .. Len(d) : i = n + k
  <2>1. CASE i <= n
    BY <1>1, <2>1
  <2>2. CASE i > n
    <3>1. i - n \in 1 .. Len(d) /\ i = n + (i - n)
      BY <1>1, <2>2
    <3> QED
      BY <3>1
  <2> QED
    BY <1>1, <2>1, <2>2
<1> HIDE DEF n, s
<1>5. ASSUME NEW i \in 1 .. Len(s), s[i].asset = a
      PROVE  lo <= s[i].version /\ s[i].version <= hi
  <2>1. CASE i \in 1 .. n
    BY <1>2, <1>5, <2>1 DEF Flow, n
  <2>2. CASE \E k \in 1 .. Len(d) : i = n + k
    BY <1>3, <1>5, <2>2
  <2> QED
    BY <1>4, <2>1, <2>2
<1>6. ASSUME NEW i \in 1 .. Len(s), NEW j \in 1 .. Len(s), i <= j, s[i].asset = a, s[j].asset = a
      PROVE  s[i].version <= s[j].version
  <2>1. CASE j \in 1 .. n
    <3>1. i \in 1 .. n
      BY <1>1, <1>6, <2>1
    <3> QED
      BY <1>2, <1>6, <2>1, <3>1 DEF Flow, n
  <2>2. CASE \E k \in 1 .. Len(d) : j = n + k
    <3>1. s[j].version = hi
      BY <1>3, <1>6, <2>2
    <3> QED
      BY <1>5, <1>6, <3>1
  <2> QED
    BY <1>4, <2>1, <2>2
<1>7. ASSUME \E i \in 1 .. Len(d) : d[i].asset = a
      PROVE  Full(s, a, lo, hi)
  <2>1. PICK k \in 1 .. Len(d) : d[k].asset = a
    BY <1>7
  <2>2. n + k \in 1 .. Len(s) /\ s[n + k].asset = a
    BY <1>3, <2>1
  <2>3. ASSUME NEW i \in 1 .. Len(s), s[i].asset = a,
               \A j \in 1 .. Len(s) : i < j => s[j].asset # a
        PROVE  s[i].version = hi
    <3>1. ~(i < n + k)
      BY <2>2, <2>3
    <3>2. i \notin 1 .. n
      BY <1>1, <2>1, <3>1
    <3> QED
      BY <1>3, <1>4, <2>3, <3>2
  <2> QED
    BY <2>2, <2>3 DEF Full
<1>8. ASSUME \A i \in 1 .. Len(d) : d[i].asset # a, Full(ch, a, lo, hi)
      PROVE  Full(s, a, lo, hi)
  <2>1. \A i \in 1 .. Len(s) : s[i].asset = a => i \in 1 .. n
    BY <1>3, <1>4, <1>8
  <2>2. ASSUME NEW i \in 1 .. Len(s), s[i].asset = a,
               \A j \in 1 .. Len(s) : i < j => s[j].asset # a
        PROVE  s[i].version = hi
    <3>1. i \in 1 .. n /\ ch[i].asset = a /\ \A j \in 1 .. n : i < j => ch[j].asset # a
      BY <1>2, <2>1, <2>2
    <3> QED
      BY <1>2, <1>8, <3>1 DEF Full, n
  <2>3. (\A i \in 1 .. Len(s) : s[i].asset # a) => lo = hi
    BY <1>2, <1>8 DEF Full, n
  <2> QED
    BY <2>2, <2>3 DEF Full
<1> QED
  BY <1>5, <1>6, <1>7, <1>8 DEF Flow, s

LEMMA FlowAppend ==
  ASSUME NEW ch \in Seq(Market!Messages), NEW e \in Market!Messages, NEW a, NEW lo \in Nat,
         NEW hi \in Nat,
         lo <= hi, Flow(ch, a, lo, hi), e.asset = a => e.version = hi
  PROVE  /\ Flow(Append(ch, e), a, lo, hi)
         /\ e.asset = a \/ Full(ch, a, lo, hi) => Full(Append(ch, e), a, lo, hi)
<1> DEFINE d == <<e>>
<1>1. d \in Seq(Market!Messages) /\ Len(d) = 1 /\ d[1] = e
  OBVIOUS
<1>2. Append(ch, e) = ch \o d
  OBVIOUS
<1> HIDE DEF d
<1>3. 1 \in 1 .. Len(d) /\ \A i \in 1 .. Len(d) : d[i] = e
  BY <1>1
<1>4. /\ Flow(ch \o d, a, lo, hi)
      /\ (\E i \in 1 .. Len(d) : d[i].asset = a) => Full(ch \o d, a, lo, hi)
      /\ (\A i \in 1 .. Len(d) : d[i].asset # a) /\ Full(ch, a, lo, hi) => Full(ch \o d, a, lo, hi)
  BY <1>1, <1>3, FlowDump
<1> QED
  BY <1>2, <1>3, <1>4

LEMMA FlowTail ==
  ASSUME NEW ch \in Seq(Market!Messages), ch # <<>>, NEW a, NEW lo \in Nat, NEW hi \in Nat,
         Flow(ch, a, lo, hi)
  PROVE  /\ Tail(ch) \in Seq(Market!Messages) /\ Head(ch) \in Market!Messages
         /\ Flow(Tail(ch), a, lo, hi)
         /\ Head(ch).asset = a => /\ lo <= Head(ch).version /\ Head(ch).version <= hi
                                  /\ Flow(Tail(ch), a, Head(ch).version, hi)
                                  /\ Full(ch, a, lo, hi) => Full(Tail(ch), a, Head(ch).version, hi)
         /\ Head(ch).asset # a /\ Full(ch, a, lo, hi) => Full(Tail(ch), a, lo, hi)
<1> DEFINE n == Len(ch)
           t == Tail(ch)
           e == Head(ch)
<1>1. /\ n \in Nat /\ n > 0 /\ t \in Seq(Market!Messages) /\ Len(t) = n - 1
      /\ e \in Market!Messages /\ e = ch[1]
  OBVIOUS
<1>2. \A i \in 1 .. Len(t) : i + 1 \in 1 .. n /\ t[i] = ch[i + 1]
  BY <1>1
<1>3. \A i \in 1 .. n : i = 1 \/ \E k \in 1 .. Len(t) : i = k + 1
  <2>1. \A i \in 1 .. n : i # 1 => i - 1 \in 1 .. Len(t) /\ i = (i - 1) + 1
    BY <1>1
  <2> QED
    BY <2>1
<1>4. 1 \in 1 .. n
  BY <1>1
<1> HIDE DEF t, e
<1>5. \A i, j \in 1 .. Len(t) :
        i <= j /\ t[i].asset = a /\ t[j].asset = a => t[i].version <= t[j].version
  BY <1>1, <1>2 DEF Flow
<1>6. \A i \in 1 .. Len(t) : t[i].asset = a => lo <= t[i].version /\ t[i].version <= hi
  BY <1>2 DEF Flow
<1>7. \A i \in 1 .. Len(t) : e.asset = a /\ t[i].asset = a => e.version <= t[i].version
  BY <1>1, <1>2, <1>4 DEF Flow
<1>8. e.asset = a => lo <= e.version /\ e.version <= hi
  BY <1>1, <1>4 DEF Flow
<1>9. ASSUME Full(ch, a, lo, hi), NEW i \in 1 .. Len(t), t[i].asset = a,
             \A j \in 1 .. Len(t) : i < j => t[j].asset # a
      PROVE  t[i].version = hi
  <2>1. i + 1 \in 1 .. n /\ ch[i + 1].asset = a
    BY <1>2, <1>9
  <2>2. ASSUME NEW j \in 1 .. n, i + 1 < j
        PROVE  ch[j].asset # a
    <3>1. PICK k \in 1 .. Len(t) : j = k + 1
      BY <1>1, <1>3, <2>2
    <3>2. i < k
      BY <1>1, <2>2, <3>1
    <3> QED
      BY <1>2, <1>9, <3>1, <3>2
  <2>3. ch[i + 1].version = hi
    BY <1>9, <2>1, <2>2 DEF Full, n
  <2> QED
    BY <1>2, <2>3
<1>10. ASSUME Full(ch, a, lo, hi), \A i \in 1 .. Len(t) : t[i].asset # a, e.asset = a
       PROVE  e.version = hi
  <2>1. ASSUME NEW j \in 1 .. n, 1 < j
        PROVE  ch[j].asset # a
    <3>1. PICK k \in 1 .. Len(t) : j = k + 1
      BY <1>3, <2>1
    <3> QED
      BY <1>2, <1>10, <3>1
  <2>2. ch[1].asset = a /\ e.version = ch[1].version
    BY <1>1, <1>10
  <2>3. ch[1].version = hi
    BY <1>4, <1>10, <2>1, <2>2 DEF Full, n
  <2> QED
    BY <2>2, <2>3
<1>11. ASSUME Full(ch, a, lo, hi), \A i \in 1 .. Len(t) : t[i].asset # a, e.asset # a
       PROVE  lo = hi
  <2>1. \A j \in 1 .. n : ch[j].asset # a
    BY <1>1, <1>2, <1>3, <1>11
  <2> QED
    BY <1>11, <2>1 DEF Full, n
<1>12. Flow(t, a, lo, hi)
  BY <1>5, <1>6 DEF Flow
<1>13. e.asset = a => Flow(t, a, e.version, hi)
  BY <1>5, <1>6, <1>7 DEF Flow
<1>14. e.asset = a /\ Full(ch, a, lo, hi) => Full(t, a, e.version, hi)
  BY <1>9, <1>10 DEF Full
<1>15. e.asset # a /\ Full(ch, a, lo, hi) => Full(t, a, lo, hi)
  BY <1>9, <1>11 DEF Full
<1> QED
  BY <1>1, <1>8, <1>12, <1>13, <1>14, <1>15 DEF t, e

-----------------------------------------------------------------------------
(* The market stream: one socket at a time.                                 *)

NoClosing(l) == \A s \in Market!Sockets : l.sockets[s].state # "closing"

Single(l) ==
  /\ \A s \in Market!Sockets : l.sockets[s].state \in {"dialing", "open"} => s = l.client.socket
  /\ l.client.socket # Market!NoSocket =>
       /\ l.client.running /\ NoClosing(l)
       /\ Held(l).state = "open" => Held(l).subscribed
       /\ Held(l).state = "dialing" => Held(l).chan = <<>>

LEMMA HeldTyped ==
  ASSUME NEW l \in MarketLinks
  PROVE  /\ l.client \in ClientFields /\ l.sockets \in [Market!Sockets -> SocketFields]
         /\ l.client.socket # Market!NoSocket => l.client.socket \in Market!Sockets /\
            Held(l) \in SocketFields
         /\ Market!IsOpen(l) <=> l.client.socket # Market!NoSocket /\ Held(l).state = "open"
<1>1. l.client \in ClientFields /\ l.sockets \in [Market!Sockets -> SocketFields]
  BY DEF MarketLinks
<1>2. l.client.socket \in Market!Sockets \cup {Market!NoSocket}
  BY <1>1 DEF ClientFields
<1> QED
  BY <1>1, <1>2 DEF Held, Market!IsOpen

LEMMA LeavesHeld ==
  ASSUME NEW l \in MarketLinks, NEW n \in MarketLinks, Leaves(l, n)
  PROVE  /\ n.client.socket = Market!NoSocket
         /\ \A s \in Market!Sockets : /\ s # l.client.socket => n.sockets[s] = l.sockets[s]
                                      /\ s = l.client.socket => n.sockets[s].state = "closing"
<1>1. l.sockets \in [Market!Sockets -> SocketFields]
  BY HeldTyped
<1>2. CASE l.client.socket = Market!NoSocket
  BY <1>2, SocketsTyped DEF Leaves
<1>3. CASE l.client.socket # Market!NoSocket
  <2>1. n.client.socket = Market!NoSocket /\
          n.sockets = [l.sockets EXCEPT ![l.client.socket] = ClosingSocket]
    BY <1>3 DEF Leaves
  <2>2. \A s \in Market!Sockets : n.sockets[s] = IF s = l.client.socket THEN ClosingSocket
          ELSE l.sockets[s]
    BY <1>1, <2>1
  <2> QED
    BY <2>1, <2>2, SocketsTyped
<1> QED
  BY <1>2, <1>3

LEMMA DialsHeld ==
  ASSUME NEW l \in MarketLinks, NEW n \in MarketLinks, Dials(l, n)
  PROVE  /\ l.client.socket = Market!NoSocket /\ n.client.socket # Market!NoSocket /\
              n.client.running
         /\ n.client.socket \in Market!Sockets
         /\ \A s \in Market!Sockets : /\ s # n.client.socket => n.sockets[s] = l.sockets[s]
                                      /\ s = n.client.socket => n.sockets[s] = DialingSocket
<1>1. l.sockets \in [Market!Sockets -> SocketFields]
  BY HeldTyped
<1>2. PICK t \in Market!Sockets : n.client.socket = t /\
        n.sockets = [l.sockets EXCEPT ![t] = DialingSocket]
  BY DEF Dials
<1>3. \A s \in Market!Sockets : n.sockets[s] = IF s = t THEN DialingSocket ELSE l.sockets[s]
  BY <1>1, <1>2
<1>4. l.client.socket = Market!NoSocket /\ n.client.running
  BY DEF Dials
<1> QED
  BY <1>2, <1>3, <1>4, SocketsTyped

LEMMA HoldsKept ==
  ASSUME NEW l \in MarketLinks, NEW n \in MarketLinks, Holds(l),
         Calm(l, n) \/ Dials(l, n) \/ Leaves(l, n)
  PROVE  Holds(n)
<1>1. CASE Calm(l, n)
  BY <1>1 DEF Calm, Holds
<1>2. CASE Dials(l, n)
  <2>1. n.sockets[n.client.socket] = DialingSocket
    BY <1>2, DialsHeld
  <2> QED
    BY <2>1, SocketsTyped DEF Holds
<1>3. CASE Leaves(l, n)
  BY <1>3 DEF Leaves, Holds
<1> QED
  BY <1>1, <1>2, <1>3

LEMMA CalmSingle ==
  ASSUME NEW l \in MarketLinks, NEW n \in MarketLinks, Single(l), Calm(l, n),
         n.client.running \/ l.client.socket = Market!NoSocket
  PROVE  /\ Single(n) /\ (Market!IsOpen(n) <=> Market!IsOpen(l)) /\ Held(n) = Held(l)
         /\ NoClosing(n) <=> NoClosing(l)
  BY DEF Calm, Single, Market!IsOpen, Held, NoClosing

LEMMA DialsSingle ==
  ASSUME NEW l \in MarketLinks, NEW n \in MarketLinks, Single(l), Dials(l, n), NoClosing(l)
  PROVE  /\ Single(n) /\ ~Market!IsOpen(n) /\ ~Market!IsOpen(l) /\ NoClosing(n)
<1>1. /\ l.client.socket = Market!NoSocket /\ n.client.socket # Market!NoSocket /\ n.client.running
      /\ n.client.socket \in Market!Sockets
      /\ \A s \in Market!Sockets : /\ s # n.client.socket => n.sockets[s] = l.sockets[s]
                                   /\ s = n.client.socket => n.sockets[s] = DialingSocket
  BY DialsHeld
<1>2. Held(n) = DialingSocket
  BY <1>1 DEF Held
<1>3. NoClosing(n)
  BY <1>1, SocketsTyped DEF NoClosing
<1>4. \A s \in Market!Sockets : n.sockets[s].state \in {"dialing", "open"} => s = n.client.socket
  BY <1>1, SocketsTyped DEF Single
<1>5. ~Market!IsOpen(n) /\ ~Market!IsOpen(l)
  BY <1>1, <1>2, SocketsTyped, HeldTyped
<1> QED
  BY <1>1, <1>2, <1>3, <1>4, <1>5, SocketsTyped DEF Single

LEMMA LeavesSingle ==
  ASSUME NEW l \in MarketLinks, NEW n \in MarketLinks, Single(l), Leaves(l, n)
  PROVE  /\ Single(n) /\ ~Market!IsOpen(n)
         /\ l.client.socket # Market!NoSocket => ~NoClosing(n)
         /\ l.client.socket = Market!NoSocket => (NoClosing(n) <=> NoClosing(l))
<1>1. /\ n.client.socket = Market!NoSocket
      /\ \A s \in Market!Sockets : /\ s # l.client.socket => n.sockets[s] = l.sockets[s]
                                   /\ s = l.client.socket => n.sockets[s].state = "closing"
  BY LeavesHeld
<1>2. l.client.socket # Market!NoSocket => l.client.socket \in Market!Sockets
  BY HeldTyped
<1> QED
  BY <1>1, <1>2, SocketsTyped DEF Single, Market!IsOpen, NoClosing

LEMMA StopSingle ==
  ASSUME NEW l \in MarketLinks, Holds(l), Single(l)
  PROVE  Single(Market!StopClient(l)) /\ ~Market!IsOpen(Market!StopClient(l)) /\
           ~Market!StopClient(l).client.running
<1>1. /\ Market!StopClient(l).client = Market!FreshClient
      /\ \A s \in Market!Sockets :
           /\ s = l.client.socket => Market!StopClient(l).sockets[s].state = "closing"
           /\ s # l.client.socket => Market!StopClient(l).sockets[s].state = l.sockets[s].state
  BY StopForgets
<1>2. Market!StopClient(l).client.socket = Market!NoSocket /\ ~Market!StopClient(l).client.running
  BY <1>1 DEF Market!FreshClient
<1>3. \A s \in Market!Sockets : Market!StopClient(l).sockets[s].state \notin {"dialing", "open"}
  BY <1>1 DEF Single
<1> QED
  BY <1>2, <1>3 DEF Single, Market!IsOpen

LEMMA OpenSingle ==
  ASSUME NEW l \in MarketLinks, Holds(l), Single(l), NEW s \in Market!Sockets,
         l.sockets[s].state = "dialing"
  PROVE  /\ s = l.client.socket /\ l.sockets[s].mine /\ NoClosing(l) /\ ~Market!IsOpen(l)
         /\ Single(Market!HandleOpen(l, s)) /\ Holds(Market!HandleOpen(l, s)) /\
            Market!IsOpen(Market!HandleOpen(l, s))
         /\ Held(Market!HandleOpen(l, s)).chan = <<>>
<1>1. s = l.client.socket /\ s # Market!NoSocket /\ Held(l) = l.sockets[s]
  BY SocketsTyped DEF Single, Held
<1>2. /\ l.client.running /\ NoClosing(l) /\ l.sockets[s].chan = <<>> /\ l.sockets[s].mine
  BY <1>1 DEF Single, Holds
<1>3. ~Market!IsOpen(l)
  BY <1>1, HeldTyped
<1> DEFINE n == Market!HandleOpen(l, s)
<1>4. /\ n \in MarketLinks
      /\ n.client.socket = l.client.socket /\ n.client.running = l.client.running
      /\ \A t \in Market!Sockets \ {s} : n.sockets[t] = l.sockets[t]
      /\ n.sockets[s].state = "open" /\ n.sockets[s].mine = l.sockets[s].mine
      /\ n.sockets[s].chan = l.sockets[s].chan
      /\ n.sockets[s].subscribed = (l.client.socket = s)
  BY HandleOpenOpens
<1> HIDE DEF n
<1>5. Held(n) = n.sockets[s]
  BY <1>1, <1>4 DEF Held
<1>6. NoClosing(n)
  BY <1>2, <1>4 DEF NoClosing
<1>7. \A t \in Market!Sockets : n.sockets[t].state \in {"dialing", "open"} => t = n.client.socket
  BY <1>1, <1>4 DEF Single
<1>8. Single(n) /\ Holds(n) /\ Market!IsOpen(n) /\ Held(n).chan = <<>>
  BY <1>1, <1>2, <1>4, <1>5, <1>6, <1>7, HeldTyped DEF Single, Holds
<1> QED
  BY <1>1, <1>2, <1>3, <1>8 DEF n

LEMMA CloseSingle ==
  ASSUME NEW l \in MarketLinks, Holds(l), NEW s \in Market!Sockets
  PROVE  /\ Holds(Market!HandleClose(l, s))
         /\ Single(l) /\ l.sockets[s].state # "gone" =>
              Single(Market!HandleClose(l, s)) /\
                  Market!HandleClose(l, s).client.socket = Market!NoSocket
<1> DEFINE n == Market!HandleClose(l, s)
<1>1. /\ n \in MarketLinks /\ n.client.running = l.client.running
      /\ n.sockets = [l.sockets EXCEPT ![s] = Market!FreshSocket]
      /\ n.client.socket = IF l.sockets[s].mine THEN Market!NoSocket ELSE l.client.socket
  BY HandleCloseDrops
<1> HIDE DEF n
<1>2. \A t \in Market!Sockets : n.sockets[t] = IF t = s THEN Market!FreshSocket ELSE l.sockets[t]
  BY <1>1, HeldTyped
<1>3. Holds(n)
  <2>1. SUFFICES ASSUME n.client.socket # Market!NoSocket
                 PROVE  n.sockets[n.client.socket].mine
                        /\ n.sockets[n.client.socket].state \in {"dialing", "open"}
    BY DEF Holds
  <2>2. ~l.sockets[s].mine /\ n.client.socket = l.client.socket /\
          l.client.socket \in Market!Sockets
    BY <1>1, <2>1, HeldTyped
  <2> QED
    BY <1>2, <2>1, <2>2 DEF Holds
<1>4. ASSUME Single(l), l.sockets[s].state # "gone"
      PROVE  Single(n) /\ n.client.socket = Market!NoSocket
  <2>1. n.client.socket = Market!NoSocket
    <3>1. l.sockets[s].state \in LinkStates
      BY HeldTyped DEF SocketFields
    <3>2. CASE l.sockets[s].state = "closing"
      BY <1>1, <1>4, <3>2 DEF Single, NoClosing
    <3>3. CASE l.sockets[s].state \in {"dialing", "open"}
      BY <1>1, <1>4, <3>3, SocketsTyped DEF Single, Holds
    <3> QED
      BY <1>4, <3>1, <3>2, <3>3 DEF LinkStates
  <2>2. \A t \in Market!Sockets : n.sockets[t].state \in {"dialing", "open"} => t = s \/
          t = l.client.socket
    BY <1>2, <1>4 DEF Single
  <2>3. \A t \in Market!Sockets : n.sockets[t].state \notin {"dialing", "open"}
    <3>1. ~l.sockets[s].mine => l.client.socket = Market!NoSocket
      BY <1>1, <2>1
    <3>2. n.sockets[s].state = "gone"
      BY <1>2, SocketsTyped
    <3>3. l.client.socket = Market!NoSocket \/ s = l.client.socket
      <4>1. l.sockets[s].state \in LinkStates
        BY HeldTyped DEF SocketFields
      <4> QED
        BY <1>4, <4>1 DEF Single, NoClosing, LinkStates
    <3> QED
      BY <2>2, <3>2, <3>3, SocketsTyped
  <2> QED
    BY <2>1, <2>3 DEF Single
<1> QED
  BY <1>3, <1>4 DEF n

\* What the venue sends changes the channel of the socket alone.
LEMMA SendsSingle ==
  ASSUME NEW l \in MarketLinks, NEW n \in MarketLinks, n.client = l.client,
         \A s \in Market!Sockets : /\ n.sockets[s].state = l.sockets[s].state
                                   /\ n.sockets[s].mine = l.sockets[s].mine
                                   /\ n.sockets[s].subscribed = l.sockets[s].subscribed
                                   /\ l.sockets[s].state = "dialing" =>
                                      n.sockets[s].chan = l.sockets[s].chan
  PROVE  /\ Holds(l) => Holds(n)
         /\ Single(l) => Single(n)
         /\ Market!IsOpen(n) <=> Market!IsOpen(l)
         /\ NoClosing(n) <=> NoClosing(l)
<1>1. l.client.socket # Market!NoSocket => l.client.socket \in Market!Sockets
  BY HeldTyped
<1>2. Holds(l) => Holds(n)
  BY <1>1 DEF Holds
<1>3. NoClosing(n) <=> NoClosing(l)
  BY DEF NoClosing
<1>4. Market!IsOpen(n) <=> Market!IsOpen(l)
  BY <1>1 DEF Market!IsOpen
<1>5. Single(l) => Single(n)
  BY <1>1, <1>3 DEF Single, Held
<1> QED
  BY <1>2, <1>3, <1>4, <1>5

-----------------------------------------------------------------------------
(* The market stream: the fields as the actions leave them.                 *)

Started(m) == [m EXCEPT !.failure = FALSE, !.trusted = FALSE, !.needs = TRUE]
Opened(m) == [m EXCEPT !.status = "connected", !.trusted = FALSE, !.needs = FALSE]
Silent(m) == [m EXCEPT !.status = "disconnected", !.trusted = FALSE]
Stopped(m) == [Market!Cancel(m) EXCEPT !.status = "idle", !.trusted = FALSE,
                                !.failure = FALSE, !.needs = FALSE]
Faced(m, st) == [m EXCEPT !.status = st]
Failing(m, f) == [m EXCEPT !.failure = f]
Joined(m) == [m EXCEPT !.boot.waiters = @ \cup {"start"}]

LEMMA FlagsChange ==
  ASSUME NEW m \in MarketFields
  PROVE  /\ SameBooks(m, Started(m)) /\ Started(m).boot = m.boot
         /\ ~Started(m).trusted /\ Started(m).needs
         /\ SameBooks(m, Opened(m)) /\ Opened(m).boot = m.boot
         /\ ~Opened(m).trusted
         /\ SameBooks(m, Silent(m)) /\ Silent(m).boot = m.boot
         /\ ~Silent(m).trusted /\ Silent(m).needs = m.needs
         /\ SameBooks(m, Stopped(m)) /\ ~Stopped(m).trusted
<1>1. SameBooks(m, Started(m)) /\ Started(m).boot = m.boot
  BY DEF Started, SameBooks, MarketFields
<1>2. Started(m).trusted = FALSE
  BY DEF Started, MarketFields
<1>3. Started(m).needs = TRUE
  BY DEF Started, MarketFields
<1>4. SameBooks(m, Opened(m)) /\ Opened(m).boot = m.boot
  BY DEF Opened, SameBooks, MarketFields, Market!Statuses
<1>5. Opened(m).trusted = FALSE
  BY DEF Opened, MarketFields
<1>6. SameBooks(m, Silent(m)) /\ Silent(m).boot = m.boot
  BY DEF Silent, SameBooks, MarketFields, Market!Statuses
<1>7. Silent(m).trusted = FALSE
  BY DEF Silent, MarketFields
<1>8. Silent(m).needs = m.needs
  BY DEF Silent, MarketFields
<1> DEFINE k == Market!Cancel(m)
<1>9. SameBooks(m, k) /\ Stopped(m) = [k EXCEPT !.status = "idle", !.trusted = FALSE,
                                               !.failure = FALSE, !.needs = FALSE]
  BY CancelForgets DEF Stopped
<1> HIDE DEF k
<1>10. SameBooks(k, Stopped(m))
  BY <1>9 DEF SameBooks, MarketFields, Market!Statuses
<1>11. Stopped(m).trusted = FALSE
  BY <1>9 DEF SameBooks, MarketFields
<1> QED
  BY <1>1, <1>2, <1>3, <1>4, <1>5, <1>6, <1>7, <1>8, <1>9, <1>10, <1>11 DEF SameBooks

LEMMA FacedChange ==
  ASSUME NEW m \in MarketFields, NEW st \in Market!Statuses, NEW f \in BOOLEAN
  PROVE  /\ SameBooks(m, Faced(m, st)) /\ Faced(m, st).boot = m.boot
         /\ Faced(m, st).trusted = m.trusted /\ Faced(m, st).needs = m.needs
         /\ SameBooks(m, Failing(m, f))
<1>1. SameBooks(m, Faced(m, st)) /\ Faced(m, st).boot = m.boot
  BY DEF Faced, SameBooks, MarketFields
<1>2. Faced(m, st).trusted = m.trusted
  BY DEF Faced, MarketFields
<1>3. Faced(m, st).needs = m.needs
  BY DEF Faced, MarketFields
<1>4. SameBooks(m, Failing(m, f))
  BY DEF Failing, SameBooks, MarketFields
<1> QED
  BY <1>1, <1>2, <1>3, <1>4

LEMMA JoinedTyped ==
  ASSUME NEW m \in MarketFields
  PROVE  SameBooks(m, Joined(m))
<1> DEFINE b == [m.boot EXCEPT !.waiters = @ \cup {"start"}]
<1>1. "start" \in MarketWaiters
  BY DEF MarketWaiters, Market!Callers
<1>2. b \in MarketBoots
  BY <1>1 DEF MarketFields, MarketBoots
<1>3. Joined(m) = [m EXCEPT !.boot = b]
  BY DEF Joined, MarketFields
<1> HIDE DEF b
<1> QED
  BY <1>2, <1>3 DEF MarketFields, SameBooks

\* The REST books have come.
Landed(m, k) ==
  [m EXCEPT !.status = "connected",
            !.shown = [a \in Market!Assets |-> IF a \in k.of THEN k.rest[a] ELSE @[a]],
            !.boot = [awaiting |-> k.of, rest |-> k.rest, waiters |-> {k.by} \cap Market!Callers]]

LEMMA LandedShows ==
  ASSUME NEW m \in MarketFields, NEW k \in MarketCalls
  PROVE  /\ Landed(m, k) \in MarketFields /\ Market!Boot(Landed(m, k))
         /\ Landed(m, k).boot.awaiting = k.of
         /\ Landed(m, k).tracked = m.tracked /\ Landed(m, k).cursor = m.cursor
         /\ Landed(m, k).keys = m.keys
         /\ Landed(m, k).trusted = m.trusted /\ Landed(m, k).needs = m.needs
         /\ \A a \in Market!Assets \ k.of : Landed(m, k).shown[a] = m.shown[a]
<1> DEFINE sh == [a \in Market!Assets |-> IF a \in k.of THEN k.rest[a] ELSE m.shown[a]]
           b == [awaiting |-> k.of, rest |-> k.rest, waiters |-> {k.by} \cap Market!Callers]
<1>1. sh \in TokenNumbers
  BY DEF TokenNumbers, MarketFields, MarketCalls
<1>2. \A a \in Market!Assets \ k.of : sh[a] = m.shown[a]
  OBVIOUS
<1>3. b \in MarketBoots /\ b.awaiting = k.of
  BY DEF MarketCalls, MarketBoots, MarketWaiters
<1>4. b # Market!NoBoot
  <2>1. "nobody" \notin b.waiters
    BY DEF Market!Callers
  <2> QED
    BY <2>1, TokensTyped
<1>5. Landed(m, k) = [m EXCEPT !.status = "connected", !.shown = sh, !.boot = b]
  BY DEF Landed, MarketFields
<1> HIDE DEF sh, b
<1>6. Landed(m, k) \in MarketFields
  BY <1>1, <1>3, <1>5 DEF MarketFields, Market!Statuses
<1>7. /\ Landed(m, k).tracked = m.tracked /\ Landed(m, k).cursor = m.cursor
      /\ Landed(m, k).keys = m.keys /\ Landed(m, k).shown = sh /\ Landed(m, k).boot = b
  BY <1>5 DEF MarketFields
<1>8. Landed(m, k).trusted = m.trusted
  BY <1>5 DEF MarketFields
<1>9. Landed(m, k).needs = m.needs
  BY <1>5 DEF MarketFields
<1> QED
  BY <1>2, <1>3, <1>4, <1>6, <1>7, <1>8, <1>9 DEF Market!Boot

\* The handshake of a token is done, of the last one or of another.
Complete(m) == [Market!Cancel(m) EXCEPT !.trusted = TRUE, !.failure = FALSE, !.status = "connected"]
Less(m, a) == [m EXCEPT !.boot.awaiting = @ \ {a}]

LEMMA HandshakeLeaves ==
  ASSUME NEW m \in MarketFields, NEW a
  PROVE  /\ SameBooks(m, Complete(m)) /\ Complete(m).boot = Market!NoBoot
         /\ Complete(m).needs = m.needs
         /\ SameBooks(m, Less(m, a)) /\ Less(m, a).boot.awaiting = m.boot.awaiting \ {a}
         /\ Less(m, a).needs = m.needs /\ Less(m, a).trusted = m.trusted
<1> DEFINE k == Market!Cancel(m)
           b == [m.boot EXCEPT !.awaiting = @ \ {a}]
<1>1. /\ SameBooks(m, k) /\ k.boot = Market!NoBoot /\ k.needs = m.needs
      /\ Complete(m) = [k EXCEPT !.trusted = TRUE, !.failure = FALSE, !.status = "connected"]
  BY CancelForgets DEF Complete
<1> HIDE DEF k
<1>2. SameBooks(k, Complete(m)) /\ Complete(m).boot = k.boot
  BY <1>1 DEF SameBooks, MarketFields, Market!Statuses
<1>3. Complete(m).needs = k.needs
  BY <1>1 DEF SameBooks, MarketFields
<1>4. b \in MarketBoots /\ b.awaiting = m.boot.awaiting \ {a}
  BY DEF MarketFields, MarketBoots
<1>5. Less(m, a) = [m EXCEPT !.boot = b]
  BY DEF Less, MarketFields
<1> HIDE DEF b
<1>6. SameBooks(m, Less(m, a)) /\ Less(m, a).boot = b
  BY <1>4, <1>5 DEF SameBooks, MarketFields
<1>7. Less(m, a).needs = m.needs
  BY <1>5 DEF MarketFields
<1>8. Less(m, a).trusted = m.trusted
  BY <1>5 DEF MarketFields
<1> QED
  BY <1>1, <1>2, <1>3, <1>4, <1>6, <1>7, <1>8 DEF SameBooks

\* The types of the market stream.
MarketTyped ==
  /\ mlink \in MarketLinks /\ Holds(mlink) /\ market \in MarketFields
  /\ mcalls \in [Market!Slots -> MarketCalls] /\ mcaller \in [Market!Callers -> MarketCallers]
  /\ books \in TokenNumbers /\ shaken \in SUBSET Market!Assets

\* How a caller's wait may end.
LEMMA CallersSettle ==
  ASSUME NEW c \in [Market!Callers -> MarketCallers], NEW m, NEW how \in MarketCallers, NEW l, NEW n
  PROVE  /\ Market!Settled(m, c, how) \in [Market!Callers -> MarketCallers]
         /\ \A w \in Market!Callers : Market!Settled(m, c, how)[w] \in {c[w], how}
         /\ Market!GivenUp(c, l, n) \in [Market!Callers -> MarketCallers]
         /\ \A w \in Market!Callers : Market!GivenUp(c, l, n)[w] \in {c[w], "failed"}
  BY DEF Market!Settled, Market!GivenUp, MarketCallers

LEMMA FailLeaves ==
  ASSUME MarketTyped, NEW m \in MarketFields, NEW l \in MarketLinks, Holds(l), Market!Fail(m, l)
  PROVE  /\ mlink' \in MarketLinks /\ Holds(mlink)' /\ mlink'.client.running = l.client.running
         /\ l.client.running => Leaves(l, mlink')
         /\ ~l.client.running => mlink' = l
         /\ SameBooks(m, market') /\ market'.needs = m.needs
         /\ market'.trusted => m.trusted
         /\ mcaller' \in [Market!Callers -> MarketCallers]
         /\ \A w \in Market!Callers : mcaller'[w] \in {mcaller[w], "failed"}
         /\ shaken' = shaken
<1>1. /\ mlink' = Market!TriggerReconnect(l) /\
           market' = Market!Notified(Market!Broken(m), l, mlink')
      /\ mcaller' = Market!GivenUp(Market!Settled(m, mcaller, "failed"), l, mlink') /\
         shaken' = shaken
  BY DEF Market!Fail
<1>2. /\ mlink' \in MarketLinks /\ mlink'.client.running = l.client.running
      /\ l.client.running => Leaves(l, mlink')
      /\ ~l.client.running => mlink' = l
  BY <1>1, TriggerLeaves
<1>3. Holds(mlink')
  BY <1>2, HoldsKept
<1>4. SameBooks(m, Market!Broken(m)) /\ Market!Broken(m).trusted = m.trusted /\
        Market!Broken(m).needs = m.needs
  BY BootEnds
<1>5. Market!Broken(m) \in MarketFields
  BY <1>4 DEF SameBooks
<1>6. SameBooks(m, market') /\ market'.needs = m.needs /\ (market'.trusted => m.trusted)
  <2>1. /\ SameBooks(Market!Broken(m), market') /\ market'.needs = Market!Broken(m).needs
        /\ market'.trusted => Market!Broken(m).trusted
    BY <1>1, <1>5, NotifiedLeaves
  <2> QED
    BY <1>4, <2>1 DEF SameBooks
<1>7. mcaller' \in [Market!Callers -> MarketCallers] /\
        \A w \in Market!Callers : mcaller'[w] \in {mcaller[w], "failed"}
  <2> DEFINE c == Market!Settled(m, mcaller, "failed")
  <2>1. c \in [Market!Callers -> MarketCallers] /\
          \A w \in Market!Callers : c[w] \in {mcaller[w], "failed"}
    BY CallersSettle DEF MarketTyped, MarketCallers
  <2> HIDE DEF c
  <2>2. /\ Market!GivenUp(c, l, mlink') \in [Market!Callers -> MarketCallers]
        /\ \A w \in Market!Callers : Market!GivenUp(c, l, mlink')[w] \in {c[w], "failed"}
    BY <2>1, CallersSettle DEF MarketCallers
  <2> QED
    BY <1>1, <2>1, <2>2 DEF c
<1> QED
  BY <1>1, <1>2, <1>3, <1>6, <1>7

LEMMA TokensOfMarket ==
  /\ FirstTokens = {1, 2} /\ SecondTokens = {2, 3} /\ FirstTokens \in SUBSET Market!Assets /\
     SecondTokens \in SUBSET Market!Assets
  /\ SecondTokens \ FirstTokens = {3} /\ SecondTokens \ FirstTokens \in SUBSET Market!Assets
<1>1. FirstTokens = {1, 2} /\ SecondTokens = {2, 3}
  BY DEF FirstTokens, SecondTokens
<1>2. SecondTokens \ FirstTokens = {3}
  BY <1>1
<1> QED
  BY <1>1, <1>2, TokensTyped

LEMMA StartDoes ==
  ASSUME MarketTyped, Market!Start
  PROVE  /\ MarketTyped'
         /\ mcaller["start"] = "idle" /\ Market!Prompt
         /\ mlink'.client.running /\ (Calm(mlink, mlink') \/ Dials(mlink, mlink'))
         /\ market'.tracked \in {FirstTokens, SecondTokens} /\ market'.needs /\ ~market'.trusted
         /\ SameBooks(Market!Track(market, market'.tracked), market')
         /\ mcaller' = [mcaller EXCEPT !["start"] = "connecting"]
         /\ UNCHANGED <<mcalls, books, shaken>>
<1> DEFINE T == IF mbounds.syncs = 0 THEN FirstTokens ELSE SecondTokens
           k == Market!Track(market, T)
<1>1. /\ mcaller["start"] = "idle" /\ Market!Prompt /\ mlink' = Market!StartClient(mlink)
      /\ market' = Market!Notified(Started(k), mlink, mlink')
      /\ mcaller' = [mcaller EXCEPT !["start"] = "connecting"]
      /\ UNCHANGED <<mcalls, books, shaken>>
  BY DEF Market!Start, Started
<1>2. T \in {FirstTokens, SecondTokens} /\ T \in SUBSET Market!Assets
  BY TokensOfMarket
<1> HIDE DEF T
<1>3. k \in MarketFields /\ k.tracked = T
  BY <1>2, TrackForgets DEF MarketTyped
<1>4. SameBooks(k, Started(k)) /\ ~Started(k).trusted /\ Started(k).needs
  BY <1>3, FlagsChange
<1>5. SameBooks(Started(k), market') /\ market'.needs = Started(k).needs
      /\ (market'.trusted => Started(k).trusted)
  <2>1. Started(k) \in MarketFields
    BY <1>4 DEF SameBooks
  <2> QED
    BY <1>1, <2>1, NotifiedLeaves
<1>6. SameBooks(k, market') /\ market'.tracked = T /\ market' \in MarketFields
  BY <1>3, <1>4, <1>5 DEF SameBooks
<1>7. /\ mlink' \in MarketLinks /\ mlink'.client.running
      /\ Calm(mlink, mlink') \/ Dials(mlink, mlink')
  BY <1>1, StartDials DEF MarketTyped
<1>8. Holds(mlink')
  BY <1>7, HoldsKept DEF MarketTyped
<1>9. mcaller' \in [Market!Callers -> MarketCallers]
  BY <1>1 DEF MarketTyped, MarketCallers
<1> QED
  BY <1>1, <1>2, <1>4, <1>5, <1>6, <1>7, <1>8, <1>9 DEF MarketTyped

LEMMA SyncDoes ==
  ASSUME MarketTyped, Market!Sync
  PROVE  /\ MarketTyped'
         /\ ~Overlap =>
              /\ Market!IsOpen(mlink) /\ mlink' = Market!Dump(mlink, SecondTokens \ FirstTokens)
              /\ SameBooks(Market!Track(market, SecondTokens), market') /\ ~market'.trusted
              /\ market'.boot = Market!NoBoot
              /\ ~Market!Boot(market) /\ \A i \in Market!Slots : mcalls[i] = Market!NoCall
              /\ \A i \in Market!Slots : mcalls'[i] # Market!NoCall =>
                 mcalls'[i].of = SecondTokens \ FirstTokens
              /\ \E i \in Market!Slots : mcalls'[i] # Market!NoCall
              /\ \E i \in Market!Slots : \A j \in Market!Slots \ {i} : mcalls'[j] = Market!NoCall
              /\ mcaller["start"] = "done"
              /\ mcaller'["start"] # "idle" /\ mcaller'["sync"] # "connecting"
              /\ UNCHANGED <<books, shaken>>
<1> DEFINE k == Market!Track(market, SecondTokens)
           r == Faced(k, mlink.client.status)
           of == [by \in {"sync"} |-> SecondTokens \ FirstTokens]
<1>1. /\ mcaller["start"] = "done" /\ UNCHANGED <<books, shaken>>
      /\ IF Market!IsOpen(mlink)
         THEN /\ Market!Begin(r, mcaller, {"sync"}, of)
              /\ mlink' = Market!Dump(mlink, SecondTokens \ FirstTokens)
         ELSE /\ Overlap
              /\ mlink' = Market!StartClient(mlink)
              /\ market' = Market!Notified(r, mlink, mlink')
              /\ mcaller' = [mcaller EXCEPT !["sync"] = "connecting"]
              /\ UNCHANGED mcalls
  BY DEF Market!Sync, Faced
<1>2. k \in MarketFields /\ k.boot = market.boot
  BY TokensOfMarket, TrackForgets DEF MarketTyped
<1>3. SameBooks(k, r) /\ r.boot = market.boot
  <2>1. mlink.client.status \in Market!Statuses
    BY DEF MarketTyped, MarketLinks, ClientFields
  <2> QED
    BY <1>2, <2>1, FacedChange
<1> HIDE DEF r
<1>4. r \in MarketFields
  BY <1>3 DEF SameBooks
<1>5. CASE Market!IsOpen(mlink)
  <2>1. Market!Begin(r, mcaller, {"sync"}, of) /\
          mlink' = Market!Dump(mlink, SecondTokens \ FirstTokens)
    BY <1>1, <1>5
  <2>2. of["sync"] = SecondTokens \ FirstTokens /\
          \A w \in {"sync"} : of[w] \in SUBSET Market!Assets
    BY TokensOfMarket
  <2> DEFINE who == {"sync"}
  <2>3. who \in SUBSET {"open", "start", "sync"} /\ who # {} /\ "sync" \in who /\ "start" \notin who
        /\ \A w \in who : of[w] \in SUBSET Market!Assets /\ of[w] = SecondTokens \ FirstTokens
    BY <2>2
  <2>4. Market!Begin(r, mcaller, who, of)
    BY <2>1
  <2> HIDE DEF who, of
  <2>5. /\ mcalls' \in [Market!Slots -> MarketCalls] /\
             mcaller' \in [Market!Callers -> MarketCallers]
        /\ market' = Market!Begun(r) /\ Waits(mcaller, mcaller', who)
    <3>1. /\ mcalls \in [Market!Slots -> MarketCalls] /\
               mcaller \in [Market!Callers -> MarketCallers]
          /\ \A w \in who : of[w] \in SUBSET Market!Assets
      BY <2>3 DEF MarketTyped
    <3> QED
      BY <1>4, <2>3, <2>4, <3>1, BeginTyped
  <2>6. SameBooks(r, market') /\ market'.boot = Market!NoBoot /\ ~market'.trusted
    BY <1>4, <2>5, BootEnds
  <2>7. SameBooks(k, market')
    BY <1>3, <2>6 DEF SameBooks
  <2>8. mlink' \in MarketLinks /\ Fed(mlink, mlink')
    BY <2>1, TokensOfMarket, DumpSends DEF MarketTyped
  <2>9. Holds(mlink')
    BY <2>8, HeldTyped DEF MarketTyped, Holds, Fed
  <2>10. MarketTyped'
    BY <1>1, <2>5, <2>6, <2>8, <2>9 DEF MarketTyped, SameBooks
  <2>11. "start" \in Market!Callers /\ "sync" \in Market!Callers
    BY DEF Market!Callers
  <2>12. mcaller'["start"] # "idle" /\ mcaller'["sync"] # "connecting"
    BY <1>1, <2>3, <2>5, <2>11 DEF Waits
  <2>13. ASSUME ~Overlap
         PROVE  /\ ~Market!Boot(market) /\ \A i \in Market!Slots : mcalls[i] = Market!NoCall
                /\ \A i \in Market!Slots : mcalls'[i] # Market!NoCall =>
                   mcalls'[i].of = SecondTokens \ FirstTokens
                /\ \E i \in Market!Slots : mcalls'[i] # Market!NoCall
                /\ \E i \in Market!Slots : \A j \in Market!Slots \ {i} : mcalls'[j] = Market!NoCall
    <3>1. /\ ~Market!Boot(r) /\ \A i \in Market!Slots : mcalls[i] = Market!NoCall
          /\ \A i \in Market!Slots : mcalls'[i] # Market!NoCall =>
             \E w \in who : mcalls'[i].of = of[w]
          /\ \E i \in Market!Slots : mcalls'[i] # Market!NoCall
          /\ who = {"sync"} =>
             \E i \in Market!Slots : \A j \in Market!Slots \ {i} : mcalls'[j] = Market!NoCall
      BY <2>3, <2>4, <2>13, BeginAsks DEF MarketTyped
    <3>2. who = {"sync"}
      BY DEF who
    <3> QED
      BY <1>3, <2>3, <3>1, <3>2 DEF Market!Boot
  <2> QED
    BY <1>1, <1>5, <2>1, <2>6, <2>7, <2>10, <2>12, <2>13
<1>6. CASE ~Market!IsOpen(mlink)
  <2>1. /\ Overlap /\ mlink' = Market!StartClient(mlink) /\
             market' = Market!Notified(r, mlink, mlink')
        /\ mcaller' = [mcaller EXCEPT !["sync"] = "connecting"] /\ mcalls' = mcalls
    BY <1>1, <1>6
  <2>2. mlink' \in MarketLinks /\ (Calm(mlink, mlink') \/ Dials(mlink, mlink'))
    BY <2>1, StartDials DEF MarketTyped
  <2>3. Holds(mlink')
    BY <2>2, HoldsKept DEF MarketTyped
  <2>4. market' \in MarketFields
    <3>1. SameBooks(r, Market!Notified(r, mlink, mlink'))
      BY <1>4, NotifiedLeaves
    <3>2. Market!Notified(r, mlink, mlink') \in MarketFields
      BY <3>1 DEF SameBooks
    <3> QED
      BY <2>1, <3>2
  <2>5. mcaller' \in [Market!Callers -> MarketCallers]
    BY <2>1 DEF MarketTyped, MarketCallers
  <2> QED
    BY <1>1, <2>1, <2>2, <2>3, <2>4, <2>5 DEF MarketTyped
<1> QED
  BY <1>5, <1>6

LEMMA StopDoes ==
  ASSUME MarketTyped, Market!Stop
  PROVE  /\ MarketTyped'
         /\ mlink' = Market!StopClient(mlink) /\ ~market'.trusted /\ SameBooks(market, market')
         /\ mcaller'["sync"] # "connecting"
         /\ UNCHANGED <<mcalls, books, shaken>>
<1>1. /\ mlink' = Market!StopClient(mlink) /\ market' = Stopped(market)
      /\ mcaller' = [w \in Market!Callers |->
                      IF w = "start" THEN "idle"
                      ELSE IF mcaller[w] = "connecting" THEN "failed"
                           ELSE Market!Settled(market, mcaller, "failed")[w]]
      /\ UNCHANGED <<mcalls, books, shaken>>
  BY DEF Market!Stop, Stopped
<1>2. SameBooks(market, market') /\ ~market'.trusted
  BY <1>1, FlagsChange DEF MarketTyped
<1>3. mlink' \in MarketLinks /\ mlink'.client = Market!FreshClient
  BY <1>1, StopForgets DEF MarketTyped
<1>4. Holds(mlink')
  BY <1>3 DEF Holds, Market!FreshClient
<1> DEFINE c == Market!Settled(market, mcaller, "failed")
<1>5. c \in [Market!Callers -> MarketCallers] /\
        \A w \in Market!Callers : c[w] \in {mcaller[w], "failed"}
  BY CallersSettle DEF MarketTyped, MarketCallers
<1>6. mcaller' = [w \in Market!Callers |-> IF w = "start" THEN "idle"
                                   ELSE IF mcaller[w] = "connecting" THEN "failed" ELSE c[w]]
  BY <1>1
<1> HIDE DEF c
<1>7. mcaller' \in [Market!Callers -> MarketCallers]
  BY <1>5, <1>6 DEF MarketCallers
<1>8. mcaller'["sync"] # "connecting"
  BY <1>5, <1>6 DEF Market!Callers
<1> QED
  BY <1>1, <1>2, <1>3, <1>4, <1>7, <1>8 DEF MarketTyped, SameBooks

LEMMA DropDoes ==
  ASSUME MarketTyped, NEW s \in Market!Sockets, Market!Drop(s)
  PROVE  /\ MarketTyped'
         /\ mlink' = Market!HandleClose(mlink, s) /\ mlink.sockets[s].state # "gone"
         /\ SameBooks(market, market') /\ market'.needs /\ ~market'.trusted
         /\ \A w \in Market!Callers : mcaller'[w] \in {mcaller[w], "failed"}
         /\ UNCHANGED <<mcalls, books, shaken>>
<1>1. /\ mlink' = Market!HandleClose(mlink, s) /\ mlink.sockets[s].state # "gone"
      /\ market' = Market!Notified(Market!Closed(market), mlink, mlink')
      /\ mcaller' = Market!GivenUp(Market!Settled(market, mcaller, "failed"), mlink, mlink')
      /\ UNCHANGED <<mcalls, books, shaken>>
  BY DEF Market!Drop
<1>2. /\ SameBooks(market, Market!Closed(market)) /\ ~Market!Closed(market).trusted /\
           Market!Closed(market).needs
      /\ Market!Closed(market) \in MarketFields
  BY BootEnds DEF MarketTyped, SameBooks
<1>3. /\ SameBooks(Market!Closed(market), market') /\ market'.needs = Market!Closed(market).needs
      /\ market'.trusted => Market!Closed(market).trusted
  BY <1>1, <1>2, NotifiedLeaves
<1>4. SameBooks(market, market') /\ market'.needs /\ ~market'.trusted
  BY <1>2, <1>3 DEF SameBooks
<1>5. mlink' \in MarketLinks /\ Holds(mlink')
  BY <1>1, HandleCloseDrops, CloseSingle DEF MarketTyped
<1> DEFINE c == Market!Settled(market, mcaller, "failed")
<1>6. c \in [Market!Callers -> MarketCallers] /\
        \A w \in Market!Callers : c[w] \in {mcaller[w], "failed"}
  BY CallersSettle DEF MarketTyped, MarketCallers
<1>7. mcaller' = Market!GivenUp(c, mlink, mlink')
  BY <1>1
<1> HIDE DEF c
<1>8. /\ Market!GivenUp(c, mlink, mlink') \in [Market!Callers -> MarketCallers]
      /\ \A w \in Market!Callers : Market!GivenUp(c, mlink, mlink')[w] \in {c[w], "failed"}
  BY <1>6, CallersSettle DEF MarketCallers
<1> QED
  BY <1>1, <1>4, <1>5, <1>6, <1>7, <1>8 DEF MarketTyped, SameBooks

LEMMA SilenceDoes ==
  ASSUME MarketTyped, Market!Silence
  PROVE  /\ MarketTyped'
         /\ Market!IsOpen(mlink) /\ mlink'.client.running = mlink.client.running
         /\ mlink.client.running => Leaves(mlink, mlink')
         /\ SameBooks(market, market') /\ ~market'.trusted
         /\ UNCHANGED <<mcalls, mcaller, books, shaken>>
<1>1. /\ Market!IsOpen(mlink) /\ mlink' = Market!TriggerReconnect(mlink)
      /\ market' = Market!Notified(Silent(market), mlink, mlink')
      /\ UNCHANGED <<mcalls, mcaller, books, shaken>>
  BY DEF Market!Silence, Silent
<1>2. SameBooks(market, Silent(market)) /\ ~Silent(market).trusted /\
        Silent(market) \in MarketFields
  BY FlagsChange DEF MarketTyped, SameBooks
<1>3. SameBooks(Silent(market), market') /\ (market'.trusted => Silent(market).trusted)
  BY <1>1, <1>2, NotifiedLeaves
<1>4. SameBooks(market, market') /\ ~market'.trusted
  BY <1>2, <1>3 DEF SameBooks
<1>5. /\ mlink' \in MarketLinks /\ mlink'.client.running = mlink.client.running
      /\ mlink.client.running => Leaves(mlink, mlink')
      /\ ~mlink.client.running => mlink' = mlink
  BY <1>1, TriggerLeaves DEF MarketTyped
<1>6. Holds(mlink')
  BY <1>5, HoldsKept DEF MarketTyped
<1> QED
  BY <1>1, <1>4, <1>5, <1>6 DEF MarketTyped, SameBooks

LEMMA RedialDoes ==
  ASSUME MarketTyped, Market!RedialTimer
  PROVE  /\ MarketTyped'
         /\ Market!Prompt /\ (Calm(mlink, mlink') \/ Dials(mlink, mlink'))
         /\ mlink'.client.running = mlink.client.running
         /\ SameBooks(market, market') /\ market'.boot = market.boot
         /\ market'.needs = market.needs /\ (market'.trusted => market.trusted)
         /\ UNCHANGED <<mcalls, mcaller, books, shaken>>
<1>1. /\ Market!Prompt /\ mlink' = Market!Redial(mlink) /\
           market' = Market!Notified(market, mlink, mlink')
      /\ UNCHANGED <<mcalls, mcaller, books, shaken>>
  BY DEF Market!RedialTimer
<1>2. /\ mlink' \in MarketLinks /\ mlink'.client.running = mlink.client.running
      /\ mlink'.client.failed = mlink.client.failed
      /\ Calm(mlink, mlink') \/ Dials(mlink, mlink')
  BY <1>1, RedialDials DEF MarketTyped
<1>3. Holds(mlink')
  BY <1>2, HoldsKept DEF MarketTyped
<1>4. ~Market!Exhausted(mlink, mlink')
  BY <1>2 DEF Market!Exhausted
<1>5. /\ SameBooks(market, market') /\ market'.boot = market.boot
      /\ market'.needs = market.needs /\ (market'.trusted => market.trusted)
  BY <1>1, <1>4, NotifiedLeaves DEF MarketTyped
<1> QED
  BY <1>1, <1>2, <1>3, <1>5 DEF MarketTyped, SameBooks

LEMMA AnswerDoes ==
  ASSUME MarketTyped, NEW i \in Market!Slots, Market!Answer(i)
  PROVE  /\ MarketTyped'
         /\ \A j \in Market!Slots : /\ mcalls'[j] # Market!NoCall <=> mcalls[j] # Market!NoCall
                                    /\ mcalls'[j].of = mcalls[j].of
         /\ UNCHANGED <<mlink, market, mcaller, books, shaken>>
<1> DEFINE k == [mcalls[i] EXCEPT !.at = "answered", !.rest = books]
<1>1. /\ mcalls[i].at = "asked" /\ mcalls' = [mcalls EXCEPT ![i].at = "answered", ![i].rest = books]
      /\ UNCHANGED <<mlink, market, mcaller, books, shaken>>
  BY DEF Market!Answer
<1>2. mcalls \in [Market!Slots -> MarketCalls] /\ mcalls[i] \in MarketCalls /\
        books \in TokenNumbers
  BY DEF MarketTyped
<1>3. k \in MarketCalls /\ k.of = mcalls[i].of /\ k.at = "answered"
  BY <1>2 DEF MarketCalls
<1>4. mcalls' = [mcalls EXCEPT ![i] = k]
  BY <1>1, <1>2
<1> HIDE DEF k
<1>5. mcalls' \in [Market!Slots -> MarketCalls]
  BY <1>2, <1>3, <1>4
<1>6. \A j \in Market!Slots : mcalls'[j] = IF j = i THEN k ELSE mcalls[j]
  BY <1>2, <1>4
<1>7. k # Market!NoCall /\ mcalls[i] # Market!NoCall
  BY <1>1, <1>3, TokensTyped
<1> QED
  BY <1>1, <1>3, <1>5, <1>6, <1>7 DEF MarketTyped

LEMMA LandDoes ==
  ASSUME MarketTyped, NEW i \in Market!Slots, Market!Land(i)
  PROVE  /\ MarketTyped'
         /\ mcalls[i] # Market!NoCall /\ mcalls' = [mcalls EXCEPT ![i] = Market!NoCall]
         /\ \/ mlink' = mlink
            \/ /\ ~Market!IsOpen(mlink) /\ mlink.client.running /\ mlink'.client.running /\
                  Market!Prompt
               /\ Calm(mlink, mlink') \/ Dials(mlink, mlink')
         /\ SameBooks(Landed(market, mcalls[i]), market')
         /\ market'.boot = Landed(market, mcalls[i]).boot
         /\ market'.needs = market.needs /\ (market'.trusted => market.trusted)
         /\ UNCHANGED <<mcaller, books, shaken>>
<1> DEFINE k == mcalls[i]
           n == Landed(market, k)
<1>1. /\ k.at = "answered" /\ mcalls' = [mcalls EXCEPT ![i] = Market!NoCall]
      /\ mlink' = IF mlink.client.running /\ ~Market!IsOpen(mlink) /\
         mlink.client.status # "connected"
                 THEN Market!StartClient(mlink) ELSE mlink
      /\ mlink' = mlink \/ Market!Prompt
      /\ market' = Market!Notified(n, mlink, mlink')
      /\ UNCHANGED <<mcaller, books, shaken>>
  BY DEF Market!Land, Landed
<1>2. k \in MarketCalls /\ k # Market!NoCall
  BY <1>1, TokensTyped DEF MarketTyped
<1>3. n \in MarketFields /\ n.trusted = market.trusted /\ n.needs = market.needs
  BY <1>2, LandedShows DEF MarketTyped
<1> HIDE DEF n
<1>4. mlink' = mlink \/
        (mlink.client.running /\ ~Market!IsOpen(mlink) /\ mlink' = Market!StartClient(mlink))
  BY <1>1
<1>5. /\ Market!StartClient(mlink) \in MarketLinks /\ Market!StartClient(mlink).client.running
      /\ ~Market!StartClient(mlink).client.failed
      /\ Calm(mlink, Market!StartClient(mlink)) \/ Dials(mlink, Market!StartClient(mlink))
  BY StartDials DEF MarketTyped
<1>6. mlink' \in MarketLinks /\ Holds(mlink') /\ ~Market!Exhausted(mlink, mlink')
  <2>1. CASE mlink' = mlink
    BY <2>1 DEF MarketTyped, Market!Exhausted
  <2>2. CASE mlink' = Market!StartClient(mlink)
    <3>1. Holds(mlink')
      BY <1>5, <2>2, HoldsKept DEF MarketTyped
    <3> QED
      BY <1>5, <2>2, <3>1 DEF Market!Exhausted
  <2> QED
    BY <1>4, <2>1, <2>2
<1>7. /\ SameBooks(n, market') /\ market'.boot = n.boot
      /\ market'.needs = n.needs /\ (market'.trusted => n.trusted)
  BY <1>1, <1>3, <1>6, NotifiedLeaves
<1>8. mcalls' \in [Market!Slots -> MarketCalls]
  BY <1>1, TokensTyped DEF MarketTyped
<1>9. \/ mlink' = mlink
      \/ /\ ~Market!IsOpen(mlink) /\ mlink.client.running /\ mlink'.client.running /\ Market!Prompt
         /\ Calm(mlink, mlink') \/ Dials(mlink, mlink')
  BY <1>1, <1>4, <1>5
<1> QED
  BY <1>1, <1>2, <1>3, <1>6, <1>7, <1>8, <1>9 DEF MarketTyped, SameBooks, n

LEMMA RestFailsDoes ==
  ASSUME MarketTyped, NEW i \in Market!Slots, Market!RestFails(i)
  PROVE  MarketTyped' /\ "rest" \in Faults
<1> DEFINE f == market.failure \/ mcalls[i].by = "open"
<1>1. /\ mcalls' = [mcalls EXCEPT ![i] = Market!NoCall] /\ market' = Failing(market, f)
      /\ mcaller' = [w \in Market!Callers |-> IF w = mcalls[i].by THEN "failed" ELSE mcaller[w]]
      /\ UNCHANGED <<mlink, books, shaken>> /\ "rest" \in Faults
  BY DEF Market!RestFails, Market!Fault, Failing
<1>2. f \in BOOLEAN
  BY DEF MarketTyped, MarketFields
<1> HIDE DEF f
<1>3. market' \in MarketFields
  BY <1>1, <1>2, FacedChange DEF MarketTyped, SameBooks, Market!Statuses
<1>4. mcalls' \in [Market!Slots -> MarketCalls]
  BY <1>1, TokensTyped DEF MarketTyped
<1>5. mcaller' \in [Market!Callers -> MarketCallers]
  BY <1>1 DEF MarketTyped, MarketCallers
<1> QED
  BY <1>1, <1>3, <1>4, <1>5 DEF MarketTyped

LEMMA TimeoutDoes ==
  ASSUME MarketTyped, Market!BootTimeout
  PROVE  /\ MarketTyped' /\ Market!Boot(market)
         /\ mlink'.client.running = mlink.client.running
         /\ mlink.client.running => Leaves(mlink, mlink')
         /\ ~mlink.client.running => mlink' = mlink
         /\ SameBooks(market, market') /\ market'.needs = market.needs
         /\ market'.trusted => market.trusted
         /\ \A w \in Market!Callers : mcaller'[w] \in {mcaller[w], "failed"}
         /\ UNCHANGED <<mcalls, books, shaken>>
<1>1. Market!Boot(market) /\ Market!Fail(market, mlink) /\ UNCHANGED <<mcalls, books>>
  BY DEF Market!BootTimeout
<1>2. /\ mlink' \in MarketLinks /\ Holds(mlink)' /\ mlink'.client.running = mlink.client.running
      /\ mlink.client.running => Leaves(mlink, mlink')
      /\ ~mlink.client.running => mlink' = mlink
      /\ SameBooks(market, market') /\ market'.needs = market.needs
      /\ market'.trusted => market.trusted
      /\ mcaller' \in [Market!Callers -> MarketCallers]
      /\ \A w \in Market!Callers : mcaller'[w] \in {mcaller[w], "failed"}
      /\ shaken' = shaken
  BY <1>1, FailLeaves DEF MarketTyped
<1> QED
  BY <1>1, <1>2 DEF MarketTyped, SameBooks

LEMMA BookMovesDoes ==
  ASSUME MarketTyped, NEW a \in Market!Assets, Market!BookMoves(a)
  PROVE  /\ MarketTyped'
         /\ books' = [books EXCEPT ![a] = @ + 1]
         /\ \/ a \notin market.tracked /\ mlink' = mlink
            \/ \E e \in Market!Messages : /\ e.asset = a /\ e.version = books'[a]
                                          /\ mlink' = Market!Broadcast(mlink, e)
         /\ UNCHANGED <<market, mcalls, mcaller, shaken>>
<1>1. /\ books[a] < 1 /\ books' = [books EXCEPT ![a] = @ + 1]
      /\ UNCHANGED <<market, mcalls, mcaller, shaken>>
      /\ \/ a \notin market.tracked /\ mlink' = mlink
         \/ \E kind \in {"book", "delta"} :
              mlink' = Market!Broadcast(mlink, [asset |-> a, kind |-> kind, version |-> books'[a]])
  BY DEF Market!BookMoves
<1>2. books' \in TokenNumbers
  <2>1. books[a] \in 0 .. 1
    BY DEF MarketTyped, TokenNumbers, Market!Versions
  <2>2. books[a] + 1 \in 0 .. 1
    BY <1>1, <2>1
  <2>3. books[a] + 1 \in Market!Versions
    BY <2>2 DEF Market!Versions
  <2>4. books \in [Market!Assets -> Market!Versions]
    BY DEF MarketTyped, TokenNumbers
  <2> QED
    BY <1>1, <2>3, <2>4 DEF TokenNumbers
<1>3. \/ a \notin market.tracked /\ mlink' = mlink
      \/ \E e \in Market!Messages : /\ e.asset = a /\ e.version = books'[a]
                                    /\ mlink' = Market!Broadcast(mlink, e)
  <2>1. ASSUME NEW kind \in {"book", "delta"},
               mlink' = Market!Broadcast(mlink, [asset |-> a, kind |-> kind, version |-> books'[a]])
        PROVE  \E e \in Market!Messages : /\ e.asset = a /\ e.version = books'[a]
                                          /\ mlink' = Market!Broadcast(mlink, e)
    <3> DEFINE e == [asset |-> a, kind |-> kind, version |-> books'[a]]
    <3>1. e \in Market!Messages /\ e.asset = a /\ e.version = books'[a]
      BY <1>2 DEF Market!Messages, TokenNumbers
    <3>2. mlink' = Market!Broadcast(mlink, e)
      BY <2>1
    <3> HIDE DEF e
    <3> QED
      BY <3>1, <3>2
  <2> QED
    BY <1>1, <2>1
<1>4. mlink' \in MarketLinks /\ Holds(mlink')
  <2>1. CASE mlink' = mlink
    BY <2>1 DEF MarketTyped
  <2>2. CASE mlink' # mlink
    <3>1. PICK e \in Market!Messages : mlink' = Market!Broadcast(mlink, e)
      BY <1>3, <2>2
    <3>2. /\ mlink' \in MarketLinks /\ mlink'.client = mlink.client
          /\ \A s \in Market!Sockets :
               /\ mlink'.sockets[s].state = mlink.sockets[s].state
               /\ mlink'.sockets[s].mine = mlink.sockets[s].mine
      BY <3>1, BroadcastAppends DEF MarketTyped
    <3>3. mlink.client.socket # Market!NoSocket => mlink.client.socket \in Market!Sockets
      BY HeldTyped DEF MarketTyped
    <3> QED
      BY <3>2, <3>3 DEF MarketTyped, Holds
  <2> QED
    BY <2>1, <2>2
<1> QED
  BY <1>1, <1>2, <1>3, <1>4 DEF MarketTyped

LEMMA ReceiveTakes ==
  ASSUME NEW l \in MarketLinks, NEW s \in Market!Sockets, l.sockets[s].chan # <<>>
  PROVE  LET n == Market!Receive(l, s)
         IN  /\ n \in MarketLinks /\ n.client = l.client
             /\ \A t \in Market!Sockets \ {s} : n.sockets[t] = l.sockets[t]
             /\ n.sockets[s].state = l.sockets[s].state
             /\ n.sockets[s].mine = l.sockets[s].mine
             /\ n.sockets[s].subscribed = l.sockets[s].subscribed
             /\ n.sockets[s].chan = Tail(l.sockets[s].chan)
<1> DEFINE k == [l.sockets[s] EXCEPT !.chan = Tail(l.sockets[s].chan)]
           ss == [l.sockets EXCEPT ![s] = k]
<1>1. l.sockets \in [Market!Sockets -> SocketFields] /\ l.sockets[s] \in SocketFields
  BY HeldTyped
<1>2. Market!Receive(l, s) = [l EXCEPT !.sockets = ss]
  BY <1>1 DEF Market!Receive, MarketLinks
<1>3. /\ k \in SocketFields /\ k.state = l.sockets[s].state /\ k.mine = l.sockets[s].mine
      /\ k.subscribed = l.sockets[s].subscribed /\ k.chan = Tail(l.sockets[s].chan)
  <2>1. Tail(l.sockets[s].chan) \in Seq(Market!Messages)
    BY <1>1 DEF SocketFields
  <2> QED
    BY <1>1, <2>1 DEF SocketFields
<1> HIDE DEF k
<1>4. ss \in [Market!Sockets -> SocketFields] /\ ss[s] = k /\
        \A t \in Market!Sockets \ {s} : ss[t] = l.sockets[t]
  BY <1>1, <1>3
<1> HIDE DEF ss
<1> QED
  BY <1>2, <1>3, <1>4 DEF MarketLinks

LEMMA DumpHolds ==
  ASSUME MarketTyped, NEW l \in MarketLinks, Holds(l), NEW assets \in SUBSET Market!Assets
  PROVE  Market!Dump(l, assets) \in MarketLinks /\ Holds(Market!Dump(l, assets))
<1>1. PICK n : n = Market!Dump(l, assets)
  OBVIOUS
<1>2. n \in MarketLinks /\ Fed(l, n)
  BY <1>1, DumpSends DEF MarketTyped
<1>3. l.client.socket # Market!NoSocket => l.client.socket \in Market!Sockets
  BY HeldTyped
<1>4. Holds(n)
  BY <1>2, <1>3 DEF Fed, Holds
<1> QED
  BY <1>1, <1>2, <1>4

LEMMA HandleOpenHolds ==
  ASSUME NEW l \in MarketLinks, NEW s \in Market!Sockets, Holds(l)
  PROVE  Market!HandleOpen(l, s) \in MarketLinks /\ Holds(Market!HandleOpen(l, s))
<1>1. LET n == Market!HandleOpen(l, s)
      IN  /\ n \in MarketLinks /\ n.client.socket = l.client.socket
          /\ \A t \in Market!Sockets \ {s} : n.sockets[t] = l.sockets[t]
          /\ n.sockets[s].state = "open" /\ n.sockets[s].mine = l.sockets[s].mine
  BY HandleOpenOpens
<1>2. l.client.socket # Market!NoSocket => l.client.socket \in Market!Sockets
  BY HeldTyped
<1> QED
  BY <1>1, <1>2 DEF Holds

LEMMA OpenDoes ==
  ASSUME MarketTyped, NEW s \in Market!Sockets, Market!Open(s)
  PROVE  /\ MarketTyped' /\ mlink.sockets[s].state = "dialing"
         /\ ~Overlap /\ market.needs /\ mcaller["sync"] # "connecting" =>
              /\ mlink' = Market!Dump(Market!Dump(Market!HandleOpen(mlink, s), market.tracked), {})
              /\ SameBooks(market, market') /\ ~market'.trusted /\ market'.boot = Market!NoBoot
              /\ \A i \in Market!Slots : mcalls'[i] # Market!NoCall =>
                 mcalls'[i].of = market.tracked
              /\ \E i \in Market!Slots : mcalls'[i] # Market!NoCall
              /\ mcaller'["sync"] # "connecting"
              /\ mcaller'["start"] = "idle" => mcaller["start"] = "idle"
              /\ shaken' = {} /\ UNCHANGED books
<1> DEFINE opened == Opened(market)
           resumed == {w \in Market!Callers : mlink.sockets[s].mine /\ mcaller[w] = "connecting"}
           again == IF "sync" \in resumed THEN SecondTokens \ FirstTokens ELSE {}
           of == [by \in {"open", "start", "sync"} |->
                    IF by = "sync" THEN SecondTokens \ FirstTokens ELSE market.tracked]
           who == resumed \cup (IF market.needs THEN {"open"} ELSE {})
           others == resumed \ {"start"}
           waiting == [mcaller EXCEPT !["start"] = "waiting"]
<1>1. /\ mlink.sockets[s].state = "dialing"
      /\ mlink' = Market!Dump(Market!Dump(Market!HandleOpen(mlink, s), market.tracked), again)
      /\ shaken' = {} /\ UNCHANGED books
      /\ IF Market!Boot(opened) /\ ~market.needs /\ "start" \in resumed
         THEN Market!Begin(Joined(opened), waiting, others, of)
         ELSE Market!Begin(opened, mcaller, who, of)
  BY DEF Market!Open, Opened, Joined
<1>2. /\ SameBooks(market, opened) /\ opened.boot = market.boot /\ ~opened.trusted
      /\ opened \in MarketFields
  BY FlagsChange DEF MarketTyped, SameBooks
<1>3. again \in SUBSET Market!Assets /\ market.tracked \in SUBSET Market!Assets
  BY TokensOfMarket DEF MarketTyped, MarketFields
<1>4. mlink' \in MarketLinks /\ Holds(mlink')
  <2> DEFINE n == Market!HandleOpen(mlink, s)
             d == Market!Dump(n, market.tracked)
  <2>1. n \in MarketLinks /\ Holds(n)
    BY HandleOpenHolds DEF MarketTyped
  <2> HIDE DEF n
  <2>2. d \in MarketLinks /\ Holds(d)
    BY <1>3, <2>1, DumpHolds
  <2> HIDE DEF d
  <2>3. Market!Dump(d, again) \in MarketLinks /\ Holds(Market!Dump(d, again))
    BY <1>3, <2>2, DumpHolds
  <2> QED
    BY <1>1, <2>3 DEF d, n
<1>5. /\ \A w \in {"open", "start", "sync"} : of[w] \in SUBSET Market!Assets
      /\ of["open"] = market.tracked /\ of["start"] = market.tracked
  BY <1>3, TokensOfMarket
<1>6. resumed \in SUBSET Market!Callers /\ who \in SUBSET {"open", "start", "sync"}
      /\ (market.needs => "open" \in who)
  BY DEF Market!Callers
<1>7. waiting \in [Market!Callers -> MarketCallers]
  BY DEF MarketTyped, MarketCallers
<1>8. others \in SUBSET {"open", "start", "sync"}
  BY DEF Market!Callers
<1>9. mcaller["sync"] # "connecting" => "sync" \notin who /\ again = {}
  OBVIOUS
<1> HIDE DEF opened, of, waiting, who, others, resumed, again
<1>10. /\ mcalls' \in [Market!Slots -> MarketCalls] /\
            mcaller' \in [Market!Callers -> MarketCallers]
       /\ market' \in MarketFields
  <2>1. CASE Market!Boot(opened) /\ ~market.needs /\ "start" \in resumed
    <3>1. Market!Begin(Joined(opened), waiting, others, of)
      BY <1>1, <2>1
    <3>2. Joined(opened) \in MarketFields
      BY <1>2, JoinedTyped DEF SameBooks
    <3>3. /\ mcalls' \in [Market!Slots -> MarketCalls] /\
               mcaller' \in [Market!Callers -> MarketCallers]
          /\ market' = IF others = {} THEN Joined(opened) ELSE Market!Begun(Joined(opened))
      <4>1. \A w \in others : of[w] \in SUBSET Market!Assets
        BY <1>5, <1>8
      <4> QED
        BY <1>7, <1>8, <3>1, <3>2, <4>1, BeginTyped DEF MarketTyped
    <3>4. Market!Begun(Joined(opened)) \in MarketFields
      BY <3>2, BootEnds DEF SameBooks
    <3> QED
      BY <3>2, <3>3, <3>4
  <2>2. CASE ~(Market!Boot(opened) /\ ~market.needs /\ "start" \in resumed)
    <3>1. Market!Begin(opened, mcaller, who, of)
      BY <1>1, <2>2
    <3>2. \A w \in who : of[w] \in SUBSET Market!Assets
      BY <1>5, <1>6
    <3>3. /\ mcalls' \in [Market!Slots -> MarketCalls] /\
               mcaller' \in [Market!Callers -> MarketCallers]
          /\ market' = IF who = {} THEN opened ELSE Market!Begun(opened)
      BY <1>2, <1>6, <3>1, <3>2, BeginTyped DEF MarketTyped
    <3>4. Market!Begun(opened) \in MarketFields
      BY <1>2, BootEnds DEF SameBooks
    <3> QED
      BY <1>2, <3>3, <3>4
  <2> QED
    BY <2>1, <2>2
<1>11. MarketTyped'
  BY <1>1, <1>4, <1>10 DEF MarketTyped
<1>12. ASSUME ~Overlap, market.needs, mcaller["sync"] # "connecting"
       PROVE  /\ mlink' = Market!Dump(Market!Dump(Market!HandleOpen(mlink, s), market.tracked), {})
              /\ SameBooks(market, market') /\ ~market'.trusted /\ market'.boot = Market!NoBoot
              /\ \A i \in Market!Slots : mcalls'[i] # Market!NoCall =>
                 mcalls'[i].of = market.tracked
              /\ \E i \in Market!Slots : mcalls'[i] # Market!NoCall
              /\ mcaller'["sync"] # "connecting"
              /\ mcaller'["start"] = "idle" => mcaller["start"] = "idle"
  <2>1. Market!Begin(opened, mcaller, who, of) /\ again = {} /\ who # {} /\ "sync" \notin who
    BY <1>1, <1>6, <1>9, <1>12
  <2>2. \A w \in who : of[w] \in SUBSET Market!Assets /\ of[w] = market.tracked
    BY <1>5, <1>6, <2>1
  <2>3. market' = Market!Begun(opened) /\ Waits(mcaller, mcaller', who)
    <3>1. \A w \in who : of[w] \in SUBSET Market!Assets
      BY <2>2
    <3>2. /\ market' = IF who = {} THEN opened ELSE Market!Begun(opened)
          /\ Waits(mcaller, mcaller', who)
      BY <1>2, <1>6, <2>1, <3>1, BeginTyped DEF MarketTyped
    <3> QED
      BY <2>1, <3>2
  <2>4. /\ \A i \in Market!Slots : mcalls'[i] # Market!NoCall =>
             \E w \in who : mcalls'[i].of = of[w]
        /\ \E i \in Market!Slots : mcalls'[i] # Market!NoCall
    <3>1. \A w \in who : of[w] \in SUBSET Market!Assets
      BY <2>2
    <3> QED
      BY <1>6, <1>12, <2>1, <3>1, BeginAsks DEF MarketTyped
  <2>5. SameBooks(opened, market') /\ market'.boot = Market!NoBoot /\ ~market'.trusted
    BY <1>2, <2>3, BootEnds
  <2>6. SameBooks(market, market')
    BY <1>2, <2>5 DEF SameBooks
  <2>7. /\ mcaller'["sync"] # "connecting"
        /\ mcaller'["start"] = "idle" => mcaller["start"] = "idle"
    BY <1>12, <2>3 DEF Waits, Market!Callers
  <2> QED
    BY <1>1, <2>1, <2>2, <2>4, <2>5, <2>6, <2>7
<1> QED
  BY <1>1, <1>11, <1>12

\* What an event that is taken does to the handshake.
Passed(l) ==
  /\ mlink' = l /\ market'.boot = market.boot /\ market'.trusted = market.trusted
  /\ UNCHANGED <<mcaller, shaken>>
Diverged(l) ==
  /\ Market!Boot(market) /\ (market'.trusted => market.trusted)
  /\ l.client.running => Leaves(l, mlink')
  /\ ~l.client.running => mlink' = l
  /\ mlink'.client.running = l.client.running
  /\ \A w \in Market!Callers : mcaller'[w] \in {mcaller[w], "failed"}
  /\ shaken' = shaken
Shook(l, a) ==
  /\ Market!Boot(market) /\ a \in market.boot.awaiting
  /\ mlink' = l /\ shaken' = shaken \cup {a}
  /\ \/ /\ market.boot.awaiting = {a} /\ market'.boot = Market!NoBoot
        /\ Overlap \/ \A i \in Market!Slots : mcalls[i] = Market!NoCall
        /\ \A w \in Market!Callers : mcaller'[w] \in {mcaller[w], "done"}
     \/ /\ market.boot.awaiting # {a} /\ market'.trusted = market.trusted
        /\ market'.boot.awaiting = market.boot.awaiting \ {a}
        /\ mcaller' = mcaller

LEMMA HandshakeDoes ==
  ASSUME MarketTyped, NEW m \in MarketFields, m.boot = market.boot, m.trusted = market.trusted,
         NEW a \in Market!Assets, NEW v, NEW l \in MarketLinks, Holds(l),
             Market!Handshake(m, a, v, l)
  PROVE  /\ SameBooks(m, market') /\ market'.needs = m.needs
         /\ Passed(l) \/ Diverged(l) \/ Shook(l, a)
         /\ mlink' \in MarketLinks /\ Holds(mlink)'
         /\ mcaller' \in [Market!Callers -> MarketCallers] /\ shaken' \in SUBSET Market!Assets
<1>1. CASE market' = m /\ mlink' = l /\ UNCHANGED <<mcaller, shaken>>
  BY <1>1 DEF MarketTyped, SameBooks, Passed
<1>2. CASE Market!Boot(m) /\ a \in m.boot.awaiting /\ Market!Fail(m, l)
  <2>1. /\ mlink' \in MarketLinks /\ Holds(mlink)' /\ mlink'.client.running = l.client.running
        /\ l.client.running => Leaves(l, mlink')
        /\ ~l.client.running => mlink' = l
        /\ SameBooks(m, market') /\ market'.needs = m.needs
        /\ market'.trusted => m.trusted
        /\ mcaller' \in [Market!Callers -> MarketCallers]
        /\ \A w \in Market!Callers : mcaller'[w] \in {mcaller[w], "failed"}
        /\ shaken' = shaken
    BY <1>2, FailLeaves
  <2>2. Diverged(l)
    BY <1>2, <2>1 DEF Diverged, Market!Boot
  <2> QED
    BY <2>1, <2>2 DEF MarketTyped
<1>3. CASE /\ Market!Boot(m) /\ a \in m.boot.awaiting /\ mlink' = l /\ shaken' = shaken \cup {a}
           /\ m.boot.awaiting = {a} /\ (Overlap \/ Market!FreeSlots = Market!Slots)
           /\ market' = Complete(m) /\ mcaller' = Market!Settled(m, mcaller, "done")
  <2>1. SameBooks(m, market') /\ market'.boot = Market!NoBoot /\ market'.needs = m.needs
    BY <1>3, HandshakeLeaves
  <2>2. mcaller' \in [Market!Callers -> MarketCallers] /\
          \A w \in Market!Callers : mcaller'[w] \in {mcaller[w], "done"}
    BY <1>3, CallersSettle DEF MarketTyped, MarketCallers
  <2>3. Overlap \/ \A i \in Market!Slots : mcalls[i] = Market!NoCall
    BY <1>3 DEF Market!FreeSlots
  <2>4. Shook(l, a)
    BY <1>3, <2>1, <2>2, <2>3 DEF Shook, Market!Boot
  <2> QED
    BY <1>3, <2>1, <2>2, <2>4 DEF MarketTyped
<1>4. CASE /\ Market!Boot(m) /\ a \in m.boot.awaiting /\ mlink' = l /\ shaken' = shaken \cup {a}
           /\ m.boot.awaiting # {a} /\ market' = Less(m, a) /\ UNCHANGED mcaller
  <2>1. /\ SameBooks(m, market') /\ market'.boot.awaiting = m.boot.awaiting \ {a}
        /\ market'.needs = m.needs /\ market'.trusted = m.trusted
    BY <1>4, HandshakeLeaves
  <2>2. Shook(l, a)
    BY <1>4, <2>1 DEF Shook, Market!Boot
  <2> QED
    BY <1>4, <2>1, <2>2 DEF MarketTyped
<1> QED
  BY <1>1, <1>2, <1>3, <1>4 DEF Market!Handshake, Complete, Less

LEMMA DeliverDoes ==
  ASSUME MarketTyped, NEW s \in Market!Sockets, Market!Deliver(s), NEW e,
         e = Head(mlink.sockets[s].chan),
         NEW l, l = Market!Receive(mlink, s)
  PROVE  /\ MarketTyped'
         /\ mlink.sockets[s].state = "open" /\ mlink.sockets[s].chan # <<>>
         /\ e \in Market!Messages /\ l \in MarketLinks /\ Holds(l)
         /\ UNCHANGED <<mcalls, books>>
         /\ \/ /\ e.asset \notin market.tracked \/ Market!Known(market, e)
               /\ mlink' = l /\ UNCHANGED <<market, mcaller, shaken>>
            \/ /\ e.asset \in market.tracked /\ ~Market!Known(market, e)
               /\ SameBooks(Told(market, e), market') /\ market'.needs = market.needs
               /\ Passed(l) \/ Diverged(l) \/ Shook(l, e.asset)
<1> DEFINE n == Told(market, e)
           f == Faced(n, "connected")
<1>1. /\ mlink.sockets[s].state = "open" /\ mlink.sockets[s].chan # <<>>
      /\ UNCHANGED <<mcalls, books>>
      /\ IF e.asset \notin market.tracked \/ Market!Known(market, e)
         THEN mlink' = l /\ UNCHANGED <<market, mcaller, shaken>>
         ELSE IF e.kind = "delta"
              THEN mlink' = l /\ market' = n /\ UNCHANGED <<mcaller, shaken>>
              ELSE Market!Handshake(f, e.asset, e.version, l)
  BY DEF Market!Deliver, Told, Faced
<1>2. e \in Market!Messages
  <2>1. mlink.sockets[s].chan \in Seq(Market!Messages) /\ mlink.sockets[s].chan # <<>>
    BY <1>1, HeldTyped DEF MarketTyped, SocketFields
  <2> QED
    BY <2>1
<1>3. e.asset \in Market!Assets
  BY <1>2, MessagesTyped
<1>4. l \in MarketLinks /\ Holds(l)
  <2>1. /\ l \in MarketLinks /\ l.client = mlink.client
        /\ \A t \in Market!Sockets \ {s} : l.sockets[t] = mlink.sockets[t]
        /\ l.sockets[s].state = mlink.sockets[s].state
        /\ l.sockets[s].mine = mlink.sockets[s].mine
    BY <1>1, ReceiveTakes DEF MarketTyped
  <2>2. mlink.client.socket # Market!NoSocket => mlink.client.socket \in Market!Sockets
    BY HeldTyped DEF MarketTyped
  <2> QED
    BY <2>1, <2>2 DEF MarketTyped, Holds
<1>5. /\ n \in MarketFields /\ n.boot = market.boot /\ n.trusted = market.trusted
      /\ n.needs = market.needs
  BY <1>2, ToldShows DEF MarketTyped
<1> HIDE DEF n
<1>6. /\ SameBooks(n, f) /\ f.boot = market.boot /\ f.trusted = market.trusted
      /\ f.needs = market.needs
  BY <1>5, FacedChange DEF Market!Statuses
<1>7. f \in MarketFields
  BY <1>6 DEF SameBooks
<1> HIDE DEF f
<1>8. CASE e.asset \notin market.tracked \/ Market!Known(market, e)
  <2>1. mlink' = l /\ UNCHANGED <<market, mcaller, shaken>>
    BY <1>1, <1>8
  <2>2. MarketTyped'
    BY <1>1, <1>4, <2>1 DEF MarketTyped
  <2> QED
    BY <1>1, <1>2, <1>4, <1>8, <2>1, <2>2
<1>9. CASE e.asset \in market.tracked /\ ~Market!Known(market, e)
  <2>1. CASE e.kind = "delta"
    <3>1. mlink' = l /\ market' = n /\ UNCHANGED <<mcaller, shaken>>
      BY <1>1, <1>9, <2>1
    <3>2. MarketTyped'
      BY <1>1, <1>4, <1>5, <3>1 DEF MarketTyped
    <3>3. SameBooks(n, market') /\ market'.needs = market.needs /\ Passed(l)
      BY <1>5, <3>1 DEF SameBooks, Passed
    <3> QED
      BY <1>1, <1>2, <1>4, <1>9, <3>2, <3>3 DEF n
  <2>2. CASE e.kind # "delta"
    <3>1. Market!Handshake(f, e.asset, e.version, l)
      BY <1>1, <1>9, <2>2
    <3>2. /\ SameBooks(f, market') /\ market'.needs = f.needs
          /\ Passed(l) \/ Diverged(l) \/ Shook(l, e.asset)
          /\ mlink' \in MarketLinks /\ Holds(mlink)'
          /\ mcaller' \in [Market!Callers -> MarketCallers] /\ shaken' \in SUBSET Market!Assets
      BY <1>3, <1>4, <1>6, <1>7, <3>1, HandshakeDoes
    <3>3. MarketTyped'
      BY <1>1, <3>2 DEF MarketTyped, SameBooks
    <3>4. SameBooks(n, market') /\ market'.needs = market.needs
      BY <1>6, <3>2 DEF SameBooks
    <3> QED
      BY <1>1, <1>2, <1>4, <1>9, <3>2, <3>3, <3>4 DEF n
  <2> QED
    BY <2>1, <2>2
<1> QED
  BY <1>8, <1>9

LEMMA MarketTypedInit == Market!Init => MarketTyped
<1> SUFFICES ASSUME Market!Init PROVE MarketTyped
  OBVIOUS
<1> USE TokensTyped, SocketsTyped
<1>1. mlink \in MarketLinks /\ Holds(mlink)
  BY DEF Market!Init, Holds, Market!FreshLink, Market!FreshClient
<1>2. market \in MarketFields
  <2>1. [a \in Market!Assets |-> {}] \in [Market!Assets -> MarketKeys]
    BY DEF MarketKeys
  <2> QED
    BY <2>1 DEF Market!Init, MarketFields, Market!Statuses
<1>3. mcalls \in [Market!Slots -> MarketCalls] /\ mcaller \in [Market!Callers -> MarketCallers]
  BY DEF Market!Init, MarketCallers
<1> QED
  BY <1>1, <1>2, <1>3 DEF Market!Init, MarketTyped

LEMMA MarketTypedStutter ==
  ASSUME MarketTyped, UNCHANGED mvars
  PROVE  MarketTyped'
BY DEF MarketTyped, mvars, MarketLinks, MarketFields, TokenNumbers, MarketCalls

LEMMA MarketTypedNext ==
  ASSUME MarketTyped, Market!Next
  PROVE  MarketTyped'
<1>1. CASE Market!Start \/ Market!Sync \/ Market!Stop
  BY <1>1, StartDoes, SyncDoes, StopDoes
<1>2. CASE Market!Silence \/ Market!RedialTimer \/ Market!BootTimeout
  BY <1>2, SilenceDoes, RedialDoes, TimeoutDoes
<1>3. ASSUME NEW s \in Market!Sockets, Market!Open(s)
      PROVE  MarketTyped'
  BY <1>3, OpenDoes
<1>4. ASSUME NEW s \in Market!Sockets, Market!Deliver(s)
      PROVE  MarketTyped'
  BY <1>4, DeliverDoes
<1>5. ASSUME NEW s \in Market!Sockets, Market!Drop(s)
      PROVE  MarketTyped'
  BY <1>5, DropDoes
<1>6. ASSUME NEW i \in Market!Slots, Market!Answer(i) \/ Market!Land(i) \/ Market!RestFails(i)
      PROVE  MarketTyped'
  BY <1>6, AnswerDoes, LandDoes, RestFailsDoes
<1>7. ASSUME NEW a \in Market!Assets, Market!BookMoves(a)
      PROVE  MarketTyped'
  BY <1>7, BookMovesDoes
<1> QED
  BY <1>1, <1>2, <1>3, <1>4, <1>5, <1>6, <1>7 DEF Market!Next

LEMMA MarketTypedOK == MarketTyped => Market!TypeOK
<1> SUFFICES ASSUME MarketTyped PROVE Market!TypeOK
  OBVIOUS
<1>1. Market!LinkOK(mlink, Market!Messages)
  BY DEF MarketTyped, MarketLinks, ClientFields, SocketFields, LinkStates, Holds, Market!LinkOK
<1>2. /\ market.tracked \subseteq Market!Assets /\ market.boot.awaiting \subseteq Market!Assets
      /\ market.status \in Market!Statuses
      /\ market.shown \in [Market!Assets -> Market!Versions] /\
         market.cursor \in [Market!Assets -> Market!Versions]
  BY DEF MarketTyped, MarketFields, MarketBoots, TokenNumbers
<1>3. /\ mcaller \in [Market!Callers -> {"idle", "connecting", "waiting", "done", "failed"}]
      /\ books \in [Market!Assets -> Market!Versions] /\ shaken \subseteq Market!Assets
  BY DEF MarketTyped, MarketCallers, TokenNumbers
<1> QED
  BY <1>1, <1>2, <1>3 DEF Market!TypeOK

(* The market stream: what its trust rests on, when bootstraps and closes   *)
(* do not overlap and the REST call of a bootstrap is answered.             *)

Ordinary == ~Overlap /\ ~LateClose /\ "rest" \notin Faults

NoCalls == \A i \in Market!Slots : mcalls[i] = Market!NoCall

\* An unopened socket will be bootstrapped when it opens.
Ready ==
  /\ mcaller["start"] = "idle" => ~mlink.client.running
  /\ mcaller["sync"] # "connecting"
  /\ mlink.client.running => market.tracked \in {FirstTokens, SecondTokens}
  /\ mlink.client.running /\ ~Market!IsOpen(mlink) /\ NoClosing(mlink) => market.needs

Earned ==
  market.trusted => market.tracked \subseteq shaken /\ ~Market!Boot(market) /\ NoCalls

\* A token had its handshake on this socket, or a bootstrap still asks for it.
Covered ==
  /\ \A i \in Market!Slots : mcalls[i] # Market!NoCall =>
     market.tracked \subseteq shaken \cup mcalls[i].of
  /\ Market!Boot(market) => market.tracked \subseteq shaken \cup market.boot.awaiting
  /\ NoCalls /\ ~Market!Boot(market) => market.tracked \subseteq shaken
  /\ \A i \in Market!Slots :
       mcalls[i] # Market!NoCall /\
           (Market!Boot(market) \/ \E j \in Market!Slots \ {i} : mcalls[j] # Market!NoCall)
         => market.tracked \subseteq mcalls[i].of
  /\ market.tracked = FirstTokens => shaken \subseteq FirstTokens

\* What was taken of a token's book is not ahead of the venue.
Counted(a) ==
  /\ market.cursor[a] <= books[a]
  /\ \A k \in market.keys[a] : k[2] <= market.cursor[a]

\* What is on its way brings a tracked token to the venue's book, and what was
\* taken since its handshake is what is shown.
Carried(a) ==
  /\ Flow(Held(mlink).chan, a, market.cursor[a], books[a])
  /\ a \in market.tracked => Full(Held(mlink).chan, a, market.cursor[a], books[a])
  /\ a \in market.tracked \cap shaken /\ a \notin market.boot.awaiting
       => market.shown[a] = market.cursor[a]

MarketInv ==
  /\ MarketTyped /\ Single(mlink) /\ Ready /\ Earned
  /\ Market!IsOpen(mlink) => Covered
  /\ \A a \in Market!Assets : Counted(a)
  /\ Market!IsOpen(mlink) => \A a \in Market!Assets : Carried(a)

LEMMA NumbersTyped ==
  ASSUME NEW m \in MarketFields, NEW b \in TokenNumbers, NEW a \in Market!Assets
  PROVE  /\ m.cursor[a] \in Nat /\ m.shown[a] \in Nat /\ b[a] \in Nat
         /\ \A k \in m.keys[a] : k[2] \in Nat
         /\ m.tracked \in SUBSET Market!Assets /\ m.boot \in MarketBoots
<1>1. m.cursor[a] \in Nat /\ m.shown[a] \in Nat
  BY TokensTyped DEF MarketFields, TokenNumbers
<1>2. b[a] \in Nat
  BY TokensTyped DEF TokenNumbers
<1>3. m.keys[a] \in SUBSET ({"book", "delta"} \X Market!Versions)
  BY DEF MarketFields, MarketKeys
<1>4. m.tracked \in SUBSET Market!Assets /\ m.boot \in MarketBoots
  BY DEF MarketFields
<1>5. \A k \in {"book", "delta"} \X Market!Versions : k[2] \in Nat
  BY TokensTyped
<1> QED
  BY <1>1, <1>2, <1>3, <1>4, <1>5

LEMMA SameCounted ==
  ASSUME \A a \in Market!Assets : Counted(a), SameBooks(market, market'), UNCHANGED books
  PROVE  \A a \in Market!Assets : Counted(a)'
BY DEF Counted, SameBooks

LEMMA TrackCounted ==
  ASSUME MarketTyped, \A a \in Market!Assets : Counted(a), UNCHANGED books,
         NEW T \in SUBSET Market!Assets, SameBooks(Market!Track(market, T), market')
  PROVE  \A a \in Market!Assets : Counted(a)'
<1> SUFFICES ASSUME NEW a \in Market!Assets PROVE Counted(a)'
  OBVIOUS
<1>1. market'.cursor = Market!Track(market, T).cursor /\ market'.keys = Market!Track(market, T).keys
  BY DEF SameBooks
<1>2. CASE a \in T
  BY <1>1, <1>2, TrackForgets DEF Counted, MarketTyped
<1>3. CASE a \notin T
  <2>1. market'.cursor[a] = 0 /\ market'.keys[a] = {}
    BY <1>1, <1>3, TrackForgets DEF MarketTyped
  <2>2. books[a] \in Nat
    BY NumbersTyped DEF MarketTyped
  <2> QED
    BY <2>1, <2>2 DEF Counted
<1> QED
  BY <1>2, <1>3

\* A socket that is closed on purpose.
LEMMA EndsKeep ==
  ASSUME MarketInv, MarketTyped', NEW l \in MarketLinks, Single(l), l.client = mlink.client,
         NoClosing(l) <=> NoClosing(mlink), Market!IsOpen(l) <=> Market!IsOpen(mlink),
         l.client.running => Leaves(l, mlink'), ~l.client.running => mlink' = l,
         mlink'.client.running = l.client.running,
         market'.tracked = market.tracked, market'.needs = market.needs, ~market'.trusted,
         \A w \in Market!Callers : mcaller'[w] \in {mcaller[w], "failed"},
         \A a \in Market!Assets : Counted(a)'
  PROVE  MarketInv'
<1> USE DEF MarketInv
<1>1. Single(mlink)' /\ ~Market!IsOpen(mlink')
  <2>1. CASE l.client.running
    BY <2>1, LeavesSingle DEF MarketTyped
  <2>2. CASE ~l.client.running
    BY <2>2 DEF Single, Market!IsOpen
  <2> QED
    BY <2>1, <2>2
<1>2. Ready'
  <2>1. mcaller'["start"] = "idle" => ~mlink'.client.running
    BY DEF Ready, Market!Callers
  <2>2. mcaller'["sync"] # "connecting"
    BY DEF Ready, Market!Callers
  <2>3. mlink'.client.running => market'.tracked \in {FirstTokens, SecondTokens}
    BY DEF Ready
  <2>4. mlink'.client.running /\ ~Market!IsOpen(mlink') /\ NoClosing(mlink') => market'.needs
    <3> SUFFICES ASSUME mlink'.client.running, NoClosing(mlink') PROVE market.needs
      OBVIOUS
    <3>1. l.client.socket = Market!NoSocket /\ NoClosing(l)
      BY LeavesSingle DEF MarketTyped
    <3>2. ~Market!IsOpen(mlink)
      BY <3>1 DEF Market!IsOpen
    <3> QED
      BY <3>1, <3>2 DEF Ready
  <2> QED
    BY <2>1, <2>2, <2>3, <2>4 DEF Ready
<1> QED
  BY <1>1, <1>2 DEF Earned

LEMMA StartKeeps ==
  ASSUME MarketInv, Ordinary, Market!Start
  PROVE  MarketInv'
<1> USE DEF MarketInv
<1>1. /\ MarketTyped' /\ Market!Prompt /\ mcaller["start"] = "idle"
      /\ mlink'.client.running /\ (Calm(mlink, mlink') \/ Dials(mlink, mlink'))
      /\ market'.tracked \in {FirstTokens, SecondTokens} /\ market'.needs /\ ~market'.trusted
      /\ SameBooks(Market!Track(market, market'.tracked), market')
      /\ mcaller' = [mcaller EXCEPT !["start"] = "connecting"]
      /\ UNCHANGED <<mcalls, books, shaken>>
  BY StartDoes
<1>2. mlink \in MarketLinks /\ mlink' \in MarketLinks /\
        mcaller \in [Market!Callers -> MarketCallers]
  BY <1>1 DEF MarketTyped
<1>3. NoClosing(mlink) /\ ~Market!IsOpen(mlink) /\ mlink.client.socket = Market!NoSocket
  BY <1>1 DEF Market!Prompt, Ordinary, NoClosing, Ready, Single, Market!IsOpen
<1>4. Single(mlink)' /\ ~Market!IsOpen(mlink')
  BY <1>1, <1>2, <1>3, CalmSingle, DialsSingle
<1>5. Ready'
  <2>1. mcaller'["start"] = "connecting" /\ mcaller'["sync"] = mcaller["sync"]
    BY <1>1, <1>2 DEF Market!Callers
  <2> QED
    BY <1>1, <2>1 DEF Ready
<1>6. \A a \in Market!Assets : Counted(a)'
  BY <1>1, TrackCounted, TokensOfMarket
<1> QED
  BY <1>1, <1>4, <1>5, <1>6 DEF Earned

LEMMA StopKeeps ==
  ASSUME MarketInv, Market!Stop
  PROVE  MarketInv'
<1> USE DEF MarketInv
<1>1. /\ MarketTyped' /\ mlink' = Market!StopClient(mlink) /\ ~market'.trusted
      /\ SameBooks(market, market') /\ mcaller'["sync"] # "connecting"
      /\ UNCHANGED <<mcalls, books, shaken>>
  BY StopDoes
<1>2. Single(mlink)' /\ ~Market!IsOpen(mlink') /\ ~mlink'.client.running
  BY <1>1, StopSingle DEF MarketTyped
<1>3. \A a \in Market!Assets : Counted(a)'
  BY <1>1, SameCounted
<1> QED
  BY <1>1, <1>2, <1>3 DEF Earned, Ready

LEMMA DropKeeps ==
  ASSUME MarketInv, NEW s \in Market!Sockets, Market!Drop(s)
  PROVE  MarketInv'
<1> USE DEF MarketInv
<1>1. /\ MarketTyped' /\ mlink' = Market!HandleClose(mlink, s) /\ mlink.sockets[s].state # "gone"
      /\ SameBooks(market, market') /\ market'.needs /\ ~market'.trusted
      /\ \A w \in Market!Callers : mcaller'[w] \in {mcaller[w], "failed"}
      /\ UNCHANGED <<mcalls, books, shaken>>
  BY DropDoes
<1>2. Single(mlink)' /\ mlink'.client.socket = Market!NoSocket /\ ~Market!IsOpen(mlink')
  BY <1>1, CloseSingle DEF MarketTyped, Market!IsOpen
<1>3. mlink'.client.running = mlink.client.running
  BY <1>1, HandleCloseDrops DEF MarketTyped
<1>4. \A a \in Market!Assets : Counted(a)'
  BY <1>1, SameCounted
<1>5. Ready'
  BY <1>1, <1>3 DEF Ready, SameBooks, Market!Callers
<1> QED
  BY <1>1, <1>2, <1>4, <1>5 DEF Earned

LEMMA SilenceKeeps ==
  ASSUME MarketInv, Market!Silence
  PROVE  MarketInv'
<1> USE DEF MarketInv
<1>1. /\ MarketTyped' /\ Market!IsOpen(mlink) /\ mlink'.client.running = mlink.client.running
      /\ mlink.client.running => Leaves(mlink, mlink')
      /\ SameBooks(market, market') /\ ~market'.trusted
      /\ UNCHANGED <<mcalls, mcaller, books, shaken>>
  BY SilenceDoes
<1>2. mlink.client.running /\ mlink.client.socket # Market!NoSocket
  BY <1>1 DEF Market!IsOpen, Single
<1>3. Single(mlink)' /\ ~Market!IsOpen(mlink') /\ ~NoClosing(mlink')
  BY <1>1, <1>2, LeavesSingle DEF MarketTyped
<1>4. \A a \in Market!Assets : Counted(a)'
  BY <1>1, SameCounted
<1>5. Ready'
  BY <1>1, <1>3 DEF Ready, SameBooks
<1> QED
  BY <1>1, <1>3, <1>4, <1>5 DEF Earned

LEMMA TimeoutKeeps ==
  ASSUME MarketInv, Market!BootTimeout
  PROVE  MarketInv'
<1> USE DEF MarketInv
<1>1. /\ MarketTyped' /\ Market!Boot(market)
      /\ mlink'.client.running = mlink.client.running
      /\ mlink.client.running => Leaves(mlink, mlink')
      /\ ~mlink.client.running => mlink' = mlink
      /\ SameBooks(market, market') /\ market'.needs = market.needs
      /\ market'.trusted => market.trusted
      /\ \A w \in Market!Callers : mcaller'[w] \in {mcaller[w], "failed"}
      /\ UNCHANGED <<mcalls, books, shaken>>
  BY TimeoutDoes
<1>2. ~market'.trusted /\ market'.tracked = market.tracked
  BY <1>1 DEF Earned, SameBooks
<1>3. \A a \in Market!Assets : Counted(a)'
  BY <1>1, SameCounted
<1> QED
  BY <1>1, <1>2, <1>3, EndsKeep DEF MarketTyped

LEMMA AnswerKeeps ==
  ASSUME MarketInv, NEW i \in Market!Slots, Market!Answer(i)
  PROVE  MarketInv'
<1> USE DEF MarketInv
<1>1. /\ MarketTyped'
      /\ \A j \in Market!Slots : /\ mcalls'[j] # Market!NoCall <=> mcalls[j] # Market!NoCall
                                 /\ mcalls'[j].of = mcalls[j].of
      /\ UNCHANGED <<mlink, market, mcaller, books, shaken>>
  BY AnswerDoes
<1>2. Single(mlink)' /\ Ready' /\ (Market!IsOpen(mlink)' <=> Market!IsOpen(mlink))
  BY <1>1 DEF Ready
<1>3. NoCalls' <=> NoCalls
  BY <1>1 DEF NoCalls
<1>4. Earned'
  BY <1>1, <1>3 DEF Earned
<1>5. Covered => Covered'
  BY <1>1, <1>3 DEF Covered
<1>6. \A a \in Market!Assets : Counted(a)' /\ (Carried(a) => Carried(a)')
  BY <1>1 DEF Counted, Carried
<1> QED
  BY <1>1, <1>2, <1>4, <1>5, <1>6

LEMMA RedialKeeps ==
  ASSUME MarketInv, Ordinary, Market!RedialTimer
  PROVE  MarketInv'
<1> USE DEF MarketInv
<1>1. /\ MarketTyped' /\ Market!Prompt /\ (Calm(mlink, mlink') \/ Dials(mlink, mlink'))
      /\ mlink'.client.running = mlink.client.running
      /\ SameBooks(market, market') /\ market'.boot = market.boot
      /\ market'.needs = market.needs /\ (market'.trusted => market.trusted)
      /\ UNCHANGED <<mcalls, mcaller, books, shaken>>
  BY RedialDoes
<1>2. mlink \in MarketLinks /\ mlink' \in MarketLinks
  BY <1>1 DEF MarketTyped
<1>3. NoClosing(mlink)
  BY <1>1 DEF Market!Prompt, Ordinary, NoClosing
<1>4. \A a \in Market!Assets : Counted(a)'
  BY <1>1, SameCounted
<1>5. Earned'
  BY <1>1 DEF Earned, Market!Boot, SameBooks, NoCalls
<1>6. CASE Calm(mlink, mlink')
  <2>1. mlink.client.running \/ mlink.client.socket = Market!NoSocket
    BY DEF Single
  <2>2. /\ Single(mlink)' /\ (Market!IsOpen(mlink') <=> Market!IsOpen(mlink))
        /\ NoClosing(mlink') <=> NoClosing(mlink)
        /\ Held(mlink') = Held(mlink)
    BY <1>1, <1>2, <1>6, <2>1, CalmSingle
  <2>3. Ready'
    BY <1>1, <2>2 DEF Ready, SameBooks
  <2>4. Covered => Covered'
    BY <1>1 DEF Covered, Market!Boot, SameBooks, NoCalls
  <2>5. ASSUME NEW a \in Market!Assets, Carried(a)
        PROVE  Carried(a)'
    BY <1>1, <2>2, <2>5 DEF Carried, SameBooks
  <2> QED
    BY <1>1, <1>4, <1>5, <2>2, <2>3, <2>4, <2>5
<1>7. CASE Dials(mlink, mlink')
  <2>1. Single(mlink)' /\ ~Market!IsOpen(mlink') /\ ~Market!IsOpen(mlink) /\ NoClosing(mlink')
    BY <1>2, <1>3, <1>7, DialsSingle
  <2>2. Ready'
    BY <1>1, <1>3, <2>1 DEF Ready, SameBooks
  <2> QED
    BY <1>1, <1>4, <1>5, <2>1, <2>2
<1> QED
  BY <1>1, <1>6, <1>7

LEMMA LandKeeps ==
  ASSUME MarketInv, Ordinary, NEW i \in Market!Slots, Market!Land(i)
  PROVE  MarketInv'
<1> USE DEF MarketInv
<1> DEFINE m == Landed(market, mcalls[i])
<1>1. /\ MarketTyped' /\ mcalls[i] # Market!NoCall /\ mcalls' = [mcalls EXCEPT ![i] = Market!NoCall]
      /\ \/ mlink' = mlink
         \/ /\ ~Market!IsOpen(mlink) /\ mlink.client.running /\ mlink'.client.running /\
               Market!Prompt
            /\ Calm(mlink, mlink') \/ Dials(mlink, mlink')
      /\ SameBooks(m, market') /\ market'.boot = m.boot
      /\ market'.needs = market.needs /\ (market'.trusted => market.trusted)
      /\ UNCHANGED <<mcaller, books, shaken>>
  BY LandDoes
<1>2. /\ mlink \in MarketLinks /\ mlink' \in MarketLinks /\ market \in MarketFields
      /\ mcalls[i] \in MarketCalls /\ mcalls \in [Market!Slots -> MarketCalls]
  BY <1>1 DEF MarketTyped
<1>3. /\ Market!Boot(m) /\ m.boot.awaiting = mcalls[i].of
      /\ m.tracked = market.tracked /\ m.cursor = market.cursor /\ m.keys = market.keys
      /\ \A a \in Market!Assets \ mcalls[i].of : m.shown[a] = market.shown[a]
  BY <1>2, LandedShows
<1> HIDE DEF m
<1>4. /\ Market!Boot(market') /\ market'.boot.awaiting = mcalls[i].of
      /\ market'.tracked = market.tracked /\ market'.cursor = market.cursor
      /\ market'.keys = market.keys
      /\ \A a \in Market!Assets \ mcalls[i].of : market'.shown[a] = market.shown[a]
  BY <1>1, <1>3 DEF Market!Boot, SameBooks
<1>5. Earned'
  BY <1>1 DEF Earned, NoCalls
<1>6. \A a \in Market!Assets : Counted(a)'
  BY <1>1, <1>4 DEF Counted
<1>7. CASE mlink' = mlink
  <2>1. Single(mlink)' /\ Ready' /\ (Market!IsOpen(mlink') <=> Market!IsOpen(mlink))
    BY <1>1, <1>4, <1>7 DEF Ready
  <2>2. ASSUME Covered PROVE Covered'
    <3>1. \A j \in Market!Slots : mcalls'[j] # Market!NoCall => j # i /\
            mcalls[j] # Market!NoCall /\ mcalls'[j] = mcalls[j]
      BY <1>1, <1>2
    <3>2. \A j \in Market!Slots : mcalls'[j] # Market!NoCall =>
            market'.tracked \subseteq mcalls'[j].of
      BY <1>1, <1>4, <2>2, <3>1 DEF Covered
    <3>3. market'.tracked \subseteq shaken' \cup market'.boot.awaiting
      BY <1>1, <1>4, <2>2 DEF Covered
    <3>4. market'.tracked = FirstTokens => shaken' \subseteq FirstTokens
      BY <1>1, <1>4, <2>2 DEF Covered
    <3> QED
      BY <1>4, <3>2, <3>3, <3>4 DEF Covered
  <2>3. ASSUME Covered, NEW a \in Market!Assets, Carried(a)
        PROVE  Carried(a)'
    <3>1. ASSUME a \in market.tracked \cap shaken, a \notin mcalls[i].of
          PROVE  market'.shown[a] = market'.cursor[a]
      <4>1. ~Market!Boot(market)
        BY <1>1, <2>3, <3>1 DEF Covered
      <4>2. a \notin market.boot.awaiting
        BY <4>1, TokensTyped DEF Market!Boot
      <4> QED
        BY <1>4, <2>3, <3>1, <4>2 DEF Carried
    <3>2. Held(mlink') = Held(mlink)
      BY <1>7
    <3> QED
      BY <1>1, <1>4, <2>3, <3>1, <3>2 DEF Carried
  <2> QED
    BY <1>1, <1>5, <1>6, <2>1, <2>2, <2>3
<1>8. CASE /\ ~Market!IsOpen(mlink) /\ mlink.client.running /\ mlink'.client.running /\
                Market!Prompt
           /\ Calm(mlink, mlink') \/ Dials(mlink, mlink')
  <2>1. NoClosing(mlink)
    BY <1>8 DEF Market!Prompt, Ordinary, NoClosing
  <2>2. Single(mlink)' /\ ~Market!IsOpen(mlink')
    BY <1>2, <1>8, <2>1, CalmSingle, DialsSingle
  <2>3. Ready'
    BY <1>1, <1>4, <1>8, <2>1 DEF Ready
  <2> QED
    BY <1>1, <1>5, <1>6, <2>2, <2>3
<1> QED
  BY <1>1, <1>7, <1>8

LEMMA BookMovesKeeps ==
  ASSUME MarketInv, NEW b \in Market!Assets, Market!BookMoves(b)
  PROVE  MarketInv'
<1> USE DEF MarketInv
<1>1. /\ MarketTyped' /\ books' = [books EXCEPT ![b] = @ + 1]
      /\ \/ b \notin market.tracked /\ mlink' = mlink
         \/ \E e \in Market!Messages : /\ e.asset = b /\ e.version = books'[b]
                                       /\ mlink' = Market!Broadcast(mlink, e)
      /\ UNCHANGED <<market, mcalls, mcaller, shaken>>
  BY BookMovesDoes
<1>2. /\ mlink \in MarketLinks /\ mlink' \in MarketLinks /\ market \in MarketFields
      /\ books \in TokenNumbers
  BY <1>1 DEF MarketTyped
<1>3. \A a \in Market!Assets : /\ books[a] \in Nat /\ market.cursor[a] \in Nat /\ books'[a] \in Nat
                               /\ books[a] <= books'[a] /\ (a # b => books'[a] = books[a])
  BY <1>1, <1>2, NumbersTyped DEF TokenNumbers
<1>4. \A a \in Market!Assets : Counted(a)'
  BY <1>1, <1>3 DEF Counted
<1>5. Earned' /\ (Covered => Covered')
  BY <1>1 DEF Earned, Covered, NoCalls
<1>6. CASE b \notin market.tracked /\ mlink' = mlink
  <2>1. ASSUME Market!IsOpen(mlink), NEW a \in Market!Assets, Carried(a)
        PROVE  Carried(a)'
    <3>1. Held(mlink).chan \in Seq(Market!Messages)
      BY <1>2, <2>1, HeldTyped DEF SocketFields
    <3>2. Flow(Held(mlink).chan, a, market.cursor[a], books'[a])
      BY <1>3, <2>1, <3>1, FlowWider DEF Carried
    <3>3. a \in market.tracked => books'[a] = books[a]
      BY <1>3, <1>6
    <3> QED
      BY <1>1, <1>6, <2>1, <3>2, <3>3 DEF Carried
  <2> QED
    BY <1>1, <1>4, <1>5, <1>6, <2>1 DEF Ready
<1>7. ASSUME NEW e \in Market!Messages, e.asset = b, e.version = books'[b],
        mlink' = Market!Broadcast(mlink, e)
      PROVE  MarketInv'
  <2>1. /\ mlink'.client = mlink.client
        /\ \A s \in Market!Sockets :
             /\ mlink'.sockets[s].state = mlink.sockets[s].state
             /\ mlink'.sockets[s].mine = mlink.sockets[s].mine
             /\ mlink'.sockets[s].subscribed = mlink.sockets[s].subscribed
             /\ mlink'.sockets[s].chan =
                  IF mlink.sockets[s].state = "open" /\ mlink.sockets[s].subscribed
                  THEN Append(mlink.sockets[s].chan, e) ELSE mlink.sockets[s].chan
    BY <1>2, <1>7, BroadcastAppends
  <2>2. Single(mlink') /\ (Market!IsOpen(mlink') <=> Market!IsOpen(mlink)) /\
          (NoClosing(mlink') <=> NoClosing(mlink))
    BY <1>2, <2>1, SendsSingle
  <2>3. Ready'
    BY <1>1, <2>1, <2>2 DEF Ready
  <2>4. ASSUME Market!IsOpen(mlink), NEW a \in Market!Assets, Carried(a)
        PROVE  Carried(a)'
    <3>1. /\ Held(mlink).chan \in Seq(Market!Messages) /\ Held(mlink).state = "open"
          /\ mlink.client.socket \in Market!Sockets /\ mlink.client.socket # Market!NoSocket
      BY <1>2, <2>4, HeldTyped DEF SocketFields
    <3>2. Held(mlink').chan = Append(Held(mlink).chan, e)
      BY <2>1, <3>1 DEF Single, Held
    <3>3. Flow(Held(mlink).chan, a, market.cursor[a], books'[a])
      BY <1>3, <2>4, <3>1, FlowWider DEF Carried
    <3>4. market.cursor[a] <= books'[a]
      BY <1>3, <1>4, <1>1 DEF Counted
    <3>5. a # b => books'[a] = books[a]
      BY <1>3
    <3>6. /\ Flow(Append(Held(mlink).chan, e), a, market.cursor[a], books'[a])
          /\ e.asset = a \/ Full(Held(mlink).chan, a, market.cursor[a], books'[a])
               => Full(Append(Held(mlink).chan, e), a, market.cursor[a], books'[a])
      BY <1>3, <1>7, <3>1, <3>3, <3>4, FlowAppend
    <3>7. a \in market.tracked =>
            Full(Append(Held(mlink).chan, e), a, market.cursor[a], books'[a])
      BY <1>7, <2>4, <3>5, <3>6 DEF Carried
    <3> QED
      BY <1>1, <2>4, <3>2, <3>6, <3>7 DEF Carried
  <2> QED
    BY <1>1, <1>4, <1>5, <2>2, <2>3, <2>4
<1> QED
  BY <1>1, <1>6, <1>7

\* A dump to an opened link.
LEMMA DumpCarries ==
  ASSUME MarketTyped, NEW l \in MarketLinks, Single(l), Holds(l), Market!IsOpen(l),
         NEW T \in SUBSET Market!Assets, NEW n, n = Market!Dump(l, T)
  PROVE  /\ n \in MarketLinks /\ Single(n) /\ Holds(n) /\ Market!IsOpen(n) /\ n.client = l.client
         /\ Sends(l, n, T)
<1>1. n \in MarketLinks /\ Fed(l, n) /\ Sends(l, n, T)
  BY DumpSends DEF MarketTyped
<1>2. l.sockets[l.client.socket].state = "open"
  BY DEF Market!IsOpen
<1>3. \A s \in Market!Sockets : /\ n.sockets[s].state = l.sockets[s].state
                                /\ n.sockets[s].mine = l.sockets[s].mine
                                /\ n.sockets[s].subscribed = l.sockets[s].subscribed
                                /\ l.sockets[s].state = "dialing" =>
                                     n.sockets[s].chan = l.sockets[s].chan
  BY <1>1, <1>2 DEF Fed
<1>4. n.client = l.client
  BY <1>1 DEF Fed
<1>5. Single(n) /\ Holds(n) /\ Market!IsOpen(n)
  BY <1>1, <1>3, <1>4, SendsSingle
<1> QED
  BY <1>1, <1>4, <1>5

LEMMA SyncKeeps ==
  ASSUME MarketInv, Ordinary, Market!Sync
  PROVE  MarketInv'
<1> USE DEF MarketInv
<1> DEFINE fresh == SecondTokens \ FirstTokens
<1>1. /\ MarketTyped' /\ Market!IsOpen(mlink) /\ mlink' = Market!Dump(mlink, fresh)
      /\ SameBooks(Market!Track(market, SecondTokens), market') /\ ~market'.trusted
      /\ market'.boot = Market!NoBoot
      /\ ~Market!Boot(market) /\ \A i \in Market!Slots : mcalls[i] = Market!NoCall
      /\ \A i \in Market!Slots : mcalls'[i] # Market!NoCall => mcalls'[i].of = fresh
      /\ \E i \in Market!Slots : mcalls'[i] # Market!NoCall
      /\ \E i \in Market!Slots : \A j \in Market!Slots \ {i} : mcalls'[j] = Market!NoCall
      /\ mcaller'["start"] # "idle" /\ mcaller'["sync"] # "connecting"
      /\ UNCHANGED <<books, shaken>>
  BY SyncDoes DEF Ordinary
<1>2. /\ mlink \in MarketLinks /\ mlink' \in MarketLinks /\ market \in MarketFields
      /\ books \in TokenNumbers
  BY <1>1 DEF MarketTyped
<1>3. fresh = {3} /\ fresh \in SUBSET Market!Assets /\ SecondTokens \in SUBSET Market!Assets
      /\ SecondTokens = {2, 3} /\ FirstTokens = {1, 2}
  BY TokensOfMarket
<1> HIDE DEF fresh
<1>4. Single(mlink') /\ Market!IsOpen(mlink') /\ mlink'.client = mlink.client /\
        Sends(mlink, mlink', fresh)
  <2>1. Holds(mlink)
    BY DEF MarketTyped
  <2> QED
    BY <1>1, <1>2, <1>3, <2>1, DumpCarries
<1>5. /\ Held(mlink).chan \in Seq(Market!Messages) /\ Held(mlink).state = "open"
      /\ mlink.client.socket \in Market!Sockets /\ mlink.client.socket # Market!NoSocket
  BY <1>1, <1>2, HeldTyped DEF SocketFields
<1>6. market'.tracked = SecondTokens
  BY <1>1, <1>2, <1>3, TrackForgets DEF SameBooks
<1>7. Ready'
  BY <1>1, <1>4, <1>6 DEF Ready
<1>8. \A a \in Market!Assets : Counted(a)'
  BY <1>1, <1>3, TrackCounted
<1>9. market.tracked \in {FirstTokens, SecondTokens} /\ market.tracked \subseteq shaken
  BY <1>1, <1>5 DEF Ready, Single, Covered, NoCalls
<1>10. Covered'
  <2>1. market'.tracked \subseteq shaken \cup fresh
    BY <1>3, <1>6, <1>9
  <2>2. ~Market!Boot(market')
    BY <1>1 DEF Market!Boot
  <2>3. market'.tracked # FirstTokens
    BY <1>3, <1>6
  <2> QED
    BY <1>1, <2>1, <2>2, <2>3 DEF Covered, NoCalls
<1>11. ASSUME NEW a \in Market!Assets
       PROVE  Carried(a)'
  <2>1. PICK d : Dumped(d, fresh) /\ Held(mlink').chan = Held(mlink).chan \o d
    BY <1>4, Zenon DEF Sends
  <2>2. /\ market.cursor[a] \in Nat /\ market'.cursor[a] \in Nat /\ books[a] \in Nat
    BY <1>1, <1>2, NumbersTyped DEF MarketTyped
  <2>3. Carried(a) /\ Counted(a)'
    BY <1>1, <1>8
  <2>4. /\ market'.cursor[a] <= market.cursor[a]
        /\ a \in SecondTokens => market'.cursor[a] = market.cursor[a] /\
           market'.shown[a] = market.shown[a]
    <3>1. market'.cursor = Market!Track(market, SecondTokens).cursor /\
            market'.shown = Market!Track(market, SecondTokens).shown
      BY <1>1 DEF SameBooks
    <3>2. /\ a \in SecondTokens =>
               /\ Market!Track(market, SecondTokens).cursor[a] = market.cursor[a]
               /\ Market!Track(market, SecondTokens).shown[a] = market.shown[a]
          /\ a \notin SecondTokens => Market!Track(market, SecondTokens).cursor[a] = 0
      BY <1>2, <1>3, TrackForgets
    <3> QED
      BY <2>2, <3>1, <3>2
  <2>5. Flow(Held(mlink).chan, a, market'.cursor[a], books[a])
    BY <1>5, <2>2, <2>3, <2>4, FlowWider DEF Carried
  <2>6. /\ d \in Seq(Market!Messages) /\ market'.cursor[a] <= books[a]
        /\ \A i \in 1 .. Len(d) : d[i].asset = a => d[i].version = books[a]
    BY <1>1, <2>1, <2>3 DEF Dumped, Counted
  <2>7. /\ Flow(Held(mlink').chan, a, market'.cursor[a], books[a])
        /\ (\E i \in 1 .. Len(d) : d[i].asset = a)
             => Full(Held(mlink').chan, a, market'.cursor[a], books[a])
        /\ (\A i \in 1 .. Len(d) : d[i].asset # a)
           /\ Full(Held(mlink).chan, a, market'.cursor[a], books[a])
             => Full(Held(mlink').chan, a, market'.cursor[a], books[a])
    BY <1>5, <2>1, <2>2, <2>5, <2>6, FlowDump
  <2>8. ASSUME a \in SecondTokens
        PROVE  Full(Held(mlink').chan, a, market'.cursor[a], books[a])
    <3>1. CASE a = 3
      BY <1>3, <2>1, <2>7, <3>1 DEF Dumped
    <3>2. CASE a # 3
      <4>1. a \in market.tracked /\ a \notin fresh
        BY <1>3, <1>9, <2>8, <3>2
      <4>2. Full(Held(mlink).chan, a, market'.cursor[a], books[a])
        BY <2>3, <2>4, <2>8, <4>1 DEF Carried
      <4> QED
        BY <2>1, <2>7, <4>1, <4>2 DEF Dumped
    <3> QED
      BY <3>1, <3>2
  <2>9. ASSUME a \in SecondTokens \cap shaken
        PROVE  market'.shown[a] = market'.cursor[a]
    <3>1. a \in market.tracked
      BY <1>1, <1>3, <1>9, <2>9 DEF Covered
    <3>2. a \notin market.boot.awaiting
      BY <1>1, TokensTyped DEF Market!Boot
    <3> QED
      BY <2>3, <2>4, <2>9, <3>1, <3>2 DEF Carried
  <2> QED
    BY <1>1, <1>6, <2>7, <2>8, <2>9 DEF Carried
<1> QED
  BY <1>1, <1>4, <1>7, <1>8, <1>10, <1>11 DEF Earned

LEMMA OpenKeeps ==
  ASSUME MarketInv, Ordinary, NEW s \in Market!Sockets, Market!Open(s)
  PROVE  MarketInv'
<1> USE DEF MarketInv
<1>1. MarketTyped' /\ mlink.sockets[s].state = "dialing"
  BY OpenDoes
<1>2. /\ mlink \in MarketLinks /\ Holds(mlink) /\ market \in MarketFields
      /\ books \in TokenNumbers /\ market.tracked \in SUBSET Market!Assets
  BY DEF MarketTyped, MarketFields
<1> DEFINE h == Market!HandleOpen(mlink, s)
<1>3. /\ s = mlink.client.socket /\ mlink.sockets[s].mine /\ NoClosing(mlink) /\
           ~Market!IsOpen(mlink)
      /\ Single(h) /\ Holds(h) /\ Market!IsOpen(h) /\ Held(h).chan = <<>>
  BY <1>1, <1>2, OpenSingle
<1>4. h \in MarketLinks /\ h.client.running = mlink.client.running
  BY <1>2, HandleOpenOpens
<1>5. mlink.client.running
  BY <1>3, SocketsTyped DEF Single
<1>6. market.needs /\ mcaller["sync"] # "connecting" /\ mcaller["start"] # "idle"
  BY <1>3, <1>5 DEF Ready
<1>7. /\ mlink' = Market!Dump(Market!Dump(h, market.tracked), {})
      /\ SameBooks(market, market') /\ ~market'.trusted /\ market'.boot = Market!NoBoot
      /\ \A i \in Market!Slots : mcalls'[i] # Market!NoCall => mcalls'[i].of = market.tracked
      /\ \E i \in Market!Slots : mcalls'[i] # Market!NoCall
      /\ mcaller'["sync"] # "connecting"
      /\ mcaller'["start"] = "idle" => mcaller["start"] = "idle"
      /\ shaken' = {} /\ UNCHANGED books
  BY <1>6, OpenDoes DEF Ordinary
<1> HIDE DEF h
<1> DEFINE g == Market!Dump(h, market.tracked)
           f == Market!Dump(g, {})
<1>8. /\ g \in MarketLinks /\ Single(g) /\ Holds(g) /\ Market!IsOpen(g) /\ g.client = h.client
      /\ Sends(h, g, market.tracked)
  BY <1>2, <1>3, <1>4, DumpCarries
<1> HIDE DEF g
<1>9. /\ Single(f) /\ Market!IsOpen(f) /\ f.client = g.client
      /\ Sends(g, f, {})
  BY <1>8, DumpCarries
<1>10. mlink' = f
  BY <1>7 DEF g
<1> HIDE DEF f
<1>11. Ready'
  BY <1>4, <1>5, <1>6, <1>7, <1>8, <1>9, <1>10 DEF Ready, SameBooks
<1>12. Covered'
  <2>1. ~Market!Boot(market') /\ market'.tracked = market.tracked
    BY <1>7 DEF Market!Boot, SameBooks
  <2>2. \A i \in Market!Slots : mcalls'[i] # Market!NoCall =>
          market'.tracked \subseteq mcalls'[i].of
    BY <1>7, <2>1
  <2>3. shaken' \subseteq FirstTokens
    BY <1>7
  <2> QED
    BY <1>7, <2>1, <2>2, <2>3 DEF Covered, NoCalls
<1>13. \A a \in Market!Assets : Counted(a)'
  BY <1>7, SameCounted
<1>14. ASSUME NEW a \in Market!Assets
       PROVE  Carried(a)'
  <2>1. PICK d : Dumped(d, market.tracked) /\ Held(g).chan = <<>> \o d
    BY <1>3, <1>8, Zenon DEF Sends
  <2>2. PICK c : Dumped(c, {}) /\ Held(f).chan = Held(g).chan \o c
    BY <1>9, Zenon DEF Sends
  <2> DEFINE lo == market.cursor[a]
             hi == books[a]
  <2>3. /\ lo \in Nat /\ hi \in Nat /\ lo <= hi
    BY <1>2, NumbersTyped DEF Counted
  <2>4. /\ d \in Seq(Market!Messages) /\ <<>> \in Seq(Market!Messages)
        /\ \A i \in 1 .. Len(d) : d[i].asset = a => d[i].version = hi
        /\ a \in market.tracked => \E i \in 1 .. Len(d) : d[i].asset = a
    BY <2>1 DEF Dumped
  <2>5. /\ c \in Seq(Market!Messages)
        /\ \A i \in 1 .. Len(c) : c[i].asset # a
    BY <2>2 DEF Dumped
  <2> HIDE DEF lo, hi
  <2>6. Flow(<<>>, a, lo, hi)
    BY DEF Flow
  <2>7. /\ Flow(Held(g).chan, a, lo, hi)
        /\ a \in market.tracked => Full(Held(g).chan, a, lo, hi)
    BY <2>1, <2>3, <2>4, <2>6, FlowDump
  <2>8. Held(g).chan \in Seq(Market!Messages)
    BY <1>8, HeldTyped DEF SocketFields
  <2>9. /\ Flow(Held(f).chan, a, lo, hi)
        /\ a \in market.tracked => Full(Held(f).chan, a, lo, hi)
    BY <2>2, <2>3, <2>5, <2>7, <2>8, FlowDump
  <2> QED
    BY <1>7, <1>10, <2>9 DEF Carried, SameBooks, lo, hi
<1> QED
  BY <1>1, <1>7, <1>9, <1>10, <1>11, <1>12, <1>13, <1>14 DEF Earned

\* One message taken from the socket the client holds.
LEMMA ReceiveSingle ==
  ASSUME MarketTyped, Single(mlink), NEW s \in Market!Sockets, mlink.sockets[s].state = "open",
         mlink.sockets[s].chan # <<>>, NEW l, l = Market!Receive(mlink, s)
  PROVE  /\ Market!IsOpen(mlink) /\ s = mlink.client.socket /\ l \in MarketLinks /\
              l.client = mlink.client
         /\ Single(l) /\ Market!IsOpen(l) /\ (NoClosing(l) <=> NoClosing(mlink))
         /\ Held(mlink).chan \in Seq(Market!Messages) /\ Held(mlink).chan # <<>>
         /\ Held(mlink).chan = mlink.sockets[s].chan
         /\ Held(l).chan = Tail(Held(mlink).chan)
<1>1. mlink \in MarketLinks
  BY DEF MarketTyped
<1>2. /\ l \in MarketLinks /\ l.client = mlink.client
      /\ \A t \in Market!Sockets \ {s} : l.sockets[t] = mlink.sockets[t]
      /\ l.sockets[s].state = mlink.sockets[s].state
      /\ l.sockets[s].mine = mlink.sockets[s].mine
      /\ l.sockets[s].subscribed = mlink.sockets[s].subscribed
      /\ l.sockets[s].chan = Tail(mlink.sockets[s].chan)
  BY <1>1, ReceiveTakes
<1>3. s = mlink.client.socket /\ s # Market!NoSocket
  BY SocketsTyped DEF Single
<1>4. Market!IsOpen(mlink) /\ mlink.sockets[s] \in SocketFields
  BY <1>1, <1>3, HeldTyped DEF Held
<1>5. \A t \in Market!Sockets : /\ l.sockets[t].state = mlink.sockets[t].state
                                /\ l.sockets[t].mine = mlink.sockets[t].mine
                                /\ l.sockets[t].subscribed = mlink.sockets[t].subscribed
                                /\ mlink.sockets[t].state = "dialing" =>
                                     l.sockets[t].chan = mlink.sockets[t].chan
  BY <1>2
<1>6. Single(l) /\ (Market!IsOpen(l) <=> Market!IsOpen(mlink)) /\
        (NoClosing(l) <=> NoClosing(mlink))
  BY <1>1, <1>2, <1>5, SendsSingle
<1>7. Held(mlink).chan \in Seq(Market!Messages)
  BY <1>3, <1>4 DEF SocketFields, Held
<1> QED
  BY <1>2, <1>3, <1>4, <1>6, <1>7 DEF Held

\* What a message does to the flow of each token.
LEMMA TakenCarries ==
  ASSUME MarketInv, Market!IsOpen(mlink), NEW ch \in Seq(Market!Messages), ch # <<>>,
         Held(mlink).chan = ch,
         NEW e, e = Head(ch), NEW a \in Market!Assets
  PROVE  /\ e \in Market!Messages /\ Tail(ch) \in Seq(Market!Messages)
         /\ Flow(Tail(ch), a, market.cursor[a], books[a])
         /\ e.asset = a => /\ market.cursor[a] <= e.version /\ e.version <= books[a]
                           /\ Flow(Tail(ch), a, e.version, books[a])
         /\ e.asset = a /\ a \in market.tracked => Full(Tail(ch), a, e.version, books[a])
         /\ e.asset # a /\ a \in market.tracked => Full(Tail(ch), a, market.cursor[a], books[a])
<1> USE DEF MarketInv
<1>1. market.cursor[a] \in Nat /\ books[a] \in Nat
  BY NumbersTyped DEF MarketTyped
<1>2. /\ Flow(ch, a, market.cursor[a], books[a])
      /\ a \in market.tracked => Full(ch, a, market.cursor[a], books[a])
  BY DEF Carried
<1> QED
  BY <1>1, <1>2, FlowTail

LEMMA DeliverKeeps ==
  ASSUME MarketInv, Ordinary, NEW s \in Market!Sockets, Market!Deliver(s)
  PROVE  MarketInv'
<1> USE DEF MarketInv
<1>0. PICK e, l : e = Head(mlink.sockets[s].chan) /\ l = Market!Receive(mlink, s)
  OBVIOUS
<1>1. /\ MarketTyped'
      /\ mlink.sockets[s].state = "open" /\ mlink.sockets[s].chan # <<>>
      /\ e \in Market!Messages /\ UNCHANGED <<mcalls, books>>
      /\ \/ /\ e.asset \notin market.tracked \/ Market!Known(market, e)
            /\ mlink' = l /\ UNCHANGED <<market, mcaller, shaken>>
         \/ /\ e.asset \in market.tracked /\ ~Market!Known(market, e)
            /\ SameBooks(Told(market, e), market') /\ market'.needs = market.needs
            /\ Passed(l) \/ Diverged(l) \/ Shook(l, e.asset)
  BY <1>0, DeliverDoes
<1> DEFINE ch == Held(mlink).chan
<1>2. /\ Market!IsOpen(mlink) /\ l \in MarketLinks /\ l.client = mlink.client
      /\ Single(l) /\ Market!IsOpen(l) /\ (NoClosing(l) <=> NoClosing(mlink))
      /\ ch \in Seq(Market!Messages) /\ ch # <<>>
      /\ e = Head(ch) /\ Held(l).chan = Tail(ch)
  BY <1>0, <1>1, ReceiveSingle
<1> HIDE DEF ch
<1>3. \A a \in Market!Assets :
        /\ Flow(Tail(ch), a, market.cursor[a], books[a])
        /\ e.asset = a => /\ market.cursor[a] <= e.version /\ e.version <= books[a]
                          /\ Flow(Tail(ch), a, e.version, books[a])
        /\ e.asset = a /\ a \in market.tracked => Full(Tail(ch), a, e.version, books[a])
        /\ e.asset # a /\ a \in market.tracked => Full(Tail(ch), a, market.cursor[a], books[a])
  BY <1>2, TakenCarries DEF ch
<1>4. /\ market \in MarketFields /\ e.asset \in Market!Assets /\ e.version \in Nat
      /\ books \in TokenNumbers
  BY <1>1, MessagesTyped DEF MarketTyped
<1>5. CASE /\ e.asset \notin market.tracked \/ Market!Known(market, e)
           /\ mlink' = l /\ UNCHANGED <<market, mcaller, shaken>>
  <2>1. Ready' /\ Earned' /\ Covered' /\ (\A a \in Market!Assets : Counted(a)')
    BY <1>1, <1>2, <1>5 DEF Ready, Earned, Covered, NoCalls, Counted
  <2>2. ASSUME NEW a \in Market!Assets
        PROVE  Carried(a)'
    <3>1. Carried(a)
      BY <1>2
    <3>2. a \in market.tracked => Full(Tail(ch), a, market.cursor[a], books[a])
      <4>1. CASE e.asset # a
        BY <1>3, <4>1
      <4>2. CASE e.asset = a /\ a \in market.tracked
        <5>1. market.cursor[a] <= e.version
          BY <1>3, <4>2
        <5>2. e.version <= market.cursor[a]
          <6>1. Counted(a) /\ market.cursor[a] \in Nat
            BY <1>4, NumbersTyped
          <6>2. CASE <<e.kind, e.version>> \in market.keys[a]
            BY <6>1, <6>2 DEF Counted
          <6>3. CASE e.version < market.cursor[a]
            BY <1>4, <6>1, <6>3
          <6> QED
            BY <1>5, <4>2, <6>2, <6>3 DEF Market!Known
        <5>3. e.version = market.cursor[a]
          BY <1>4, <5>1, <5>2, NumbersTyped
        <5> QED
          BY <1>3, <4>2, <5>3
      <4> QED
        BY <4>1, <4>2
    <3> QED
      BY <1>1, <1>2, <1>3, <1>5, <3>1, <3>2 DEF Carried
  <2> QED
    BY <1>1, <1>2, <1>5, <2>1, <2>2
<1>6. CASE /\ e.asset \in market.tracked /\ ~Market!Known(market, e)
           /\ SameBooks(Told(market, e), market') /\ market'.needs = market.needs
           /\ Passed(l) \/ Diverged(l) \/ Shook(l, e.asset)
  <2>1. /\ market'.tracked = market.tracked
        /\ market'.shown = [market.shown EXCEPT ![e.asset] = e.version]
        /\ market'.cursor = [market.cursor EXCEPT ![e.asset] = e.version]
        /\ market'.keys = [market.keys EXCEPT ![e.asset] = @ \cup {<<e.kind, e.version>>}]
        /\ Told(market, e).boot = market.boot
    BY <1>1, <1>4, <1>6, ToldShows DEF SameBooks
  <2>2. /\ market.shown \in TokenNumbers /\ market.cursor \in TokenNumbers
        /\ market.keys \in [Market!Assets -> MarketKeys]
    BY <1>4 DEF MarketFields
  <2>3. \A a \in Market!Assets :
          /\ market'.shown[a] = IF a = e.asset THEN e.version ELSE market.shown[a]
          /\ market'.cursor[a] = IF a = e.asset THEN e.version ELSE market.cursor[a]
    BY <2>1, <2>2 DEF TokenNumbers
  <2>4. ASSUME NEW a \in Market!Assets
        PROVE  Counted(a)'
    <3>1. CASE a = e.asset
      <4>1. /\ market'.cursor[a] = e.version
            /\ market'.keys[a] = market.keys[a] \cup {<<e.kind, e.version>>}
        BY <2>1, <2>2, <2>3, <3>1
      <4>2. market.cursor[a] <= e.version /\ e.version <= books[a]
        BY <1>3, <3>1
      <4>3. market.cursor[a] \in Nat /\ \A k \in market.keys[a] : k[2] \in Nat
        BY <1>4, NumbersTyped
      <4>4. \A k \in market'.keys[a] : k[2] <= e.version
        BY <1>4, <4>1, <4>2, <4>3 DEF Counted
      <4> QED
        BY <1>1, <4>1, <4>2, <4>4 DEF Counted
    <3>2. CASE a # e.asset
      <4>1. market'.cursor[a] = market.cursor[a] /\ market'.keys[a] = market.keys[a]
        BY <2>1, <2>2, <2>3, <3>2
      <4> QED
        BY <1>1, <4>1 DEF Counted
    <3> QED
      BY <3>1, <3>2
  <2>5. ASSUME NEW a \in Market!Assets, Held(mlink').chan = Tail(ch),
               a \in shaken' /\ a \notin market'.boot.awaiting /\ a # e.asset
                 => a \in shaken /\ a \notin market.boot.awaiting
        PROVE  Carried(a)'
    <3>1. Carried(a)
      BY <1>2
    <3>2. Flow(Tail(ch), a, market'.cursor[a], books[a])
      BY <1>3, <2>3
    <3>3. a \in market.tracked => Full(Tail(ch), a, market'.cursor[a], books[a])
      BY <1>3, <2>3
    <3>4. a \in market.tracked \cap shaken' /\ a \notin market'.boot.awaiting
            => market'.shown[a] = market'.cursor[a]
      BY <2>3, <2>5, <3>1 DEF Carried
    <3> QED
      BY <1>1, <2>1, <2>5, <3>2, <3>3, <3>4 DEF Carried
  <2>6. CASE Passed(l)
    <3>1. /\ mlink' = l /\ market'.boot = market.boot /\ market'.trusted = market.trusted
          /\ UNCHANGED <<mcaller, shaken>>
      BY <2>6 DEF Passed
    <3>2. Ready' /\ Earned' /\ Covered'
      BY <1>1, <1>2, <1>6, <2>1, <3>1 DEF Ready, Earned, Covered, NoCalls, Market!Boot
    <3>3. \A a \in Market!Assets : Carried(a)'
      BY <1>2, <2>5, <3>1
    <3> QED
      BY <1>1, <1>2, <2>4, <3>1, <3>2, <3>3
  <2>7. CASE Diverged(l)
    <3>1. /\ Market!Boot(market) /\ (market'.trusted => market.trusted)
          /\ l.client.running => Leaves(l, mlink')
          /\ ~l.client.running => mlink' = l
          /\ mlink'.client.running = l.client.running
          /\ \A w \in Market!Callers : mcaller'[w] \in {mcaller[w], "failed"}
      BY <2>7 DEF Diverged
    <3>2. ~market'.trusted
      BY <3>1 DEF Earned
    <3> QED
      BY <1>1, <1>2, <1>6, <2>1, <2>4, <3>1, <3>2, EndsKeep
  <2>8. CASE Shook(l, e.asset)
    <3>1. /\ Market!Boot(market) /\ e.asset \in market.boot.awaiting
          /\ mlink' = l /\ shaken' = shaken \cup {e.asset}
          /\ \A w \in Market!Callers : mcaller'[w] \in {mcaller[w], "done"}
      BY <2>8 DEF Shook
    <3>2. Ready'
      BY <1>1, <1>2, <1>6, <2>1, <3>1 DEF Ready, Market!Callers
    <3>3. ~market.trusted /\ Covered
      BY <1>2, <3>1 DEF Earned
    <3>4. market'.tracked = FirstTokens => shaken' \subseteq FirstTokens
      BY <1>6, <2>1, <3>1, <3>3 DEF Covered
    <3>5. CASE /\ market.boot.awaiting = {e.asset} /\ market'.boot = Market!NoBoot
               /\ Overlap \/ \A i \in Market!Slots : mcalls[i] = Market!NoCall
      <4>1. /\ ~Market!Boot(market') /\ market'.boot.awaiting = {}
            /\ \A i \in Market!Slots : mcalls'[i] = Market!NoCall
        BY <1>1, <3>5, TokensTyped DEF Market!Boot, Ordinary
      <4>2. market'.tracked \subseteq shaken'
        BY <2>1, <3>1, <3>3, <3>5 DEF Covered
      <4>3. Earned' /\ Covered'
        BY <3>4, <4>1, <4>2 DEF Earned, Covered, NoCalls
      <4>4. \A a \in Market!Assets : Carried(a)'
        BY <1>2, <2>5, <3>1, <3>5, <4>1
      <4> QED
        BY <1>1, <1>2, <2>4, <3>1, <3>2, <4>3, <4>4
    <3>6. CASE /\ market.boot.awaiting # {e.asset} /\ market'.trusted = market.trusted
               /\ market'.boot.awaiting = market.boot.awaiting \ {e.asset}
      <4>1. Market!Boot(market')
        BY <3>1, <3>6, TokensTyped DEF Market!Boot
      <4>2. Earned'
        BY <3>3, <3>6 DEF Earned
      <4>3. market'.tracked \subseteq shaken' \cup market'.boot.awaiting
        BY <2>1, <3>1, <3>3, <3>6 DEF Covered
      <4>4. Covered'
        BY <1>1, <2>1, <3>1, <3>3, <3>4, <4>1, <4>3 DEF Covered
      <4>5. \A a \in Market!Assets : Carried(a)'
        BY <1>2, <2>5, <3>1, <3>6
      <4> QED
        BY <1>1, <1>2, <2>4, <3>1, <3>2, <4>2, <4>4, <4>5
    <3> QED
      BY <2>8, <3>5, <3>6 DEF Shook
  <2> QED
    BY <1>6, <2>6, <2>7, <2>8
<1> QED
  BY <1>1, <1>5, <1>6

LEMMA MarketInvInit == Market!Init => MarketInv
<1> SUFFICES ASSUME Market!Init PROVE MarketInv
  OBVIOUS
<1>1. MarketTyped
  BY MarketTypedInit
<1>2. Single(mlink) /\ ~Market!IsOpen(mlink) /\ ~mlink.client.running
  BY SocketsTyped DEF Market!Init, Market!FreshLink, Market!FreshClient, Single, Market!IsOpen
<1>3. Ready
  BY <1>2 DEF Market!Init, Ready, Market!Callers
<1>4. Earned
  BY DEF Market!Init, Earned
<1>5. \A a \in Market!Assets : Counted(a)
  BY DEF Market!Init, Counted
<1> QED
  BY <1>1, <1>2, <1>3, <1>4, <1>5 DEF MarketInv

LEMMA MarketInvStutter ==
  ASSUME MarketInv, UNCHANGED mvars
  PROVE  MarketInv'
<1> USE DEF MarketInv
<1>1. UNCHANGED <<mlink, market, mcalls, mcaller, books, shaken>>
  BY DEF mvars
<1>2. MarketTyped'
  BY MarketTypedStutter
<1>3. Single(mlink)' /\ Ready' /\ Earned' /\ (Market!IsOpen(mlink)' <=> Market!IsOpen(mlink)) /\
        (Covered' <=> Covered)
  BY <1>1 DEF Ready, Earned, Covered, NoCalls
<1>4. \A a \in Market!Assets : (Counted(a)' <=> Counted(a)) /\ (Carried(a)' <=> Carried(a))
  BY <1>1 DEF Counted, Carried
<1> QED
  BY <1>2, <1>3, <1>4

LEMMA MarketInvNext ==
  ASSUME MarketInv, Ordinary, Market!Next
  PROVE  MarketInv'
<1>1. CASE Market!Start \/ Market!Sync \/ Market!Stop
  BY <1>1, StartKeeps, SyncKeeps, StopKeeps
<1>2. CASE Market!Silence \/ Market!RedialTimer \/ Market!BootTimeout
  BY <1>2, SilenceKeeps, RedialKeeps, TimeoutKeeps
<1>3. ASSUME NEW s \in Market!Sockets, Market!Open(s) \/ Market!Deliver(s) \/ Market!Drop(s)
      PROVE  MarketInv'
  BY <1>3, OpenKeeps, DeliverKeeps, DropKeeps
<1>4. ASSUME NEW i \in Market!Slots, Market!Answer(i) \/ Market!Land(i) \/ Market!RestFails(i)
      PROVE  MarketInv'
  BY <1>4, AnswerKeeps, LandKeeps, RestFailsDoes DEF MarketInv, Ordinary
<1>5. ASSUME NEW a \in Market!Assets, Market!BookMoves(a)
      PROVE  MarketInv'
  BY <1>5, BookMovesKeeps
<1> QED
  BY <1>1, <1>2, <1>3, <1>4, <1>5 DEF Market!Next

LEMMA InvTrusts == MarketInv => Market!TrustedAfterHandshake
BY DEF MarketInv, Earned, Market!Trusted, Market!TrustedAfterHandshake

LEMMA InvShows == MarketInv => Market!BookIsCurrent
<1> SUFFICES ASSUME MarketInv, Market!Trusted, Market!IsOpen(mlink),
                    mlink.sockets[mlink.client.socket].chan = <<>>, NEW a \in market.tracked
             PROVE  market.shown[a] = books[a]
  BY DEF Market!BookIsCurrent
<1> USE DEF MarketInv
<1>1. market.tracked \subseteq shaken /\ ~Market!Boot(market)
  BY DEF Earned, Market!Trusted
<1>2. a \in Market!Assets /\ a \notin market.boot.awaiting
  BY <1>1, TokensTyped DEF MarketTyped, MarketFields, Market!Boot
<1>3. Carried(a) /\ Held(mlink).chan = <<>>
  BY <1>2 DEF Held
<1>4. market.shown[a] = market.cursor[a]
  BY <1>1, <1>2, <1>3 DEF Carried
<1>5. Full(<<>>, a, market.cursor[a], books[a])
  BY <1>3 DEF Carried
<1>6. market.cursor[a] = books[a]
  BY <1>5 DEF Full
<1> QED
  BY <1>4, <1>6

LEMMA FollowsMarket == Spec => Market!Spec
<1>1. Init => Market!Init
  BY DEF Init
<1>2. [Next]_<<service, uvars, mvars, hvars, avars>> => [Market!Next]_(Market!vars)
  BY DEF Next, mvars, Market!vars
<1> QED
  BY <1>1, <1>2, PTL DEF Spec, Market!Spec

LEMMA MarketAlwaysTyped == Spec => []Market!TypeOK
<1>1. MarketTyped /\ [Market!Next]_(Market!vars) => MarketTyped'
  BY MarketTypedNext, MarketTypedStutter DEF Market!vars, mvars
<1> QED
  BY <1>1, MarketTypedInit, MarketTypedOK, FollowsMarket, PTL DEF Market!Spec

LEMMA MarketAlwaysSafe == ASSUME Ordinary PROVE Spec => []MarketInv
<1>1. MarketInv /\ [Market!Next]_(Market!vars) => MarketInv'
  BY MarketInvNext, MarketInvStutter DEF Market!vars, mvars
<1> QED
  BY <1>1, MarketInvInit, FollowsMarket, PTL DEF Market!Spec

(***************************************************************************)
(* DumpedBeforeTrust: a market stream of the runs that is trusted had the  *)
(* dump of every tracked token on this connection, when bootstraps do not  *)
(* overlap, no close event comes late and the REST call of a bootstrap is  *)
(* answered (beginBootstrap, handleBootstrapSnapshot, syncSubscriptions).  *)
(***************************************************************************)
THEOREM DumpedBeforeTrust ==
  ASSUME ~Overlap, ~LateClose, "rest" \notin Faults PROVE Spec => []TrustedAfterHandshake
<1>1. MarketInv => TrustedAfterHandshake
  BY InvTrusts DEF TrustedAfterHandshake
<1> QED
  BY <1>1, MarketAlwaysSafe, PTL DEF Ordinary

(***************************************************************************)
(* BooksCurrent: a trusted market stream of the runs that has received     *)
(* everything shows the venue's book of every tracked token, when          *)
(* bootstraps do not overlap, no close event comes late and the REST call  *)
(* of a bootstrap is answered (shouldApplyEvent, applySnapshot,            *)
(* applyPriceChange).                                                      *)
(***************************************************************************)
THEOREM BooksCurrent ==
  ASSUME ~Overlap, ~LateClose, "rest" \notin Faults PROVE Spec => []BookIsCurrent
<1>1. MarketInv => BookIsCurrent
  BY InvShows DEF BookIsCurrent
<1> QED
  BY <1>1, MarketAlwaysSafe, PTL DEF Ordinary

-----------------------------------------------------------------------------
(* The services with theorems of their own.                                 *)

UserFacts == INSTANCE UserStreamProofs WITH
  MaxSockets <- 2, MaxDials <- 2, Orders <- {1}, MaxCalls <- 3,
  link <- ulink, calls <- ucalls, caller <- ucaller, venue <- uvenue, bounds <- ubounds

HeartbeatFacts == INSTANCE VenueHeartbeatProofs WITH
  Orders <- {1, 2}, MaxBeats <- 2, MaxMoves <- 4, bounds <- hbounds

AccountFacts == INSTANCE PortfolioTruthProofs WITH
  Token <- "up", Lots <- <<[side |-> "BUY", size |-> 1, price |-> 864, fee |-> 0]>>,
  ByHand <- {0}, Refreshers <- {"loop", "recovery"}, Pretrades <- {}, Once <- {"recovery"},
  RowIds <- 1 .. 3, Ages <- {0}, Limit <- 144, Ends <- {"lost"}, MaxTroubles <- 1,
  rows <- positions

-----------------------------------------------------------------------------
(* A behaviour of the services is one of each service.                      *)

LEMMA FollowsUser == Spec => User!Spec
<1>1. Init => User!Init
  BY DEF Init
<1>2. [Next]_<<service, uvars, mvars, hvars, avars>> => [User!Next]_(User!vars)
  BY DEF Next, uvars, User!vars
<1> QED
  BY <1>1, <1>2, PTL DEF Spec, User!Spec

LEMMA FollowsHeartbeat == Spec => Heartbeat!Spec
<1>1. Init => Heartbeat!Init
  BY DEF Init
<1>2. [Next]_<<service, uvars, mvars, hvars, avars>> => [Heartbeat!Next]_(Heartbeat!vars)
  BY DEF Next, hvars, Heartbeat!vars
<1> QED
  BY <1>1, <1>2, PTL DEF Spec, Heartbeat!Spec

-----------------------------------------------------------------------------
(* The user stream of the theorems is the user stream of the runs.          *)

LEMMA SameBegin ==
  ASSUME NEW u, NEW c, NEW who, User!Begin(u, c, who)
  PROVE  UserFacts!Begin(u, c, who)
BY DEF User!Callers, UserFacts!Callers, User!NoBoot, UserFacts!NoBoot, User!NoCall,
  UserFacts!NoCall, User!Cancel, UserFacts!Cancel, User!Settled, UserFacts!Settled, User!Slots,
  UserFacts!Slots, User!FreeSlots, UserFacts!FreeSlots, User!Put, UserFacts!Put, User!BeginCall,
  UserFacts!BeginCall, User!Begun, UserFacts!Begun, User!Begin, UserFacts!Begin, User!Cardinality,
  UserFacts!Cardinality, User!IsFiniteSet, UserFacts!IsFiniteSet

LEMMA SameApplyAll == \A u, events : User!ApplyAll(u, events) = UserFacts!ApplyAll(u, events)
BY DEF User!Apply, UserFacts!Apply, User!ApplyAll, UserFacts!ApplyAll

LEMMA SameFail == \A u : User!Fail(u) => UserFacts!Fail(u)
BY DEF User!NoSocket, UserFacts!NoSocket, User!FreshSocket, UserFacts!FreshSocket, User!Dialed,
  UserFacts!Dialed, User!Exhausted, UserFacts!Exhausted, User!ScheduleReconnect,
  UserFacts!ScheduleReconnect, User!CloseSocket, UserFacts!CloseSocket, User!TriggerReconnect,
  UserFacts!TriggerReconnect, User!Callers, UserFacts!Callers, User!NoBoot, UserFacts!NoBoot,
  User!Cancel, UserFacts!Cancel, User!Settled, UserFacts!Settled, User!Broken, UserFacts!Broken,
  User!Notified, UserFacts!Notified, User!GivenUp, UserFacts!GivenUp, User!Fail, UserFacts!Fail

LEMMA SameUserStep == User!Next => UserFacts!Next
<1>1. User!Start => UserFacts!Start
  BY DEF User!Sockets, UserFacts!Sockets, User!NoSocket, UserFacts!NoSocket, User!FreshSocket,
    UserFacts!FreshSocket, User!Free, UserFacts!Free, User!ConnectIfNeeded,
    UserFacts!ConnectIfNeeded, User!Dialed, UserFacts!Dialed, User!Exhausted, UserFacts!Exhausted,
    User!StartClient, UserFacts!StartClient, User!NoBoot, UserFacts!NoBoot, User!Cancel,
    UserFacts!Cancel, User!Notified, UserFacts!Notified, User!Prompt, UserFacts!Prompt,
    User!Start, UserFacts!Start
<1>2. User!Sync => UserFacts!Sync
  BY SameBegin DEF User!Sockets, UserFacts!Sockets, User!NoSocket, UserFacts!NoSocket,
    User!FreshSocket, UserFacts!FreshSocket, User!IsOpen, UserFacts!IsOpen, User!Free,
    UserFacts!Free, User!ConnectIfNeeded, UserFacts!ConnectIfNeeded, User!Dialed,
    UserFacts!Dialed, User!Exhausted, UserFacts!Exhausted, User!StartClient,
    UserFacts!StartClient, User!NoBoot, UserFacts!NoBoot, User!Cancel, UserFacts!Cancel,
    User!Notified, UserFacts!Notified, User!Prompt, UserFacts!Prompt, User!Sync, UserFacts!Sync
<1>3. User!Stop => UserFacts!Stop
  BY DEF User!Sockets, UserFacts!Sockets, User!NoSocket, UserFacts!NoSocket, User!FreshClient,
    UserFacts!FreshClient, User!FreshSocket, UserFacts!FreshSocket, User!CloseSocket,
    UserFacts!CloseSocket, User!StopClient, UserFacts!StopClient, User!Callers, UserFacts!Callers,
    User!NoBoot, UserFacts!NoBoot, User!Cancel, UserFacts!Cancel, User!Settled, UserFacts!Settled,
    User!Stop, UserFacts!Stop
<1>4. \A s : User!Open(s) => UserFacts!Open(s)
  BY SameBegin DEF User!HandleOpen, UserFacts!HandleOpen, User!Callers, UserFacts!Callers,
    User!NoBoot, UserFacts!NoBoot, User!Boot, UserFacts!Boot, User!Open, UserFacts!Open
<1>5. \A s : User!Deliver(s) => UserFacts!Deliver(s)
  BY DEF User!Receive, UserFacts!Receive, User!NoBoot, UserFacts!NoBoot, User!NoCall,
    UserFacts!NoCall, User!Boot, UserFacts!Boot, User!Apply, UserFacts!Apply, User!Slots,
    UserFacts!Slots, User!FreeSlots, UserFacts!FreeSlots, User!Put, UserFacts!Put, User!FinalCall,
    UserFacts!FinalCall, User!Traffic, UserFacts!Traffic, User!Seen, UserFacts!Seen, User!Deliver,
    UserFacts!Deliver
<1>6. \A s : User!Pong(s) => UserFacts!Pong(s)
  BY DEF User!NoBoot, UserFacts!NoBoot, User!NoCall, UserFacts!NoCall, User!Boot, UserFacts!Boot,
    User!Slots, UserFacts!Slots, User!FreeSlots, UserFacts!FreeSlots, User!Put, UserFacts!Put,
    User!FinalCall, UserFacts!FinalCall, User!Traffic, UserFacts!Traffic, User!Seen,
    UserFacts!Seen, User!Pong, UserFacts!Pong
<1>7. \A s : User!Drop(s) => UserFacts!Drop(s)
  BY DEF User!NoSocket, UserFacts!NoSocket, User!FreshSocket, UserFacts!FreshSocket, User!Dialed,
    UserFacts!Dialed, User!Exhausted, UserFacts!Exhausted, User!ScheduleReconnect,
    UserFacts!ScheduleReconnect, User!HandleClose, UserFacts!HandleClose, User!Callers,
    UserFacts!Callers, User!NoBoot, UserFacts!NoBoot, User!Cancel, UserFacts!Cancel, User!Settled,
    UserFacts!Settled, User!Closed, UserFacts!Closed, User!Notified, UserFacts!Notified,
    User!GivenUp, UserFacts!GivenUp, User!Fault, UserFacts!Fault, User!Drop, UserFacts!Drop
<1>8. User!Silence => UserFacts!Silence
  BY DEF User!NoSocket, UserFacts!NoSocket, User!FreshSocket, UserFacts!FreshSocket, User!IsOpen,
    UserFacts!IsOpen, User!Dialed, UserFacts!Dialed, User!Exhausted, UserFacts!Exhausted,
    User!ScheduleReconnect, UserFacts!ScheduleReconnect, User!CloseSocket, UserFacts!CloseSocket,
    User!TriggerReconnect, UserFacts!TriggerReconnect, User!NoBoot, UserFacts!NoBoot, User!Cancel,
    UserFacts!Cancel, User!Notified, UserFacts!Notified, User!Fault, UserFacts!Fault,
    User!Silence, UserFacts!Silence
<1>9. User!RedialTimer => UserFacts!RedialTimer
  BY DEF User!Sockets, UserFacts!Sockets, User!NoSocket, UserFacts!NoSocket, User!FreshSocket,
    UserFacts!FreshSocket, User!Free, UserFacts!Free, User!ConnectIfNeeded,
    UserFacts!ConnectIfNeeded, User!Dialed, UserFacts!Dialed, User!Exhausted, UserFacts!Exhausted,
    User!Redial, UserFacts!Redial, User!NoBoot, UserFacts!NoBoot, User!Cancel, UserFacts!Cancel,
    User!Notified, UserFacts!Notified, User!Prompt, UserFacts!Prompt, User!RedialTimer,
    UserFacts!RedialTimer
<1>10. User!BootTimeout => UserFacts!BootTimeout
  BY SameFail DEF User!NoBoot, UserFacts!NoBoot, User!Boot, UserFacts!Boot, User!Fault,
    UserFacts!Fault, User!BootTimeout, UserFacts!BootTimeout
<1>11. \A i : User!Ask(i) => UserFacts!Ask(i)
  BY DEF User!NoBoot, UserFacts!NoBoot, User!Boot, UserFacts!Boot, User!Slots, UserFacts!Slots,
    User!Ask, UserFacts!Ask
<1>12. \A i : User!Answer(i) => UserFacts!Answer(i)
  BY DEF User!Listed, UserFacts!Listed, User!Answer, UserFacts!Answer
<1>13. \A i : User!LandBegin(i) => UserFacts!LandBegin(i)
  BY DEF User!Sockets, UserFacts!Sockets, User!NoSocket, UserFacts!NoSocket, User!FreshSocket,
    UserFacts!FreshSocket, User!IsOpen, UserFacts!IsOpen, User!Free, UserFacts!Free,
    User!ConnectIfNeeded, UserFacts!ConnectIfNeeded, User!Dialed, UserFacts!Dialed,
    User!Exhausted, UserFacts!Exhausted, User!StartClient, UserFacts!StartClient, User!Callers,
    UserFacts!Callers, User!NoBoot, UserFacts!NoBoot, User!NoCall, UserFacts!NoCall, User!Cancel,
    UserFacts!Cancel, User!Replace, UserFacts!Replace, User!Notified, UserFacts!Notified,
    User!Slots, UserFacts!Slots, User!Prompt, UserFacts!Prompt, User!LandBegin,
    UserFacts!LandBegin
<1>14. \A i : User!LandFinal(i) => UserFacts!LandFinal(i)
  BY SameApplyAll, SameFail DEF User!Callers, UserFacts!Callers, User!NoBoot, UserFacts!NoBoot,
    User!NoCall, UserFacts!NoCall, User!Boot, UserFacts!Boot, User!Cancel, UserFacts!Cancel,
    User!Settled, UserFacts!Settled, User!Replace, UserFacts!Replace, User!LandFinal,
    UserFacts!LandFinal
<1>15. \A i : User!RestFails(i) => UserFacts!RestFails(i)
  BY SameFail DEF User!Callers, UserFacts!Callers, User!NoCall, UserFacts!NoCall, User!Fault,
    UserFacts!Fault, User!RestFails, UserFacts!RestFails
<1>16. \A o : User!OrderMoves(o) => UserFacts!OrderMoves(o)
  BY DEF User!Sockets, UserFacts!Sockets, User!Broadcast, UserFacts!Broadcast, User!OrderMoves,
    UserFacts!OrderMoves
<1> QED
  BY <1>1, <1>2, <1>3, <1>4, <1>5, <1>6, <1>7, <1>8, <1>9, <1>10, <1>11, <1>12, <1>13, <1>14,
    <1>15, <1>16 DEF User!Next, UserFacts!Next, User!Sockets, UserFacts!Sockets, User!Slots,
    UserFacts!Slots

LEMMA SameUser == User!Spec => UserFacts!Spec
<1>1. User!Init => UserFacts!Init
  BY DEF User!Sockets, UserFacts!Sockets, User!NoSocket, UserFacts!NoSocket, User!FreshClient,
    UserFacts!FreshClient, User!FreshSocket, UserFacts!FreshSocket, User!FreshLink,
    UserFacts!FreshLink, User!Callers, UserFacts!Callers, User!NoBoot, UserFacts!NoBoot,
    User!NoCall, UserFacts!NoCall, User!Slots, UserFacts!Slots, User!Init, UserFacts!Init
<1>2. [User!Next]_(User!vars) => [UserFacts!Next]_(UserFacts!vars)
  BY SameUserStep DEF User!vars, UserFacts!vars
<1> QED
  BY <1>1, <1>2, PTL DEF User!Spec, UserFacts!Spec

LEMMA UserAssumed == UserFacts!UserStreamAssumption
BY LinkAssumption DEF User!UserStreamAssumption, User!ClientAssumption,
  UserFacts!UserStreamAssumption, UserFacts!ClientAssumption

(***************************************************************************)
(* ListensOnce: the user stream of the runs never has two subscribed       *)
(* sockets open when close events come before the next dial                *)
(* (triggerReconnect, connectIfNeeded, handleClose).                       *)
(***************************************************************************)
THEOREM ListensOnce == ASSUME ~LateClose PROVE Spec => []OneListener
<1>1. UserFacts!Spec => []UserFacts!OneListener
  BY UserAssumed, UserFacts!SingleListener
<1>2. UserFacts!OneListener => OneListener
  BY DEF OneListener, User!Sockets, UserFacts!Sockets, User!OneListener, UserFacts!OneListener,
    User!Cardinality, UserFacts!Cardinality, User!IsFiniteSet, UserFacts!IsFiniteSet
<1> QED
  BY <1>1, <1>2, FollowsUser, SameUser, PTL

(***************************************************************************)
(* ShowsTheTruth: a trusted user stream of the runs that has received      *)
(* everything shows the open orders and no others, unless bootstraps       *)
(* overlap or a close event comes late (finalizeBootstrapIfReady,          *)
(* replaceFromRestTruth, shouldApplyOrder).                                *)
(***************************************************************************)
THEOREM ShowsTheTruth ==
  ASSUME ~Overlap, ~LateClose PROVE Spec => []TrustedMeansCurrent
<1>1. UserFacts!Spec => []UserFacts!TrustedMeansCurrent
  BY UserAssumed, UserFacts!TrustCurrent
<1>2. UserFacts!TrustedMeansCurrent => TrustedMeansCurrent
  BY DEF TrustedMeansCurrent, User!Sockets, UserFacts!Sockets, User!NoSocket, UserFacts!NoSocket,
    User!IsOpen, UserFacts!IsOpen, User!Listed, UserFacts!Listed, User!Trusted, UserFacts!Trusted,
    User!TrustedMeansCurrent, UserFacts!TrustedMeansCurrent
<1> QED
  BY <1>1, <1>2, FollowsUser, SameUser, PTL

-----------------------------------------------------------------------------
(* The heartbeat of the theorems is the heartbeat of the runs.              *)

LEMMA SameHeartbeat == Heartbeat!Spec => HeartbeatFacts!Spec
<1>1. Heartbeat!Init => HeartbeatFacts!Init
  BY DEF Heartbeat!NoBeat, HeartbeatFacts!NoBeat, Heartbeat!Slots, HeartbeatFacts!Slots,
    Heartbeat!Unknown, HeartbeatFacts!Unknown, Heartbeat!Init, HeartbeatFacts!Init
<1>2. Heartbeat!Next => HeartbeatFacts!Next
  BY DEF Heartbeat!NoBeat, HeartbeatFacts!NoBeat, Heartbeat!Slots, HeartbeatFacts!Slots,
    Heartbeat!Unknown, HeartbeatFacts!Unknown, Heartbeat!Cleared, HeartbeatFacts!Cleared,
    Heartbeat!StopAndReset, HeartbeatFacts!StopAndReset, Heartbeat!StartBeat,
    HeartbeatFacts!StartBeat, Heartbeat!Sync, HeartbeatFacts!Sync, Heartbeat!Arm,
    HeartbeatFacts!Arm, Heartbeat!Tick, HeartbeatFacts!Tick, Heartbeat!Return,
    HeartbeatFacts!Return, Heartbeat!Load, HeartbeatFacts!Load, Heartbeat!Posted,
    HeartbeatFacts!Posted, Heartbeat!PostFails, HeartbeatFacts!PostFails, Heartbeat!Escalate,
    HeartbeatFacts!Escalate, Heartbeat!LoopStop, HeartbeatFacts!LoopStop, Heartbeat!LoopStart,
    HeartbeatFacts!LoopStart, Heartbeat!World, HeartbeatFacts!World, Heartbeat!Next,
    HeartbeatFacts!Next
<1>3. [Heartbeat!Next]_(Heartbeat!vars) => [HeartbeatFacts!Next]_(HeartbeatFacts!vars)
  BY <1>2 DEF Heartbeat!vars, HeartbeatFacts!vars
<1> QED
  BY <1>1, <1>3, PTL DEF Heartbeat!Spec, HeartbeatFacts!Spec

(***************************************************************************)
(* EscalatesOnce: an outage of the heartbeat escalates at most once in the *)
(* runs, however beats overlap (failureEscalated).                         *)
(***************************************************************************)
THEOREM EscalatesOnce == Spec => []EscalatedOnce
<1>1. HeartbeatFacts!Spec => []HeartbeatFacts!EscalatedOnce
  BY HeartbeatFacts!OneEscalation
<1>2. HeartbeatFacts!EscalatedOnce => EscalatedOnce
  BY DEF EscalatedOnce, Heartbeat!EscalatedOnce, HeartbeatFacts!EscalatedOnce
<1> QED
  BY <1>1, <1>2, FollowsHeartbeat, SameHeartbeat, PTL

(***************************************************************************)
(* NoTimerLost: with one caller of sync that no stop interrupts, no        *)
(* interval of the heartbeat is ever lost to stop() in the runs (sync sets *)
(* its handle after an await).                                             *)
(***************************************************************************)
THEOREM NoTimerLost ==
  ASSUME ~AwaitStop, \A c, d \in Syncers : c = d, Syncers \cap {"none", "timer"} = {}
  PROVE  Spec => []OneTimer
<1>1. HeartbeatFacts!SyncsAlone
  BY DEF HeartbeatFacts!SyncsAlone
<1>2. HeartbeatFacts!Spec => []HeartbeatFacts!OneTimer
  BY <1>1, HeartbeatFacts!SingleTimer
<1>3. HeartbeatFacts!OneTimer => OneTimer
  BY DEF OneTimer, Heartbeat!OneTimer, HeartbeatFacts!OneTimer
<1> QED
  BY <1>2, <1>3, FollowsHeartbeat, SameHeartbeat, PTL

-----------------------------------------------------------------------------
(* The account of the theorems is the account of the runs.                  *)

LEMMA FollowsAccount == Spec => Account!Spec
<1>1. Init => Account!Init
  BY DEF Init
<1>2. [Next]_<<service, uvars, mvars, hvars, avars>> => [Account!Next]_(Account!vars)
  BY DEF Next, avars, Account!vars, Account!venueVars, Account!orderVars, Account!truthVars
<1> QED
  BY <1>1, <1>2, PTL DEF Spec, Account!Spec

LEMMA SameAge == \A age : Account!Freshness(age) = AccountFacts!Freshness(age)
BY DEF Account!Freshness, AccountFacts!Freshness, Account!Staleness, AccountFacts!Staleness,
  Account!HealthyAge, AccountFacts!HealthyAge, Account!ManagementParts,
  AccountFacts!ManagementParts, Account!EntryParts, AccountFacts!EntryParts, Account!Max,
  AccountFacts!Max

LEMMA SameDivergence == \A r, l : Account!Divergence(r, l) = AccountFacts!Divergence(r, l)
BY DEF Account!Divergence, AccountFacts!Divergence, Account!TradeUnknown,
  AccountFacts!TradeUnknown, Account!Unmapped, AccountFacts!Unmapped, Account!BalanceOff,
  AccountFacts!BalanceOff, Account!Mismatched, AccountFacts!Mismatched, Account!Residue,
  AccountFacts!Residue, Account!Never, AccountFacts!Never

LEMMA SameLoss == \A n : Account!LossOf(n) = AccountFacts!LossOf(n)
BY DEF Account!LossOf, AccountFacts!LossOf, Account!Realized, AccountFacts!Realized,
  Account!Replay, AccountFacts!Replay, Account!Post, AccountFacts!Post, Account!NewLedger,
  AccountFacts!NewLedger, Account!Opposite, AccountFacts!Opposite, Account!Size,
  AccountFacts!Size, Account!Min, AccountFacts!Min, Account!FoldLeft, AccountFacts!FoldLeft,
  Account!MapThenFoldSet, AccountFacts!MapThenFoldSet, Account!Max, AccountFacts!Max

LEMMA SameReading ==
  /\ Account!Reading = AccountFacts!Reading
  /\ \A j : Account!Local(j) = AccountFacts!Local(j)
  /\ \A r, t : Account!Canonical(r, t) = AccountFacts!Canonical(r, t)
BY DEF Account!Canonical, AccountFacts!Canonical, Account!Local, AccountFacts!Local,
  Account!Never, AccountFacts!Never, Account!AtVenue, AccountFacts!AtVenue, Account!OrdersIf,
  AccountFacts!OrdersIf, Account!Reading, AccountFacts!Reading

LEMMA SameDecision ==
  /\ \A d : Account!Recovery(d) = AccountFacts!Recovery(d)
  /\ \A fresh, recovery :
       Account!Permissions(fresh, recovery) = AccountFacts!Permissions(fresh, recovery)
BY DEF Account!Permissions, AccountFacts!Permissions, Account!Recovery, AccountFacts!Recovery

LEMMA SameAccountStep == Account!Next => AccountFacts!Next
<1>1. Account!PostOrder => AccountFacts!PostOrder
  BY DEF Account!Jobs, AccountFacts!Jobs, Account!Disturbed, AccountFacts!Disturbed,
    Account!Signed, AccountFacts!Signed, Account!Admits, AccountFacts!Admits, Account!PostOrder,
    AccountFacts!PostOrder, Account!venueVars, AccountFacts!venueVars
<1>2. Account!Match => AccountFacts!Match
  BY DEF Account!Jobs, AccountFacts!Jobs, Account!Disturbed, AccountFacts!Disturbed, Account!Lot,
    AccountFacts!Lot, Account!Signed, AccountFacts!Signed, Account!Leave, AccountFacts!Leave,
    Account!AtVenue, AccountFacts!AtVenue, Account!Match, AccountFacts!Match
<1>3. Account!Cancel => AccountFacts!Cancel
  BY DEF Account!Jobs, AccountFacts!Jobs, Account!Disturbed, AccountFacts!Disturbed,
    Account!Leave, AccountFacts!Leave, Account!AtVenue, AccountFacts!AtVenue, Account!Cancel,
    AccountFacts!Cancel, Account!venueVars, AccountFacts!venueVars
<1>4. Account!End => AccountFacts!End
  BY DEF Account!Jobs, AccountFacts!Jobs, Account!Disturbed, AccountFacts!Disturbed,
    Account!AtVenue, AccountFacts!AtVenue, Account!End, AccountFacts!End, Account!orderVars,
    AccountFacts!orderVars
<1>5. Account!CatchUp => AccountFacts!CatchUp
  BY DEF Account!CatchUp, AccountFacts!CatchUp, Account!orderVars, AccountFacts!orderVars,
    Account!truthVars, AccountFacts!truthVars
<1>6. Account!Record => AccountFacts!Record
  BY DEF Account!Rowed, AccountFacts!Rowed, Account!Record, AccountFacts!Record,
    Account!venueVars, AccountFacts!venueVars, Account!truthVars, AccountFacts!truthVars
<1>7. Account!Resolve => AccountFacts!Resolve
  BY DEF Account!Rowed, AccountFacts!Rowed, Account!Resolve, AccountFacts!Resolve,
    Account!venueVars, AccountFacts!venueVars, Account!truthVars, AccountFacts!truthVars
<1>8. \A j : Account!Begin(j) => AccountFacts!Begin(j)
  BY DEF Account!WorkingRow, AccountFacts!WorkingRow, Account!OrdersIf, AccountFacts!OrdersIf,
    Account!Held, AccountFacts!Held, Account!Open, AccountFacts!Open, Account!Busy,
    AccountFacts!Busy, Account!Rested, AccountFacts!Rested, Account!Jobs, AccountFacts!Jobs,
    Account!Begin, AccountFacts!Begin, Account!venueVars, AccountFacts!venueVars,
    Account!orderVars, AccountFacts!orderVars, Account!truthVars, AccountFacts!truthVars
<1>9. \A j : Account!List(j) => AccountFacts!List(j)
  BY SameAge, SameDivergence, SameReading, SameDecision DEF Account!List, AccountFacts!List,
    Account!venueVars, AccountFacts!venueVars, Account!orderVars, AccountFacts!orderVars,
    Account!truthVars, AccountFacts!truthVars
<1>10. \A j : Account!Store(j) => AccountFacts!Store(j)
  BY DEF Account!Nobody, AccountFacts!Nobody, Account!Place, AccountFacts!Place, Account!After,
    AccountFacts!After, Account!Newest, AccountFacts!Newest, Account!Rested, AccountFacts!Rested,
    Account!AfterRun, AccountFacts!AfterRun, Account!Store, AccountFacts!Store,
    Account!venueVars, AccountFacts!venueVars, Account!orderVars, AccountFacts!orderVars,
    Account!truthVars, AccountFacts!truthVars
<1>11. \A j : Account!Fail(j) => AccountFacts!Fail(j)
  BY DEF Account!After, AccountFacts!After, Account!Place, AccountFacts!Place, Account!Newest,
    AccountFacts!Newest, Account!Without, AccountFacts!Without, Account!Rested,
    AccountFacts!Rested, Account!AfterRun, AccountFacts!AfterRun, Account!Jobs,
    AccountFacts!Jobs, Account!Fail, AccountFacts!Fail, Account!venueVars,
    AccountFacts!venueVars, Account!orderVars, AccountFacts!orderVars
<1>12. \A j : Account!Rebuild(j) => AccountFacts!Rebuild(j)
  BY DEF Account!Rested, AccountFacts!Rested, Account!Rebuilt, AccountFacts!Rebuilt,
    Account!Jobs, AccountFacts!Jobs, Account!Open, AccountFacts!Open, Account!Spare,
    AccountFacts!Spare, Account!Rebuild, AccountFacts!Rebuild, Account!venueVars,
    AccountFacts!venueVars, Account!orderVars, AccountFacts!orderVars, Account!truthVars,
    AccountFacts!truthVars
<1>13. \A j : Account!Finish(j) => AccountFacts!Finish(j)
  BY SameLoss DEF Account!Rested, AccountFacts!Rested, Account!AfterRun, AccountFacts!AfterRun,
    Account!Nobody, AccountFacts!Nobody, Account!Finish, AccountFacts!Finish, Account!venueVars,
    AccountFacts!venueVars, Account!orderVars, AccountFacts!orderVars
<1>14. Account!Crash => AccountFacts!Crash
  BY DEF Account!Nobody, AccountFacts!Nobody, Account!Rested, AccountFacts!Rested, Account!Jobs,
    AccountFacts!Jobs, Account!Busy, AccountFacts!Busy, Account!Crash, AccountFacts!Crash,
    Account!venueVars, AccountFacts!venueVars, Account!orderVars, AccountFacts!orderVars
<1> QED
  BY <1>1, <1>2, <1>3, <1>4, <1>5, <1>6, <1>7, <1>8, <1>9, <1>10, <1>11, <1>12, <1>13, <1>14 DEF
    Account!Next, AccountFacts!Next, Account!Step, AccountFacts!Step, Account!Jobs,
    AccountFacts!Jobs

LEMMA SameAccount == Account!Spec => AccountFacts!Spec
<1>1. Account!Init => AccountFacts!Init
  BY DEF Account!Nobody, AccountFacts!Nobody, Account!Rested, AccountFacts!Rested, Account!Jobs,
    AccountFacts!Jobs, Account!Init, AccountFacts!Init
<1>2. [Account!Next]_(Account!vars) => [AccountFacts!Next]_(AccountFacts!vars)
  BY SameAccountStep DEF Account!vars, AccountFacts!vars, Account!venueVars,
    AccountFacts!venueVars, Account!orderVars, AccountFacts!orderVars, Account!truthVars,
    AccountFacts!truthVars
<1> QED
  BY <1>1, <1>2, PTL DEF Account!Spec, AccountFacts!Spec

LEMMA AccountAssumed == AccountFacts!PortfolioAssumption
BY LinkAssumption DEF Account!PortfolioAssumption, AccountFacts!PortfolioAssumption,
  Account!Jobs, AccountFacts!Jobs, Account!Nobody, AccountFacts!Nobody, Account!IsFiniteSet,
  AccountFacts!IsFiniteSet

(***************************************************************************)
(* TruthOfEntries: in the runs, while the newest checkpoint comes from an  *)
(* undisturbed capture that allows entries, the rows hold what the venue   *)
(* holds and no order is at the venue without a row                        *)
(* (capturePortfolioTruth, reconcileOpenPositions).                        *)
(***************************************************************************)
THEOREM TruthOfEntries == Spec => []EntriesMeanTruth
<1>1. AccountFacts!Spec => []AccountFacts!EntriesMeanTruth
  BY AccountAssumed, AccountFacts!EntriesTrue
<1>2. AccountFacts!EntriesMeanTruth => EntriesMeanTruth
  BY DEF EntriesMeanTruth, Account!EntriesMeanTruth, AccountFacts!EntriesMeanTruth, Account!Held,
    AccountFacts!Held
<1> QED
  BY <1>1, <1>2, FollowsAccount, SameAccount, PTL

-----------------------------------------------------------------------------
(* The types of the services.                                               *)

LEMMA UserAlwaysTyped == Spec => []User!TypeOK
<1>1. UserFacts!Spec => []UserFacts!TypeOK
  BY UserAssumed, UserFacts!TypeCorrect
<1>2. UserFacts!TypeOK => User!TypeOK
  BY DEF User!Sockets, UserFacts!Sockets, User!NoSocket, UserFacts!NoSocket, User!Statuses,
    UserFacts!Statuses, User!LinkOK, UserFacts!LinkOK, User!Callers, UserFacts!Callers,
    User!Events, UserFacts!Events, User!TypeOK, UserFacts!TypeOK
<1> QED
  BY <1>1, <1>2, FollowsUser, SameUser, PTL

LEMMA HeartbeatAlwaysTyped == Spec => []Heartbeat!TypeOK
<1>1. HeartbeatFacts!Spec => []HeartbeatFacts!TypeOK
  BY HeartbeatFacts!TypeCorrect
<1>2. HeartbeatFacts!TypeOK => Heartbeat!TypeOK
  BY DEF Heartbeat!TypeOK, HeartbeatFacts!TypeOK
<1> QED
  BY <1>1, <1>2, FollowsHeartbeat, SameHeartbeat, PTL

LEMMA AccountAlwaysTyped == Spec => []Account!TypeOK
<1>1. AccountFacts!Spec => []AccountFacts!TypeOK
  BY AccountAssumed, AccountFacts!TypeCorrect
<1>2. AccountFacts!TypeOK => Account!TypeOK
  BY DEF Account!TypeOK, AccountFacts!TypeOK, Account!Jobs, AccountFacts!Jobs, Account!Nobody,
    AccountFacts!Nobody
<1> QED
  BY <1>1, <1>2, FollowsAccount, SameAccount, PTL

(***************************************************************************)
(* TypesKept: in the runs every variable of the four services keeps its    *)
(* type, and the socket each stream client holds is its own and dialing or *)
(* open, whatever closes, is dropped or overlaps (connectIfNeeded,         *)
(* handleClose).                                                           *)
(***************************************************************************)
THEOREM TypesKept == Spec => []TypeOK
<1>1. User!TypeOK /\ Market!TypeOK /\ Heartbeat!TypeOK /\ Account!TypeOK => TypeOK
  BY DEF TypeOK
<1> QED
  BY <1>1, UserAlwaysTyped, MarketAlwaysTyped, HeartbeatAlwaysTyped, AccountAlwaysTyped, PTL
=============================================================================
