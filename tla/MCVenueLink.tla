---------------------------- MODULE MCVenueLink ----------------------------
(***************************************************************************)
(* The services that keep the bot in step with the venue, checked side by  *)
(* side: the two streams, the heartbeat and the captures of the account.   *)
(* A behaviour follows one of them and the others stand still, since they  *)
(* share nothing but the code of the socket client.                        *)
(***************************************************************************)
EXTENDS Naturals, Sequences

CONSTANTS Services, MaxFaults, MaxCommands, MaxStops, Faults, Overlap, LateClose, AwaitStop, Syncers

VARIABLES
  service,
  ulink, user, ucalls, ucaller, uvenue, ubounds,
  mlink, market, mcalls, mcaller, books, shaken, mbounds,
  rows, open, up, handle, timers, health, beats, pc, degraded, hbounds,
  balance, over, data, order, posts, fills, booked, positions, job, listed, completed,
  gate, latest, troubles

(* The tokens tracked before and after the markets rotate.                  *)
FirstTokens == {1, 2}
SecondTokens == {2, 3}

User == INSTANCE UserStream WITH
  MaxSockets <- 2, MaxDials <- 2, Orders <- {1}, MaxCalls <- 3,
  link <- ulink, calls <- ucalls, caller <- ucaller, venue <- uvenue, bounds <- ubounds

Market == INSTANCE MarketStream WITH
  MaxSockets <- 2, MaxDials <- 2, First <- FirstTokens, Second <- SecondTokens, MaxChanges <- 1,
  MaxCalls <- 2,
  link <- mlink, calls <- mcalls, caller <- mcaller, bounds <- mbounds

Heartbeat == INSTANCE VenueHeartbeat WITH
  Orders <- {1, 2}, MaxBeats <- 2, MaxMoves <- 4, bounds <- hbounds

Account == INSTANCE PortfolioTruth WITH
  Token <- "up", Lots <- <<[side |-> "BUY", size |-> 1, price |-> 864, fee |-> 0]>>,
  ByHand <- {0}, Refreshers <- {"loop", "recovery"}, Pretrades <- {}, Once <- {"recovery"},
  RowIds <- 1 .. 3, Ages <- {0}, Limit <- 144, Ends <- {"lost"}, MaxTroubles <- 1,
  rows <- positions

(* The constants are as the modules of the services assume them. *)
ASSUME LinkAssumption ==
  User!UserStreamAssumption /\ Market!MarketStreamAssumption /\ Heartbeat!HeartbeatAssumption
  /\ Account!PortfolioAssumption

uvars == <<ulink, user, ucalls, ucaller, uvenue, ubounds>>
mvars == <<mlink, market, mcalls, mcaller, books, shaken, mbounds>>
hvars == <<rows, open, up, handle, timers, health, beats, pc, degraded, hbounds>>
avars == <<balance, over, data, order, posts, fills, booked, positions, job, listed, completed,
           gate, latest, troubles>>

Init ==
  /\ service \in Services
  /\ User!Init /\ Market!Init /\ Heartbeat!Init /\ Account!Init

Next ==
  /\ UNCHANGED service
  /\ \/ service = "user" /\ User!Next /\ UNCHANGED <<mvars, hvars, avars>>
     \/ service = "market" /\ Market!Next /\ UNCHANGED <<uvars, hvars, avars>>
     \/ service = "heartbeat" /\ Heartbeat!Next /\ UNCHANGED <<uvars, mvars, avars>>
     \/ service = "account" /\ Account!Next /\ UNCHANGED <<uvars, mvars, hvars>>

Spec == Init /\ [][Next]_<<service, uvars, mvars, hvars, avars>>
FairSpec == Spec /\ (service = "user" => User!Fairness)
                 /\ (service = "heartbeat" => Heartbeat!Fairness)
RepairSpec == Spec /\ (service = "account" => Account!Fairness)

(* The types of the services, and their properties, each about the   *)
(* service the behaviour follows.                                           *)
TypeOK == User!TypeOK /\ Market!TypeOK /\ Heartbeat!TypeOK /\ Account!TypeOK
TrustedMeansCurrent == User!TrustedMeansCurrent
OneListener == User!OneListener
TrustReturns == service = "user" => User!TrustReturns
TrustedAfterHandshake == Market!TrustedAfterHandshake
BookIsCurrent == Market!BookIsCurrent
OneTimer == Heartbeat!OneTimer
EscalatedOnce == Heartbeat!EscalatedOnce
EntriesMeanTruth == Account!EntriesMeanTruth
Repaired == service = "account" => Account!RepairsItself
HeartbeatFollows == service = "heartbeat" => Heartbeat!HeartbeatFollows
=============================================================================
