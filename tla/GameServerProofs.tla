--------------------------- MODULE GameServerProofs ---------------------------
(***************************************************************************)
(* Theorems about Room and about GameServer: for any number of sessions    *)
(* and players the room holds exactly what its clients were told; putting  *)
(* the relay and the room together leaves each of them as it was, so what  *)
(* is proved of a component holds of the server.                           *)
(***************************************************************************)
EXTENDS GameServer, AuctionRelayProofs
-----------------------------------------------------------------------------
(* The room by itself. *)

(* A session that was never accepted is not open, was told nothing and is  *)
(* nobody's: what ToldIsTrue needs when a session opens.                   *)
FreshIsUnknown ==
    \A s \in fresh :
        s \notin open /\ told[s] = {} /\ \A p \in Players : members[p] # s

RoomInv == RoomTypeOK /\ FreshIsUnknown /\ ToldIsTrue

LEMMA RoomInitInv == RoomInit => RoomInv
BY RoomAssumption DEF RoomInit, RoomInv, RoomTypeOK, FreshIsUnknown, ToldIsTrue

LEMMA RoomStepInv == RoomInv /\ [RoomNext]_roomVars => RoomInv'
<1> SUFFICES ASSUME RoomInv, [RoomNext]_roomVars PROVE RoomInv'
  OBVIOUS
<1> USE RoomAssumption DEF RoomInv, RoomTypeOK, FreshIsUnknown, ToldIsTrue
<1>1. ASSUME NEW s \in Sessions, Connect(s) PROVE RoomInv'
  BY <1>1 DEF Connect
<1>2. ASSUME NEW s \in Sessions, Disconnect(s) PROVE RoomInv'
  BY <1>2 DEF Disconnect
<1>3. ASSUME NEW s \in Sessions, NEW p \in Players, Enter(s, p) PROVE RoomInv'
  BY <1>3 DEF Enter, Absent
<1>4. ASSUME NEW s \in Sessions, NEW p \in Players, Leave(s, p) PROVE RoomInv'
  BY <1>4 DEF Leave, Absent, Answered
<1>5. CASE UNCHANGED roomVars
  BY <1>5 DEF roomVars
<1>6. QED
  BY <1>1, <1>2, <1>3, <1>4, <1>5 DEF RoomNext

(* The invariant the two theorems below are read from. *)
LEMMA RoomInvariance == RoomSpec => []RoomInv
BY RoomInitInv, RoomStepInv, PTL DEF RoomSpec

(* Sessions, members and answers keep their kinds, whoever enters, leaves  *)
(* or disconnects.                                                         *)
THEOREM RoomTypes == RoomSpec => []RoomTypeOK
<1>1. RoomInv => RoomTypeOK
  BY DEF RoomInv
<1>2. QED
  BY <1>1, RoomInvariance, PTL

(* EnterPlayer, LeavePlayer and their answers: for every number of players *)
(* and sessions, an open session was told a player is in exactly when the  *)
(* room has that player with that session.                                 *)
THEOREM RoomToldIsTrue == RoomSpec => []ToldIsTrue
<1>1. RoomInv => ToldIsTrue
  BY DEF RoomInv
<1>2. QED
  BY <1>1, RoomInvariance, PTL
-----------------------------------------------------------------------------
(* The composition. *)

(* A new session is one that may connect. *)
Numbered == accepted \in 0 .. MaxClients

LEMMA NumberedInv == ServerSpec => []Numbered
<1>1. ServerInit => Numbered
  BY RelayAssumption DEF ServerInit, Init, Numbered
<1>2. Numbered /\ [ServerNext]_serverVars => Numbered'
  <2> SUFFICES ASSUME Numbered, [ServerNext]_serverVars PROVE Numbered'
    OBVIOUS
  <2> USE RelayAssumption DEF Numbered
  <2>1. CASE OnAccept
    BY <2>1 DEF OnAccept, Accept
  <2>2. CASE \E c \in 1 .. accepted : CloseSession(c)
    BY <2>2 DEF CloseSession, Close
  <2>3. CASE RelayAlone
    BY <2>3 DEF RelayAlone, Forward, AnswerFromCache, Make, OnConnect, Refresh,
                LinkWrite, LinkLost, RelayAnswer, AuctionTakes, AuctionAnswers
  <2>4. CASE UNCHANGED vars
    BY <2>4 DEF vars
  <2>5. QED
    BY <2>1, <2>2, <2>3, <2>4 DEF ServerNext, serverVars
<1>3. QED
  BY <1>1, <1>2, PTL DEF ServerSpec

(* Accepting, closing, forwarding and routing are the relay's own steps,   *)
(* whatever happens in the room (GameServer::OnAccept, GameSession::Close).*)
THEOREM ServerIsRelay == ServerSpec => Spec
<1>1. ServerInit => Init
  BY DEF ServerInit
<1>2. [ServerNext]_serverVars => [Next]_vars
  <2> SUFFICES ASSUME [ServerNext]_serverVars PROVE [Next]_vars
    OBVIOUS
  <2>1. CASE OnAccept
    BY <2>1 DEF OnAccept, Next
  <2>2. CASE \E c \in 1 .. accepted : CloseSession(c)
    BY <2>2 DEF CloseSession, Client, Next
  <2>3. CASE RelayAlone
    BY <2>3 DEF RelayAlone, Client, Next
  <2>4. CASE UNCHANGED vars
    BY <2>4
  <2>5. QED
    BY <2>1, <2>2, <2>3, <2>4 DEF ServerNext, serverVars
<1>3. QED
  BY <1>1, <1>2, PTL DEF ServerSpec, Spec

(* The room sees sessions connect, act and disconnect as it expects them   *)
(* to, whatever the relay does.                                            *)
THEOREM ServerIsRoom == ServerSpec => RoomSpec
<1>1. ServerInit => RoomInit
  BY DEF ServerInit
<1>2. Numbered /\ [ServerNext]_serverVars => [RoomNext]_roomVars
  <2> SUFFICES ASSUME Numbered, [ServerNext]_serverVars PROVE [RoomNext]_roomVars
    OBVIOUS
  <2> USE RelayAssumption, SessionsAreClients DEF Numbered, Clients
  <2>1. CASE OnAccept
    <3>1. accepted + 1 \in Sessions
      BY <2>1 DEF OnAccept, Accept
    <3>2. QED
      BY <2>1, <3>1 DEF OnAccept, RoomNext
  <2>2. CASE \E c \in 1 .. accepted : CloseSession(c)
    BY <2>2 DEF CloseSession, RoomNext
  <2>3. CASE RoomAlone
    BY <2>3 DEF RoomAlone, RoomNext
  <2>4. CASE UNCHANGED roomVars
    BY <2>4
  <2>5. QED
    BY <2>1, <2>2, <2>3, <2>4 DEF ServerNext, serverVars
<1>3. QED
  BY <1>1, <1>2, NumberedInv, PTL DEF ServerSpec, RoomSpec

(* In the running server an answer still reaches only who asked, and live  *)
(* clients were still told what the room holds.                            *)
THEOREM ServerKeepsPromises == ServerSpec => [](AnswersGoHome /\ ToldIsTrue)
  BY ServerIsRelay, ServerIsRoom, RelayAnswersGoHome, RoomToldIsTrue, PTL

(* Every variable of the game server keeps its type: a session or a player *)
(* is never stored where the other belongs, and no id leaves its range     *)
(* (GameSessionManager.cpp:5-25, GameRoom.cpp:5-66).                       *)
THEOREM ServerTypes == ServerSpec => []ServerTypeOK
<1>1. TypeOK /\ RoomTypeOK => ServerTypeOK
  BY DEF ServerTypeOK
<1>2. QED
  BY <1>1, ServerIsRelay, ServerIsRoom, RelayTypes, RoomTypes, PTL
=============================================================================
