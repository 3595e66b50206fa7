------------------------------ MODULE GameServer ------------------------------
(***************************************************************************)
(* The game server: its session table and auction link (AuctionRelay) and  *)
(* its room (Room) over the same sessions.  OnAccept and GameSession::Close *)
(* are steps of both; every other handler is a step of one of them.        *)
(* Source: GameServer/GameServer.cpp, GameServer/GameSession.cpp.          *)
(***************************************************************************)
EXTENDS AuctionRelay, Room

ASSUME SessionsAreClients == Sessions = Clients

serverVars == <<vars, roomVars>>

ServerInit == Init /\ RoomInit

(* GameServer::OnAccept *)
OnAccept == Accept /\ Connect(accepted + 1)

(* GameSession::Close unregisters the session; its player stays where it is. *)
CloseSession(c) == Close(c) /\ Disconnect(c)

(* What one component does alone. *)
RelayAlone ==
    \/ \E c \in 1 .. accepted, kind \in Kinds : Forward(c, kind) \/ AnswerFromCache(c, kind)
    \/ OnConnect \/ Refresh \/ LinkWrite \/ LinkLost \/ RelayAnswer
    \/ AuctionTakes \/ \E r \in working : AuctionAnswers(r)

RoomAlone ==
    \E c \in 1 .. accepted, p \in Players : Enter(c, p) \/ Leave(c, p)

ServerNext ==
    \/ OnAccept
    \/ \E c \in 1 .. accepted : CloseSession(c)
    \/ RelayAlone /\ UNCHANGED roomVars
    \/ RoomAlone /\ UNCHANGED vars

ServerSpec == ServerInit /\ [][ServerNext]_serverVars
-----------------------------------------------------------------------------
(* The types of both components. *)
ServerTypeOK == TypeOK /\ RoomTypeOK
=============================================================================
