--------------------------------- MODULE Room ---------------------------------
(***************************************************************************)
(* The game room and the chat room (the same code twice) with the handlers *)
(* that use them and the sessions that come and go.  One io thread runs    *)
(* every handler of a server, so a handler is one step.                    *)
(* Source: GameServer/GameRoom.cpp, ChatServer/ChatRoom.cpp and the enter  *)
(* and leave handlers of LobbyPacketHandler.cpp and ChatPacketHandler.cpp. *)
(***************************************************************************)
EXTENDS FiniteSets

CONSTANTS
    Sessions,   \* every connection ever made; one is never reopened
    Players,    \* player ids, as the clients name them
    Nobody      \* no session, no player

ASSUME RoomAssumption == Nobody \notin Sessions /\ Nobody \notin Players

VARIABLES
    fresh,      \* sessions not accepted yet
    open,       \* sessions whose socket is open
    members,    \* _members: the session of each player in the room, or Nobody
    player,     \* GameSession::player: the player a session entered as
    told        \* history: the players a client was told are in, and not out

roomVars == <<fresh, open, members, player, told>>

RoomInit ==
    /\ fresh = Sessions /\ open = {}
    /\ members = [p \in Players |-> Nobody]
    /\ player = [s \in Sessions |-> Nobody]
    /\ told = [s \in Sessions |-> {}]
-----------------------------------------------------------------------------
Connect(s) ==
    /\ s \in fresh
    /\ fresh' = fresh \ {s} /\ open' = open \cup {s}
    /\ UNCHANGED <<members, player, told>>

(* The handler makes a new member, points the session at it, tries to put  *)
(* it into the room and tells the client.  Like every handler it may still *)
(* run for a packet read before its session closed.                        *)
Absent_Ignored(p) == TRUE
Absent(p) == members[p] = Nobody

Enter(s, p) ==
    /\ s \notin fresh
    /\ player' = [player EXCEPT ![s] = p]
    /\ IF Absent(p)
          THEN /\ members' = [members EXCEPT ![p] = s]
               /\ told' = [told EXCEPT ![s] = @ \cup {p}]
          ELSE UNCHANGED <<members, told>>
    /\ UNCHANGED <<fresh, open>>

(* Any session may name any player.  The player's own session gets the     *)
(* answer; a player who is not in the room gets none.                      *)
Answered(s, p) == members[p]

Leave(s, p) ==
    /\ s \notin fresh
    /\ player' = [player EXCEPT ![s] = Nobody]
    /\ IF Absent(p)
          THEN UNCHANGED <<members, told>>
          ELSE /\ members' = [members EXCEPT ![p] = Nobody]
               /\ told' = [t \in Sessions |->
                            IF t = Answered(s, p) /\ t \in open
                               THEN told[t] \ {p} ELSE told[t]]
    /\ UNCHANGED <<fresh, open>>

(* GameSession::Close and Session::Close leave the room alone. *)
Disconnect(s) ==
    /\ s \in open
    /\ open' = open \ {s}
    /\ UNCHANGED <<fresh, members, player, told>>
-----------------------------------------------------------------------------
RoomNext ==
    \E s \in Sessions :
        \/ Connect(s) \/ Disconnect(s)
        \/ \E p \in Players : Enter(s, p) \/ Leave(s, p)

RoomSpec == RoomInit /\ [][RoomNext]_roomVars
-----------------------------------------------------------------------------
(* Properties *)

RoomTypeOK ==
    /\ fresh \subseteq Sessions /\ open \subseteq Sessions
    /\ members \in [Players -> Sessions \cup {Nobody}]
    /\ player \in [Sessions -> Players \cup {Nobody}]
    /\ told \in [Sessions -> SUBSET Players]

(* What the answers say is what the room holds: a live client was told a   *)
(* player is in, and not that it left, exactly when the room has that      *)
(* player with that client's session, whoever asked to enter or leave      *)
(* (HandleEnterPlayerLocked, LeavePlayer, GameRoom.cpp:21-66).             *)
ToldIsTrue ==
    \A s \in open, p \in Players : p \in told[s] <=> members[p] = s
=============================================================================
