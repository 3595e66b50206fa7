----------------------------- MODULE AuctionRelay -----------------------------
(***************************************************************************)
(* The game server between its clients and the auction server: clients     *)
(* register under a session id, their auction requests travel over the one *)
(* AuctionSession with that id in them, and an answer is routed back by    *)
(* the id it carries.  The main thread runs the clients' handlers, the     *)
(* auction thread the link's; the session table is shared under a mutex.   *)
(* Source: GameServer/Utils/GameSessionManager, GameServer/AuctionSession, *)
(* the auction packet handlers of the game server.                         *)
(***************************************************************************)
EXTENDS Integers, Sequences, FiniteSets

CONSTANTS
    MaxClients,    \* bound: connections ever accepted
    MaxRequests,   \* bound: requests ever made
    IntLimit       \* int is -IntLimit .. IntLimit-1; session ids are uint64

ASSUME RelayAssumption ==
    /\ MaxClients \in Nat /\ MaxRequests \in Nat /\ IntLimit \in Nat \ {0}
    /\ MaxClients < 2 * IntLimit

Clients == 1 .. MaxClients     \* in the order they were accepted
Cache   == 0                   \* the cache, as the maker of a request
kCacheSessionId == 0
Unknown == -1                  \* an id no table holds

VARIABLES
    accepted,      \* clients 1..accepted have connected
    idOf,          \* session_id of each accepted client
    nextId,        \* GameSessionManager::nextId_
    table,         \* sessions_: pairs of an id and its client
    asked,         \* the requests made: maker, session id and kind
    link,          \* the AuctionSession: "connecting", "up" or "closed"
    posted,        \* requests waiting for the link's strand
    toAuction,     \* requests on the wire
    working,       \* requests the auction server's workers hold
    fromAuction,   \* answers on the wire
    delivered      \* history: pairs of a request and who got its answer

linkVars == <<link, posted, toAuction, working, fromAuction>>
vars == <<accepted, idOf, nextId, table, asked, link, posted, toAuction, working,
          fromAuction, delivered>>

Init ==
    /\ accepted = 0 /\ idOf = <<>> /\ nextId = kCacheSessionId + 1 /\ table = {}
    /\ asked = <<>> /\ link = "connecting" /\ posted = <<>>
    /\ toAuction = <<>> /\ working = {} /\ fromAuction = <<>>
    /\ delivered = {}
-----------------------------------------------------------------------------
(* The main thread.                                                        *)

Registered == {entry.id : entry \in table}

FreshId_FirstFree ==
    CHOOSE id \in 1 .. MaxClients : id \notin Registered
FreshId == nextId

(* OnAccept: Register draws an id, enters the session and tells it its id. *)
Accept ==
    /\ accepted < MaxClients
    /\ accepted' = accepted + 1
    /\ idOf' = Append(idOf, FreshId)
    /\ nextId' = nextId + 1
    /\ table' = table \cup {[id |-> FreshId, client |-> accepted + 1]}
    /\ UNCHANGED <<asked, linkVars, delivered>>

(* GameSession::Close: Unregister. *)
Close(c) ==
    /\ [id |-> idOf[c], client |-> c] \in table
    /\ table' = table \ {[id |-> idOf[c], client |-> c]}
    /\ UNCHANGED <<accepted, idOf, nextId, asked, linkVars, delivered>>

Make(maker, id, kind) ==
    /\ Len(asked) < MaxRequests
    /\ asked' = Append(asked, [maker |-> maker, id |-> id, kind |-> kind])
    /\ UNCHANGED <<accepted, idOf, nextId, table>>

(* A packet read before its session closed is still handled after it.      *)
(* A list or a refusal from the cache is answered on the spot.             *)
AnswerFromCache(c, kind) ==
    /\ Make(c, idOf[c], kind)
    /\ delivered' = delivered \cup {[req |-> Len(asked) + 1, to |-> c]}
    /\ UNCHANGED linkVars

Forward(c, kind) ==
    /\ Make(c, idOf[c], kind)
    /\ posted' = Append(posted, Len(asked) + 1)
    /\ UNCHANGED <<link, toAuction, working, fromAuction, delivered>>
-----------------------------------------------------------------------------
(* The auction thread.                                                     *)

OnConnect ==
    /\ link = "connecting"
    /\ link' = "up"
    /\ Make(Cache, kCacheSessionId, "query")
    /\ posted' = Append(posted, Len(asked) + 1)
    /\ UNCHANGED <<toAuction, working, fromAuction, delivered>>

(* The refresh loop of AuctionCache asks again, link or no link. *)
Refresh ==
    /\ link # "connecting"
    /\ Make(Cache, kCacheSessionId, "query")
    /\ posted' = Append(posted, Len(asked) + 1)
    /\ UNCHANGED <<link, toAuction, working, fromAuction, delivered>>

(* The strand writes the next request.  A write before the connect has     *)
(* completed fails, and OnWrite closes the socket: the connect is aborted. *)
LinkWrite ==
    /\ posted # <<>>
    /\ posted' = Tail(posted)
    /\ IF link = "up"
          THEN toAuction' = Append(toAuction, Head(posted)) /\ UNCHANGED link
          ELSE link' = "closed" /\ UNCHANGED toAuction
    /\ UNCHANGED <<accepted, idOf, nextId, table, asked, working, fromAuction,
                   delivered>>

(* The connect fails or an established link breaks; nobody reconnects. *)
LinkLost ==
    /\ link # "closed"
    /\ link' = "closed"
    /\ toAuction' = <<>> /\ working' = {} /\ fromAuction' = <<>>
    /\ UNCHANGED <<accepted, idOf, nextId, table, asked, posted, delivered>>

(* int session_id = pkt.session_id(), and back to uint64 for Find. *)
Narrow(id) ==
    LET n == ((id + IntLimit) % (2 * IntLimit)) - IntLimit
    IN  IF n < 0 THEN Unknown ELSE n

(* The id an answer is routed by. *)
Route(r) == IF asked[r].kind = "query" THEN asked[r].id ELSE Narrow(asked[r].id)

(* GameSessionManager::Find *)
Find_Unchecked(id) == {id}
Find(id) == {entry.client : entry \in {e \in table : e.id = id}}

RelayAnswer ==
    /\ fromAuction # <<>>
    /\ fromAuction' = Tail(fromAuction)
    /\ LET r == Head(fromAuction)
       IN  IF asked[r].kind = "query" /\ asked[r].id = kCacheSessionId
              THEN delivered' = delivered \cup {[req |-> r, to |-> Cache]}
              ELSE delivered' = delivered \cup
                                  {[req |-> r, to |-> c] : c \in Find(Route(r))}
    /\ UNCHANGED <<accepted, idOf, nextId, table, asked, link, posted, toAuction,
                   working>>
-----------------------------------------------------------------------------
(* The auction server: its workers answer in any order; a task that throws *)
(* answers nothing.                                                        *)

AuctionTakes ==
    /\ toAuction # <<>>
    /\ toAuction' = Tail(toAuction)
    /\ working' = working \cup {Head(toAuction)}
    /\ UNCHANGED <<accepted, idOf, nextId, table, asked, link, posted,
                   fromAuction, delivered>>

AuctionAnswers(r) ==
    /\ r \in working
    /\ working' = working \ {r}
    /\ \/ fromAuction' = Append(fromAuction, r)
       \/ UNCHANGED fromAuction
    /\ UNCHANGED <<accepted, idOf, nextId, table, asked, link, posted, toAuction,
                   delivered>>
-----------------------------------------------------------------------------
Kinds == {"query", "write"}

Client(c) ==
    \/ Close(c)
    \/ \E kind \in Kinds : Forward(c, kind) \/ AnswerFromCache(c, kind)

Next ==
    \/ Accept \/ \E c \in 1 .. accepted : Client(c)
    \/ OnConnect \/ Refresh \/ LinkWrite \/ LinkLost \/ RelayAnswer
    \/ AuctionTakes \/ \E r \in working : AuctionAnswers(r)

Spec == Init /\ [][Next]_vars
-----------------------------------------------------------------------------
(* Properties *)

Requests == 1 .. MaxRequests

TypeOK ==
    /\ accepted \in 0 .. MaxClients
    /\ idOf \in Seq(Nat) /\ Len(idOf) = accepted
    /\ nextId \in Nat
    /\ table \subseteq [id : Nat, client : Clients]
    /\ asked \in Seq([maker : Clients \cup {Cache}, id : Nat, kind : Kinds])
    /\ link \in {"connecting", "up", "closed"}
    /\ posted \in Seq(Requests) /\ toAuction \in Seq(Requests)
    /\ working \subseteq Requests /\ fromAuction \in Seq(Requests)
    /\ delivered \subseteq [req : Requests, to : Clients \cup {Cache}]

(* An answer reaches only the client that asked for it, though clients     *)
(* come and go while the auction server works: a late answer never finds   *)
(* another client under its id (Register, Find and the RES_ handlers).     *)
(* The cache and the clients never get each other's answers: session id 0  *)
(* is the cache's alone (AuctionCache.h:66).                               *)
AnswersGoHome ==
    \A d \in delivered : d.to = asked[d.req].maker
=============================================================================
