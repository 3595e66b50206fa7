-------------------------- MODULE AuctionRelayProofs --------------------------
(***************************************************************************)
(* Theorems about AuctionRelay: for any number of clients and requests, an *)
(* answer of the auction server reaches only the client that asked.        *)
(***************************************************************************)
EXTENDS AuctionRelay, TLAPS

(* Ids are drawn in the order of the accepts and never again, so the id of *)
(* a client is its place in that order; the table says nothing else.       *)
IdsAreFresh ==
    /\ nextId = accepted + 1
    /\ \A c \in 1 .. accepted : idOf[c] = c
    /\ \A entry \in table : entry.id = entry.client /\ entry.client \in 1 .. accepted

(* A request carries the id of its maker, and the cache only queries. *)
RequestsAreSigned ==
    \A r \in DOMAIN asked :
        /\ asked[r].id = asked[r].maker
        /\ asked[r].maker # Cache => asked[r].maker \in 1 .. accepted
        /\ asked[r].maker = Cache => asked[r].kind = "query"

(* What travels was asked. *)
OnlyAsked ==
    /\ Len(asked) <= MaxRequests
    /\ posted \in Seq(DOMAIN asked) /\ toAuction \in Seq(DOMAIN asked)
    /\ working \subseteq DOMAIN asked /\ fromAuction \in Seq(DOMAIN asked)
    /\ \A d \in delivered : d.req \in DOMAIN asked

Types ==
    /\ accepted \in 0 .. MaxClients
    /\ idOf \in Seq(Nat) /\ Len(idOf) = accepted
    /\ table \subseteq [id : Nat, client : Clients]
    /\ asked \in Seq([maker : Clients \cup {Cache}, id : Nat, kind : Kinds])
    /\ link \in {"connecting", "up", "closed"}
    /\ delivered \subseteq [req : Nat, to : Clients \cup {Cache}]

IInv == Types /\ IdsAreFresh /\ RequestsAreSigned /\ OnlyAsked /\ AnswersGoHome

(* An id that int cannot hold is narrowed to one that no client has. *)
LEMMA NarrowMisses ==
    ASSUME NEW id \in 0 .. MaxClients
    PROVE  Narrow(id) \in {id, Unknown}
<1>0. IntLimit \in Nat /\ IntLimit > 0 /\ MaxClients \in Nat /\ id \in Nat
         /\ id < 2 * IntLimit
  BY RelayAssumption
<1>1. CASE id < IntLimit
  <2>1. (id + IntLimit) % (2 * IntLimit) = id + IntLimit
    BY <1>0, <1>1
  <2>2. QED
    BY <1>0, <2>1 DEF Narrow
<1>2. CASE id >= IntLimit
  <2>1. (id + IntLimit) % (2 * IntLimit) = id - IntLimit
    BY <1>0, <1>2
  <2>2. QED
    BY <1>0, <1>2, <2>1 DEF Narrow, Unknown
<1>3. QED
  BY <1>0, <1>1, <1>2

LEMMA Entries ==
    ASSUME NEW S, NEW s \in Seq(S), NEW i \in DOMAIN s
    PROVE  s[i] \in S
OBVIOUS

LEMMA InitInv == Init => IInv
BY RelayAssumption
   DEF Init, IInv, Types, IdsAreFresh, RequestsAreSigned, OnlyAsked, AnswersGoHome,
       kCacheSessionId, Clients, Kinds

(* A new request: it gets the next index and the rest stays as it is. *)
LEMMA MakeInv ==
    ASSUME IInv, NEW maker \in Clients \cup {Cache}, NEW kind \in Kinds,
           maker # Cache => maker \in 1 .. accepted,
           maker = Cache => kind = "query",
           Make(maker, maker, kind)
    PROVE  /\ asked' \in Seq([maker : Clients \cup {Cache}, id : Nat, kind : Kinds])
           /\ RequestsAreSigned'
           /\ Len(asked') <= MaxRequests
           /\ Len(asked) + 1 \in DOMAIN asked'
           /\ DOMAIN asked \subseteq DOMAIN asked'
           /\ asked'[Len(asked) + 1].maker = maker
           /\ \A r \in DOMAIN asked : asked'[r] = asked[r]
<1> USE RelayAssumption DEF IInv, Types, OnlyAsked
<1>1. maker \in Nat
  BY DEF Clients, Cache
<1>2. [maker |-> maker, id |-> maker, kind |-> kind]
         \in [maker : Clients \cup {Cache}, id : Nat, kind : Kinds]
  BY <1>1
<1>3. asked' = Append(asked, [maker |-> maker, id |-> maker, kind |-> kind])
         /\ accepted' = accepted /\ Len(asked) < MaxRequests
  BY DEF Make
<1>4. /\ DOMAIN asked' = 1 .. Len(asked) + 1 /\ DOMAIN asked = 1 .. Len(asked)
      /\ \A r \in DOMAIN asked : asked'[r] = asked[r]
      /\ asked'[Len(asked) + 1] = [maker |-> maker, id |-> maker, kind |-> kind]
  BY <1>2, <1>3
<1>5. RequestsAreSigned'
  BY <1>3, <1>4 DEF RequestsAreSigned
<1>6. QED
  BY <1>2, <1>3, <1>4, <1>5

(* Sequences of old requests are sequences of requests still. *)
LEMMA SeqGrows ==
    ASSUME NEW S, NEW T, S \subseteq T, NEW s \in Seq(S)
    PROVE  s \in Seq(T)
OBVIOUS

(* What the head and the rest of a queue are, and a queue with one more. *)
LEMMA FirstAndRest ==
    ASSUME NEW S, NEW s \in Seq(S), s # <<>>
    PROVE  Head(s) \in S /\ Tail(s) \in Seq(S)
OBVIOUS

LEMMA OneMore ==
    ASSUME NEW S, NEW s \in Seq(S), NEW e \in S
    PROVE  Append(s, e) \in Seq(S)
OBVIOUS

LEMMA StepInv == IInv /\ [Next]_vars => IInv'
<1> SUFFICES ASSUME IInv, [Next]_vars PROVE IInv'
  OBVIOUS
<1> USE RelayAssumption DEF IInv
<1>1. CASE Accept
  <2>1. Types' /\ IdsAreFresh'
    BY <1>1 DEF Accept, FreshId, Types, IdsAreFresh, Clients, linkVars
  <2>2. RequestsAreSigned' /\ OnlyAsked' /\ AnswersGoHome'
    BY <1>1 DEF Accept, Types, RequestsAreSigned, OnlyAsked, AnswersGoHome, linkVars,
                Clients, Cache
  <2>3. QED
    BY <2>1, <2>2
<1>2. ASSUME NEW c \in 1 .. accepted, Close(c) PROVE IInv'
  BY <1>2 DEF Close, Types, IdsAreFresh, RequestsAreSigned, OnlyAsked, AnswersGoHome,
              linkVars
<1>3. ASSUME NEW c \in 1 .. accepted, NEW kind \in Kinds, Forward(c, kind) PROVE IInv'
  <2>1. c \in Clients /\ idOf[c] = c /\ c # Cache
    BY DEF Types, IdsAreFresh, Clients, Cache
  <2>2. Make(c, c, kind)
    BY <1>3, <2>1 DEF Forward
  <2>3. Types' /\ IdsAreFresh' /\ RequestsAreSigned'
    BY <1>3, <2>1, <2>2, MakeInv DEF Forward, Make, Types, IdsAreFresh
  <2>4. posted' \in Seq(DOMAIN asked') /\ toAuction' \in Seq(DOMAIN asked')
           /\ fromAuction' \in Seq(DOMAIN asked')
    BY <1>3, <2>1, <2>2, MakeInv, SeqGrows DEF Forward, OnlyAsked
  <2>5. OnlyAsked'
    BY <1>3, <2>1, <2>2, <2>4, MakeInv DEF Forward, OnlyAsked
  <2>6. AnswersGoHome'
    BY <1>3, <2>1, <2>2, MakeInv DEF Forward, OnlyAsked, AnswersGoHome
  <2>7. QED
    BY <2>3, <2>5, <2>6
<1>4. ASSUME NEW c \in 1 .. accepted, NEW kind \in Kinds, AnswerFromCache(c, kind)
      PROVE IInv'
  <2>1. c \in Clients /\ idOf[c] = c /\ c # Cache
    BY DEF Types, IdsAreFresh, Clients, Cache
  <2>2. Make(c, c, kind)
    BY <1>4, <2>1 DEF AnswerFromCache
  <2>3. Types' /\ IdsAreFresh' /\ RequestsAreSigned'
    BY <1>4, <2>1, <2>2, MakeInv DEF AnswerFromCache, Make, Types, IdsAreFresh, linkVars
  <2>4. posted' \in Seq(DOMAIN asked') /\ toAuction' \in Seq(DOMAIN asked')
           /\ fromAuction' \in Seq(DOMAIN asked')
    BY <1>4, <2>1, <2>2, MakeInv, SeqGrows DEF AnswerFromCache, OnlyAsked, linkVars
  <2>5. OnlyAsked'
    BY <1>4, <2>1, <2>2, <2>4, MakeInv DEF AnswerFromCache, OnlyAsked, linkVars
  <2>6. AnswersGoHome'
    BY <1>4, <2>1, <2>2, MakeInv DEF AnswerFromCache, OnlyAsked, AnswersGoHome
  <2>7. QED
    BY <2>3, <2>5, <2>6
<1>5. CASE OnConnect \/ Refresh
  <2>1. Make(Cache, Cache, "query") /\ "query" \in Kinds
    BY <1>5 DEF OnConnect, Refresh, kCacheSessionId, Cache, Kinds
  <2>2. Types' /\ IdsAreFresh' /\ RequestsAreSigned'
    BY <1>5, <2>1, MakeInv DEF OnConnect, Refresh, Make, Types, IdsAreFresh
  <2>3. posted' = Append(posted, Len(asked) + 1) /\ UNCHANGED <<toAuction, fromAuction>>
    BY <1>5 DEF OnConnect, Refresh
  <2>4. posted' \in Seq(DOMAIN asked') /\ toAuction' \in Seq(DOMAIN asked')
           /\ fromAuction' \in Seq(DOMAIN asked')
    BY <2>1, <2>3, MakeInv, SeqGrows, OneMore DEF OnlyAsked
  <2>5. OnlyAsked'
    BY <1>5, <2>1, <2>4, MakeInv DEF OnConnect, Refresh, OnlyAsked
  <2>6. AnswersGoHome'
    BY <1>5, <2>1, MakeInv DEF OnConnect, Refresh, OnlyAsked, AnswersGoHome
  <2>7. QED
    BY <2>2, <2>5, <2>6
<1>6. CASE LinkWrite
  <2>1. Types' /\ IdsAreFresh' /\ RequestsAreSigned' /\ AnswersGoHome'
    BY <1>6 DEF LinkWrite, Types, IdsAreFresh, RequestsAreSigned, AnswersGoHome
  <2>2. posted' \in Seq(DOMAIN asked) /\ toAuction' \in Seq(DOMAIN asked)
    BY <1>6, FirstAndRest, OneMore DEF LinkWrite, OnlyAsked
  <2>3. OnlyAsked'
    BY <1>6, <2>2 DEF LinkWrite, OnlyAsked
  <2>4. QED
    BY <2>1, <2>3
<1>7. CASE LinkLost
  BY <1>7 DEF LinkLost, Types, IdsAreFresh, RequestsAreSigned, OnlyAsked, AnswersGoHome
<1>8. CASE RelayAnswer
  <2> DEFINE r == Head(fromAuction)
  <2>1. r \in DOMAIN asked /\ fromAuction' \in Seq(DOMAIN asked)
    BY <1>8 DEF RelayAnswer, OnlyAsked
  <2>2. asked[r].maker \in Clients \cup {Cache} /\ asked[r].id = asked[r].maker
           /\ asked[r].id \in 0 .. MaxClients /\ DOMAIN asked \subseteq Nat
    <3>1. asked[r].maker \in Clients \cup {Cache} /\ asked[r].id = asked[r].maker
      <4>1. asked[r] \in [maker : Clients \cup {Cache}, id : Nat, kind : Kinds]
        <5>1. asked \in Seq([maker : Clients \cup {Cache}, id : Nat, kind : Kinds])
          BY DEF Types
        <5>2. QED
          BY <2>1, <5>1, Entries
      <4>2. asked[r].id = asked[r].maker
        BY <2>1 DEF RequestsAreSigned
      <4>3. QED
        BY <4>1, <4>2
    <3>2. DOMAIN asked \subseteq Nat
      BY DEF Types
    <3>3. asked[r].id \in 0 .. MaxClients
      BY <3>1, RelayAssumption DEF Clients, Cache
    <3>4. QED
      BY <3>1, <3>2, <3>3
  <2>3. Route(r) \in {asked[r].id, Unknown}
    BY <2>2, NarrowMisses DEF Route
  <2>4. \A c \in Find(Route(r)) : c = asked[r].maker /\ c \in Clients
    BY <2>2, <2>3 DEF Find, Types, IdsAreFresh, Clients, Unknown
  <2>5. \A d \in delivered' \ delivered :
            d.req = r /\ d.to = asked[r].maker /\ d \in [req : Nat, to : Clients \cup {Cache}]
    BY <1>8, <2>1, <2>2, <2>4 DEF RelayAnswer, kCacheSessionId, Cache
  <2>6. Types' /\ IdsAreFresh' /\ RequestsAreSigned'
    BY <1>8, <2>5 DEF RelayAnswer, Types, IdsAreFresh, RequestsAreSigned
  <2>7. OnlyAsked' /\ AnswersGoHome'
    BY <1>8, <2>1, <2>5 DEF RelayAnswer, OnlyAsked, AnswersGoHome
  <2>8. QED
    BY <2>6, <2>7
<1>9. CASE AuctionTakes
  BY <1>9 DEF AuctionTakes, Types, IdsAreFresh, RequestsAreSigned, OnlyAsked, AnswersGoHome
<1>10. ASSUME NEW r \in working, AuctionAnswers(r) PROVE IInv'
  <2>1. Types' /\ IdsAreFresh' /\ RequestsAreSigned' /\ AnswersGoHome'
    BY <1>10 DEF AuctionAnswers, Types, IdsAreFresh, RequestsAreSigned, AnswersGoHome
  <2>2. fromAuction' \in Seq(DOMAIN asked)
    BY <1>10, OneMore DEF AuctionAnswers, OnlyAsked
  <2>3. OnlyAsked'
    BY <1>10, <2>2 DEF AuctionAnswers, OnlyAsked
  <2>4. QED
    BY <2>1, <2>3
<1>11. CASE UNCHANGED vars
  BY <1>11 DEF vars, Types, IdsAreFresh, RequestsAreSigned, OnlyAsked, AnswersGoHome
<1>12. QED
  BY <1>1, <1>2, <1>3, <1>4, <1>5, <1>6, <1>7, <1>8, <1>9, <1>10, <1>11
     DEF Next, Client

(* The invariant the theorems below are read from. *)
LEMMA Invariance == Spec => []IInv
BY InitInv, StepInv, PTL DEF Spec

(* Every table, queue and history keeps its kind. *)
THEOREM RelayTypes == Spec => []TypeOK
<1>1. IInv => TypeOK
  BY RelayAssumption, SeqGrows
     DEF IInv, Types, IdsAreFresh, OnlyAsked, TypeOK, Requests
<1>2. QED
  BY <1>1, Invariance, PTL

(* Register, Find and the RES_ handlers: for any number of clients that    *)
(* come and go and of requests under way, an answer is delivered to its    *)
(* maker only, and session id 0 is the cache's alone.                      *)
THEOREM RelayAnswersGoHome == Spec => []AnswersGoHome
<1>1. IInv => AnswersGoHome
  BY DEF IInv
<1>2. QED
  BY <1>1, Invariance, PTL
=============================================================================
