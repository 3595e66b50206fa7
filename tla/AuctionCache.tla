----------------------------- MODULE AuctionCache -----------------------------
(***************************************************************************)
(* The game server's cache of the auction list: the refresh loop on the    *)
(* auction thread (request, answer, timeout, re-arming of the timer), the  *)
(* snapshot it publishes, and the verdict the main thread gives on a       *)
(* purchase from the snapshot it loaded.  The auction server's table, the  *)
(* connection and the other threads are the environment.                   *)
(* Source: GameServer/Utils/AuctionCache.{h,cpp}.                          *)
(*                                                                         *)
(* Time is kept as countdowns and ages, so no clock grows: a timer holds   *)
(* the time left, an age stops at AgeCap.                                  *)
(***************************************************************************)
EXTENDS Packet, Sequences, FiniteSets
LOCAL INSTANCE FiniteSetsExt

CONSTANTS
    kRefreshInterval, kMinRefreshGap, kRequestTimeout, kStaleLimit,
    Limit,          \* LIMIT of the list query
    kClientListMax, \* listings sent to a client
    EntrySize,      \* bytes of each id's entry in a client's list
    MaxIds,         \* bound: listing ids ever drawn
    SellerOf,       \* the seller of each id
    MaxQuantity,    \* bound: quantity of a listing
    SeqModulus,     \* request ids are int32: 2^32 values
    AgeCap          \* bound: ages stop growing here

Ids    == 1 .. MaxIds
Seqs   == 0 .. SeqModulus - 1
Counts == 0 .. MaxQuantity + 1
Buyers == {SellerOf[id] : id \in Ids}
None   == -1

ASSUME CacheAssumption ==
    /\ kRefreshInterval \in Nat /\ kMinRefreshGap \in Nat
    /\ kRequestTimeout \in Nat /\ kStaleLimit \in Nat
    /\ kMinRefreshGap <= kRequestTimeout
    /\ kMinRefreshGap <= kRefreshInterval
    /\ Limit \in Nat \ {0} /\ MaxIds \in Nat
    /\ kClientListMax \in Nat /\ EntrySize \in [1 .. MaxIds -> Nat]
    /\ SellerOf \in [1 .. MaxIds -> Nat]
    /\ MaxQuantity \in Nat /\ SeqModulus \in Nat \ {0}
    /\ AgeCap \in Nat
    /\ AgeCap >= kRequestTimeout /\ AgeCap >= kStaleLimit

VARIABLES
    \* The auction server's table (environment).
    status,        \* per id: "unused", "drawn", "listed", "gone"
    left,          \* remaining_quantity
    \* Messages between the two servers.
    requests,      \* REQ_AUCTION_LIST under way: request ids
    answers,       \* RES_AUCTION_LIST under way: request id and snapshot
    \* The auction thread.
    started,       \* OnConnect succeeded
    inFlight, refreshSeq, dirty,
    sinceRequest,  \* now - _lastRequestAt
    timerArmed,
    timerLeft,     \* time to the pending wait of _timer, or None
    timeoutLeft,   \* time to the pending wait of _timeoutTimer, or None
    timedOut,      \* request ids of expired waits whose handler has not run
    \* The published snapshot, and the one a main-thread call has loaded.
    snapshot, age,
    held, heldAge,
    shown          \* history: ids of the lists the cache itself has sent

tableVars   == <<status, left>>
netVars     == <<requests, answers>>
timerVars   == <<timerArmed, timerLeft, timeoutLeft, timedOut>>
refreshVars == <<started, inFlight, refreshSeq, dirty, sinceRequest>>
snapVars    == <<snapshot, age>>
heldVars    == <<held, heldAge, shown>>
vars == <<status, left, requests, answers, started, inFlight, refreshSeq, dirty,
          sinceRequest, timerArmed, timerLeft, timeoutLeft, timedOut, snapshot,
          age, held, heldAge, shown>>

(* A snapshot maps the ids it lists to the quantities it saw.  The other   *)
(* two fields are history: the ids that had been committed when it was     *)
(* read, and the request that was the latest one at that moment.           *)
NoSnapshot == [items |-> [id \in {} |-> 0], known |-> {}, asOf |-> None]

Listed == {id \in Ids : status[id] = "listed"}

(* ORDER BY listing_id ASC LIMIT n *)
FirstListed_AnyOrder ==
    {id \in Listed : Cardinality({j \in Listed : j > id}) < Limit}
FirstListed ==
    {id \in Listed : Cardinality({j \in Listed : j < id}) < Limit}

GetListings ==
    [items |-> [id \in FirstListed |-> left[id]],
     known |-> {id \in Ids : status[id] \in {"listed", "gone"}},
     asOf  |-> refreshSeq]
-----------------------------------------------------------------------------
Init ==
    /\ status = [id \in Ids |-> "unused"] /\ left = [id \in Ids |-> 0]
    /\ requests = <<>> /\ answers = <<>>
    /\ started = FALSE /\ inFlight = FALSE /\ refreshSeq = 0 /\ dirty = FALSE
    /\ sinceRequest = AgeCap
    /\ timerArmed = FALSE /\ timerLeft = None
    /\ timeoutLeft = None /\ timedOut = {}
    /\ snapshot = NoSnapshot /\ age = 0
    /\ held = NoSnapshot /\ heldAge = 0 /\ shown = {}
-----------------------------------------------------------------------------
(* The refresh loop, on the auction thread.                                *)

NextSeq == (refreshSeq + 1) % SeqModulus

(* Bound: an id is not reused while something still carries it. *)
SeqIsFree(seq) ==
    /\ seq \notin timedOut
    /\ \A i \in DOMAIN requests : requests[i] # seq
    /\ \A i \in DOMAIN answers : answers[i].seq # seq

(* RequestRefresh past its early return. *)
SendRequest ==
    /\ inFlight' = TRUE
    /\ refreshSeq' = NextSeq
    /\ sinceRequest' = 0
    /\ requests' = Append(requests, NextSeq)
    /\ timeoutLeft' = kRequestTimeout

(* An earlier reservation is kept. *)
ArmTimer(delay) ==
    IF timerArmed /\ delay >= timerLeft
       THEN UNCHANGED <<timerArmed, timerLeft>>
       ELSE timerArmed' = TRUE /\ timerLeft' = delay

(* As soon as the minimum gap to the last request allows. *)
EarlyDelay_Now == 0
EarlyDelay ==
    IF sinceRequest >= kMinRefreshGap THEN 0 ELSE kMinRefreshGap - sinceRequest

OnConnect ==
    /\ ~started /\ SeqIsFree(NextSeq)
    /\ started' = TRUE
    /\ SendRequest
    /\ UNCHANGED <<tableVars, answers, dirty, timerArmed, timerLeft, timedOut,
                   snapVars, heldVars>>

Fired_StaysArmed == timerLeft' = None /\ UNCHANGED timerArmed
Fired == timerLeft' = None /\ timerArmed' = FALSE

(* GAuctionSession exists before the auction thread runs, so a timer that  *)
(* finds no request in flight always sends one and line 182 never runs.    *)
OnTimer ==
    /\ timerLeft = 0
    /\ Fired
    /\ dirty' = FALSE
    /\ IF inFlight
          THEN UNCHANGED <<inFlight, refreshSeq, sinceRequest, requests,
                           timeoutLeft>>
          ELSE SeqIsFree(NextSeq) /\ SendRequest
    /\ UNCHANGED <<tableVars, answers, started, timedOut, snapVars, heldVars>>

Expected_AnyRequest(seq) == inFlight
Expected(seq) == inFlight /\ seq = refreshSeq

(* The next message of the auction server is an answer.  One that is not   *)
(* to the request in flight is dropped; the other is published.            *)
OnRefreshResponse ==
    /\ answers # <<>>
    /\ answers' = Tail(answers)
    /\ IF Expected(Head(answers).seq)
          THEN /\ snapshot' = Head(answers).snap /\ age' = 0
               /\ inFlight' = FALSE
               /\ timeoutLeft' = None
               /\ dirty' = FALSE
               /\ ArmTimer(IF dirty THEN EarlyDelay ELSE kRefreshInterval)
          ELSE UNCHANGED <<snapVars, inFlight, timeoutLeft, dirty, timerArmed,
                           timerLeft>>
    /\ UNCHANGED <<tableVars, requests, started, refreshSeq, sinceRequest,
                   timedOut, heldVars>>

(* The wait of _timeoutTimer expires; from here cancel() cannot stop its   *)
(* handler any more.                                                       *)
TimeoutExpires ==
    /\ timeoutLeft = 0
    /\ timeoutLeft' = None
    /\ timedOut' = timedOut \cup {refreshSeq}
    /\ UNCHANGED <<tableVars, netVars, refreshVars, timerArmed, timerLeft,
                   snapVars, heldVars>>

GiveUp_NotRearmed == inFlight' = FALSE /\ UNCHANGED <<timerArmed, timerLeft>>
GiveUp == inFlight' = FALSE /\ ArmTimer(kRefreshInterval)

(* The handler acts only on the request it was started for. *)
RunTimeout(seq) ==
    /\ seq \in timedOut
    /\ timedOut' = timedOut \ {seq}
    /\ IF Expected(seq)
          THEN GiveUp
          ELSE UNCHANGED <<inFlight, timerArmed, timerLeft>>
    /\ UNCHANGED <<tableVars, netVars, started, refreshSeq, dirty, sinceRequest,
                   timeoutLeft, snapVars, heldVars>>

(* The cache is told that the list changed (nothing in the repository      *)
(* calls it yet).                                                          *)
MarkDirty ==
    /\ started
    /\ dirty' = TRUE
    /\ IF inFlight THEN UNCHANGED <<timerArmed, timerLeft>>
                   ELSE ArmTimer(EarlyDelay)
    /\ UNCHANGED <<tableVars, netVars, started, inFlight, refreshSeq,
                   sinceRequest, timeoutLeft, timedOut, snapVars, heldVars>>
-----------------------------------------------------------------------------
(* The main thread: a call loads the snapshot pointer, judges, and returns *)

LoadSnapshot ==
    /\ held' = snapshot /\ heldAge' = age
    /\ UNCHANGED <<shown, tableVars, netVars, refreshVars, timerVars, snapVars>>

CallReturns ==
    /\ held # NoSnapshot
    /\ held' = NoSnapshot /\ heldAge' = 0
    /\ UNCHANGED <<tableVars, netVars, refreshVars, timerVars, snapVars>>

IsFresh == held # NoSnapshot /\ heldAge < kStaleLimit

(* The ids of the list packet prepared for clients: the first              *)
(* kClientListMax listings, or none when they do not fit in a packet.      *)
BuildClientPacket(snap) ==
    LET Below(id) == {j \in DOMAIN snap.items : j < id}
        first == {id \in DOMAIN snap.items : Cardinality(Below(id)) < kClientListMax}
    IN  IF FitsShort(MapThenSumSet(LAMBDA id : EntrySize[id], first)) THEN first ELSE {}

(* A client asks for the list: it is sent the packet of a fresh snapshot,  *)
(* or its request goes on to the auction server, whose answer is relayed   *)
(* past the cache and so is not in shown.                                  *)
TrySendList ==
    /\ CallReturns
    /\ shown' = IF IsFresh THEN shown \cup BuildClientPacket(held) ELSE shown

(* id > maxListId: the id is above every id of the snapshot (or of none). *)
BeyondMaxListId(id) == \A j \in DOMAIN held.items : id > j

InStock_OffByOne(id, count) == count > 0 /\ count < held.items[id]
InStock(id, count) == count > 0 /\ count <= held.items[id]

ValidatePurchase(id, count, buyer) ==
    IF ~IsFresh THEN "Unknown"
    ELSE IF id \notin DOMAIN held.items
            THEN IF BeyondMaxListId(id) THEN "Unknown" ELSE "RejectNotFound"
    ELSE IF ~InStock(id, count) THEN "RejectShortage"
    ELSE IF SellerOf[id] = buyer THEN "RejectOwn" ELSE "Pass"

(* The other call judges a purchase. *)
Validated == CallReturns /\ UNCHANGED shown
-----------------------------------------------------------------------------
(* The environment: the auction server, the network, time.                 *)

(* Registrations run on several workers: the id is drawn when the INSERT   *)
(* runs and the row is seen when it commits, in any order.                 *)
DrawId ==
    /\ \E id \in Ids : /\ status[id] = "unused"
                       /\ \A j \in Ids : j < id => status[j] # "unused"
                       /\ status' = [status EXCEPT ![id] = "drawn"]
    /\ UNCHANGED <<left, netVars, refreshVars, timerVars, snapVars, heldVars>>

CommitListing ==
    /\ \E id \in Ids, n \in 1 .. MaxQuantity :
          /\ status[id] = "drawn"
          /\ status' = [status EXCEPT ![id] = "listed"]
          /\ left' = [left EXCEPT ![id] = n]
    /\ UNCHANGED <<netVars, refreshVars, timerVars, snapVars, heldVars>>

(* A purchase takes some of the rest, or all of it. *)
Sell ==
    /\ \E id \in Listed : \E n \in 1 .. left[id] :
          /\ left' = [left EXCEPT ![id] = @ - n]
          /\ status' = IF n = left[id] THEN [status EXCEPT ![id] = "gone"]
                                       ELSE status
    /\ UNCHANGED <<netVars, refreshVars, timerVars, snapVars, heldVars>>

Expire ==
    /\ \E id \in Listed : status' = [status EXCEPT ![id] = "gone"]
    /\ UNCHANGED <<left, netVars, refreshVars, timerVars, snapVars, heldVars>>

(* The read worker serves the oldest request; a failing query is not       *)
(* answered at all.                                                        *)
ServeRequest ==
    /\ requests # <<>>
    /\ requests' = Tail(requests)
    /\ \/ answers' = Append(answers, [seq |-> Head(requests), snap |-> GetListings])
       \/ UNCHANGED answers
    /\ UNCHANGED <<tableVars, refreshVars, timerVars, snapVars, heldVars>>

Older(a)   == IF a < AgeCap THEN a + 1 ELSE a
Sooner(t)  == IF t > 0 THEN t - 1 ELSE t

Tick ==
    /\ sinceRequest' = Older(sinceRequest)
    /\ timerLeft' = Sooner(timerLeft)
    /\ timeoutLeft' = Sooner(timeoutLeft)
    /\ age' = IF snapshot = NoSnapshot THEN age ELSE Older(age)
    /\ heldAge' = IF held = NoSnapshot THEN heldAge ELSE Older(heldAge)
    /\ UNCHANGED <<tableVars, netVars, started, inFlight, refreshSeq, dirty,
                   timerArmed, timedOut, snapshot, held, shown>>
-----------------------------------------------------------------------------
Table == DrawId \/ CommitListing \/ Sell \/ Expire

Refresh ==
    \/ OnConnect \/ OnTimer \/ OnRefreshResponse \/ TimeoutExpires
    \/ \E seq \in Seqs : RunTimeout(seq)

Next ==
    \/ Table \/ Refresh \/ MarkDirty
    \/ LoadSnapshot \/ TrySendList \/ Validated
    \/ ServeRequest \/ Tick

Spec == Init /\ [][Next]_vars

(* Time passes, expired timers run, the auction server gets to every       *)
(* request (to answer or to fail), and an answer sent is delivered.        *)
Fairness ==
    /\ WF_vars(Tick) /\ WF_vars(ServeRequest)
    /\ WF_vars(OnTimer) /\ WF_vars(OnRefreshResponse) /\ WF_vars(TimeoutExpires)
    /\ \A seq \in Seqs : WF_vars(RunTimeout(seq))

FairSpec == Spec /\ Fairness
-----------------------------------------------------------------------------
(* Properties *)

Snapshots ==
    [items : UNION {[S -> 0 .. MaxQuantity] : S \in SUBSET Ids},
     known : SUBSET Ids,
     asOf  : Seqs \cup {None}]

TypeOK ==
    /\ status \in [Ids -> {"unused", "drawn", "listed", "gone"}]
    /\ left \in [Ids -> 0 .. MaxQuantity]
    /\ requests \in Seq(Seqs)
    /\ answers \in Seq([seq : Seqs, snap : Snapshots])
    /\ started \in BOOLEAN /\ inFlight \in BOOLEAN
    /\ refreshSeq \in Seqs /\ dirty \in BOOLEAN
    /\ sinceRequest \in 0 .. AgeCap
    /\ timerArmed \in BOOLEAN /\ timerLeft \in Nat \cup {None}
    /\ timeoutLeft \in Nat \cup {None} /\ timedOut \subseteq Seqs
    /\ snapshot \in Snapshots /\ held \in Snapshots
    /\ age \in 0 .. AgeCap /\ heldAge \in 0 .. AgeCap /\ shown \subseteq Ids

CanBuy(id, count, buyer) ==
    status[id] = "listed" /\ count \in 1 .. left[id] /\ SellerOf[id] # buyer

(* A purchase the cache refuses for its quantity or its seller could not   *)
(* have succeeded at the auction server, however old the snapshot is       *)
(* (ValidatePurchase, AuctionCache.cpp:217-227).                           *)
RefusalsAreRight ==
    \A id \in Ids, count \in Counts, buyer \in Buyers :
        ValidatePurchase(id, count, buyer) \in {"RejectShortage", "RejectOwn"}
            => ~CanBuy(id, count, buyer)

(* A listing that was committed when the snapshot was read and is refused  *)
(* as not found is sold or expired: the LIMIT cuts off only ids above      *)
(* maxListId (AuctionCache.cpp:206-214).                                   *)
AbsentMeansGone ==
    \A id \in held.known :
        ValidatePurchase(id, 1, 0) = "RejectNotFound" => status[id] = "gone"

(* A listing of a list the cache has ever sent to a client is refused as   *)
(* not found only when it is gone: no later list the cache holds drops it  *)
(* for another reason (BuildClientPacket, AuctionCache.cpp:129-151;        *)
(* TrySendList, :185-197; ValidatePurchase, :206-214).  Of a list relayed  *)
(* from the auction server it is not claimed: that one may be younger than *)
(* the snapshot the purchase is judged by.                                 *)
ShownIsThere ==
    \A id \in shown :
        ValidatePurchase(id, 1, 0) = "RejectNotFound" => status[id] = "gone"

(* Once connected the loop always has a next step of its own: a request    *)
(* whose timeout is pending, or an armed timer that will fire.             *)
LoopAlive ==
    started =>
        \/ inFlight /\ (timeoutLeft # None \/ refreshSeq \in timedOut)
        \/ timerArmed /\ timerLeft # None

(* Two requests are at least kMinRefreshGap apart, however often the list  *)
(* is marked dirty.                                                        *)
GapKept ==
    [][refreshSeq' # refreshSeq => sinceRequest >= kMinRefreshGap]_vars

(* A request is given up only after kRequestTimeout, and what is published *)
(* was read after the request it answers: an answer or a timeout of an     *)
(* earlier request never touches the one in flight.                        *)
OnlyItsOwn ==
    [][inFlight /\ ~inFlight' =>
          IF answers' # answers
             THEN snapshot'.asOf = refreshSeq
             ELSE sinceRequest >= kRequestTimeout]_vars

(* The list is requested again and again, whatever is lost, late or slow.  *)
KeepsRefreshing ==
    /\ started ~> inFlight
    /\ inFlight ~> ~inFlight
    /\ (started /\ ~inFlight) ~> inFlight
=============================================================================
