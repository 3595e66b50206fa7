-------------------------- MODULE AuctionCacheProofs --------------------------
(***************************************************************************)
(* The refresh loop of AuctionCache never stops, keeps its distance and    *)
(* publishes only what it asked for; what the cache refuses could not have *)
(* been bought.                                                            *)
(***************************************************************************)
EXTENDS AuctionCache, FiniteSetTheorems, TLAPS

(* The invariant of the refresh loop: either a request is in flight, with  *)
(* its timeout pending or expired, or the timer is armed; before the       *)
(* connect, neither.                                                       *)
Phases ==
    /\ timerArmed <=> timerLeft # None
    /\ inFlight => /\ started /\ ~timerArmed
                   /\ timeoutLeft # None \/ refreshSeq \in timedOut
    /\ started /\ ~inFlight => timerArmed
    /\ ~started => ~timerArmed /\ sinceRequest = AgeCap

(* What the two timers have left, against the age of the last request. *)
Timers ==
    /\ timerLeft # None => timerLeft + sinceRequest >= kMinRefreshGap
    /\ timeoutLeft # None => timeoutLeft + sinceRequest >= kRequestTimeout
    /\ refreshSeq \in timedOut => sinceRequest >= kRequestTimeout

(* An answer to the request in flight was read after it was sent. *)
AnswersAsOf ==
    \A i \in DOMAIN answers :
        answers[i].seq = refreshSeq => answers[i].snap.asOf = refreshSeq

LoopInv == TypeOK /\ Phases /\ Timers /\ AnswersAsOf

(* What was read of a listing stays an upper bound: listings only lose     *)
(* quantity, and a committed one is never uncommitted.                     *)
Committed(id) == status[id] \in {"listed", "gone"}

Sound(snap) ==
    /\ \A id \in snap.known : Committed(id)
    /\ \A id \in DOMAIN snap.items : id \in snap.known /\ left[id] <= snap.items[id]
    /\ \A id \in snap.known :
          \/ id \in DOMAIN snap.items
          \/ \A j \in DOMAIN snap.items : id > j
          \/ status[id] = "gone"

SnapshotsSound ==
    /\ Sound(snapshot) /\ Sound(held)
    /\ \A i \in DOMAIN answers : Sound(answers[i].snap)

(* Snapshots are published in the order they were read. *)
InOrder ==
    /\ shown \subseteq snapshot.known
    /\ held # NoSnapshot => shown \subseteq held.known
    /\ held.known \subseteq snapshot.known
    /\ \A i \in DOMAIN answers :
          inFlight /\ answers[i].seq = refreshSeq
              => snapshot.known \subseteq answers[i].snap.known

VerdictInv == LoopInv /\ SnapshotsSound /\ InOrder
-----------------------------------------------------------------------------
(* Sequences, whatever their elements are. *)
LEMMA SequenceFacts ==
    ASSUME NEW S, NEW q \in Seq(S)
    PROVE  /\ \A x \in S : Append(q, x) \in Seq(S)
           /\ q # <<>> => Head(q) \in S /\ Tail(q) \in Seq(S)
OBVIOUS

LEMMA AppendedOrOld ==
    ASSUME NEW S, NEW q \in Seq(S), NEW x \in S
    PROVE  \A i \in DOMAIN Append(q, x) :
              \/ i \in DOMAIN q /\ Append(q, x)[i] = q[i]
              \/ Append(q, x)[i] = x
OBVIOUS

LEMMA TailShifts ==
    ASSUME NEW S, NEW q \in Seq(S), q # <<>>
    PROVE  \A i \in DOMAIN Tail(q) : i + 1 \in DOMAIN q /\ Tail(q)[i] = q[i + 1]
OBVIOUS

LEMMA ElementsOf ==
    ASSUME NEW S, NEW q \in Seq(S)
    PROVE  \A i \in DOMAIN q : q[i] \in S
OBVIOUS

(* What is read from the table is a snapshot. *)
LEMMA ListingsAreSnapshots ==
    ASSUME TypeOK
    PROVE  GetListings \in Snapshots
<1>1. FirstListed \in SUBSET Ids
  BY DEF FirstListed, Listed
<1>2. \A id \in FirstListed : left[id] \in 0 .. MaxQuantity
  BY <1>1 DEF TypeOK
<1>3. [id \in FirstListed |-> left[id]] \in [FirstListed -> 0 .. MaxQuantity]
  BY <1>2
<1>4. [id \in FirstListed |-> left[id]]
         \in UNION {[S -> 0 .. MaxQuantity] : S \in SUBSET Ids}
  BY <1>1, <1>3
<1>5. refreshSeq \in Seqs \cup {None}
  BY DEF TypeOK
<1> QED  BY <1>4, <1>5 DEF GetListings, Snapshots

LEMMA NoSnapshotIsOne == NoSnapshot \in Snapshots
<1>1. [id \in {} |-> 0] \in [{} -> 0 .. MaxQuantity]
  OBVIOUS
<1>2. [id \in {} |-> 0] \in UNION {[S -> 0 .. MaxQuantity] : S \in SUBSET Ids}
  BY <1>1
<1> QED  BY <1>2 DEF NoSnapshot, Snapshots

LEMMA NextSeqIsOne == ASSUME TypeOK PROVE NextSeq \in Seqs
BY CacheAssumption DEF NextSeq, Seqs, TypeOK

(* An answer the auction server sends holds the table as it is. *)
LEMMA ServedAnswers ==
    ASSUME TypeOK, ServeRequest
    PROVE  \A i \in DOMAIN answers' :
              \/ i \in DOMAIN answers /\ answers'[i] = answers[i]
              \/ answers'[i].snap = GetListings
<1> DEFINE A == [seq |-> Head(requests), snap |-> GetListings]
<1>1. requests # <<>> /\ (answers' = Append(answers, A) \/ answers' = answers)
  BY DEF ServeRequest
<1>2. requests \in Seq(Seqs) /\ answers \in Seq([seq : Seqs, snap : Snapshots])
  BY DEF TypeOK
<1>3. A \in [seq : Seqs, snap : Snapshots]
  BY <1>1, <1>2, ListingsAreSnapshots, SequenceFacts
<1>4. A.snap = GetListings
  OBVIOUS
<1> HIDE DEF A
<1>5. \A i \in DOMAIN Append(answers, A) :
         \/ i \in DOMAIN answers /\ Append(answers, A)[i] = answers[i]
         \/ Append(answers, A)[i] = A
  BY <1>2, <1>3, AppendedOrOld
<1> QED  BY <1>1, <1>4, <1>5

(* The parts of the type invariant, one per component of the state. *)
TableTypes ==
    /\ status \in [Ids -> {"unused", "drawn", "listed", "gone"}]
    /\ left \in [Ids -> 0 .. MaxQuantity]
NetTypes ==
    /\ requests \in Seq(Seqs)
    /\ answers \in Seq([seq : Seqs, snap : Snapshots])
RefreshTypes ==
    /\ started \in BOOLEAN /\ inFlight \in BOOLEAN
    /\ refreshSeq \in Seqs /\ dirty \in BOOLEAN
    /\ sinceRequest \in 0 .. AgeCap
TimerTypes ==
    /\ timerArmed \in BOOLEAN /\ timerLeft \in Nat \cup {None}
    /\ timeoutLeft \in Nat \cup {None} /\ timedOut \subseteq Seqs
SnapshotTypes ==
    /\ snapshot \in Snapshots /\ held \in Snapshots
    /\ age \in 0 .. AgeCap /\ heldAge \in 0 .. AgeCap /\ shown \subseteq Ids

LEMMA TypeParts ==
    TypeOK <=> TableTypes /\ NetTypes /\ RefreshTypes /\ TimerTypes
               /\ SnapshotTypes
BY DEF TypeOK, TableTypes, NetTypes, RefreshTypes, TimerTypes, SnapshotTypes

LEMMA EarlyDelayIsDelay ==
    ASSUME RefreshTypes
    PROVE  EarlyDelay \in Nat
BY CacheAssumption DEF EarlyDelay, RefreshTypes

LEMMA ArmTimerTypes ==
    ASSUME TimerTypes, NEW delay \in Nat, ArmTimer(delay)
    PROVE  timerArmed' \in BOOLEAN /\ timerLeft' \in Nat \cup {None}
BY DEF TimerTypes, ArmTimer

LEMMA SendRequestTypes ==
    ASSUME TypeOK, SendRequest, answers' = answers,
           started' \in BOOLEAN, dirty' \in BOOLEAN
    PROVE  NetTypes' /\ RefreshTypes' /\ timeoutLeft' \in Nat \cup {None}
<1>1. NextSeq \in Seqs
  BY NextSeqIsOne
<1>2. NetTypes /\ RefreshTypes
  BY TypeParts
<1>3. Append(requests, NextSeq) \in Seq(Seqs)
  BY <1>1, <1>2 DEF NetTypes
<1> QED
  BY <1>1, <1>2, <1>3, CacheAssumption
  DEF SendRequest, NetTypes, RefreshTypes

LEMMA InitTypes == Init => TypeOK
<1> SUFFICES ASSUME Init PROVE TypeOK
  OBVIOUS
<1>1. TableTypes /\ NetTypes
  BY CacheAssumption DEF Init, TableTypes, NetTypes
<1>2. RefreshTypes /\ TimerTypes
  <2>1. 0 \in Seqs
    BY CacheAssumption DEF Seqs
  <2>2. RefreshTypes
    <3>1. /\ started = FALSE /\ inFlight = FALSE /\ refreshSeq = 0 /\ dirty = FALSE
          /\ sinceRequest = AgeCap
      BY DEF Init
    <3>2. AgeCap \in 0 .. AgeCap
      BY CacheAssumption
    <3> QED  BY <2>1, <3>1, <3>2 DEF RefreshTypes
  <2>3. TimerTypes
    BY DEF Init, TimerTypes
  <2> QED  BY <2>2, <2>3
<1>3. SnapshotTypes
  BY CacheAssumption, NoSnapshotIsOne DEF Init, SnapshotTypes
<1> QED  BY <1>1, <1>2, <1>3, TypeParts

LEMMA RefreshKeepsTypes ==
    ASSUME TypeOK, Refresh \/ MarkDirty
    PROVE  TypeOK'
<1>1. /\ TableTypes /\ NetTypes /\ RefreshTypes /\ TimerTypes /\ SnapshotTypes
      /\ kRefreshInterval \in Nat
  BY TypeParts, CacheAssumption
<1>2. CASE OnConnect
  <2>1. NetTypes' /\ RefreshTypes' /\ timeoutLeft' \in Nat \cup {None}
    <3>1. SendRequest /\ answers' = answers /\ started' \in BOOLEAN /\ dirty' \in BOOLEAN
      BY <1>1, <1>2 DEF OnConnect, RefreshTypes
    <3> QED  BY <3>1, SendRequestTypes
  <2>2. TableTypes' /\ TimerTypes' /\ SnapshotTypes'
    BY <1>1, <1>2, <2>1
    DEF OnConnect, TableTypes, TimerTypes, SnapshotTypes, tableVars, snapVars, heldVars
  <2> QED  BY <2>1, <2>2, TypeParts DEF TypeOK, TableTypes, NetTypes, RefreshTypes, TimerTypes, SnapshotTypes
<1>3. CASE OnTimer
  <2>1. timerArmed' \in BOOLEAN /\ timerLeft' \in Nat \cup {None} /\ dirty' \in BOOLEAN
    BY <1>3 DEF OnTimer, Fired
  <2>2. NetTypes' /\ RefreshTypes' /\ timeoutLeft' \in Nat \cup {None}
    <3>1. CASE inFlight
      BY <1>1, <1>3, <3>1 DEF OnTimer, NetTypes, RefreshTypes, TimerTypes
    <3>2. CASE ~inFlight
      <4>1. SendRequest /\ answers' = answers /\ started' \in BOOLEAN
        BY <1>1, <1>3, <3>2 DEF OnTimer, RefreshTypes
      <4> QED  BY <2>1, <4>1, SendRequestTypes
    <3> QED  BY <3>1, <3>2
  <2>3. TableTypes' /\ TimerTypes' /\ SnapshotTypes'
    BY <1>1, <1>3, <2>1, <2>2
    DEF OnTimer, TableTypes, TimerTypes, SnapshotTypes, tableVars, snapVars, heldVars
  <2> QED  BY <2>2, <2>3 DEF TypeOK, TableTypes, NetTypes, RefreshTypes, TimerTypes, SnapshotTypes
<1>4. CASE OnRefreshResponse
  <2>0. answers # <<>> /\ answers' = Tail(answers) /\ requests' = requests
        /\ answers \in Seq([seq : Seqs, snap : Snapshots]) /\ requests \in Seq(Seqs)
    BY <1>1, <1>4 DEF OnRefreshResponse, NetTypes
  <2>1. NetTypes'
    BY <2>0, SequenceFacts DEF NetTypes
  <2>1a. Head(answers) \in [seq : Seqs, snap : Snapshots]
    BY <2>0, SequenceFacts
  <2>2. Head(answers).snap \in Snapshots
    BY <2>1a
  <2>3. TableTypes'
    BY <1>1, <1>4 DEF OnRefreshResponse, TableTypes, tableVars
  <2>3a. RefreshTypes' /\ timedOut' \subseteq Seqs /\ timeoutLeft' \in Nat \cup {None}
    BY <1>1, <1>4 DEF OnRefreshResponse, RefreshTypes, TimerTypes
  <2>3b. snapshot' \in Snapshots /\ age' \in 0 .. AgeCap
    BY <1>1, <1>4, <2>2, CacheAssumption
    DEF OnRefreshResponse, SnapshotTypes, snapVars
  <2>3c. SnapshotTypes'
    BY <1>1, <1>4, <2>3b DEF OnRefreshResponse, SnapshotTypes, heldVars
  <2>4. timerArmed' \in BOOLEAN /\ timerLeft' \in Nat \cup {None}
    <3>1. CASE Expected(Head(answers).seq)
      <4>1. (IF dirty THEN EarlyDelay ELSE kRefreshInterval) \in Nat
        BY <1>1, EarlyDelayIsDelay
      <4> QED  BY <1>1, <1>4, <3>1, <4>1, ArmTimerTypes DEF OnRefreshResponse
    <3>2. CASE ~Expected(Head(answers).seq)
      BY <1>1, <1>4, <3>2 DEF OnRefreshResponse, TimerTypes
    <3> QED  BY <3>1, <3>2
  <2> QED  BY <2>1, <2>3, <2>3a, <2>3c, <2>4 DEF TypeOK, TableTypes, NetTypes, RefreshTypes, TimerTypes, SnapshotTypes
<1>5. CASE TimeoutExpires
  <2>1. TableTypes' /\ NetTypes' /\ RefreshTypes' /\ SnapshotTypes'
    BY <1>1, <1>5 DEF TimeoutExpires, TableTypes, NetTypes, RefreshTypes, SnapshotTypes,
       tableVars, netVars, refreshVars, snapVars, heldVars
  <2>2. TimerTypes'
    BY <1>1, <1>5 DEF TimeoutExpires, TimerTypes, RefreshTypes
  <2> QED  BY <2>1, <2>2 DEF TypeOK, TableTypes, NetTypes, RefreshTypes, TimerTypes, SnapshotTypes
<1>6. ASSUME NEW seq \in Seqs, RunTimeout(seq)
      PROVE  TypeOK'
  <2>1. TableTypes' /\ NetTypes' /\ SnapshotTypes'
    BY <1>1, <1>6 DEF RunTimeout, TableTypes, NetTypes, SnapshotTypes,
       tableVars, netVars, snapVars, heldVars
  <2>2. RefreshTypes' /\ timeoutLeft' \in Nat \cup {None} /\ timedOut' \subseteq Seqs
    BY <1>1, <1>6 DEF RunTimeout, RefreshTypes, TimerTypes, GiveUp
  <2>3. timerArmed' \in BOOLEAN /\ timerLeft' \in Nat \cup {None}
    <3>1. CASE Expected(seq)
      BY <1>1, <1>6, <3>1, ArmTimerTypes DEF RunTimeout, GiveUp
    <3>2. CASE ~Expected(seq)
      BY <1>1, <1>6, <3>2 DEF RunTimeout, TimerTypes
    <3> QED  BY <3>1, <3>2
  <2> QED  BY <2>1, <2>2, <2>3 DEF TypeOK, TableTypes, NetTypes, RefreshTypes, TimerTypes, SnapshotTypes
<1>7. CASE MarkDirty
  <2>1. TableTypes' /\ NetTypes' /\ RefreshTypes' /\ SnapshotTypes'
    BY <1>1, <1>7 DEF MarkDirty, TableTypes, NetTypes, RefreshTypes, SnapshotTypes,
       tableVars, netVars, snapVars, heldVars
  <2>2. timerArmed' \in BOOLEAN /\ timerLeft' \in Nat \cup {None}
    <3>1. CASE inFlight
      BY <1>1, <1>7, <3>1 DEF MarkDirty, TimerTypes
    <3>2. CASE ~inFlight
      BY <1>1, <1>7, <3>2, EarlyDelayIsDelay, ArmTimerTypes DEF MarkDirty
    <3> QED  BY <3>1, <3>2
  <2>3. TimerTypes'
    BY <1>1, <1>7, <2>2 DEF MarkDirty, TimerTypes
  <2> QED  BY <2>1, <2>3 DEF TypeOK, TableTypes, NetTypes, RefreshTypes, TimerTypes, SnapshotTypes
<1> QED  BY <1>2, <1>3, <1>4, <1>5, <1>6, <1>7 DEF Refresh

LEMMA OthersKeepTypes ==
    ASSUME TypeOK,
           Table \/ LoadSnapshot \/ TrySendList \/ Validated \/ ServeRequest \/ Tick
    PROVE  TypeOK'
<1>1. TableTypes /\ NetTypes /\ RefreshTypes /\ TimerTypes /\ SnapshotTypes
  BY TypeParts
<1>2. CASE Table
  <2>1. UNCHANGED <<netVars, refreshVars, timerVars, snapVars, heldVars>>
    BY <1>2 DEF Table, DrawId, CommitListing, Sell, Expire
  <2>2. NetTypes' /\ RefreshTypes' /\ TimerTypes' /\ SnapshotTypes'
    BY <1>1, <2>1 DEF NetTypes, RefreshTypes, TimerTypes, SnapshotTypes,
       netVars, refreshVars, timerVars, snapVars, heldVars
  <2>3. status' \in [Ids -> {"unused", "drawn", "listed", "gone"}]
    BY <1>1, <1>2 DEF Table, DrawId, CommitListing, Sell, Expire, TableTypes
  <2>4. left' \in [Ids -> 0 .. MaxQuantity]
    <3>1. CASE DrawId \/ Expire
      BY <1>1, <3>1 DEF DrawId, Expire, TableTypes
    <3>2. CASE CommitListing
      BY <1>1, <3>2, CacheAssumption DEF CommitListing, TableTypes
    <3>3. CASE Sell
      <4>1. PICK id \in Listed :
               \E n \in 1 .. left[id] : left' = [left EXCEPT ![id] = @ - n]
        BY <3>3 DEF Sell
      <4>1a. PICK n \in 1 .. left[id] : left' = [left EXCEPT ![id] = @ - n]
        BY <4>1
      <4>2. id \in Ids /\ left[id] \in 0 .. MaxQuantity
        BY <1>1 DEF Listed, TableTypes
      <4>3. left[id] - n \in 0 .. MaxQuantity
        BY <4>2, CacheAssumption
      <4> QED  BY <1>1, <4>1a, <4>2, <4>3 DEF TableTypes
    <3> QED  BY <1>2, <3>1, <3>2, <3>3 DEF Table
  <2> QED  BY <2>2, <2>3, <2>4 DEF TypeOK, TableTypes, NetTypes, RefreshTypes, TimerTypes, SnapshotTypes
<1>3. CASE LoadSnapshot \/ TrySendList \/ Validated
  <2>1. UNCHANGED <<tableVars, netVars, refreshVars, timerVars, snapVars>>
    BY <1>3 DEF LoadSnapshot, TrySendList, Validated, CallReturns
  <2>2. TableTypes' /\ NetTypes' /\ RefreshTypes' /\ TimerTypes'
    BY <1>1, <2>1 DEF TableTypes, NetTypes, RefreshTypes, TimerTypes,
       tableVars, netVars, refreshVars, timerVars
  <2>3. held' \in Snapshots /\ heldAge' \in 0 .. AgeCap
    BY <1>1, <1>3, NoSnapshotIsOne, CacheAssumption
    DEF LoadSnapshot, TrySendList, Validated, CallReturns, SnapshotTypes
  <2>4. shown' \subseteq Ids
    <3>1. BuildClientPacket(held) \subseteq DOMAIN held.items
      BY DEF BuildClientPacket
    <3>2. DOMAIN held.items \subseteq Ids
      BY <1>1 DEF SnapshotTypes, Snapshots
    <3> QED  BY <1>1, <1>3, <3>1, <3>2
             DEF LoadSnapshot, TrySendList, Validated, SnapshotTypes
  <2>5. SnapshotTypes'
    BY <1>1, <2>1, <2>3, <2>4 DEF SnapshotTypes, snapVars
  <2> QED  BY <2>2, <2>5 DEF TypeOK, TableTypes, NetTypes, RefreshTypes, TimerTypes, SnapshotTypes
<1>4. CASE ServeRequest
  <2>1. requests' \in Seq(Seqs) /\ Head(requests) \in Seqs
    BY <1>1, <1>4 DEF ServeRequest, NetTypes
  <2>2. [seq |-> Head(requests), snap |-> GetListings] \in [seq : Seqs, snap : Snapshots]
    BY <2>1, ListingsAreSnapshots
  <2>3. answers' \in Seq([seq : Seqs, snap : Snapshots])
    <3>1. answers \in Seq([seq : Seqs, snap : Snapshots])
      BY <1>1 DEF NetTypes
    <3>2. Append(answers, [seq |-> Head(requests), snap |-> GetListings])
             \in Seq([seq : Seqs, snap : Snapshots])
      BY <2>2, <3>1, SequenceFacts
    <3> QED  BY <1>4, <3>1, <3>2 DEF ServeRequest
  <2>4. TableTypes' /\ RefreshTypes' /\ TimerTypes' /\ SnapshotTypes'
    BY <1>1, <1>4 DEF ServeRequest, TableTypes, RefreshTypes, TimerTypes, SnapshotTypes,
       tableVars, refreshVars, timerVars, snapVars, heldVars
  <2> QED  BY <2>1, <2>3, <2>4 DEF TypeOK, TableTypes, NetTypes, RefreshTypes, TimerTypes, SnapshotTypes
<1>5. CASE Tick
  <2>1. TableTypes' /\ NetTypes'
    BY <1>1, <1>5 DEF Tick, TableTypes, NetTypes, tableVars, netVars
  <2>2. RefreshTypes' /\ TimerTypes'
    BY <1>1, <1>5, CacheAssumption
    DEF Tick, RefreshTypes, TimerTypes, Older, Sooner, None
  <2>3. SnapshotTypes'
    BY <1>1, <1>5, CacheAssumption DEF Tick, SnapshotTypes, Older
  <2> QED  BY <2>1, <2>2, <2>3 DEF TypeOK, TableTypes, NetTypes, RefreshTypes, TimerTypes, SnapshotTypes
<1> QED  BY <1>2, <1>3, <1>4, <1>5

LEMMA NextKeepsTypes ==
    ASSUME TypeOK, [Next]_vars
    PROVE  TypeOK'
<1>1. CASE UNCHANGED vars
  <2>1. TableTypes /\ NetTypes /\ RefreshTypes /\ TimerTypes /\ SnapshotTypes
    BY TypeParts
  <2>2. TableTypes' /\ NetTypes' /\ RefreshTypes' /\ TimerTypes' /\ SnapshotTypes'
    BY <1>1, <2>1 DEF vars, TableTypes, NetTypes, RefreshTypes, TimerTypes, SnapshotTypes
  <2> QED  BY <2>2 DEF TypeOK, TableTypes, NetTypes, RefreshTypes, TimerTypes, SnapshotTypes
<1> QED  BY <1>1, RefreshKeepsTypes, OthersKeepTypes DEF Next
-----------------------------------------------------------------------------
(* The refresh loop.                                                       *)

(* A timer armed by ArmTimer keeps the minimum gap when the delay does. *)
LEMMA ArmedInTime ==
    ASSUME RefreshTypes, TimerTypes, Phases, Timers,
           NEW delay \in Nat, ArmTimer(delay),
           delay + sinceRequest >= kMinRefreshGap
    PROVE  /\ timerArmed' = TRUE /\ timerLeft' # None
           /\ timerLeft' + sinceRequest >= kMinRefreshGap
BY DEF ArmTimer, TimerTypes, RefreshTypes, Phases, Timers, None

LEMMA DelaysKeepGap ==
    ASSUME RefreshTypes
    PROVE  /\ EarlyDelay \in Nat /\ EarlyDelay + sinceRequest >= kMinRefreshGap
           /\ kRefreshInterval \in Nat
           /\ kRefreshInterval + sinceRequest >= kMinRefreshGap
BY CacheAssumption DEF EarlyDelay, RefreshTypes

(* A request is sent under a number nothing carries, with a fresh timeout. *)
LEMMA RequestSent ==
    ASSUME TypeOK, SendRequest, SeqIsFree(NextSeq),
           UNCHANGED <<answers, timedOut>>,
           started' = TRUE, timerArmed' = FALSE, timerLeft' = None
    PROVE  Phases' /\ Timers' /\ AnswersAsOf'
<1>1. /\ inFlight' = TRUE /\ refreshSeq' = NextSeq /\ sinceRequest' = 0
      /\ timeoutLeft' = kRequestTimeout
  BY DEF SendRequest
<1>2. kRequestTimeout \in Nat /\ kRequestTimeout # None
  BY CacheAssumption DEF None
<1>3. refreshSeq' \notin timedOut'
  BY <1>1 DEF SeqIsFree
<1>4. Phases'
  BY <1>1, <1>2 DEF Phases
<1>5. Timers'
  BY <1>1, <1>2, <1>3 DEF Timers
<1>6. AnswersAsOf'
  BY <1>1 DEF AnswersAsOf, SeqIsFree
<1> QED  BY <1>4, <1>5, <1>6

LEMMA LoopInvKept ==
    ASSUME LoopInv, [Next]_vars
    PROVE  Phases' /\ Timers' /\ AnswersAsOf'
<1>0. /\ TypeOK /\ RefreshTypes /\ TimerTypes /\ NetTypes
      /\ Phases /\ Timers /\ AnswersAsOf
  BY TypeParts DEF LoopInv
<1>1. CASE OnConnect
  <2>1. SendRequest /\ SeqIsFree(NextSeq) /\ UNCHANGED <<answers, timedOut>>
        /\ started' = TRUE /\ timerArmed' = FALSE /\ timerLeft' = None
    BY <1>0, <1>1 DEF OnConnect, Phases
  <2> QED  BY <1>0, <2>1, RequestSent
<1>2. CASE OnTimer
  <2>1. timerArmed /\ started /\ ~inFlight
    BY <1>0, <1>2 DEF OnTimer, Phases, None
  <2>2. SendRequest /\ SeqIsFree(NextSeq) /\ UNCHANGED <<answers, timedOut>>
        /\ started' = TRUE /\ timerArmed' = FALSE /\ timerLeft' = None
    BY <1>0, <1>2, <2>1 DEF OnTimer, Fired, RefreshTypes
  <2> QED  BY <1>0, <2>2, RequestSent
<1>3. CASE OnRefreshResponse
  <2>1. /\ answers # <<>> /\ answers' = Tail(answers)
        /\ UNCHANGED <<started, refreshSeq, sinceRequest, timedOut>>
    BY <1>3 DEF OnRefreshResponse
  <2>2. AnswersAsOf'
    <3>1. \A i \in DOMAIN answers' :
             i + 1 \in DOMAIN answers /\ answers'[i] = answers[i + 1]
      BY <1>0, <2>1 DEF NetTypes
    <3> QED  BY <1>0, <2>1, <3>1 DEF AnswersAsOf
  <2>3. CASE Expected(Head(answers).seq)
    <3>1. inFlight' = FALSE /\ timeoutLeft' = None /\ started
      BY <1>0, <1>3, <2>3 DEF OnRefreshResponse, Expected, Phases
    <3>2. timerArmed' = TRUE /\ timerLeft' # None
          /\ timerLeft' + sinceRequest >= kMinRefreshGap
      BY <1>0, <1>3, <2>3, DelaysKeepGap, ArmedInTime DEF OnRefreshResponse
    <3> QED  BY <1>0, <2>1, <2>2, <3>1, <3>2 DEF Phases, Timers
  <2>4. CASE ~Expected(Head(answers).seq)
    <3>1. UNCHANGED <<inFlight, timeoutLeft, timerArmed, timerLeft>>
      BY <1>3, <2>4 DEF OnRefreshResponse
    <3> QED  BY <1>0, <2>1, <2>2, <3>1 DEF Phases, Timers
  <2> QED  BY <2>3, <2>4
<1>4. CASE TimeoutExpires
  <2>1. /\ timeoutLeft = 0 /\ timeoutLeft' = None /\ timedOut' = timedOut \cup {refreshSeq}
        /\ UNCHANGED <<answers, started, inFlight, refreshSeq, sinceRequest,
                       timerArmed, timerLeft>>
    BY <1>4 DEF TimeoutExpires, netVars, refreshVars
  <2>2. sinceRequest >= kRequestTimeout
    BY <1>0, <2>1, CacheAssumption DEF Timers, None, RefreshTypes
  <2> QED  BY <1>0, <2>1, <2>2 DEF Phases, Timers, AnswersAsOf
<1>5. ASSUME NEW seq \in Seqs, RunTimeout(seq)
      PROVE  Phases' /\ Timers' /\ AnswersAsOf'
  <2>1. /\ timedOut' = timedOut \ {seq}
        /\ UNCHANGED <<answers, started, refreshSeq, sinceRequest, timeoutLeft>>
    BY <1>5 DEF RunTimeout, netVars
  <2>2. CASE Expected(seq)
    <3>1. inFlight' = FALSE /\ started
      BY <1>0, <1>5, <2>2 DEF RunTimeout, GiveUp, Expected, Phases
    <3>2. timerArmed' = TRUE /\ timerLeft' # None
          /\ timerLeft' + sinceRequest >= kMinRefreshGap
      BY <1>0, <1>5, <2>2, DelaysKeepGap, ArmedInTime DEF RunTimeout, GiveUp
    <3> QED  BY <1>0, <2>1, <3>1, <3>2 DEF Phases, Timers, AnswersAsOf
  <2>3. CASE ~Expected(seq)
    <3>1. UNCHANGED <<inFlight, timerArmed, timerLeft>>
      BY <1>5, <2>3 DEF RunTimeout
    <3> QED  BY <1>0, <2>1, <2>3, <3>1 DEF Phases, Timers, AnswersAsOf, Expected
  <2> QED  BY <2>2, <2>3
<1>6. CASE MarkDirty
  <2>1. /\ started
        /\ UNCHANGED <<answers, started, inFlight, refreshSeq, sinceRequest,
                       timeoutLeft, timedOut>>
    BY <1>6 DEF MarkDirty, netVars
  <2>2. CASE inFlight
    BY <1>0, <1>6, <2>1, <2>2 DEF MarkDirty, Phases, Timers, AnswersAsOf
  <2>3. CASE ~inFlight
    <3>1. timerArmed' = TRUE /\ timerLeft' # None
          /\ timerLeft' + sinceRequest >= kMinRefreshGap
      BY <1>0, <1>6, <2>3, DelaysKeepGap, ArmedInTime DEF MarkDirty
    <3> QED  BY <1>0, <2>1, <2>3, <3>1 DEF Phases, Timers, AnswersAsOf
  <2> QED  BY <2>2, <2>3
<1>7. CASE Tick
  <2>1. /\ sinceRequest' = Older(sinceRequest)
        /\ timerLeft' = Sooner(timerLeft) /\ timeoutLeft' = Sooner(timeoutLeft)
        /\ UNCHANGED <<answers, started, inFlight, refreshSeq, timerArmed, timedOut>>
    BY <1>7 DEF Tick, netVars
  <2>2. Phases'
    BY <1>0, <2>1, CacheAssumption
    DEF Phases, Sooner, Older, None, TimerTypes, RefreshTypes
  <2>3. Timers'
    BY <1>0, <2>1, CacheAssumption
    DEF Timers, Sooner, Older, None, TimerTypes, RefreshTypes
  <2> QED  BY <1>0, <2>1, <2>2, <2>3 DEF AnswersAsOf
<1>8. CASE ServeRequest
  <2>1. UNCHANGED <<refreshVars, timerVars>>
    BY <1>8 DEF ServeRequest
  <2>2. \A i \in DOMAIN answers' : \/ i \in DOMAIN answers /\ answers'[i] = answers[i]
                                   \/ answers'[i].snap = GetListings
    BY <1>0, <1>8, ServedAnswers
  <2>3. GetListings.asOf = refreshSeq
    BY DEF GetListings
  <2> QED  BY <1>0, <2>1, <2>2, <2>3
           DEF Phases, Timers, AnswersAsOf, refreshVars, timerVars
<1>9. CASE Table \/ LoadSnapshot \/ TrySendList \/ Validated \/ UNCHANGED vars
  <2>1. UNCHANGED <<netVars, refreshVars, timerVars>>
    BY <1>9 DEF Table, DrawId, CommitListing, Sell, Expire, LoadSnapshot,
       TrySendList, Validated, CallReturns, vars, netVars, refreshVars, timerVars
  <2> QED  BY <1>0, <2>1
           DEF Phases, Timers, AnswersAsOf, netVars, refreshVars, timerVars
<1> QED  BY <1>1, <1>2, <1>3, <1>4, <1>5, <1>6, <1>7, <1>8, <1>9 DEF Next, Refresh

LEMMA LoopInvHolds == Spec => []LoopInv
<1>1. Init => LoopInv
  BY InitTypes, CacheAssumption DEF Init, LoopInv, Phases, Timers, AnswersAsOf, None
<1>2. LoopInv /\ [Next]_vars => LoopInv'
  BY NextKeepsTypes, LoopInvKept DEF LoopInv
<1> QED  BY <1>1, <1>2, PTL DEF Spec

(* Every variable of the cache keeps its type; no timer is ever set to a   *)
(* time in the past (AuctionCache.cpp:110-119, 162-172).                   *)
THEOREM CacheTypes == Spec => []TypeOK
BY LoopInvHolds, PTL DEF LoopInv

(* The loop always has a next step of its own, for any intervals, any      *)
(* number of lost answers and any interleaving with timeouts.              *)
THEOREM CacheLoopAlive == Spec => []LoopAlive
<1>1. LoopInv => LoopAlive
  BY DEF LoopInv, Phases, LoopAlive
<1> QED  BY <1>1, LoopInvHolds, PTL

(* Requests are at least kMinRefreshGap apart (AuctionCache.cpp:153-172). *)
THEOREM CacheGapKept == Spec => GapKept
<1>1. LoopInv /\ [Next]_vars =>
        [refreshSeq' # refreshSeq => sinceRequest >= kMinRefreshGap]_vars
  <2> SUFFICES ASSUME LoopInv, Next, refreshSeq' # refreshSeq
               PROVE  sinceRequest >= kMinRefreshGap
    OBVIOUS
  <2>0. Phases /\ Timers /\ RefreshTypes
    BY TypeParts DEF LoopInv
  <2>1. CASE OnConnect
    BY <2>0, <2>1, CacheAssumption DEF OnConnect, Phases
  <2>2. CASE OnTimer
    BY <2>0, <2>2 DEF OnTimer, Timers, None, RefreshTypes
  <2>3. CASE ~OnConnect /\ ~OnTimer
    <3>1. refreshSeq' = refreshSeq
      BY <2>3 DEF Next, Table, DrawId, CommitListing, Sell, Expire, Refresh,
         OnRefreshResponse, TimeoutExpires, RunTimeout, MarkDirty, LoadSnapshot,
         TrySendList, Validated, CallReturns, ServeRequest, Tick, refreshVars
    <3> QED  BY <3>1
  <2> QED  BY <2>1, <2>2, <2>3
<1> QED  BY <1>1, LoopInvHolds, PTL DEF Spec, GapKept

(* A request ends by the answer to it or by its own timeout, never by what *)
(* an earlier request left behind (AuctionCache.cpp:64-76).                *)
THEOREM CacheOnlyItsOwn == Spec => OnlyItsOwn
<1> DEFINE Own == inFlight /\ ~inFlight' =>
                    IF answers' # answers THEN snapshot'.asOf = refreshSeq
                                          ELSE sinceRequest >= kRequestTimeout
<1>1. LoopInv /\ [Next]_vars => [Own]_vars
  <2> SUFFICES ASSUME LoopInv, Next, inFlight, ~inFlight'
               PROVE  IF answers' # answers THEN snapshot'.asOf = refreshSeq
                                            ELSE sinceRequest >= kRequestTimeout
    OBVIOUS
  <2>0. Timers /\ AnswersAsOf /\ NetTypes
    BY TypeParts DEF LoopInv
  <2>1. CASE OnRefreshResponse
    <3>1. /\ answers # <<>> /\ answers' = Tail(answers) /\ Expected(Head(answers).seq)
          /\ snapshot' = Head(answers).snap
      BY <2>1 DEF OnRefreshResponse
    <3>2. 1 \in DOMAIN answers /\ Head(answers) = answers[1] /\ answers' # answers
      BY <2>0, <3>1 DEF NetTypes
    <3> QED  BY <2>0, <3>1, <3>2 DEF AnswersAsOf, Expected
  <2>2. ASSUME NEW seq \in Seqs, RunTimeout(seq)
        PROVE  answers' = answers /\ sinceRequest >= kRequestTimeout
    <3>1. seq = refreshSeq /\ refreshSeq \in timedOut /\ answers' = answers
      BY <2>2 DEF RunTimeout, Expected, netVars
    <3> QED  BY <2>0, <3>1 DEF Timers
  <2>3. ASSUME ~OnRefreshResponse, \A seq \in Seqs : ~RunTimeout(seq)
        PROVE  FALSE
    BY <2>3 DEF Next, Table, DrawId, CommitListing, Sell, Expire, Refresh, OnConnect,
       OnTimer, SendRequest, TimeoutExpires, MarkDirty, LoadSnapshot,
       TrySendList, Validated, CallReturns, ServeRequest, Tick, refreshVars
  <2> QED  BY <2>1, <2>2, <2>3
<1> QED  BY <1>1, LoopInvHolds, PTL DEF Spec, OnlyItsOwn
-----------------------------------------------------------------------------
(* The verdicts.                                                           *)

(* What a table step leaves true of every listing. *)
TableMoves ==
    /\ \A id \in Ids : Committed(id) => Committed(id)' /\ left'[id] <= left[id]
    /\ \A id \in Ids : status[id] = "gone" => status'[id] = "gone"

LEMMA TableOnlyMoves ==
    ASSUME TypeOK, Table
    PROVE  TableMoves
<1>1. /\ status \in [Ids -> {"unused", "drawn", "listed", "gone"}]
      /\ left \in [Ids -> 0 .. MaxQuantity] /\ MaxQuantity \in Nat
  BY CacheAssumption DEF TypeOK
<1>2. CASE DrawId \/ Expire
  BY <1>1, <1>2 DEF DrawId, Expire, Listed, TableMoves, Committed
<1>3. CASE CommitListing
  BY <1>1, <1>3 DEF CommitListing, TableMoves, Committed
<1>4. CASE Sell
  <2>1. PICK id \in Listed :
           \E n \in 1 .. left[id] :
              /\ left' = [left EXCEPT ![id] = @ - n]
              /\ status' = IF n = left[id] THEN [status EXCEPT ![id] = "gone"]
                                           ELSE status
    BY <1>4 DEF Sell
  <2>2. PICK n \in 1 .. left[id] :
              /\ left' = [left EXCEPT ![id] = @ - n]
              /\ status' = IF n = left[id] THEN [status EXCEPT ![id] = "gone"]
                                           ELSE status
    BY <2>1
  <2>3. id \in Ids /\ status[id] = "listed" /\ left[id] \in Nat /\ n \in Nat
    BY <1>1 DEF Listed
  <2>4. \A j \in Ids : left[j] \in Nat /\ left'[j] <= left[j]
    BY <1>1, <2>2, <2>3
  <2>5. \A j \in Ids : status'[j] = status[j] \/ (status'[j] = "gone" /\ j = id)
    BY <1>1, <2>2, <2>3
  <2> QED  BY <2>3, <2>4, <2>5 DEF TableMoves, Committed
<1> QED  BY <1>2, <1>3, <1>4 DEF Table

LEMMA SoundAfterMove ==
    ASSUME TypeOK, TypeOK', TableMoves \/ UNCHANGED tableVars,
           NEW snap \in Snapshots, Sound(snap)
    PROVE  Sound(snap)'
<1>1. /\ \A id \in Ids : left[id] \in Nat /\ left'[id] \in Nat
      /\ MaxQuantity \in Nat
  BY CacheAssumption DEF TypeOK
<1>2. /\ snap.known \subseteq Ids /\ DOMAIN snap.items \subseteq Ids
      /\ \A id \in DOMAIN snap.items : snap.items[id] \in Nat
  BY <1>1 DEF Snapshots
<1>3. CASE TableMoves
  BY <1>1, <1>2, <1>3 DEF Sound, TableMoves
<1>4. CASE UNCHANGED tableVars
  BY <1>4 DEF Sound, Committed, tableVars
<1> QED  BY <1>3, <1>4

(* The LIMIT cuts off only listings above all those that are read. *)
LEMMA ListingsAreSound == ASSUME TypeOK PROVE Sound(GetListings)
<1> DEFINE G == GetListings
           Below(id) == {j \in Listed : j < id}
<1>1. /\ DOMAIN G.items = FirstListed /\ \A id \in FirstListed : G.items[id] = left[id]
      /\ G.known = {id \in Ids : Committed(id)}
  BY DEF GetListings, Committed
<1>2. FirstListed \subseteq Listed /\ Listed \subseteq Ids
      /\ \A id \in Listed : status[id] = "listed"
  BY DEF FirstListed, Listed
<1>3. \A id \in Ids : left[id] \in Nat
  BY CacheAssumption DEF TypeOK
<1>4. IsFiniteSet(Ids) /\ \A k \in Ids : k \in Nat
  BY FS_Interval, CacheAssumption DEF Ids
<1>4a. \A k \in Listed : k \in Nat
  BY <1>2, <1>4
<1>5. ASSUME NEW id \in Listed, id \notin FirstListed, NEW j \in FirstListed, ~(id > j)
      PROVE  FALSE
  <2>1. id \in Nat /\ j \in Nat /\ j \in Listed
    BY <1>2, <1>4a, <1>5
  <2>2. id # j /\ id < j
    BY <1>5, <2>1
  <2>2a. ASSUME NEW k \in Below(id) PROVE k \in Listed /\ k < j
    BY <1>4a, <2>1, <2>2, <2>2a
  <2>3. Below(id) \subseteq Below(j)
    BY <2>2a
  <2>4. IsFiniteSet(Below(id)) /\ IsFiniteSet(Below(j))
    BY <1>2, <1>4, FS_Subset
  <2>5. Cardinality(Below(id)) <= Cardinality(Below(j))
    BY <2>3, <2>4, FS_Subset
  <2>6. Cardinality(Below(j)) < Limit /\ ~(Cardinality(Below(id)) < Limit)
    BY <1>5, <2>1 DEF FirstListed
  <2>7. Cardinality(Below(id)) \in Nat /\ Cardinality(Below(j)) \in Nat /\ Limit \in Nat
    BY <2>4, FS_CardinalityType, CacheAssumption
  <2> QED  BY <2>5, <2>6, <2>7
<1>6. \A id \in G.known : \/ id \in FirstListed
                          \/ \A j \in FirstListed : id > j
                          \/ status[id] = "gone"
  BY <1>1, <1>5 DEF Committed, Listed
<1>7. \A id \in FirstListed : id \in G.known /\ left[id] <= G.items[id]
  BY <1>1, <1>2, <1>3 DEF Committed
<1> QED  BY <1>1, <1>6, <1>7 DEF Sound

LEMMA NoSnapshotIsSound == Sound(NoSnapshot)
BY DEF Sound, NoSnapshot

LEMMA SnapshotsSoundKept ==
    ASSUME TypeOK, TypeOK', SnapshotsSound, [Next]_vars
    PROVE  SnapshotsSound'
<1>0. /\ Sound(snapshot) /\ Sound(held) /\ \A i \in DOMAIN answers : Sound(answers[i].snap)
      /\ snapshot \in Snapshots /\ held \in Snapshots
      /\ answers \in Seq([seq : Seqs, snap : Snapshots])
  BY DEF SnapshotsSound, TypeOK
<1>0a. \A i \in DOMAIN answers : answers[i].snap \in Snapshots
  <2>1. \A i \in DOMAIN answers : answers[i] \in [seq : Seqs, snap : Snapshots]
    BY <1>0, ElementsOf
  <2>2. \A a \in [seq : Seqs, snap : Snapshots] : a.snap \in Snapshots
    OBVIOUS
  <2> QED  BY <2>1, <2>2
<1>1. CASE Table
  <2>1. UNCHANGED <<netVars, snapVars, heldVars>>
    BY <1>1 DEF Table, DrawId, CommitListing, Sell, Expire
  <2>2. \A snap \in Snapshots : Sound(snap) => Sound(snap)'
    BY <1>1, TableOnlyMoves, SoundAfterMove
  <2> QED  BY <1>0, <1>0a, <2>1, <2>2 DEF SnapshotsSound, netVars, snapVars, heldVars, Sound, Committed
<1>2. CASE ServeRequest
  <2>1. UNCHANGED <<tableVars, snapVars, heldVars>>
    BY <1>2 DEF ServeRequest
  <2>2. \A i \in DOMAIN answers' : \/ i \in DOMAIN answers /\ answers'[i] = answers[i]
                                   \/ answers'[i].snap = GetListings
    BY <1>2, ServedAnswers
  <2>3. \A i \in DOMAIN answers' : Sound(answers'[i].snap)
    BY <1>0, <2>2, ListingsAreSound
  <2> QED  BY <1>0, <2>1, <2>3
           DEF SnapshotsSound, tableVars, snapVars, heldVars, Sound, Committed
<1>3. CASE OnRefreshResponse
  <2>1. /\ answers # <<>> /\ answers' = Tail(answers)
        /\ snapshot' = Head(answers).snap \/ snapshot' = snapshot
        /\ UNCHANGED <<tableVars, heldVars>>
    BY <1>3 DEF OnRefreshResponse, snapVars
  <2>2. \A i \in DOMAIN Tail(answers) :
           i + 1 \in DOMAIN answers /\ Tail(answers)[i] = answers[i + 1]
    BY <1>0, <2>1, TailShifts
  <2>3. 1 \in DOMAIN answers /\ Head(answers) = answers[1]
    BY <1>0, <2>1
  <2> QED  BY <1>0, <2>1, <2>2, <2>3
           DEF SnapshotsSound, tableVars, heldVars, Sound, Committed
<1>4. CASE LoadSnapshot \/ TrySendList \/ Validated
  <2>1. /\ UNCHANGED <<tableVars, netVars, snapVars>>
        /\ held' = snapshot \/ held' = NoSnapshot
    BY <1>4 DEF LoadSnapshot, TrySendList, Validated, CallReturns
  <2> QED  BY <1>0, <2>1, NoSnapshotIsSound
           DEF SnapshotsSound, tableVars, netVars, snapVars, Sound, Committed
<1>5. CASE OnConnect \/ OnTimer \/ TimeoutExpires \/ (\E seq \in Seqs : RunTimeout(seq))
           \/ MarkDirty \/ Tick \/ UNCHANGED vars
  <2>1. UNCHANGED <<tableVars, answers, snapshot, held>>
    BY <1>5 DEF OnConnect, OnTimer, TimeoutExpires, RunTimeout, MarkDirty, Tick, vars,
       tableVars, netVars, snapVars, heldVars
  <2> QED  BY <1>0, <2>1 DEF SnapshotsSound, tableVars, Sound, Committed
<1> QED  BY <1>1, <1>2, <1>3, <1>4, <1>5 DEF Next, Refresh

(* Snapshots are published in the order in which they were read, so what a *)
(* client was shown had been committed when any later one was read.        *)
LEMMA InOrderKept ==
    ASSUME TypeOK, TypeOK', SnapshotsSound, InOrder, [Next]_vars
    PROVE  InOrder'
<1>0. /\ answers \in Seq([seq : Seqs, snap : Snapshots])
      /\ snapshot.known \subseteq Ids /\ Sound(snapshot) /\ Sound(held)
  BY DEF SnapshotsSound, TypeOK, Snapshots
<1>1. ASSUME SendRequest, SeqIsFree(NextSeq), UNCHANGED <<answers, snapVars, heldVars>>
      PROVE  InOrder'
  <2>1. \A i \in DOMAIN answers' : answers'[i].seq # refreshSeq'
    BY <1>1 DEF SendRequest, SeqIsFree
  <2> QED  BY <1>1, <2>1 DEF InOrder, snapVars, heldVars
<1>2. ASSUME UNCHANGED <<answers, refreshSeq, snapshot, held, shown>>,
             inFlight' = inFlight \/ inFlight' = FALSE
      PROVE  InOrder'
  BY <1>2 DEF InOrder
<1>3. CASE ServeRequest
  <2>1. UNCHANGED <<refreshSeq, inFlight, snapshot, held, shown>>
    BY <1>3 DEF ServeRequest, refreshVars, snapVars, heldVars
  <2>2. \A i \in DOMAIN answers' : \/ i \in DOMAIN answers /\ answers'[i] = answers[i]
                                   \/ answers'[i].snap = GetListings
    BY <1>3, ServedAnswers
  <2>3. snapshot.known \subseteq GetListings.known
    BY <1>0 DEF GetListings, Sound, Committed
  <2> QED  BY <2>1, <2>2, <2>3 DEF InOrder
<1>4. CASE OnRefreshResponse
  <2>1. answers # <<>> /\ answers' = Tail(answers) /\ UNCHANGED <<refreshSeq, held, shown>>
    BY <1>4 DEF OnRefreshResponse, heldVars
  <2>2. \A i \in DOMAIN Tail(answers) :
           i + 1 \in DOMAIN answers /\ Tail(answers)[i] = answers[i + 1]
    BY <1>0, <2>1, TailShifts
  <2>3. 1 \in DOMAIN answers /\ Head(answers) = answers[1]
    BY <1>0, <2>1
  <2>4. CASE Expected(Head(answers).seq)
    <3>1. snapshot' = Head(answers).snap /\ inFlight' = FALSE
      BY <1>4, <2>4 DEF OnRefreshResponse
    <3>2. snapshot.known \subseteq snapshot'.known
      BY <2>3, <2>4, <3>1 DEF InOrder, Expected
    <3> QED  BY <2>1, <3>1, <3>2 DEF InOrder
  <2>5. CASE ~Expected(Head(answers).seq)
    <3>1. UNCHANGED <<snapshot, inFlight>>
      BY <1>4, <2>5 DEF OnRefreshResponse, snapVars
    <3>2. \A i \in DOMAIN answers' :
             i + 1 \in DOMAIN answers /\ answers'[i] = answers[i + 1]
      BY <2>1, <2>2
    <3> QED  BY <2>1, <3>1, <3>2 DEF InOrder
  <2> QED  BY <2>4, <2>5
<1>5. CASE LoadSnapshot
  <2>1. /\ UNCHANGED <<answers, refreshSeq, inFlight, snapshot, shown>>
        /\ held' = snapshot
    BY <1>5 DEF LoadSnapshot, netVars, refreshVars, snapVars
  <2> QED  BY <2>1 DEF InOrder
<1>6. CASE TrySendList \/ Validated
  <2>1. /\ UNCHANGED <<answers, refreshSeq, inFlight, snapshot>>
        /\ held' = NoSnapshot /\ held # NoSnapshot
    BY <1>6 DEF TrySendList, Validated, CallReturns, netVars, refreshVars, snapVars
  <2>2. shown' \subseteq shown \cup held.known
    <3>1. BuildClientPacket(held) \subseteq DOMAIN held.items
      BY DEF BuildClientPacket
    <3>2. DOMAIN held.items \subseteq held.known
      BY <1>0 DEF Sound
    <3> QED  BY <1>6, <3>1, <3>2 DEF TrySendList, Validated
  <2>3. held'.known = {}
    BY <2>1 DEF NoSnapshot
  <2> QED  BY <2>1, <2>2, <2>3 DEF InOrder
<1>7. CASE OnConnect
  <2>1. SendRequest /\ SeqIsFree(NextSeq) /\ UNCHANGED <<answers, snapVars, heldVars>>
    BY <1>7 DEF OnConnect
  <2> QED  BY <1>1, <2>1
<1>8. CASE OnTimer
  <2>1. CASE inFlight
    <3>1. UNCHANGED <<answers, inFlight, refreshSeq, snapshot, held, shown>>
      BY <1>8, <2>1 DEF OnTimer, snapVars, heldVars
    <3> QED  BY <1>2, <3>1
  <2>2. CASE ~inFlight
    <3>1. SendRequest /\ SeqIsFree(NextSeq) /\ UNCHANGED <<answers, snapVars, heldVars>>
      BY <1>8, <2>2 DEF OnTimer
    <3> QED  BY <1>1, <3>1
  <2> QED  BY <2>1, <2>2
<1>9. CASE Table \/ TimeoutExpires \/ MarkDirty \/ Tick \/ UNCHANGED vars
  <2>1. UNCHANGED <<answers, inFlight, refreshSeq, snapshot, held, shown>>
    BY <1>9 DEF Table, DrawId, CommitListing, Sell, Expire, TimeoutExpires, MarkDirty,
       Tick, vars, netVars, refreshVars, snapVars, heldVars
  <2> QED  BY <1>2, <2>1
<1>10. ASSUME NEW seq \in Seqs, RunTimeout(seq)
       PROVE  InOrder'
  <2>1. /\ UNCHANGED <<answers, refreshSeq, snapshot, held, shown>>
        /\ inFlight' = inFlight \/ inFlight' = FALSE
    BY <1>10 DEF RunTimeout, GiveUp, netVars, snapVars, heldVars
  <2> QED  BY <1>2, <2>1
<1> QED
  BY <1>3, <1>4, <1>5, <1>6, <1>7, <1>8, <1>9, <1>10 DEF Next, Refresh

LEMMA InitVerdict == Init => SnapshotsSound /\ InOrder
<1> SUFFICES ASSUME Init PROVE SnapshotsSound /\ InOrder
  OBVIOUS
<1>1. /\ snapshot = NoSnapshot /\ held = NoSnapshot /\ answers = <<>>
      /\ shown = {} /\ inFlight = FALSE
  BY DEF Init
<1> QED  BY <1>1, NoSnapshotIsSound DEF SnapshotsSound, InOrder

LEMMA VerdictInvHolds == Spec => []VerdictInv
<1>1. Init => SnapshotsSound /\ InOrder
  BY InitVerdict
<1>2. /\ LoopInv /\ LoopInv' /\ SnapshotsSound /\ InOrder /\ [Next]_vars
      => SnapshotsSound' /\ InOrder'
  <2>1. LoopInv => TypeOK
    BY DEF LoopInv
  <2>2. LoopInv' => TypeOK'
    BY DEF LoopInv
  <2> QED  BY <2>1, <2>2, SnapshotsSoundKept, InOrderKept
<1>3. Spec => []LoopInv
  BY LoopInvHolds
<1>4. LoopInv /\ SnapshotsSound /\ InOrder <=> VerdictInv
  BY DEF VerdictInv
<1> QED  BY <1>1, <1>2, <1>3, <1>4, PTL DEF Spec

(* A refusal for the quantity or the seller is right however old the       *)
(* snapshot is: a listing only loses quantity (AuctionCache.cpp:217-227).  *)
THEOREM CacheRefusalsAreRight == Spec => []RefusalsAreRight
<1>1. VerdictInv => RefusalsAreRight
  <2> SUFFICES ASSUME VerdictInv,
                      NEW id \in Ids, NEW count \in Counts, NEW buyer \in Buyers,
                      ValidatePurchase(id, count, buyer)
                         \in {"RejectShortage", "RejectOwn"},
                      CanBuy(id, count, buyer)
               PROVE  FALSE
    BY DEF RefusalsAreRight
  <2>1. TypeOK /\ Sound(held)
    BY DEF VerdictInv, LoopInv, SnapshotsSound
  <2>2. id \in DOMAIN held.items
    BY DEF ValidatePurchase
  <2>3. left[id] <= held.items[id] /\ id \in DOMAIN held.items
    BY <2>1, <2>2 DEF Sound
  <2>4. left[id] \in Nat /\ held.items[id] \in Nat /\ count \in Nat
    BY <2>1, <2>2, CacheAssumption DEF TypeOK, Snapshots, Counts
  <2>5. count \in 1 .. left[id] /\ SellerOf[id] # buyer
    BY DEF CanBuy
  <2>6. InStock(id, count)
    BY <2>3, <2>4, <2>5 DEF InStock
  <2> QED  BY <2>2, <2>5, <2>6 DEF ValidatePurchase
<1> QED  BY <1>1, VerdictInvHolds, PTL

(* A listing that was committed when the snapshot was read is refused as   *)
(* not found only when it is gone (AuctionCache.cpp:206-214).              *)
THEOREM CacheAbsentMeansGone == Spec => []AbsentMeansGone
<1>1. VerdictInv => AbsentMeansGone
  BY DEF VerdictInv, SnapshotsSound, Sound, AbsentMeansGone, ValidatePurchase,
     BeyondMaxListId
<1> QED  BY <1>1, VerdictInvHolds, PTL

(* A listing of a list the cache sent to a client is refused as not found  *)
(* only when it is gone: the lists that replace the one the client saw     *)
(* were read later (AuctionCache.cpp:52-79, 185-214).                      *)
THEOREM CacheShownIsThere == Spec => []ShownIsThere
<1>1. VerdictInv => ShownIsThere
  <2> SUFFICES ASSUME VerdictInv, NEW id \in shown,
                      ValidatePurchase(id, 1, 0) = "RejectNotFound"
               PROVE  status[id] = "gone"
    BY DEF ShownIsThere
  <2>1. held # NoSnapshot /\ id \notin DOMAIN held.items /\ ~BeyondMaxListId(id)
    BY DEF ValidatePurchase, IsFresh
  <2>2. id \in held.known /\ Sound(held)
    BY <2>1 DEF VerdictInv, InOrder, SnapshotsSound
  <2> QED  BY <2>1, <2>2 DEF Sound, BeyondMaxListId
<1> QED  BY <1>1, VerdictInvHolds, PTL
=============================================================================
