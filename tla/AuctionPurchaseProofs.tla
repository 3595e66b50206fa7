------------------------ MODULE AuctionPurchaseProofs ------------------------
(***************************************************************************)
(* Theorems about AuctionPurchase, for any number of workers, players,     *)
(* characters, listings, requests and attempts.                            *)
(***************************************************************************)
EXTENDS AuctionPurchase, FiniteSetTheorems, TLAPS

RegistSteps == {"insert", "inserted", "answer"}
LockedSteps == {"charge", "take", "record", "receipts", "commit"}

(* What is queued or being run was received; the step a worker is at tells *)
(* which kind of request it has.                                           *)
Tasks ==
    /\ \A r \in DOMAIN req : req[r].kind = "purchase" => req[r].list \in ListIds
    /\ \A w \in Writers :
          /\ \A i \in DOMAIN queue[w] : queue[w][i] \in DOMAIN req
          /\ pc[w] # "idle" => cur[w] \in DOMAIN req
          /\ pc[w] \in RegistSteps => ThePurchase(w).kind = "regist"
          /\ pc[w] \notin RegistSteps \cup {"idle"} => ThePurchase(w).kind = "purchase"

(* Worker w has no open transaction: nothing to persist and no lock. *)
NothingOpen(w) ==
    /\ charged[w] = {} /\ ~took[w] /\ ~logged[w] /\ ~receipted[w]
    /\ \A l \in ListIds : listLock[l] # w
    /\ \A p \in Players : goldLock[p] # w

(* Its purchase has locked the listing, and what it read there is so. *)
Locked(w) ==
    LET q == ThePurchase(w)
    IN  /\ listLock[q.list] = w
        /\ q.list \in rows
        /\ seen[w] = stock[q.list]
        /\ total[w] = info[q.list].price * q.count

(* The locks and the private writes of a worker, step by step. *)
Transaction(w) ==
    LET q == ThePurchase(w)
    IN  /\ ~up[w] \/ pc[w] \notin LockedSteps \cup {"rollback"} => NothingOpen(w)
        /\ up[w] /\ pc[w] \in LockedSteps => Locked(w)
        /\ up[w] /\ pc[w] \in LockedSteps \ {"charge"} => charged[w] # {}
        /\ up[w] /\ pc[w] \in {"record", "receipts", "commit"} => took[w]
        /\ up[w] /\ pc[w] \in {"receipts", "commit"} => logged[w]
        /\ up[w] /\ pc[w] = "commit" => receipted[w]
        /\ took[w] => q.count <= seen[w]
        /\ charged[w] # {} => goldLock[q.player] = w
        /\ \A c \in charged[w] : AccountOf[c] = q.player /\ gold[c] >= total[w]

Transactions == \A w \in Writers : Transaction(w)

(* An id nobody has registered a listing under. *)
Unused(l) == l \notin rows /\ info[l] = Nothing

(* The ids the counter has not reached are unused, and so is an id drawn   *)
(* by an INSERT that has not committed; no two INSERTs draw the same.      *)
DrawnIds ==
    /\ \A l \in ListIds : l >= nextId => Unused(l)
    /\ \A w \in Writers : pc[w] = "inserted" =>
          seen[w] \in ListIds /\ seen[w] < nextId /\ Unused(seen[w])
    /\ \A v, w \in Writers :
          v # w /\ pc[v] = "inserted" /\ pc[w] = "inserted" => seen[v] # seen[w]

IInv == TypeOK /\ Tasks /\ Transactions /\ DrawnIds /\ StockConserved

(* A purchase past the first check of TryPurchase asks for one or more.    *)
CheckedSteps == {"select"} \cup LockedSteps
Counted == \A w \in Writers : pc[w] \in CheckedSteps => ThePurchase(w).count > 0

LEMMA InitInv == Init => IInv
<1> SUFFICES ASSUME Init PROVE IInv
  OBVIOUS
<1> USE ConstantsAssumption DEF Init
<1>0. /\ Nothing.qty = 0 /\ Nothing.price = 0
      /\ \A l \in ListIds : info[l] \in Listing \cup {Nothing}
      /\ \A x \in Listing : x.qty \in Int /\ x.price \in Int
  <2>1. \A l \in DOMAIN Opening : Opening[l] \in Listing
    OBVIOUS
  <2>2. QED
    BY <2>1 DEF Listing, Nothing
<1>1. TypeOK
  <2>1. /\ rows \subseteq ListIds /\ expired \subseteq ListIds
        /\ info \in [ListIds -> Listing \cup {Nothing}]
        /\ \A l \in ListIds : info[l].qty \in Int
    BY <1>0 DEF ListIds
  <2>2. stock \in [ListIds -> Int]
    BY <2>1
  <2>3. /\ req \in Seq(Request) /\ queue \in [Writers -> Seq(Nat)]
        /\ replies \in Seq([req : Nat, ok : BOOLEAN, gold : Int])
    OBVIOUS
  <2>4. /\ nextId \in Nat \ {0} /\ gold \in [Characters -> Nat] /\ trades \in Nat
        /\ delivered \in [ListIds -> Nat] /\ paid \in [ListIds -> Int]
        /\ bought \subseteq Nat
        /\ listLock \in [ListIds -> Writers \cup {NoWriter}]
        /\ goldLock \in [Players -> Writers \cup {NoWriter}]
    OBVIOUS
  <2>5. /\ up \in [Writers -> BOOLEAN] /\ autocommit \in [Writers -> BOOLEAN]
        /\ pc \in [Writers -> Steps]
        /\ cur \in [Writers -> Nat] /\ attempt \in [Writers -> 0 .. kMaxTxAttempts]
        /\ total \in [Writers -> Int] /\ seen \in [Writers -> Int]
    BY DEF Steps
  <2>6. /\ err \in [Writers -> {"none", "deadlock", "lockwait", "other"}]
        /\ ok \in [Writers -> BOOLEAN]
        /\ charged \in [Writers -> SUBSET Characters]
        /\ took \in [Writers -> BOOLEAN]
        /\ logged \in [Writers -> BOOLEAN] /\ receipted \in [Writers -> BOOLEAN]
    OBVIOUS
  <2>7. QED
    BY <2>1, <2>2, <2>3, <2>4, <2>5, <2>6 DEF TypeOK
<1>2. Tasks /\ Transactions
  BY DEF Tasks, Transactions, Transaction, NothingOpen, LockedSteps, RegistSteps, Writers,
         NoWriter
<1>3. DrawnIds
  BY DEF DrawnIds, Unused, ListIds
<1>4. StockConserved
  <2>1. \A l \in ListIds : info[l].qty \in Int /\ info[l].price \in Int
    BY <1>0
  <2>2. QED
    BY <2>1 DEF StockConserved
<1>5. QED
  BY <1>1, <1>2, <1>3, <1>4 DEF IInv
-----------------------------------------------------------------------------
(* What a step of one worker leaves alone.                                 *)

LEMMA WritersAreReal == \A w \in Writers : w # NoWriter
BY DEF Writers, NoWriter

(* A worker whose own state, locks, listing and characters are untouched   *)
(* is where it was in its transaction.                                     *)
LEMMA OtherWorker ==
    ASSUME TypeOK, Tasks, NEW v \in Writers, Transaction(v),
           /\ pc'[v] = pc[v] /\ cur'[v] = cur[v] /\ up'[v] = up[v]
           /\ seen'[v] = seen[v] /\ total'[v] = total[v]
           /\ charged'[v] = charged[v] /\ took'[v] = took[v]
           /\ logged'[v] = logged[v] /\ receipted'[v] = receipted[v],
           \A r \in DOMAIN req : req'[r] = req[r],
           \A l \in ListIds : listLock'[l] = v <=> listLock[l] = v,
           \A p \in Players : goldLock'[p] = v <=> goldLock[p] = v,
           \A l \in rows : listLock[l] = v =>
              l \in rows' /\ stock'[l] = stock[l] /\ info'[l] = info[l],
           \A c \in Characters : goldLock[AccountOf[c]] = v => gold'[c] = gold[c]
    PROVE  Transaction(v)'
<1>1. CASE ~up[v] \/ pc[v] \notin LockedSteps \cup {"rollback"}
  <2>1. NothingOpen(v) /\ NothingOpen(v)'
    BY <1>1 DEF Transaction, NothingOpen
  <2>2. QED
    BY <1>1, <2>1 DEF Transaction, NothingOpen
<1>2. CASE up[v] /\ pc[v] \in LockedSteps \cup {"rollback"}
  <2>1. cur[v] \in DOMAIN req /\ req'[cur[v]] = req[cur[v]]
           /\ req[cur[v]].list \in ListIds /\ req[cur[v]].player \in Players
    <3>1. pc[v] \notin RegistSteps \cup {"idle"}
      BY <1>2 DEF LockedSteps, RegistSteps
    <3>2. cur[v] \in DOMAIN req /\ req[cur[v]].list \in ListIds
      BY <3>1 DEF Tasks, ThePurchase
    <3>3. req[cur[v]] \in Request
      BY <3>2 DEF TypeOK
    <3>4. QED
      BY <3>2, <3>3 DEF Request
  <2>2. ThePurchase(v)' = ThePurchase(v)
    BY <2>1 DEF ThePurchase
  <2>3. Locked(v) => Locked(v)'
    BY <2>1, <2>2 DEF Locked, ThePurchase
  <2>4. charged[v] \subseteq Characters
    BY DEF TypeOK
  <2>5. charged[v] # {} => goldLock'[ThePurchase(v).player] = v
    BY <2>1 DEF Transaction, ThePurchase
  <2>6. \A c \in charged[v] : AccountOf[c] = ThePurchase(v).player /\ gold'[c] >= total[v]
    BY <2>4 DEF Transaction
  <2>7. QED
    BY <1>2, <2>2, <2>3, <2>5, <2>6 DEF Transaction
<1>3. QED
  BY <1>1, <1>2

(* A worker with nothing open is where it should be before its SELECT and  *)
(* after its transaction.                                                  *)
LEMMA NothingIsOpen ==
    ASSUME NEW v \in Writers, NothingOpen(v)', pc'[v] \notin LockedSteps
    PROVE  Transaction(v)'
BY DEF NothingOpen, Transaction, LockedSteps

(* A jump of one worker, and a statement that throws: where it is now, and *)
(* that the others are where they were.                                    *)
LEMMA JumpMoves ==
    ASSUME pc \in [Writers -> Steps], NEW w \in Writers, NEW s \in Steps, Goto(w, s)
    PROVE  /\ pc' \in [Writers -> Steps] /\ pc'[w] = s
           /\ \A v \in Writers : v # w => pc'[v] = pc[v]
BY DEF Goto

LEMMA ThrowMoves ==
    ASSUME pc \in [Writers -> Steps],
           err \in [Writers -> {"none", "deadlock", "lockwait", "other"}],
           NEW w \in Writers, NEW code \in {"deadlock", "lockwait", "other"},
           Throw(w, code)
    PROVE  /\ pc' \in [Writers -> Steps] /\ pc'[w] = "rollback"
           /\ \A v \in Writers : v # w => pc'[v] = pc[v]
           /\ err' \in [Writers -> {"none", "deadlock", "lockwait", "other"}]
<1>1. Goto(w, "rollback") /\ err' = [err EXCEPT ![w] = code]
  BY DEF Throw
<1>2. "rollback" \in Steps
  BY DEF Steps
<1>3. QED
  BY <1>1, <1>2, JumpMoves

(* A step that touches only what a transaction works with keeps the types  *)
(* if it keeps those of what it touches.                                   *)
LEMMA StatementTypes ==
    ASSUME TypeOK,
           UNCHANGED <<requestVars, replies, tableVars, expired, info, nextId, up, cur,
                       attempt, ok>>,
           /\ listLock' \in [ListIds -> Writers \cup {NoWriter}]
           /\ goldLock' \in [Players -> Writers \cup {NoWriter}]
           /\ autocommit' \in [Writers -> BOOLEAN]
           /\ pc' \in [Writers -> Steps]
           /\ total' \in [Writers -> Int] /\ seen' \in [Writers -> Int]
           /\ err' \in [Writers -> {"none", "deadlock", "lockwait", "other"}]
           /\ charged' \in [Writers -> SUBSET Characters]
           /\ took' \in [Writers -> BOOLEAN]
           /\ logged' \in [Writers -> BOOLEAN] /\ receipted' \in [Writers -> BOOLEAN]
    PROVE  TypeOK'
BY DEF TypeOK, requestVars, tableVars

LEMMA TasksKept ==
    ASSUME TypeOK, Tasks, UNCHANGED <<req, queue>>,
           \A v \in Writers :
              \/ pc'[v] = "idle"
              \/ /\ cur'[v] = cur[v] /\ pc[v] # "idle"
                 /\ pc'[v] \in RegistSteps <=> pc[v] \in RegistSteps
    PROVE  Tasks'
BY DEF Tasks, ThePurchase, RegistSteps

LEMMA DrawnIdsKept ==
    ASSUME DrawnIds, UNCHANGED <<info, nextId>>, rows' \subseteq rows,
           \A v \in Writers : pc'[v] = "inserted" => pc[v] = "inserted" /\ seen'[v] = seen[v]
    PROVE  DrawnIds'
BY DEF DrawnIds, Unused

LEMMA BeginInv == ASSUME IInv, NEW w \in Writers, Begin(w) PROVE IInv'
<1> USE ConstantsAssumption DEF IInv
<1>0. /\ pc[w] = "begin" /\ pc' \in [Writers -> Steps]
      /\ pc'[w] \in {"rollback", "select"}
      /\ \A v \in Writers : v # w => pc'[v] = pc[v]
      /\ err' \in [Writers -> {"none", "deadlock", "lockwait", "other"}]
  <2>1. CASE ThePurchase(w).count <= 0
    BY <2>1, ThrowMoves DEF Begin, TypeOK
  <2>2. CASE ~(ThePurchase(w).count <= 0)
    <3>1. Goto(w, "select") /\ err' = err /\ "select" \in Steps
      BY <2>2 DEF Begin, Steps, TransactionSteps
    <3>2. QED
      BY <3>1, JumpMoves DEF Begin, TypeOK
  <2>3. QED
    BY <2>1, <2>2
<1>1. TypeOK'
  <2>1. autocommit' \in [Writers -> BOOLEAN]
    BY DEF Begin, TypeOK
  <2>2. QED
    BY <1>0, <2>1, StatementTypes DEF Begin, TypeOK, lockVars, txVars
<1>2. Tasks'
  <2>1. \A v \in Writers : /\ pc'[v] = "idle" <=> pc[v] = "idle"
                           /\ pc'[v] \in RegistSteps <=> pc[v] \in RegistSteps
    BY <1>0 DEF RegistSteps
  <2>2. QED
    BY <2>1, TasksKept DEF Begin, requestVars
<1>3. Transactions'
  <2>1. Transaction(w)'
    <3>1. NothingOpen(w)'
      BY DEF Begin, Transactions, Transaction, NothingOpen, LockedSteps, lockVars, txVars
    <3>2. pc'[w] \notin LockedSteps
      BY DEF Begin, Throw, Goto, LockedSteps, TypeOK
    <3>3. QED
      BY <3>1, <3>2, NothingIsOpen
  <2>2. ASSUME NEW v \in Writers, v # w PROVE Transaction(v)'
    BY <2>2, OtherWorker DEF Begin, Throw, Goto, Transactions, TypeOK, lockVars, txVars,
           tableVars, requestVars
  <2>3. QED
    BY <2>1, <2>2 DEF Transactions
<1>4. DrawnIds'
  BY DrawnIdsKept DEF Begin, Throw, Goto, tableVars, TypeOK
<1>5. StockConserved'
  BY DEF Begin, StockConserved, tableVars
<1>6. QED
  BY <1>1, <1>2, <1>3, <1>4, <1>5

(* The request a worker is running a transaction for. *)
LEMMA PurchaseIsTyped ==
    ASSUME TypeOK, Tasks, NEW w \in Writers, pc[w] \notin RegistSteps \cup {"idle"}
    PROVE  /\ cur[w] \in DOMAIN req /\ ThePurchase(w) \in Request
           /\ ThePurchase(w).list \in ListIds /\ ThePurchase(w).player \in Players
           /\ ThePurchase(w).count \in Int
<1>1. cur[w] \in DOMAIN req /\ ThePurchase(w).list \in ListIds
  BY DEF Tasks, ThePurchase
<1>2. ThePurchase(w) \in Request
  BY <1>1 DEF TypeOK, ThePurchase
<1>3. QED
  BY <1>1, <1>2 DEF Request

(* What a registration's id and a listing are worth is a number. *)
LEMMA InfoIsTyped ==
    ASSUME TypeOK, NEW l \in ListIds
    PROVE  info[l].price \in Int /\ info[l].qty \in Int
<1>1. info[l] \in Listing \/ info[l] = Nothing
  BY DEF TypeOK
<1>2. QED
  BY <1>1 DEF Listing, Nothing

LEMMA SelectInv == ASSUME IInv, NEW w \in Writers, SelectForUpdate(w) PROVE IInv'
<1> USE ConstantsAssumption DEF IInv
<1> DEFINE q == ThePurchase(w)
           l == q.list
<1>1. pc[w] = "select" /\ up[w] /\ q.list \in ListIds /\ q.count \in Int
         /\ info[l].price \in Int /\ stock[l] \in Int /\ info[l].price * q.count \in Int
  <2>1. pc[w] = "select" /\ up[w]
    BY DEF SelectForUpdate
  <2>2. q.list \in ListIds /\ q.count \in Int
    BY <2>1, PurchaseIsTyped DEF RegistSteps
  <2>3. info[l].price \in Int /\ stock[l] \in Int
    BY <2>2, InfoIsTyped DEF TypeOK
  <2>4. QED
    BY <2>1, <2>2, <2>3
<1>2. /\ listLock[l] = NoWriter
      /\ listLock' = listLock \/ listLock' = [listLock EXCEPT ![l] = w]
      /\ \/ pc'[w] = "rollback"
         \/ /\ pc'[w] = "charge" /\ l \in rows /\ seen'[w] = stock[l]
            /\ total'[w] = info[l].price * q.count
            /\ listLock' = [listLock EXCEPT ![l] = w]
      /\ \A v \in Writers : v # w =>
            pc'[v] = pc[v] /\ seen'[v] = seen[v] /\ total'[v] = total[v]
      /\ UNCHANGED <<requestVars, tableVars, info, nextId, goldLock, up, cur, txVars>>
  <2>1. /\ pc \in [Writers -> Steps] /\ seen \in [Writers -> Int]
        /\ total \in [Writers -> Int]
    BY DEF TypeOK
  <2>2. listLock[l] = NoWriter
    BY DEF SelectForUpdate, LockFree
  <2>3. UNCHANGED <<requestVars, tableVars, info, nextId, goldLock, up, cur, txVars>>
    BY DEF SelectForUpdate
  <2>4. \/ Goto(w, "rollback") /\ UNCHANGED <<seen, total>>
        \/ /\ l \in rows /\ seen' = [seen EXCEPT ![w] = stock[l]]
           /\ total' = [total EXCEPT ![w] = info[l].price * q.count]
           /\ Goto(w, "rollback") \/ Goto(w, "charge")
    BY DEF SelectForUpdate, Throw
  <2>5. /\ listLock' = listLock \/ listLock' = [listLock EXCEPT ![l] = w]
        /\ l \in rows => listLock' = [listLock EXCEPT ![l] = w]
    BY DEF SelectForUpdate
  <2>6. QED
    BY <2>1, <2>2, <2>3, <2>4, <2>5 DEF Goto
<1>3. TypeOK'
  <2>1. /\ pc' \in [Writers -> Steps]
        /\ err' \in [Writers -> {"none", "deadlock", "lockwait", "other"}]
    <3>1. CASE err' = err /\ Goto(w, "charge")
      BY <3>1, JumpMoves DEF TypeOK, Steps, TransactionSteps
    <3>2. CASE Throw(w, "other")
      BY <3>2, ThrowMoves DEF TypeOK
    <3>3. QED
      BY <3>1, <3>2 DEF SelectForUpdate
  <2>2. total' \in [Writers -> Int] /\ seen' \in [Writers -> Int]
    <3>1. /\ seen' = seen \/ seen' = [seen EXCEPT ![w] = stock[l]]
          /\ total' = total \/ total' = [total EXCEPT ![w] = info[l].price * q.count]
      BY DEF SelectForUpdate
    <3>2. total \in [Writers -> Int] /\ seen \in [Writers -> Int]
      BY DEF TypeOK
    <3>3. QED
      BY <1>1, <3>1, <3>2
  <2>3. listLock' \in [ListIds -> Writers \cup {NoWriter}]
    <3>1. listLock \in [ListIds -> Writers \cup {NoWriter}]
      BY DEF TypeOK
    <3>2. QED
      BY <1>2, <3>1
  <2>4. UNCHANGED <<requestVars, replies, tableVars, expired, info, nextId, goldLock, up,
                    autocommit, cur, attempt, ok, txVars>>
    BY DEF SelectForUpdate
  <2>5. /\ goldLock' \in [Players -> Writers \cup {NoWriter}]
        /\ autocommit' \in [Writers -> BOOLEAN]
        /\ charged' \in [Writers -> SUBSET Characters] /\ took' \in [Writers -> BOOLEAN]
        /\ logged' \in [Writers -> BOOLEAN] /\ receipted' \in [Writers -> BOOLEAN]
    <3>1. UNCHANGED <<goldLock, autocommit, charged, took, logged, receipted>>
      BY <2>4 DEF txVars
    <3>2. QED
      BY <3>1 DEF TypeOK
  <2>6. UNCHANGED <<requestVars, replies, tableVars, expired, info, nextId, up, cur,
                    attempt, ok>>
    BY <2>4
  <2>7. QED
    BY <2>1, <2>2, <2>3, <2>5, <2>6, StatementTypes
<1>4. Tasks'
  BY <1>1, <1>2, TasksKept DEF RegistSteps, requestVars
<1>5. Transactions'
  <2>1. NothingOpen(w) /\ ThePurchase(w)' = ThePurchase(w)
    BY <1>1, <1>2 DEF Transactions, Transaction, LockedSteps, ThePurchase, requestVars
  <2>2. Transaction(w)'
    <3>1. CASE pc'[w] = "rollback"
      <4>1. listLock'[l] = w \/ listLock' = listLock
        BY <1>1, <1>2 DEF TypeOK
      <4>2. charged'[w] = {} /\ ~took'[w]
        BY <1>2, <2>1 DEF NothingOpen, txVars
      <4>3. up'[w]
        BY <1>1, <1>2
      <4>4. QED
        BY <3>1, <4>2, <4>3 DEF Transaction, LockedSteps
    <3>2. CASE pc'[w] = "charge"
      <4>1. Locked(w)'
        <5>1. /\ ThePurchase(w)' = q /\ rows' = rows /\ stock' = stock /\ info' = info
          BY <1>2, <2>1 DEF tableVars
        <5>2. listLock'[l] = w
          BY <1>1, <1>2, <3>2 DEF TypeOK
        <5>3. QED
          BY <1>2, <3>2, <5>1, <5>2 DEF Locked
      <4>2. charged'[w] = {} /\ ~took'[w] /\ up'[w]
        BY <1>1, <1>2, <2>1 DEF NothingOpen, txVars
      <4>3. QED
        BY <3>2, <4>1, <4>2 DEF Transaction, LockedSteps
    <3>3. QED
      BY <1>2, <3>1, <3>2
  <2>3. ASSUME NEW v \in Writers, v # w PROVE Transaction(v)'
    <3>1. \A k \in ListIds : listLock'[k] = v <=> listLock[k] = v
      <4>1. listLock \in [ListIds -> Writers \cup {NoWriter}] /\ v # NoWriter
        BY WritersAreReal DEF TypeOK
      <4>2. QED
        BY <1>2, <2>3, <4>1
    <3>2. QED
      BY <1>2, <2>3, <3>1, OtherWorker DEF Transactions, tableVars, requestVars, txVars
  <2>4. QED
    BY <2>2, <2>3 DEF Transactions
<1>6. DrawnIds'
  BY <1>1, <1>2, DrawnIdsKept DEF tableVars
<1>7. StockConserved'
  BY <1>2 DEF StockConserved, tableVars
<1>8. QED
  BY <1>3, <1>4, <1>5, <1>6, <1>7

LEMMA ChargeInv == ASSUME IInv, NEW w \in Writers, ChargeGold(w) PROVE IInv'
<1> USE ConstantsAssumption DEF IInv
<1> DEFINE p == ThePurchase(w).player
           payers == Payers(p, total[w])
<1>1. pc[w] = "charge" /\ up[w] /\ p \in Players /\ payers \subseteq Characters
  BY PurchaseIsTyped DEF ChargeGold, RegistSteps, Payers
<1>2. /\ goldLock[p] = NoWriter /\ goldLock' = [goldLock EXCEPT ![p] = w]
      /\ charged' = [charged EXCEPT ![w] = payers]
      /\ \/ pc'[w] = "rollback"
         \/ pc'[w] = "take" /\ payers # {}
      /\ \A v \in Writers : v # w => pc'[v] = pc[v]
      /\ UNCHANGED <<requestVars, tableVars, info, nextId, listLock, up, cur, total, seen,
                     took, logged, receipted>>
  BY DEF ChargeGold, LockFree, Affected, Throw, Goto, TypeOK
<1>3. TypeOK'
  <2>1. /\ pc' \in [Writers -> Steps]
        /\ err' \in [Writers -> {"none", "deadlock", "lockwait", "other"}]
    <3>1. CASE Affected(payers)
      <4>1. Goto(w, "take") /\ err' = err /\ "take" \in Steps
        BY <3>1 DEF ChargeGold, Steps, TransactionSteps
      <4>2. QED
        BY <4>1, JumpMoves DEF TypeOK
    <3>2. CASE ~Affected(payers)
      BY <3>2, ThrowMoves DEF ChargeGold, TypeOK
    <3>3. QED
      BY <3>1, <3>2
  <2>2. /\ goldLock' \in [Players -> Writers \cup {NoWriter}]
        /\ charged' \in [Writers -> SUBSET Characters]
    BY <1>1, <1>2 DEF TypeOK
  <2>3. QED
    BY <2>1, <2>2, StatementTypes DEF ChargeGold, TypeOK
<1>4. Tasks'
  BY <1>1, <1>2, TasksKept DEF RegistSteps, requestVars
<1>5. Transactions'
  <2>1. ThePurchase(w)' = ThePurchase(w) /\ (Locked(w) => Locked(w)')
    BY <1>2 DEF Locked, ThePurchase, requestVars, tableVars
  <2>2. charged'[w] = payers /\ goldLock'[p] = w
    BY <1>1, <1>2 DEF TypeOK
  <2>3. \A c \in payers : AccountOf[c] = p /\ gold'[c] >= total'[w]
    BY <1>2 DEF Payers, tableVars
  <2>4. Transaction(w)'
    BY <1>1, <1>2, <2>1, <2>2, <2>3 DEF Transactions, Transaction, LockedSteps
  <2>5. ASSUME NEW v \in Writers, v # w PROVE Transaction(v)'
    <3>1. \A k \in Players : goldLock'[k] = v <=> goldLock[k] = v
      BY <1>1, <1>2, <2>5, WritersAreReal DEF TypeOK
    <3>2. charged'[v] = charged[v]
      BY <1>2, <2>5 DEF TypeOK
    <3>3. QED
      BY <1>2, <2>5, <3>1, <3>2, OtherWorker DEF Transactions, tableVars, requestVars
  <2>6. QED
    BY <2>4, <2>5 DEF Transactions
<1>6. DrawnIds'
  BY <1>1, <1>2, DrawnIdsKept DEF tableVars
<1>7. StockConserved'
  BY <1>2 DEF StockConserved, tableVars
<1>8. QED
  BY <1>3, <1>4, <1>5, <1>6, <1>7

LEMMA TakeInv == ASSUME IInv, NEW w \in Writers, TakeStock(w) PROVE IInv'
<1> USE ConstantsAssumption DEF IInv
<1> DEFINE q == ThePurchase(w)
<1>1. pc[w] = "take" /\ up[w] /\ q.list \in ListIds /\ q.count \in Int
  BY PurchaseIsTyped DEF TakeStock, RegistSteps
<1>2. /\ \/ pc'[w] = "rollback" /\ took' = took
         \/ /\ pc'[w] = "record" /\ took' = [took EXCEPT ![w] = TRUE]
            /\ seen[w] = q.count \/ stock[q.list] > q.count
      /\ \A v \in Writers : v # w => pc'[v] = pc[v]
      /\ UNCHANGED <<requestVars, tableVars, info, nextId, lockVars, up, cur, total, seen,
                     charged, logged, receipted>>
  BY DEF TakeStock, Affected, Throw, Goto, TypeOK
<1>3. TypeOK'
  <2>1. /\ pc' \in [Writers -> Steps]
        /\ err' \in [Writers -> {"none", "deadlock", "lockwait", "other"}]
    <3>1. CASE err' = err /\ Goto(w, "record")
      BY <3>1, JumpMoves DEF TypeOK, Steps, TransactionSteps
    <3>2. CASE Throw(w, "other")
      BY <3>2, ThrowMoves DEF TypeOK
    <3>3. QED
      BY <3>1, <3>2 DEF TakeStock
  <2>2. took' \in [Writers -> BOOLEAN]
    BY <1>2 DEF TypeOK
  <2>3. UNCHANGED <<requestVars, replies, tableVars, expired, info, nextId, lockVars, up,
                    autocommit, cur, attempt, total, seen, ok, charged, logged, receipted>>
    BY DEF TakeStock
  <2>4. /\ listLock' \in [ListIds -> Writers \cup {NoWriter}]
        /\ goldLock' \in [Players -> Writers \cup {NoWriter}]
        /\ autocommit' \in [Writers -> BOOLEAN]
        /\ total' \in [Writers -> Int] /\ seen' \in [Writers -> Int]
        /\ charged' \in [Writers -> SUBSET Characters]
        /\ logged' \in [Writers -> BOOLEAN] /\ receipted' \in [Writers -> BOOLEAN]
    BY <2>3 DEF TypeOK, lockVars
  <2>5. UNCHANGED <<requestVars, replies, tableVars, expired, info, nextId, up, cur,
                    attempt, ok>>
    BY <2>3
  <2>6. QED
    BY <2>1, <2>2, <2>4, <2>5, StatementTypes
<1>4. Tasks'
  BY <1>1, <1>2, TasksKept DEF RegistSteps, requestVars
<1>5. Transactions'
  <2>1. ThePurchase(w)' = ThePurchase(w) /\ Locked(w) /\ Locked(w)'
    BY <1>1, <1>2 DEF Transactions, Transaction, LockedSteps, Locked, ThePurchase,
                      requestVars, tableVars, lockVars
  <2>2. took'[w] => q.count <= seen[w]
    BY <1>1, <1>2, <2>1 DEF Transactions, Transaction, Locked, TypeOK
  <2>3. Transaction(w)'
    <3>1. up'[w] /\ charged'[w] = charged[w] /\ charged[w] # {}
             /\ logged'[w] = logged[w] /\ receipted'[w] = receipted[w]
      BY <1>1, <1>2 DEF Transactions, Transaction, LockedSteps
    <3>2. goldLock'[q.player] = w
             /\ \A c \in charged'[w] : AccountOf[c] = q.player /\ gold'[c] >= total'[w]
      BY <1>1, <1>2, <3>1 DEF Transactions, Transaction, lockVars, tableVars
    <3>3. seen'[w] = seen[w] /\ (pc'[w] = "record" => took'[w])
      BY <1>2 DEF TypeOK
    <3>4. pc'[w] \in {"rollback", "record"}
      BY <1>2
    <3>5. QED
      BY <2>1, <2>2, <3>1, <3>2, <3>3, <3>4 DEF Transaction, LockedSteps
  <2>4. ASSUME NEW v \in Writers, v # w PROVE Transaction(v)'
    <3>1. took'[v] = took[v]
      BY <1>2, <2>4 DEF TypeOK
    <3>2. QED
      BY <1>2, <2>4, <3>1, OtherWorker DEF Transactions, tableVars, requestVars, lockVars
  <2>5. QED
    BY <2>3, <2>4 DEF Transactions
<1>6. DrawnIds'
  BY <1>1, <1>2, DrawnIdsKept DEF tableVars
<1>7. StockConserved'
  BY <1>2 DEF StockConserved, tableVars
<1>8. QED
  BY <1>3, <1>4, <1>5, <1>6, <1>7

LEMMA RecordInv == ASSUME IInv, NEW w \in Writers, RecordTrade(w) PROVE IInv'
<1> USE ConstantsAssumption DEF IInv
<1>1. /\ pc[w] = "record" /\ up[w] /\ pc'[w] = "receipts"
      /\ logged' = [logged EXCEPT ![w] = TRUE]
      /\ \A v \in Writers : v # w => pc'[v] = pc[v]
      /\ UNCHANGED <<requestVars, tableVars, info, nextId, lockVars, up, cur, total, seen,
                     charged, took, receipted>>
  BY DEF RecordTrade, Goto, localVars, TypeOK
<1>2. TypeOK'
  BY DEF TypeOK, RecordTrade, Goto, Steps, TransactionSteps, requestVars, tableVars,
         lockVars, localVars
<1>3. Tasks'
  BY <1>1, TasksKept DEF RegistSteps, requestVars
<1>4. Transactions'
  <2>1. ThePurchase(w)' = ThePurchase(w) /\ Locked(w) /\ Locked(w)'
    BY <1>1 DEF Transactions, Transaction, LockedSteps, Locked, ThePurchase, requestVars,
                tableVars, lockVars
  <2>2. Transaction(w)'
    <3>1. logged'[w]
      BY <1>1 DEF TypeOK
    <3>2. QED
      BY <1>1, <2>1, <3>1 DEF Transactions, Transaction, LockedSteps, lockVars, tableVars
  <2>3. ASSUME NEW v \in Writers, v # w PROVE Transaction(v)'
    <3>1. logged'[v] = logged[v]
      BY <1>1, <2>3 DEF TypeOK
    <3>2. QED
      BY <1>1, <2>3, <3>1, OtherWorker DEF Transactions, tableVars, requestVars, lockVars
  <2>4. QED
    BY <2>2, <2>3 DEF Transactions
<1>5. DrawnIds'
  BY <1>1, DrawnIdsKept DEF tableVars
<1>6. StockConserved'
  BY <1>1 DEF StockConserved, tableVars
<1>7. QED
  BY <1>2, <1>3, <1>4, <1>5, <1>6

LEMMA ReceiptsInv == ASSUME IInv, NEW w \in Writers, GiveReceipts(w) PROVE IInv'
<1> USE ConstantsAssumption DEF IInv
<1>1. /\ pc[w] = "receipts" /\ up[w] /\ pc'[w] = "commit"
      /\ receipted' = [receipted EXCEPT ![w] = TRUE]
      /\ \A v \in Writers : v # w => pc'[v] = pc[v]
      /\ UNCHANGED <<requestVars, tableVars, info, nextId, lockVars, up, cur, total, seen,
                     charged, took, logged>>
  BY DEF GiveReceipts, Goto, localVars, TypeOK
<1>2. TypeOK'
  BY DEF TypeOK, GiveReceipts, Goto, Steps, TransactionSteps, requestVars, tableVars,
         lockVars, localVars
<1>3. Tasks'
  BY <1>1, TasksKept DEF RegistSteps, requestVars
<1>4. Transactions'
  <2>1. ThePurchase(w)' = ThePurchase(w) /\ Locked(w) /\ Locked(w)'
    BY <1>1 DEF Transactions, Transaction, LockedSteps, Locked, ThePurchase, requestVars,
                tableVars, lockVars
  <2>2. Transaction(w)'
    <3>1. receipted'[w]
      BY <1>1 DEF TypeOK
    <3>2. QED
      BY <1>1, <2>1, <3>1 DEF Transactions, Transaction, LockedSteps, lockVars, tableVars
  <2>3. ASSUME NEW v \in Writers, v # w PROVE Transaction(v)'
    <3>1. receipted'[v] = receipted[v]
      BY <1>1, <2>3 DEF TypeOK
    <3>2. QED
      BY <1>1, <2>3, <3>1, OtherWorker DEF Transactions, tableVars, requestVars, lockVars
  <2>4. QED
    BY <2>2, <2>3 DEF Transactions
<1>5. DrawnIds'
  BY <1>1, DrawnIdsKept DEF tableVars
<1>6. StockConserved'
  BY <1>1 DEF StockConserved, tableVars
<1>7. QED
  BY <1>2, <1>3, <1>4, <1>5, <1>6
-----------------------------------------------------------------------------
(* The end of a transaction.                                               *)

(* It leaves its worker with nothing open and the others as they were. *)
LEMMA EndLeavesNothing ==
    ASSUME TypeOK, NEW w \in Writers, EndTransaction(w)
    PROVE  /\ NothingOpen(w)'
           /\ \A v \in Writers : v # w =>
                 /\ charged'[v] = charged[v] /\ took'[v] = took[v]
                 /\ logged'[v] = logged[v] /\ receipted'[v] = receipted[v]
                 /\ \A l \in ListIds : listLock'[l] = v <=> listLock[l] = v
                 /\ \A p \in Players : goldLock'[p] = v <=> goldLock[p] = v
           /\ listLock' \in [ListIds -> Writers \cup {NoWriter}]
           /\ goldLock' \in [Players -> Writers \cup {NoWriter}]
           /\ charged' \in [Writers -> SUBSET Characters]
           /\ took' \in [Writers -> BOOLEAN]
           /\ logged' \in [Writers -> BOOLEAN] /\ receipted' \in [Writers -> BOOLEAN]
<1>1. /\ \A l \in ListIds : listLock'[l] # w
      /\ \A p \in Players : goldLock'[p] # w
      /\ listLock' \in [ListIds -> Writers \cup {NoWriter}]
      /\ goldLock' \in [Players -> Writers \cup {NoWriter}]
  BY WritersAreReal DEF EndTransaction, ReleaseLocks, TypeOK
<1>2. /\ charged'[w] = {} /\ ~took'[w] /\ ~logged'[w] /\ ~receipted'[w]
      /\ charged' \in [Writers -> SUBSET Characters]
      /\ took' \in [Writers -> BOOLEAN]
      /\ logged' \in [Writers -> BOOLEAN] /\ receipted' \in [Writers -> BOOLEAN]
  BY DEF EndTransaction, TypeOK
<1>3. ASSUME NEW v \in Writers, v # w
      PROVE  /\ charged'[v] = charged[v] /\ took'[v] = took[v]
             /\ logged'[v] = logged[v] /\ receipted'[v] = receipted[v]
             /\ \A l \in ListIds : listLock'[l] = v <=> listLock[l] = v
             /\ \A p \in Players : goldLock'[p] = v <=> goldLock[p] = v
  BY <1>3, WritersAreReal DEF EndTransaction, ReleaseLocks, TypeOK
<1>4. QED
  BY <1>1, <1>2, <1>3 DEF NothingOpen

(* With nothing open there is nothing to persist. *)
LEMMA PersistNothing ==
    ASSUME TypeOK, NEW w \in Writers, NothingOpen(w), Persist(w)
    PROVE  UNCHANGED tableVars
<1>1. gold' = gold
  BY DEF NothingOpen, Persist, TypeOK
<1>2. QED
  BY <1>1 DEF NothingOpen, Persist, tableVars

(* What a COMMIT makes of the tables: they keep their types and the stock  *)
(* its balance, and only the locked listing and characters change.         *)
LEMMA PersistPurchase ==
    ASSUME IInv, NEW w \in Writers, up[w], pc[w] = "commit", ThePurchase(w).count > 0,
           Persist(w), info' = info
    PROVE  /\ rows' \subseteq rows
           /\ \A k \in rows : listLock[k] # w => k \in rows' /\ stock'[k] = stock[k]
           /\ \A c \in Characters : goldLock[AccountOf[c]] # w => gold'[c] = gold[c]
           /\ stock' \in [ListIds -> Int] /\ gold' \in [Characters -> Nat]
           /\ delivered' \in [ListIds -> Nat] /\ paid' \in [ListIds -> Int]
           /\ trades' \in Nat /\ bought' \subseteq Nat
           /\ StockConserved'
<1> USE ConstantsAssumption DEF IInv
<1> DEFINE q == ThePurchase(w)
           l == q.list
<1>1. /\ q.list \in ListIds /\ q.count \in Int /\ q.player \in Players
      /\ cur[w] \in Nat
  BY PurchaseIsTyped DEF RegistSteps, TypeOK
<1>2. /\ listLock[l] = w /\ l \in rows /\ seen[w] = stock[l]
      /\ total[w] = info[l].price * q.count /\ q.count <= stock[l]
      /\ charged[w] # {} /\ took[w] /\ logged[w] /\ receipted[w]
      /\ goldLock[q.player] = w
      /\ \A c \in charged[w] : AccountOf[c] = q.player /\ gold[c] >= total[w]
  BY DEF Transactions, Transaction, Locked, LockedSteps
<1>3. /\ q.count > 0
      /\ stock[l] \in Int /\ delivered[l] \in Nat /\ paid[l] \in Int /\ total[w] \in Int
      /\ info[l].price \in Int /\ info[l].qty \in Int
  BY <1>1, InfoIsTyped DEF TypeOK
<1>4. /\ stock' = [stock EXCEPT ![l] = stock[l] - q.count]
      /\ delivered' = [delivered EXCEPT ![l] = delivered[l] + q.count]
      /\ paid' = [paid EXCEPT ![l] = paid[l] + total[w]]
      /\ gold' = [c \in Characters |-> IF c \in charged[w] THEN gold[c] - total[w]
                                                            ELSE gold[c]]
      /\ trades' = trades + 1 /\ bought' = bought \cup {cur[w]}
      /\ rows' = rows \ {l} \/ rows' = rows
  BY <1>2 DEF Persist
<1>5. /\ stock[l] - q.count \in Nat /\ delivered[l] + q.count \in Nat
      /\ paid[l] + total[w] \in Int
  <2>1. stock[l] - q.count \in Nat
    <3>1. stock[l] \in Int /\ q.count \in Int /\ q.count <= stock[l]
      BY <1>1, <1>2, <1>3
    <3> HIDE DEF q, l
    <3>2. QED
      BY <3>1
  <2>2. delivered[l] + q.count \in Nat
    BY <1>1, <1>3
  <2>3. paid[l] + total[w] \in Int
    BY <1>3
  <2>4. QED
    BY <2>1, <2>2, <2>3
<1>6. gold' \in [Characters -> Nat]
  <2>1. ASSUME NEW c \in Characters
        PROVE  (IF c \in charged[w] THEN gold[c] - total[w] ELSE gold[c]) \in Nat
    <3>1. gold[c] \in Nat /\ total[w] \in Int
      BY <1>3 DEF TypeOK
    <3>2. c \in charged[w] => gold[c] >= total[w]
      BY <1>2
    <3>3. QED
      BY <3>1, <3>2
  <2>2. gold' = [c \in Characters |-> IF c \in charged[w] THEN gold[c] - total[w]
                                                          ELSE gold[c]]
    BY <1>4
  <2>3. QED
    BY <2>1, <2>2
<1>7. /\ stock' \in [ListIds -> Int] /\ stock'[l] >= 0 /\ delivered' \in [ListIds -> Nat]
      /\ paid' \in [ListIds -> Int]
  <2>1. /\ stock \in [ListIds -> Int] /\ delivered \in [ListIds -> Nat]
        /\ paid \in [ListIds -> Int] /\ l \in ListIds
    BY <1>1 DEF TypeOK
  <2>2. stock'[l] = stock[l] - q.count
    BY <1>4, <2>1
  <2> HIDE DEF q, l
  <2>3. stock'[l] >= 0
    BY <1>5, <2>2
  <2>4. /\ stock' \in [ListIds -> Int] /\ delivered' \in [ListIds -> Nat]
        /\ paid' \in [ListIds -> Int]
    BY <1>4, <1>5, <2>1
  <2>5. QED
    BY <2>3, <2>4
<1>8. \A c \in Characters : goldLock[AccountOf[c]] # w => gold'[c] = gold[c]
  BY <1>2, <1>4
<1>9. \A k \in rows : listLock[k] # w => k \in rows' /\ stock'[k] = stock[k]
  BY <1>2, <1>4 DEF TypeOK
<1>10. StockConserved'
  <2>1. stock'[l] + delivered'[l] = info[l].qty
    <3>1. stock'[l] = stock[l] - q.count /\ delivered'[l] = delivered[l] + q.count
      BY <1>1, <1>4 DEF TypeOK
    <3>2. stock[l] + delivered[l] = info[l].qty
      BY <1>1 DEF StockConserved
    <3>3. QED
      BY <1>1, <1>3, <3>1, <3>2
  <2>2. paid'[l] = info[l].price * delivered'[l]
    <3>1. paid'[l] = info[l].price * delivered[l] + info[l].price * q.count
      <4>1. paid \in [ListIds -> Int] /\ paid[l] = info[l].price * delivered[l]
        BY <1>1 DEF TypeOK, StockConserved
      <4>2. QED
        BY <1>1, <1>2, <1>4, <4>1
    <3>2. delivered'[l] = delivered[l] + q.count
      BY <1>1, <1>4 DEF TypeOK
    <3>3. QED
      BY <1>1, <1>3, <3>1, <3>2
  <2>3. ASSUME NEW k \in ListIds, k # l
        PROVE  stock'[k] = stock[k] /\ delivered'[k] = delivered[k] /\ paid'[k] = paid[k]
    BY <1>4, <2>3 DEF TypeOK
  <2>4. QED
    BY <1>7, <2>1, <2>2, <2>3 DEF StockConserved
<1>11. trades' \in Nat /\ bought' \subseteq Nat /\ rows' \subseteq rows
  <2>1. trades \in Nat /\ bought \subseteq Nat /\ cur[w] \in Nat
    BY DEF TypeOK
  <2>2. trades' = trades + 1 /\ bought' = bought \cup {cur[w]}
    BY <1>4
  <2>3. rows' \subseteq rows
    BY <1>4
  <2>4. trades' \in Nat
    BY <2>1, <2>2
  <2>5. bought' \subseteq Nat
    BY <2>1, <2>2, Zenon
  <2>6. QED
    BY <2>3, <2>4, <2>5
<1>12. QED
  BY <1>6, <1>7, <1>8, <1>9, <1>10, <1>11

(* The other workers through the end of w's transaction, when what w       *)
(* persists, if anything, is its own listing and its own characters.       *)
LEMMA OthersThroughEnd ==
    ASSUME IInv, NEW w \in Writers, EndTransaction(w), UNCHANGED <<req, info, up>>,
           \A v \in Writers : v # w =>
              /\ pc'[v] = pc[v] /\ cur'[v] = cur[v]
              /\ seen'[v] = seen[v] /\ total'[v] = total[v],
           \A k \in rows : listLock[k] # w => k \in rows' /\ stock'[k] = stock[k],
           \A c \in Characters : goldLock[AccountOf[c]] # w => gold'[c] = gold[c]
    PROVE  \A v \in Writers : v # w => Transaction(v)'
<1> USE ConstantsAssumption DEF IInv
<1> SUFFICES ASSUME NEW v \in Writers, v # w PROVE Transaction(v)'
  OBVIOUS
<1>1. /\ charged'[v] = charged[v] /\ took'[v] = took[v]
      /\ logged'[v] = logged[v] /\ receipted'[v] = receipted[v]
      /\ \A l \in ListIds : listLock'[l] = v <=> listLock[l] = v
      /\ \A p \in Players : goldLock'[p] = v <=> goldLock[p] = v
  BY EndLeavesNothing
<1>2. Transaction(v)
  BY DEF Transactions
<1>3. QED
  BY <1>1, <1>2, OtherWorker

LEMMA CommitInv == ASSUME IInv, Counted, NEW w \in Writers, Commit(w) PROVE IInv'
<1> USE ConstantsAssumption DEF IInv
<1>0. pc[w] = "commit" => ThePurchase(w).count > 0
  BY DEF Counted, CheckedSteps, LockedSteps
<1>1. /\ pc[w] = "commit" /\ up[w] /\ pc'[w] = "restore"
      /\ \A v \in Writers : v # w => pc'[v] = pc[v]
      /\ Persist(w) /\ EndTransaction(w)
      /\ UNCHANGED <<requestVars, replies, expired, info, nextId, up, autocommit, cur,
                     attempt, total, seen>>
  BY DEF Commit, Goto, TypeOK
<1>2. TypeOK'
  <2>1. /\ pc' \in [Writers -> Steps] /\ ok' \in [Writers -> BOOLEAN]
        /\ err' \in [Writers -> {"none", "deadlock", "lockwait", "other"}]
    BY DEF Commit, Goto, TypeOK, Steps
  <2>2. QED
    BY <1>1, <2>1, <1>0, PersistPurchase, EndLeavesNothing DEF TypeOK, requestVars
<1>3. Tasks'
  BY <1>1, TasksKept DEF RegistSteps, requestVars
<1>4. Transactions'
  <2>1. Transaction(w)'
    BY <1>1, EndLeavesNothing, NothingIsOpen DEF LockedSteps
  <2>2. \A v \in Writers : v # w => Transaction(v)'
    BY <1>1, <1>0, PersistPurchase, OthersThroughEnd DEF requestVars
  <2>3. QED
    BY <2>1, <2>2 DEF Transactions
<1>5. DrawnIds'
  BY <1>1, <1>0, PersistPurchase, DrawnIdsKept
<1>6. StockConserved'
  BY <1>1, <1>0, PersistPurchase
<1>7. QED
  BY <1>2, <1>3, <1>4, <1>5, <1>6

LEMMA RollbackInv == ASSUME IInv, NEW w \in Writers, Rollback(w) PROVE IInv'
<1> USE ConstantsAssumption DEF IInv
<1>1. /\ pc[w] = "rollback" /\ pc'[w] = "restore"
      /\ \A v \in Writers : v # w => pc'[v] = pc[v]
      /\ EndTransaction(w)
      /\ UNCHANGED <<requestVars, replies, tableVars, expired, info, nextId, up,
                     autocommit, cur, attempt, total, seen, err>>
  BY DEF Rollback, Goto, TypeOK
<1>2. TypeOK'
  <2>1. pc' \in [Writers -> Steps] /\ ok' \in [Writers -> BOOLEAN]
    BY DEF Rollback, Goto, TypeOK, Steps
  <2>2. QED
    BY <1>1, <2>1, EndLeavesNothing DEF TypeOK, requestVars, tableVars
<1>3. Tasks'
  BY <1>1, TasksKept DEF RegistSteps, requestVars
<1>4. Transactions'
  <2>1. Transaction(w)'
    BY <1>1, EndLeavesNothing, NothingIsOpen DEF LockedSteps
  <2>2. \A v \in Writers : v # w => Transaction(v)'
    BY <1>1, OthersThroughEnd DEF requestVars, tableVars
  <2>3. QED
    BY <2>1, <2>2 DEF Transactions
<1>5. DrawnIds'
  BY <1>1, DrawnIdsKept DEF tableVars
<1>6. StockConserved'
  BY <1>1 DEF StockConserved, tableVars
<1>7. QED
  BY <1>2, <1>3, <1>4, <1>5, <1>6

LEMMA RestoreInv == ASSUME IInv, NEW w \in Writers, RestoreAutoCommit(w) PROVE IInv'
<1> USE ConstantsAssumption DEF IInv
<1>1. /\ pc[w] = "restore" /\ NothingOpen(w)
      /\ Persist(w) /\ EndTransaction(w)
      /\ UNCHANGED <<requestVars, expired, info, nextId, up>>
  BY DEF RestoreAutoCommit, Transactions, Transaction, LockedSteps
<1>2. UNCHANGED tableVars
  BY <1>1, PersistNothing
<1>3. /\ pc'[w] = "idle" \/ (pc'[w] = "begin" /\ UNCHANGED cur)
      /\ \A v \in Writers : v # w =>
            /\ pc'[v] = pc[v] /\ cur'[v] = cur[v]
            /\ seen'[v] = seen[v] /\ total'[v] = total[v]
  BY DEF RestoreAutoCommit, EndTask, Goto, TypeOK
<1>4. TypeOK'
  <2>1. /\ pc' \in [Writers -> Steps] /\ cur' \in [Writers -> Nat]
        /\ total' \in [Writers -> Int] /\ seen' \in [Writers -> Int]
        /\ err' \in [Writers -> {"none", "deadlock", "lockwait", "other"}]
    <3>1. CASE Retry(w)
      <4>1. /\ pc' = [pc EXCEPT ![w] = "begin"] /\ total' = [total EXCEPT ![w] = 0]
            /\ UNCHANGED <<cur, seen, err>>
        BY <3>1 DEF RestoreAutoCommit, Goto
      <4>2. QED
        BY <4>1 DEF TypeOK, Steps, TransactionSteps
    <3>2. CASE ~Retry(w)
      <4>1. /\ pc' = [pc EXCEPT ![w] = "idle"] /\ cur' = [cur EXCEPT ![w] = 0]
            /\ total' = [total EXCEPT ![w] = 0] /\ seen' = [seen EXCEPT ![w] = 0]
            /\ err' = [err EXCEPT ![w] = "none"]
        BY <3>2 DEF RestoreAutoCommit, EndTask, Goto
      <4>2. QED
        BY <4>1 DEF TypeOK, Steps
    <3>3. QED
      BY <3>1, <3>2
  <2>2. ok' \in [Writers -> BOOLEAN] /\ autocommit' \in [Writers -> BOOLEAN]
    BY DEF RestoreAutoCommit, Restored, EndTask, TypeOK
  <2>3. attempt' \in [Writers -> 0 .. kMaxTxAttempts]
    <3>1. CASE Retry(w)
      <4>1. attempt[w] + 1 \in 0 .. kMaxTxAttempts
        BY <3>1 DEF Retry, TypeOK
      <4>2. QED
        BY <3>1, <4>1 DEF RestoreAutoCommit, TypeOK
    <3>2. CASE ~Retry(w)
      <4>1. attempt' = [attempt EXCEPT ![w] = 0] /\ 0 \in 0 .. kMaxTxAttempts
        BY <3>2 DEF RestoreAutoCommit, EndTask
      <4>2. QED
        BY <4>1 DEF TypeOK
    <3>3. QED
      BY <3>1, <3>2
  <2>4. replies' \in Seq([req : Nat, ok : BOOLEAN, gold : Int])
    <3>1. [req |-> cur[w], ok |-> ok[w], gold |-> total[w]]
             \in [req : Nat, ok : BOOLEAN, gold : Int]
      BY DEF TypeOK
    <3>2. replies \in Seq([req : Nat, ok : BOOLEAN, gold : Int])
      BY DEF TypeOK
    <3>3. CASE Retry(w)
      BY <3>2, <3>3 DEF RestoreAutoCommit
    <3>4. CASE ~Retry(w)
      <4>1. replies' = Append(replies, [req |-> cur[w], ok |-> ok[w], gold |-> total[w]])
        BY <3>4 DEF RestoreAutoCommit
      <4>2. QED
        BY <3>1, <3>2, <4>1
    <3>5. QED
      BY <3>3, <3>4
  <2>5. QED
    BY <1>1, <1>2, <2>1, <2>2, <2>3, <2>4, EndLeavesNothing
       DEF TypeOK, requestVars, tableVars
<1>5. Tasks'
  BY <1>1, <1>3, TasksKept DEF RegistSteps, requestVars
<1>6. Transactions'
  <2>1. Transaction(w)'
    BY <1>1, <1>3, EndLeavesNothing, NothingIsOpen DEF LockedSteps
  <2>2. \A v \in Writers : v # w => Transaction(v)'
    BY <1>1, <1>2, <1>3, OthersThroughEnd DEF requestVars, tableVars
  <2>3. QED
    BY <2>1, <2>2 DEF Transactions
<1>7. DrawnIds'
  BY <1>1, <1>2, <1>3, DrawnIdsKept DEF tableVars
<1>8. StockConserved'
  BY <1>1, <1>2 DEF StockConserved, tableVars
<1>9. QED
  BY <1>4, <1>5, <1>6, <1>7, <1>8
-----------------------------------------------------------------------------
(* Failures.                                                               *)

LEMMA StatementFailsInv ==
    ASSUME IInv, NEW w \in Writers, NEW code \in {"deadlock", "lockwait", "other"},
           StatementFails(w, code)
    PROVE  IInv'
<1> USE ConstantsAssumption DEF IInv
<1>1. /\ pc[w] \in TransactionSteps /\ up[w] /\ pc'[w] = "rollback"
      /\ \A v \in Writers : v # w => pc'[v] = pc[v]
      /\ EndTransaction(w) \/ UNCHANGED <<lockVars, txVars>>
      /\ UNCHANGED <<requestVars, replies, tableVars, expired, info, nextId, up,
                     autocommit, cur, attempt, total, seen, ok>>
  BY DEF StatementFails, Throw, Goto, TypeOK
<1>2. TypeOK'
  <2>1. /\ pc' \in [Writers -> Steps]
        /\ err' \in [Writers -> {"none", "deadlock", "lockwait", "other"}]
    BY DEF StatementFails, Throw, Goto, TypeOK, Steps
  <2>2. /\ listLock' \in [ListIds -> Writers \cup {NoWriter}]
        /\ goldLock' \in [Players -> Writers \cup {NoWriter}]
        /\ charged' \in [Writers -> SUBSET Characters]
        /\ took' \in [Writers -> BOOLEAN]
        /\ logged' \in [Writers -> BOOLEAN] /\ receipted' \in [Writers -> BOOLEAN]
    BY <1>1, EndLeavesNothing DEF TypeOK, lockVars, txVars
  <2>3. QED
    BY <1>1, <2>1, <2>2 DEF TypeOK, requestVars, tableVars
<1>3. Tasks'
  BY <1>1, TasksKept DEF RegistSteps, TransactionSteps, requestVars
<1>4. Transactions'
  <2>1. CASE EndTransaction(w)
    <3>1. Transaction(w)'
      BY <1>1, <2>1, EndLeavesNothing, NothingIsOpen DEF LockedSteps
    <3>2. \A v \in Writers : v # w => Transaction(v)'
      BY <1>1, <2>1, OthersThroughEnd DEF requestVars, tableVars
    <3>3. QED
      BY <3>1, <3>2 DEF Transactions
  <2>2. CASE UNCHANGED <<lockVars, txVars>>
    <3>1. ThePurchase(w)' = ThePurchase(w)
      BY <1>1 DEF ThePurchase, requestVars
    <3>2. Transaction(w)'
      BY <1>1, <2>2, <3>1
         DEF Transactions, Transaction, LockedSteps, lockVars, txVars, tableVars
    <3>3. ASSUME NEW v \in Writers, v # w PROVE Transaction(v)'
      BY <1>1, <2>2, <3>3, OtherWorker
         DEF Transactions, tableVars, requestVars, lockVars, txVars
    <3>4. QED
      BY <3>2, <3>3 DEF Transactions
  <2>3. QED
    BY <1>1, <2>1, <2>2
<1>5. DrawnIds'
  BY <1>1, DrawnIdsKept DEF tableVars
<1>6. StockConserved'
  BY <1>1 DEF StockConserved, tableVars
<1>7. QED
  BY <1>2, <1>3, <1>4, <1>5, <1>6

LEMMA DeadStatementInv == ASSUME IInv, NEW w \in Writers, DeadStatement(w) PROVE IInv'
<1> USE ConstantsAssumption DEF IInv
<1>1. /\ pc[w] \in TransactionSteps /\ ~up[w] /\ pc'[w] = "rollback"
      /\ \A v \in Writers : v # w => pc'[v] = pc[v]
      /\ UNCHANGED <<requestVars, replies, tableVars, expired, info, nextId, lockVars, up,
                     autocommit, cur, attempt, total, seen, ok, txVars>>
  BY DEF DeadStatement, Throw, Goto, TypeOK
<1>2. TypeOK'
  <2>1. /\ pc' \in [Writers -> Steps]
        /\ err' \in [Writers -> {"none", "deadlock", "lockwait", "other"}]
    BY DEF DeadStatement, Throw, Goto, TypeOK, Steps
  <2>2. QED
    BY <1>1, <2>1 DEF TypeOK, requestVars, tableVars, lockVars, txVars
<1>3. Tasks'
  BY <1>1, TasksKept DEF RegistSteps, TransactionSteps, requestVars
<1>4. Transactions'
  <2>1. NothingOpen(w)'
    BY <1>1 DEF Transactions, Transaction, NothingOpen, lockVars, txVars
  <2>2. Transaction(w)'
    BY <1>1, <2>1, NothingIsOpen DEF LockedSteps
  <2>3. ASSUME NEW v \in Writers, v # w PROVE Transaction(v)'
    BY <1>1, <2>3, OtherWorker DEF Transactions, tableVars, requestVars, lockVars, txVars
  <2>4. QED
    BY <2>2, <2>3 DEF Transactions
<1>5. DrawnIds'
  BY <1>1, DrawnIdsKept DEF tableVars
<1>6. StockConserved'
  BY <1>1 DEF StockConserved, tableVars
<1>7. QED
  BY <1>2, <1>3, <1>4, <1>5, <1>6

(* The server drops the transaction, or has carried out the COMMIT. *)
LEMMA ConnectionLostInv ==
    ASSUME IInv, Counted, NEW w \in Writers, ConnectionLost(w) PROVE IInv'
<1> USE ConstantsAssumption DEF IInv
<1>0. pc[w] = "commit" => ThePurchase(w).count > 0
  BY DEF Counted, CheckedSteps, LockedSteps
<1>1. /\ up[w] /\ up' = [up EXCEPT ![w] = FALSE] /\ EndTransaction(w)
      /\ UNCHANGED tableVars \/ (pc[w] = "commit" /\ Persist(w))
      /\ UNCHANGED <<requestVars, replies, expired, info, nextId, autocommit, pc, cur,
                     localVars>>
  BY DEF ConnectionLost
<1>2. /\ rows' \subseteq rows
      /\ \A k \in rows : listLock[k] # w => k \in rows' /\ stock'[k] = stock[k]
      /\ \A c \in Characters : goldLock[AccountOf[c]] # w => gold'[c] = gold[c]
      /\ stock' \in [ListIds -> Int] /\ gold' \in [Characters -> Nat]
      /\ delivered' \in [ListIds -> Nat] /\ paid' \in [ListIds -> Int]
      /\ trades' \in Nat /\ bought' \subseteq Nat
      /\ StockConserved'
  <2>1. CASE UNCHANGED tableVars
    BY <1>1, <2>1 DEF tableVars, TypeOK, StockConserved
  <2>2. CASE pc[w] = "commit" /\ Persist(w)
    BY <1>1, <2>2, <1>0, PersistPurchase
  <2>3. QED
    BY <1>1, <2>1, <2>2
<1>3. TypeOK'
  <2>1. up' \in [Writers -> BOOLEAN]
    BY <1>1 DEF TypeOK
  <2>2. QED
    BY <1>1, <1>2, <2>1, EndLeavesNothing DEF TypeOK, requestVars, localVars
<1>4. Tasks'
  BY <1>1 DEF Tasks, ThePurchase, requestVars
<1>5. Transactions'
  <2>1. Transaction(w)'
    <3>1. NothingOpen(w)'
      BY <1>1, EndLeavesNothing
    <3>2. ~up'[w]
      BY <1>1 DEF TypeOK
    <3>3. QED
      BY <3>1, <3>2 DEF Transaction, NothingOpen
  <2>2. ASSUME NEW v \in Writers, v # w PROVE Transaction(v)'
    <3>1. /\ charged'[v] = charged[v] /\ took'[v] = took[v]
          /\ logged'[v] = logged[v] /\ receipted'[v] = receipted[v]
          /\ \A l \in ListIds : listLock'[l] = v <=> listLock[l] = v
          /\ \A p \in Players : goldLock'[p] = v <=> goldLock[p] = v
      BY <1>1, <2>2, EndLeavesNothing
    <3>2. up'[v] = up[v] /\ Transaction(v)
      BY <1>1, <2>2 DEF TypeOK, Transactions
    <3>3. QED
      BY <1>1, <1>2, <2>2, <3>1, <3>2, OtherWorker DEF requestVars, localVars
  <2>3. QED
    BY <2>1, <2>2 DEF Transactions
<1>6. DrawnIds'
  BY <1>1, <1>2, DrawnIdsKept DEF localVars
<1>7. QED
  BY <1>2, <1>3, <1>4, <1>5, <1>6
-----------------------------------------------------------------------------
(* Requests, time and registrations.                                       *)

(* A request that arrives: the ones before it keep their places. *)
LEMMA ArriveInv ==
    ASSUME IInv, NEW r \in Request, r.kind = "purchase" => r.list \in ListIds,
           NEW key \in Nat, req' = Append(req, r), PostWrite(key, Len(req) + 1),
           WorkerUnchanged
    PROVE  IInv'
<1> USE ConstantsAssumption DEF IInv
<1>1. /\ DOMAIN req' = 1 .. Len(req) + 1 /\ DOMAIN req = 1 .. Len(req) /\ Len(req) \in Nat
      /\ req'[Len(req) + 1] = r /\ \A k \in DOMAIN req : req'[k] = req[k]
      /\ req' \in Seq(Request)
  BY DEF TypeOK
<1>2. key % WriterCount \in Writers
  BY DEF Writers
<1>3. /\ queue' \in [Writers -> Seq(Nat)]
      /\ \A v \in Writers : \A i \in DOMAIN queue'[v] :
            queue'[v][i] = Len(req) + 1
               \/ (i \in DOMAIN queue[v] /\ queue'[v][i] = queue[v][i])
  <2> DEFINE k == key % WriterCount
  <2>1. /\ queue \in [Writers -> Seq(Nat)] /\ Len(req) + 1 \in Nat
        /\ queue' = [queue EXCEPT ![k] = Append(queue[k], Len(req) + 1)]
    BY <1>1 DEF PostWrite, TypeOK
  <2>2. queue[k] \in Seq(Nat) /\ Append(queue[k], Len(req) + 1) \in Seq(Nat)
    BY <1>2, <2>1
  <2>3. \A i \in DOMAIN Append(queue[k], Len(req) + 1) :
           \/ Append(queue[k], Len(req) + 1)[i] = Len(req) + 1
           \/ i \in DOMAIN queue[k] /\ Append(queue[k], Len(req) + 1)[i] = queue[k][i]
    BY <2>2
  <2>4. queue'[k] = Append(queue[k], Len(req) + 1)
           /\ \A v \in Writers : v # k => queue'[v] = queue[v]
    BY <1>2, <2>1
  <2>5. queue' \in [Writers -> Seq(Nat)]
    BY <2>1, <2>2
  <2>6. QED
    BY <2>3, <2>4, <2>5
<1>4. TypeOK'
  BY <1>1, <1>3 DEF TypeOK, WorkerUnchanged
<1>5. Tasks'
  <2>1. \A k \in DOMAIN req' : req'[k].kind = "purchase" => req'[k].list \in ListIds
    BY <1>1 DEF Tasks
  <2>2. ASSUME NEW v \in Writers
        PROVE  /\ \A i \in DOMAIN queue'[v] : queue'[v][i] \in DOMAIN req'
               /\ pc[v] # "idle" => cur[v] \in DOMAIN req' /\ req'[cur[v]] = req[cur[v]]
    <3>1. DOMAIN req \subseteq DOMAIN req' /\ Len(req) + 1 \in DOMAIN req'
      BY <1>1
    <3>2. ASSUME NEW i \in DOMAIN queue'[v] PROVE queue'[v][i] \in DOMAIN req'
      BY <1>3, <3>1 DEF Tasks
    <3>3. ASSUME pc[v] # "idle"
          PROVE  cur[v] \in DOMAIN req' /\ req'[cur[v]] = req[cur[v]]
      BY <1>1, <3>1, <3>3 DEF Tasks
    <3>4. QED
      BY <3>2, <3>3
  <2>3. QED
    BY <2>1, <2>2 DEF Tasks, ThePurchase, WorkerUnchanged, RegistSteps
<1>6. Transactions'
  <2>1. ASSUME NEW v \in Writers PROVE Transaction(v)'
    BY <1>1, OtherWorker DEF Transactions, WorkerUnchanged
  <2>2. QED
    BY <2>1 DEF Transactions
<1>7. DrawnIds'
  BY DrawnIdsKept DEF WorkerUnchanged
<1>8. StockConserved'
  BY DEF StockConserved, WorkerUnchanged
<1>9. QED
  BY <1>4, <1>5, <1>6, <1>7, <1>8

LEMMA ExpireInv == ASSUME IInv, NEW l \in ListIds, Expire(l) PROVE IInv'
<1> USE ConstantsAssumption DEF IInv
<1>1. /\ UNCHANGED <<req, queue, pc, cur>> /\ expired' \subseteq ListIds
      /\ UNCHANGED <<requestVars, replies, tableVars, info, nextId, lockVars, up,
                     autocommit, pc, cur, localVars, txVars>>
  BY DEF Expire, requestVars, TypeOK
<1>2. TypeOK'
  BY <1>1 DEF TypeOK, requestVars, tableVars, lockVars, localVars, txVars
<1>3. Tasks' /\ DrawnIds' /\ StockConserved'
  BY <1>1 DEF Tasks, ThePurchase, DrawnIds, Unused, StockConserved, tableVars, localVars
<1>4. Transactions'
  <2>1. ASSUME NEW v \in Writers PROVE Transaction(v)'
    BY <1>1, OtherWorker DEF Transactions, tableVars, lockVars, localVars, txVars
  <2>2. QED
    BY <2>1 DEF Transactions
<1>5. QED
  BY <1>2, <1>3, <1>4

LEMMA TakeTaskInv == ASSUME IInv, NEW w \in Writers, TakeTask(w) PROVE IInv'
<1> USE ConstantsAssumption DEF IInv
<1> DEFINE r == Head(queue[w])
<1>1. /\ pc[w] = "idle" /\ queue[w] \in Seq(Nat) /\ queue[w] # <<>>
      /\ cur' = [cur EXCEPT ![w] = r] /\ queue' = [queue EXCEPT ![w] = Tail(queue[w])]
      /\ pc' = [pc EXCEPT ![w] = IF req[r].kind = "purchase" THEN "begin" ELSE "insert"]
      /\ UNCHANGED <<req, replies, tableVars, expired, info, nextId, lockVars, up,
                     autocommit, total, seen, err, ok, txVars>>
  BY DEF TakeTask, Goto, TypeOK
<1>2. /\ r \in DOMAIN req /\ r \in Nat /\ req[r].kind \in {"purchase", "regist"}
      /\ Tail(queue[w]) \in Seq(Nat)
      /\ \A i \in DOMAIN Tail(queue[w]) : Tail(queue[w])[i] \in DOMAIN req
  <2>1. r \in DOMAIN req /\ r \in Nat /\ Tail(queue[w]) \in Seq(Nat)
    BY <1>1 DEF Tasks
  <2>2. req[r] \in Request
    BY <2>1 DEF TypeOK
  <2>3. \A i \in DOMAIN Tail(queue[w]) : Tail(queue[w])[i] \in DOMAIN req
    BY <1>1 DEF Tasks
  <2>4. QED
    BY <2>1, <2>2, <2>3 DEF Request
<1>3. TypeOK'
  <2>1. /\ pc' \in [Writers -> Steps] /\ cur' \in [Writers -> Nat]
        /\ queue' \in [Writers -> Seq(Nat)]
    BY <1>1, <1>2 DEF TypeOK, Steps, TransactionSteps
  <2>2. attempt' \in [Writers -> 0 .. kMaxTxAttempts]
    BY DEF TakeTask, TypeOK
  <2>3. QED
    BY <1>1, <2>1, <2>2 DEF TypeOK, tableVars, lockVars, txVars
<1>4. Tasks'
  <2>1. ASSUME NEW v \in Writers, v # w
        PROVE  pc'[v] = pc[v] /\ cur'[v] = cur[v] /\ queue'[v] = queue[v]
    BY <1>1, <2>1 DEF TypeOK
  <2>2. /\ cur'[w] = r /\ queue'[w] = Tail(queue[w])
        /\ pc'[w] = IF req[r].kind = "purchase" THEN "begin" ELSE "insert"
    BY <1>1 DEF TypeOK
  <2>3. QED
    BY <1>1, <1>2, <2>1, <2>2 DEF Tasks, ThePurchase, RegistSteps
<1>5. Transactions'
  <2>1. NothingOpen(w)'
    BY <1>1 DEF Transactions, Transaction, LockedSteps, NothingOpen, lockVars, txVars
  <2>2. pc'[w] \notin LockedSteps
    BY <1>1 DEF TypeOK, LockedSteps
  <2>3. ASSUME NEW v \in Writers, v # w PROVE Transaction(v)'
    BY <1>1, <2>3, OtherWorker DEF Transactions, tableVars, lockVars, txVars, TypeOK
  <2>4. QED
    BY <2>1, <2>2, <2>3, NothingIsOpen DEF Transactions
<1>6. DrawnIds'
  <2>1. \A v \in Writers : pc'[v] = "inserted" => pc[v] = "inserted"
    BY <1>1 DEF TypeOK
  <2>2. QED
    BY <1>1, <2>1, DrawnIdsKept DEF tableVars
<1>7. StockConserved'
  BY <1>1 DEF StockConserved, tableVars
<1>8. QED
  BY <1>3, <1>4, <1>5, <1>6, <1>7

LEMMA DrawListIdInv == ASSUME IInv, NEW w \in Writers, DrawListId(w) PROVE IInv'
<1> USE ConstantsAssumption DEF IInv
<1>1. /\ pc[w] = "insert" /\ nextId \in ListIds /\ nextId \in Nat /\ nextId' = nextId + 1
      /\ pc' = [pc EXCEPT ![w] = "inserted"] /\ seen' = [seen EXCEPT ![w] = nextId]
      /\ UNCHANGED <<requestVars, replies, tableVars, expired, info, lockVars, up,
                     autocommit, cur, attempt, total, err, ok, txVars>>
  BY DEF DrawListId, Goto, TypeOK
<1>2. /\ pc'[w] = "inserted" /\ seen'[w] = nextId
      /\ \A v \in Writers : v # w => pc'[v] = pc[v] /\ seen'[v] = seen[v]
  BY <1>1 DEF TypeOK
<1>3. TypeOK'
  <2>1. /\ pc' \in [Writers -> Steps] /\ seen' \in [Writers -> Int]
        /\ nextId' \in Nat \ {0}
    BY <1>1 DEF TypeOK, Steps
  <2>2. QED
    BY <1>1, <2>1 DEF TypeOK, requestVars, tableVars, lockVars, txVars
<1>4. Tasks'
  BY <1>1, <1>2, TasksKept DEF RegistSteps, requestVars
<1>5. Transactions'
  <2>1. NothingOpen(w)'
    BY <1>1 DEF Transactions, Transaction, LockedSteps, NothingOpen, lockVars, txVars
  <2>2. Transaction(w)'
    BY <1>2, <2>1, NothingIsOpen DEF LockedSteps
  <2>3. ASSUME NEW v \in Writers, v # w PROVE Transaction(v)'
    BY <1>1, <1>2, <2>3, OtherWorker
       DEF Transactions, tableVars, lockVars, requestVars, txVars
  <2>4. QED
    BY <2>2, <2>3 DEF Transactions
<1>6. DrawnIds'
  <2>1. \A l \in ListIds : l \in Nat /\ (Unused(l) => Unused(l)')
    BY <1>1 DEF ListIds, Unused, tableVars
  <2>2. \A l \in ListIds : l >= nextId' => Unused(l)'
    BY <1>1, <2>1 DEF DrawnIds
  <2>3. ASSUME NEW v \in Writers, pc'[v] = "inserted"
        PROVE  /\ seen'[v] \in ListIds /\ seen'[v] < nextId'
               /\ seen'[v] \notin rows' /\ info'[seen'[v]] = Nothing
    <3>1. CASE v = w
      <4>1. Unused(nextId)
        BY <1>1 DEF DrawnIds
      <4>2. rows' = rows /\ info' = info
        BY <1>1 DEF tableVars
      <4>3. QED
        BY <1>1, <1>2, <3>1, <4>1, <4>2 DEF Unused
    <3>2. CASE v # w
      <4>1. seen[v] \in ListIds /\ seen[v] < nextId /\ Unused(seen[v]) /\ seen'[v] = seen[v]
        BY <1>2, <2>3, <3>2 DEF DrawnIds
      <4>2. rows' = rows /\ info' = info /\ nextId' = nextId + 1 /\ nextId \in Nat
        BY <1>1 DEF tableVars
      <4>3. seen[v] < nextId'
        BY <4>1, <4>2 DEF ListIds
      <4>4. QED
        BY <4>1, <4>2, <4>3 DEF Unused
    <3>3. QED
      BY <3>1, <3>2
  <2>4. ASSUME NEW u \in Writers, NEW v \in Writers, u # v,
               pc'[u] = "inserted", pc'[v] = "inserted"
        PROVE  seen'[u] # seen'[v]
    <3>1. \A x \in Writers : x # w /\ pc'[x] = "inserted" => seen'[x] < nextId
      BY <1>2 DEF DrawnIds
    <3>2. QED
      BY <1>1, <1>2, <2>4, <3>1 DEF DrawnIds
  <2>5. QED
    BY <2>2, <2>3, <2>4 DEF DrawnIds, Unused
<1>7. StockConserved'
  BY <1>1 DEF StockConserved, tableVars
<1>8. QED
  BY <1>3, <1>4, <1>5, <1>6, <1>7

LEMMA RegistInv == ASSUME IInv, NEW w \in Writers, Regist(w) PROVE IInv'
<1> USE ConstantsAssumption DEF IInv
<1> DEFINE q == ThePurchase(w)
           l == seen[w]
           new == [seller |-> q.player, price |-> q.price, qty |-> q.count]
<1>1. /\ pc[w] = "inserted" /\ pc' = [pc EXCEPT ![w] = "answer"]
      /\ UNCHANGED <<requestVars, replies, expired, nextId, gold, trades, delivered, paid,
                     lockVars, up, autocommit, cur, localVars, txVars>>
      /\ \/ /\ rows' = rows \cup {l} /\ info' = [info EXCEPT ![l] = new]
            /\ stock' = [stock EXCEPT ![l] = q.count] /\ bought' = bought \cup {cur[w]}
         \/ UNCHANGED <<rows, info, stock, bought>>
  BY DEF Regist, Goto
<1>2. /\ pc'[w] = "answer" /\ l \in ListIds /\ Unused(l) /\ l < nextId /\ l \in Nat
      /\ \A v \in Writers : v # w => pc'[v] = pc[v]
  BY <1>1 DEF DrawnIds, TypeOK, ListIds
<1>3. q.count \in Int /\ q.price \in Int /\ new \in Listing /\ cur[w] \in Nat
  <2>1. cur[w] \in DOMAIN req /\ cur[w] \in Nat
    BY <1>1 DEF Tasks, TypeOK
  <2>2. q \in Request
    BY <2>1 DEF TypeOK, ThePurchase
  <2>3. QED
    BY <2>1, <2>2 DEF Request, Listing
<1>4. /\ rows' \subseteq ListIds /\ rows \subseteq rows'
      /\ \A k \in ListIds : k # l =>
            (k \in rows' <=> k \in rows) /\ info'[k] = info[k] /\ stock'[k] = stock[k]
  BY <1>1, <1>2 DEF TypeOK
<1>5. TypeOK'
  <2>1. info' \in [ListIds -> Listing \cup {Nothing}] /\ stock' \in [ListIds -> Int]
    <3>1. info \in [ListIds -> Listing \cup {Nothing}] /\ stock \in [ListIds -> Int]
      BY DEF TypeOK
    <3>2. CASE info' = [info EXCEPT ![l] = new] /\ stock' = [stock EXCEPT ![l] = q.count]
      <4>1. info' \in [ListIds -> Listing \cup {Nothing}]
        BY <1>2, <1>3, <3>1, <3>2
      <4>2. stock' \in [ListIds -> Int]
        BY <1>2, <1>3, <3>1, <3>2
      <4>3. QED
        BY <4>1, <4>2
    <3>3. CASE info' = info /\ stock' = stock
      BY <3>1, <3>3
    <3>4. QED
      BY <1>1, <3>2, <3>3
  <2>2. bought' \subseteq Nat
    <3>1. bought \subseteq Nat
      BY DEF TypeOK
    <3>2. bought' = bought \cup {cur[w]} \/ bought' = bought
      BY <1>1
    <3>3. QED
      BY <1>3, <3>1, <3>2, Zenon
  <2>3. pc' \in [Writers -> Steps]
    BY <1>1 DEF TypeOK, Steps
  <2>4. QED
    BY <1>1, <1>4, <2>1, <2>2, <2>3 DEF TypeOK, requestVars, lockVars, localVars, txVars
<1>6. Tasks'
  BY <1>1, <1>2, TasksKept DEF RegistSteps, requestVars
<1>7. Transactions'
  <2>1. NothingOpen(w)'
    BY <1>1 DEF Transactions, Transaction, LockedSteps, NothingOpen, lockVars, txVars
  <2>2. Transaction(w)'
    BY <1>2, <2>1, NothingIsOpen DEF LockedSteps
  <2>3. ASSUME NEW v \in Writers, v # w PROVE Transaction(v)'
    <3>1. \A k \in rows : k \in rows' /\ stock'[k] = stock[k] /\ info'[k] = info[k]
      BY <1>2, <1>4 DEF Unused, TypeOK
    <3>2. QED
      BY <1>1, <1>2, <2>3, <3>1, OtherWorker
         DEF Transactions, lockVars, localVars, requestVars, txVars
  <2>4. QED
    BY <2>2, <2>3 DEF Transactions
<1>8. DrawnIds'
  <2>1. \A k \in ListIds : k # l /\ Unused(k) => Unused(k)'
    BY <1>4 DEF Unused
  <2>2. nextId' = nextId /\ seen' = seen /\ nextId \in Nat
    BY <1>1 DEF localVars, TypeOK
  <2>3. \A k \in ListIds : k >= nextId' => Unused(k)'
    BY <1>2, <2>1, <2>2 DEF DrawnIds, ListIds
  <2>4. ASSUME NEW v \in Writers, pc'[v] = "inserted"
        PROVE  /\ v # w /\ seen'[v] \in ListIds /\ seen'[v] < nextId'
               /\ seen[v] \notin rows' /\ info'[seen[v]] = Nothing
    <3>1. v # w /\ pc[v] = "inserted"
      BY <1>2, <2>4
    <3>2. seen[v] \in ListIds /\ seen[v] < nextId /\ Unused(seen[v]) /\ seen[v] # l
      BY <1>1, <3>1 DEF DrawnIds
    <3>3. QED
      BY <1>4, <2>2, <3>1, <3>2 DEF Unused
  <2>5. \A u, v \in Writers : u # v /\ pc'[u] = "inserted" /\ pc'[v] = "inserted"
                                 => seen'[u] # seen'[v]
    BY <1>2, <2>2, <2>4 DEF DrawnIds
  <2>6. QED
    BY <2>2, <2>3, <2>4, <2>5 DEF DrawnIds, Unused
<1>9. StockConserved'
  <2>1. delivered' = delivered /\ paid' = paid
    BY <1>1
  <2>2. /\ delivered[l] \in Nat /\ stock[l] \in Int /\ stock[l] + delivered[l] = 0
        /\ delivered[l] > 0 => stock[l] >= 0
        /\ paid[l] = 0 * delivered[l]
    BY <1>2 DEF StockConserved, Unused, Nothing, TypeOK
  <2>3. delivered[l] = 0 /\ paid[l] = 0
    BY <2>2
  <2>4. /\ stock'[l] + delivered'[l] = info'[l].qty
        /\ delivered'[l] > 0 => stock'[l] >= 0
        /\ paid'[l] = info'[l].price * delivered'[l]
    <3>1. CASE UNCHANGED <<rows, info, stock, bought>>
      BY <1>2, <2>1, <3>1 DEF StockConserved
    <3>2. CASE info' = [info EXCEPT ![l] = new] /\ stock' = [stock EXCEPT ![l] = q.count]
      <4>1. info'[l] = new /\ stock'[l] = q.count
        BY <1>2, <3>2 DEF TypeOK
      <4>2. QED
        BY <1>3, <2>1, <2>3, <4>1
    <3>3. QED
      BY <1>1, <3>1, <3>2
  <2>5. ASSUME NEW k \in ListIds, k # l
        PROVE  stock'[k] = stock[k] /\ info'[k] = info[k]
    BY <1>4, <2>5
  <2>6. QED
    BY <2>1, <2>4, <2>5 DEF StockConserved
<1>10. QED
  BY <1>5, <1>6, <1>7, <1>8, <1>9

(* A registration that ends, answered or not, leaves the tables alone. *)
LEMMA RegistEndsInv ==
    ASSUME IInv, NEW w \in Writers, AnswerRegist(w) \/ RegistFails(w)
    PROVE  IInv'
<1> USE ConstantsAssumption DEF IInv
<1>1. /\ pc[w] \in RegistSteps /\ EndTask(w)
      /\ UNCHANGED <<requestVars, tableVars, expired, info, nextId, lockVars, up,
                     autocommit, txVars>>
      /\ \/ replies' = replies
         \/ replies' = Append(replies, [req |-> cur[w], ok |-> TRUE, gold |-> 0])
  BY DEF AnswerRegist, RegistFails, RegistSteps
<1>2. /\ pc'[w] = "idle"
      /\ \A v \in Writers : v # w =>
            /\ pc'[v] = pc[v] /\ cur'[v] = cur[v]
            /\ seen'[v] = seen[v] /\ total'[v] = total[v]
  BY <1>1 DEF EndTask, Goto, TypeOK
<1>3. TypeOK'
  <2>1. /\ pc' \in [Writers -> Steps] /\ cur' \in [Writers -> Nat]
        /\ total' \in [Writers -> Int] /\ seen' \in [Writers -> Int]
        /\ err' \in [Writers -> {"none", "deadlock", "lockwait", "other"}]
        /\ ok' \in [Writers -> BOOLEAN]
    BY <1>1 DEF EndTask, Goto, TypeOK, Steps
  <2>2. attempt' \in [Writers -> 0 .. kMaxTxAttempts]
    BY <1>1 DEF EndTask, TypeOK
  <2>3. replies' \in Seq([req : Nat, ok : BOOLEAN, gold : Int])
    <3>1. [req |-> cur[w], ok |-> TRUE, gold |-> 0] \in [req : Nat, ok : BOOLEAN, gold : Int]
      BY DEF TypeOK
    <3>2. replies \in Seq([req : Nat, ok : BOOLEAN, gold : Int])
      BY DEF TypeOK
    <3>3. CASE replies' = replies
      BY <3>2, <3>3
    <3>4. CASE replies' = Append(replies, [req |-> cur[w], ok |-> TRUE, gold |-> 0])
      BY <3>1, <3>2, <3>4
    <3>5. QED
      BY <1>1, <3>3, <3>4
  <2>4. QED
    BY <1>1, <2>1, <2>2, <2>3 DEF TypeOK, requestVars, tableVars, lockVars, txVars
<1>4. Tasks'
  BY <1>1, <1>2, TasksKept DEF RegistSteps, requestVars
<1>5. Transactions'
  <2>1. NothingOpen(w)'
    BY <1>1
       DEF Transactions, Transaction, LockedSteps, RegistSteps, NothingOpen, lockVars, txVars
  <2>2. Transaction(w)'
    BY <1>2, <2>1, NothingIsOpen DEF LockedSteps
  <2>3. ASSUME NEW v \in Writers, v # w PROVE Transaction(v)'
    BY <1>1, <1>2, <2>3, OtherWorker
       DEF Transactions, tableVars, lockVars, requestVars, txVars
  <2>4. QED
    BY <2>2, <2>3 DEF Transactions
<1>6. DrawnIds'
  BY <1>1, <1>2, DrawnIdsKept DEF tableVars
<1>7. StockConserved'
  BY <1>1 DEF StockConserved, tableVars
<1>8. QED
  BY <1>3, <1>4, <1>5, <1>6, <1>7
-----------------------------------------------------------------------------
(* Every step keeps the invariant.                                         *)

LEMMA ArrivalsInv == ASSUME IInv, Arrive PROVE IInv'
<1> USE ConstantsAssumption
<1>1. ASSUME NEW p \in Players, NEW l \in ListIds, NEW n \in Counts,
             Handle_REQ_PURCHASE_ITEM(p, l, n)
      PROVE  IInv'
  <2> DEFINE r == [kind |-> "purchase", player |-> p, list |-> l, count |-> n, price |-> 0]
  <2>1. r \in Request /\ l \in Nat
    BY DEF Request, ListIds
  <2>2. /\ req' = Append(req, r) /\ PostWrite(l, Len(req) + 1)
        /\ WorkerUnchanged
    BY <1>1 DEF Handle_REQ_PURCHASE_ITEM, PurchaseKey
  <2>3. QED
    BY <2>1, <2>2, ArriveInv
<1>2. ASSUME NEW p \in Players, NEW n \in Counts, NEW price \in Prices,
             Handle_REQ_REGIST_ITEM(p, n, price)
      PROVE  IInv'
  <2> DEFINE r == [kind |-> "regist", player |-> p, list |-> 0, count |-> n, price |-> price]
  <2>1. r \in Request /\ p \in Nat
    BY DEF Request
  <2>2. req' = Append(req, r) /\ PostWrite(p, Len(req) + 1) /\ WorkerUnchanged
    BY <1>2 DEF Handle_REQ_REGIST_ITEM
  <2>3. QED
    BY <2>1, <2>2, ArriveInv
<1>3. QED
  BY <1>1, <1>2 DEF Arrive

(* The first check of TryPurchase holds through its transaction: only      *)
(* Begin lets a worker past it, and a request stays as it arrived.         *)
LEMMA CountedKept ==
    ASSUME IInv, Counted, NEW w \in Writers,
           \A r \in DOMAIN req : req'[r] = req[r],
           pc'[w] \in CheckedSteps => pc[w] \in CheckedSteps /\ cur'[w] = cur[w]
    PROVE  pc'[w] \in CheckedSteps => ThePurchase(w)'.count > 0
<1> SUFFICES ASSUME pc'[w] \in CheckedSteps PROVE ThePurchase(w)'.count > 0
  OBVIOUS
<1>1. pc[w] \in CheckedSteps /\ cur'[w] = cur[w] /\ cur[w] \in DOMAIN req
  BY DEF IInv, Tasks, CheckedSteps, LockedSteps
<1>2. QED
  BY <1>1 DEF Counted, ThePurchase

LEMMA StepCounted == IInv /\ Counted /\ [Next]_vars => Counted'
<1> SUFFICES ASSUME IInv, Counted, [Next]_vars PROVE Counted'
  OBVIOUS
<1>0. DOMAIN pc = Writers /\ DOMAIN cur = Writers /\ req \in Seq(Request)
  BY DEF IInv, TypeOK
<1>1. CASE Arrive \/ (\E l \in ListIds : Expire(l)) \/ UNCHANGED vars
  <2>1. UNCHANGED <<pc, cur>>
    BY <1>1 DEF Arrive, Handle_REQ_PURCHASE_ITEM, Handle_REQ_REGIST_ITEM, WorkerUnchanged,
                Expire, vars
  <2>2. req' = req \/ \E q : req' = Append(req, q)
    BY <1>1 DEF Arrive, Handle_REQ_PURCHASE_ITEM, Handle_REQ_REGIST_ITEM, Expire,
                requestVars, vars
  <2>3. \A r \in DOMAIN req : req'[r] = req[r]
    BY <1>0, <2>2
  <2>4. QED
    BY <2>1, <2>3, CountedKept DEF Counted
<1>2. ASSUME NEW w \in Writers, Begin(w) PROVE Counted'
  <2>1. /\ req' = req /\ cur' = cur
        /\ \A v \in Writers : v # w => pc'[v] = pc[v]
        /\ pc'[w] = "rollback" \/ (pc'[w] = "select" /\ ~(ThePurchase(w).count <= 0))
    BY <1>0, <1>2 DEF Begin, Throw, Goto, requestVars
  <2>2. pc'[w] \in CheckedSteps => ThePurchase(w)'.count > 0
    <3>1. ThePurchase(w).count \in Int
      BY <1>2, PurchaseIsTyped DEF Begin, IInv, RegistSteps
    <3>2. ThePurchase(w)' = ThePurchase(w)
      BY <2>1 DEF ThePurchase
    <3>3. QED
      BY <2>1, <3>1, <3>2 DEF CheckedSteps, LockedSteps
  <2>3. \A v \in Writers : v # w => (pc'[v] \in CheckedSteps => ThePurchase(v)'.count > 0)
    BY <2>1, CountedKept
  <2>4. QED
    BY <2>2, <2>3 DEF Counted
<1>3. ASSUME NEW w \in Writers, Work(w) \/ Trouble(w), ~Begin(w) PROVE Counted'
  <2>1. /\ req' = req
        /\ \A v \in Writers : v # w => pc'[v] = pc[v] /\ cur'[v] = cur[v]
    <3>1. CASE TakeTask(w) \/ SelectForUpdate(w) \/ ChargeGold(w) \/ TakeStock(w)
                 \/ RecordTrade(w) \/ GiveReceipts(w) \/ Commit(w)
      BY <1>0, <3>1 DEF TakeTask, SelectForUpdate, ChargeGold, TakeStock, RecordTrade,
                        GiveReceipts, Commit, Throw, Goto, requestVars
    <3>2. CASE Rollback(w) \/ RestoreAutoCommit(w) \/ DrawListId(w) \/ Regist(w)
                 \/ AnswerRegist(w) \/ DeadStatement(w)
      BY <1>0, <3>2 DEF Rollback, RestoreAutoCommit, DrawListId, Regist, AnswerRegist,
                        DeadStatement, Throw, Goto, EndTask, requestVars
    <3>3. CASE Trouble(w)
      BY <1>0, <3>3 DEF Trouble, StatementFails, RegistFails, ConnectionLost, Throw, Goto,
                        EndTask, requestVars
    <3>4. QED
      BY <1>3, <3>1, <3>2, <3>3 DEF Work
  <2>2. pc'[w] \in CheckedSteps => pc[w] \in CheckedSteps /\ cur'[w] = cur[w]
    <3>1. CASE TakeTask(w) \/ DrawListId(w) \/ Regist(w) \/ AnswerRegist(w)
                 \/ Commit(w) \/ Rollback(w) \/ RestoreAutoCommit(w) \/ DeadStatement(w)
      BY <1>0, <3>1 DEF TakeTask, DrawListId, Regist, AnswerRegist, Commit, Rollback,
             RestoreAutoCommit, DeadStatement, Throw, Goto, EndTask, CheckedSteps, LockedSteps
    <3>2. CASE SelectForUpdate(w) \/ ChargeGold(w) \/ TakeStock(w) \/ RecordTrade(w)
                 \/ GiveReceipts(w)
      BY <3>2 DEF SelectForUpdate, ChargeGold, TakeStock, RecordTrade, GiveReceipts,
                  CheckedSteps, LockedSteps
    <3>3. CASE Trouble(w)
      BY <1>0, <3>3 DEF Trouble, StatementFails, RegistFails, ConnectionLost, Throw, Goto,
                        EndTask, CheckedSteps, LockedSteps, localVars
    <3>4. QED
      BY <1>3, <3>1, <3>2, <3>3 DEF Work
  <2>3. QED
    BY <2>1, <2>2, CountedKept DEF Counted
<1>4. QED
  BY <1>1, <1>2, <1>3 DEF Next

LEMMA StepInv == IInv /\ Counted /\ [Next]_vars => IInv'
<1> SUFFICES ASSUME IInv, Counted, [Next]_vars PROVE IInv'
  OBVIOUS
<1>1. CASE Arrive
  BY <1>1, ArrivalsInv
<1>2. CASE \E l \in ListIds : Expire(l)
  BY <1>2, ExpireInv
<1>3. ASSUME NEW w \in Writers, Work(w) PROVE IInv'
  BY <1>3, TakeTaskInv, BeginInv, SelectInv, ChargeInv, TakeInv, RecordInv, ReceiptsInv,
     CommitInv, RollbackInv, RestoreInv, DrawListIdInv, RegistInv, RegistEndsInv,
     DeadStatementInv DEF Work
<1>4. ASSUME NEW w \in Writers, Trouble(w) PROVE IInv'
  BY <1>4, StatementFailsInv, RegistEndsInv, ConnectionLostInv DEF Trouble
<1>5. CASE UNCHANGED vars
  <2>1. /\ UNCHANGED <<req, queue, replies, rows, expired, info, stock, nextId, gold, trades>>
        /\ UNCHANGED <<delivered, paid, bought, listLock, goldLock, up, autocommit, pc>>
        /\ UNCHANGED <<cur, attempt, total, seen, err, ok, charged, took, logged, receipted>>
    BY <1>5 DEF vars
  <2>2. TypeOK' /\ Tasks' /\ DrawnIds' /\ StockConserved'
    BY <2>1 DEF IInv, TypeOK, Tasks, ThePurchase, DrawnIds, Unused, StockConserved
  <2>3. Transactions'
    BY <2>1 DEF IInv, Transactions, Transaction, NothingOpen, Locked, ThePurchase
  <2>4. QED
    BY <2>2, <2>3 DEF IInv
<1>6. QED
  BY <1>1, <1>2, <1>3, <1>4, <1>5 DEF Next

LEMMA Invariance == Spec => []IInv
<1>1. Init => Counted
  BY DEF Init, Counted, CheckedSteps, LockedSteps
<1>2. QED
  BY <1>1, InitInv, StepInv, StepCounted, PTL DEF Spec
-----------------------------------------------------------------------------
(* The state always has its types, and so no character's gold ever goes    *)
(* below zero, whatever sign the price of what it bought had (the          *)
(* `gold >= ?` of the UPDATE, AuctionService.cpp:204-209), nor what was    *)
(* delivered (the check of the count, 183).                                *)
THEOREM PurchaseTypes == Spec => []TypeOK
BY Invariance, PTL DEF IInv

(* Nothing is lost or sold twice, and the sellers are owed the price of    *)
(* exactly what was sold, whatever fails in between (TryPurchase and       *)
(* Purchase, AuctionService.cpp:131-234).                                  *)
THEOREM PurchaseConservesStock == Spec => []StockConserved
BY Invariance, PTL DEF IInv

(* What a transaction read under SELECT ... FOR UPDATE stays true until it *)
(* ends, so the decisions it takes on it do (AuctionService.cpp:185-219).  *)
THEOREM PurchaseReadsStayTrue == Spec => []ReadsStayTrue
<1>1. IInv => ReadsStayTrue
  BY DEF IInv, Transactions, Transaction, Locked, LockedSteps, ReadsStayTrue
<1>2. QED
  BY <1>1, Invariance, PTL

(* The gold lock is the last a purchase takes: no worker that still has it *)
(* to take holds one.                                                      *)
GoldLast == \A w \in Writers : pc[w] = "charge" => \A p \in Players : goldLock[p] # w

LEMMA GoldLastKept ==
    ASSUME GoldLast,
           \A w \in Writers : pc'[w] = "charge" => pc[w] = "charge",
           \A p \in Players : goldLock'[p] \in {goldLock[p], NoWriter}
    PROVE  GoldLast'
BY WritersAreReal DEF GoldLast

(* It stays so: a worker enters "charge" with nothing locked, and leaves   *)
(* it when it takes the lock.                                              *)
LEMMA StepGoldLast == IInv /\ GoldLast /\ [Next]_vars => GoldLast'
<1> SUFFICES ASSUME IInv, GoldLast, [Next]_vars PROVE GoldLast'
  OBVIOUS
<1>0. /\ DOMAIN pc = Writers /\ DOMAIN goldLock = Players
      /\ \A w \in Writers, s \in STRING : [pc EXCEPT ![w] = s][w] = s
  BY DEF IInv, TypeOK
<1>1. CASE Arrive \/ (\E l \in ListIds : Expire(l)) \/ UNCHANGED vars
  <2>1. UNCHANGED <<pc, goldLock>>
    BY <1>1 DEF Arrive, Handle_REQ_PURCHASE_ITEM, Handle_REQ_REGIST_ITEM, WorkerUnchanged,
                Expire, lockVars, vars
  <2>2. QED
    BY <2>1, GoldLastKept
<1>2. ASSUME NEW w \in Writers, SelectForUpdate(w) PROVE GoldLast'
  <2>1. goldLock' = goldLock /\ \A v \in Writers : v # w => pc'[v] = pc[v]
    <3>1. pc' = [pc EXCEPT ![w] = "rollback"] \/ pc' = [pc EXCEPT ![w] = "charge"]
      BY <1>2 DEF SelectForUpdate, Throw, Goto
    <3>2. goldLock' = goldLock
      BY <1>2 DEF SelectForUpdate
    <3>3. QED
      BY <1>0, <3>1, <3>2
  <2>2. \A p \in Players : goldLock[p] # w
    BY <1>2 DEF SelectForUpdate, IInv, Transactions, Transaction, NothingOpen, LockedSteps
  <2>3. QED
    BY <2>1, <2>2 DEF GoldLast
<1>3. ASSUME NEW w \in Writers, ChargeGold(w) PROVE GoldLast'
  <2>1. pc'[w] # "charge" /\ \A v \in Writers : v # w => pc'[v] = pc[v]
    BY <1>0, <1>3 DEF ChargeGold, Throw, Goto
  <2>2. \A p \in Players : goldLock'[p] \in {goldLock[p], w}
    BY <1>0, <1>3 DEF ChargeGold
  <2>3. QED
    BY <2>1, <2>2 DEF GoldLast
<1>4. ASSUME NEW w \in Writers,
             TakeTask(w) \/ Begin(w) \/ TakeStock(w) \/ RecordTrade(w) \/ GiveReceipts(w)
                \/ DrawListId(w) \/ Regist(w) \/ AnswerRegist(w) \/ DeadStatement(w)
                \/ RegistFails(w)
      PROVE  GoldLast'
  <2>1. goldLock' = goldLock
    BY <1>4 DEF TakeTask, Begin, TakeStock, RecordTrade, GiveReceipts, DrawListId, Regist,
                AnswerRegist, DeadStatement, RegistFails, lockVars
  <2>2. \A v \in Writers : pc'[v] = "charge" => pc[v] = "charge"
    <3>1. \E s \in {"begin", "insert", "select", "record", "receipts", "commit", "inserted",
                   "answer", "idle", "rollback"} : pc' = [pc EXCEPT ![w] = s]
      <4>1. CASE TakeTask(w) \/ Begin(w) \/ TakeStock(w) \/ RecordTrade(w) \/ GiveReceipts(w)
        BY <4>1 DEF TakeTask, Begin, TakeStock, RecordTrade, GiveReceipts, Throw, Goto
      <4>2. CASE DrawListId(w) \/ Regist(w) \/ AnswerRegist(w) \/ DeadStatement(w)
                    \/ RegistFails(w)
        BY <4>2 DEF DrawListId, Regist, AnswerRegist, DeadStatement, RegistFails, Throw, Goto,
                    EndTask
      <4>3. QED
        BY <1>4, <4>1, <4>2
    <3>2. QED
      BY <1>0, <3>1
  <2>3. QED
    BY <2>1, <2>2, GoldLastKept
<1>5. ASSUME NEW w \in Writers,
             Commit(w) \/ Rollback(w) \/ RestoreAutoCommit(w) \/ ConnectionLost(w)
                \/ \E code \in {"deadlock", "lockwait", "other"} : StatementFails(w, code)
      PROVE  GoldLast'
  <2>1. ReleaseLocks(w) \/ goldLock' = goldLock
    BY <1>5 DEF Commit, Rollback, RestoreAutoCommit, ConnectionLost, StatementFails,
                EndTransaction, lockVars
  <2>2. \A p \in Players : goldLock'[p] \in {goldLock[p], NoWriter}
    BY <2>1 DEF ReleaseLocks
  <2>3. \A v \in Writers : pc'[v] = "charge" => pc[v] = "charge"
    BY <1>0, <1>5 DEF Commit, Rollback, RestoreAutoCommit, ConnectionLost, StatementFails,
                Throw, Goto, EndTask
  <2>4. QED
    BY <2>2, <2>3, GoldLastKept
<1>6. QED
  BY <1>1, <1>2, <1>3, <1>4, <1>5 DEF Next, Work, Trouble

LEMMA LocksInvariance == Spec => [](IInv /\ GoldLast)
<1>1. Init => GoldLast
  BY DEF Init, GoldLast
<1>2. QED
  BY <1>1, Invariance, StepGoldLast, PTL DEF Spec

(* A row lock is only ever held by a transaction that is still running on  *)
(* a live connection, and the gold lock by one that has no other to wait   *)
(* for (SafeRollback, AuctionService.cpp:145-167, 236-245).                *)
THEOREM PurchaseLeavesNoLock == Spec => []NoLockLeft
<1>1. IInv /\ GoldLast => NoLockLeft
  BY DEF IInv, Transactions, Transaction, NothingOpen, LockedSteps, GoldLast, NoLockLeft
<1>2. QED
  BY <1>1, LocksInvariance, PTL

(* Worker v waits for a row lock that w holds. *)
WaitsFor(v, w) ==
    \/ pc[v] = "select" /\ listLock[ThePurchase(v).list] = w
    \/ pc[v] = "charge" /\ goldLock[ThePurchase(v).player] = w

(* No workers wait for each other in a circle. *)
NoCircle ==
    ~ \E W \in SUBSET Writers :
         W # {} /\ \A v \in W : \E w \in W : WaitsFor(v, w)

(* Purchases never deadlock among themselves: every one locks the listing  *)
(* and then the buyer's gold (statements at AuctionService.cpp:178-207).   *)
(* They do wait for each other, but never in a circle, so the deadlock     *)
(* error that Purchase retries on (13-14, 150-156) comes from locks the    *)
(* model does not have: those of other clients, or on gaps and indexes.    *)
THEOREM PurchasesNeverDeadlock == Spec => []NoCircle
<1>1. IInv /\ GoldLast => NoCircle
  <2> SUFFICES ASSUME IInv, GoldLast, NEW W \in SUBSET Writers,
                      \A v \in W : \E w \in W : WaitsFor(v, w)
               PROVE  W = {}
    BY DEF NoCircle
  <2>1. ASSUME NEW v \in W, NEW w \in W, WaitsFor(v, w) PROVE pc[w] = "charge"
    <3>1. pc[w] \in {"select", "charge"}
      BY DEF WaitsFor
    <3>2. \/ \E l \in ListIds : listLock[l] = w
          \/ \E p \in Players : goldLock[p] = w
      <4>1. TypeOK /\ Tasks /\ v \in Writers /\ pc[v] \in {"select", "charge"}
        BY <2>1 DEF WaitsFor, IInv
      <4>2. ThePurchase(v).list \in ListIds /\ ThePurchase(v).player \in Players
        BY <4>1, PurchaseIsTyped DEF RegistSteps
      <4>3. QED
        BY <2>1, <4>2 DEF WaitsFor
    <3>3. pc[w] # "select"
      BY <3>2 DEF IInv, Transactions, Transaction, NothingOpen, LockedSteps
    <3>4. QED
      BY <3>1, <3>3
  <2>2. ASSUME NEW v \in W PROVE FALSE
    <3>1. PICK w \in W : WaitsFor(v, w)
      OBVIOUS
    <3>2. PICK u \in W : WaitsFor(w, u)
      OBVIOUS
    <3>3. pc[w] = "charge" /\ pc[u] = "charge" /\ w \in Writers /\ u \in Writers
      BY <2>1, <3>1, <3>2
    <3>4. ThePurchase(w).player \in Players /\ goldLock[ThePurchase(w).player] = u
      <4>1. TypeOK /\ Tasks
        BY DEF IInv
      <4>2. QED
        BY <3>2, <3>3, <4>1, PurchaseIsTyped DEF WaitsFor, RegistSteps
    <3>5. QED
      BY <3>3, <3>4 DEF GoldLast
  <2>3. QED
    BY <2>2
<1>2. QED
  BY <1>1, LocksInvariance, PTL
-----------------------------------------------------------------------------
(***************************************************************************)
(* What became of every request: the invariant behind the answers.         *)
(***************************************************************************)

(* The worker a request is posted to. *)
Key(q) == IF q.kind = "purchase" THEN q.list ELSE q.player
Route(q) == Key(q) % WriterCount

(* Request r left its worker's queue before everything that is in it. *)
LeftQueue(r) ==
    /\ r \in DOMAIN req
    /\ \A w \in Writers : Route(req[r]) = w => \A i \in DOMAIN queue[w] : r < queue[w][i]

(* A worker has only its own requests, and takes them as they arrived. *)
Routes ==
    \A w \in Writers :
        /\ pc[w] # "idle" => Route(req[cur[w]]) = w /\ LeftQueue(cur[w])
        /\ \A i \in DOMAIN queue[w] : Route(req[queue[w][i]]) = w
        /\ \A i, j \in DOMAIN queue[w] : i < j => queue[w][i] < queue[w][j]

(* What took effect or was answered has been taken, and what was answered  *)
(* was so before the request its worker is running.                        *)
Past ==
    /\ \A r \in bought : LeftQueue(r)
    /\ \A k \in DOMAIN replies :
          /\ LeftQueue(replies[k].req)
          /\ \A w \in Writers : pc[w] # "idle" /\ Route(req[replies[k].req]) = w
                => replies[k].req < cur[w]
          /\ \A j \in DOMAIN replies :
                j < k /\ Route(req[replies[j].req]) = Route(req[replies[k].req])
                   => replies[j].req < replies[k].req

(* Whether the request a worker runs took effect, step by step, and what   *)
(* the statements checked before it may. *)
Effect(w) ==
    LET q == ThePurchase(w)
    IN  /\ up[w] /\ pc[w] \in RegistSteps \cup {"idle"} => autocommit[w]
        /\ up[w] /\ pc[w] \notin {"idle", "restore", "answer"} => cur[w] \notin bought
        /\ pc[w] = "answer" => cur[w] \in bought
        /\ up[w] /\ pc[w] = "restore" /\ ~ok[w] => cur[w] \notin bought
        /\ pc[w] = "restore" /\ ok[w] =>
              /\ cur[w] \in bought /\ err[w] = "none"
              /\ info[q.list] # Nothing /\ total[w] = info[q.list].price * q.count
        /\ up[w] /\ pc[w] \in LockedSteps \cup {"select"} => q.count > 0
        /\ up[w] /\ pc[w] \in LockedSteps => info[q.list].seller # q.player

(* What each answer says is what happened. *)
Verdict(k) ==
    LET r == replies[k].req
        q == req[r]
    IN  /\ replies[k].ok =>
              /\ r \in bought
              /\ q.kind = "purchase" => info[q.list] # Nothing
                                          /\ replies[k].gold = info[q.list].price * q.count
        /\ ~replies[k].ok =>
              /\ q.kind = "purchase"
              /\ r \in bought => \A w \in Writers : Route(req[r]) = w => ~up[w]

RowsListed == \A l \in rows : info[l] # Nothing

AnswersInv ==
    /\ Routes /\ Past /\ RowsListed
    /\ \A w \in Writers : Effect(w)
    /\ \A k \in DOMAIN replies : Verdict(k)

LEMMA InitAnswers == Init => AnswersInv
<1> SUFFICES ASSUME Init PROVE AnswersInv
  OBVIOUS
<1> USE ConstantsAssumption DEF Init
<1>1. RowsListed
  <2>1. \A l \in DOMAIN Opening : Opening[l] \in Listing /\ l \in ListIds
    BY DEF ListIds
  <2>2. \A x \in Listing : x # Nothing
    BY DEF Listing, Nothing
  <2>3. QED
    BY <2>1, <2>2 DEF RowsListed
<1>2. Routes /\ Past
  BY DEF Routes, Past
<1>3. \A w \in Writers : Effect(w)
  BY DEF Effect, LockedSteps
<1>4. QED
  BY <1>1, <1>2, <1>3 DEF AnswersInv


(* Where nobody takes a task or answers one, at most requests being run    *)
(* take effect.                                                            *)
LEMMA PastKept ==
    ASSUME Routes, Past, UNCHANGED <<req, queue, replies>>,
           \A v \in Writers : cur'[v] = cur[v] /\ (pc'[v] = "idle" <=> pc[v] = "idle"),
           \A r \in bought' : r \in bought \/ \E v \in Writers : pc[v] # "idle" /\ r = cur[v]
    PROVE  Routes' /\ Past'
<1>1. \A r : LeftQueue(r) => LeftQueue(r)'
  BY DEF LeftQueue
<1>2. Routes'
  BY <1>1 DEF Routes
<1>3. \A r \in bought' : LeftQueue(r)'
  BY <1>1 DEF Routes, Past
<1>4. QED
  BY <1>1, <1>2, <1>3 DEF Past

(* A task that ends, and its answer if it has one. *)
LEMMA PastEnds ==
    ASSUME TypeOK, Routes, Past, NEW w \in Writers, pc[w] # "idle", pc'[w] = "idle",
           UNCHANGED <<req, queue, bought>>,
           \A v \in Writers : v # w => pc'[v] = pc[v] /\ cur'[v] = cur[v],
           \/ replies' = replies
           \/ \E a : a.req = cur[w] /\ replies' = Append(replies, a)
    PROVE  Routes' /\ Past'
<1>1. \A r : LeftQueue(r) => LeftQueue(r)'
  BY DEF LeftQueue
<1>2. Routes'
  BY <1>1 DEF Routes
<1>3. \A r \in bought' : LeftQueue(r)'
  BY <1>1 DEF Past
<1>4. CASE replies' = replies
  BY <1>1, <1>2, <1>3, <1>4 DEF Past
<1>5. CASE \E a : a.req = cur[w] /\ replies' = Append(replies, a)
  <2>1. PICK a : a.req = cur[w] /\ replies' = Append(replies, a)
    BY <1>5
  <2>2. /\ Len(replies) \in Nat /\ DOMAIN replies = 1 .. Len(replies)
        /\ DOMAIN replies' = 1 .. Len(replies) + 1
        /\ replies'[Len(replies) + 1] = a
        /\ \A k \in DOMAIN replies : replies'[k] = replies[k]
    BY <2>1 DEF TypeOK
  <2>3. LeftQueue(cur[w]) /\ Route(req[cur[w]]) = w
    BY DEF Routes
  <2>4. ASSUME NEW k \in DOMAIN replies'
        PROVE  /\ LeftQueue(replies'[k].req)
               /\ \A v \in Writers : pc'[v] # "idle" /\ Route(req[replies'[k].req]) = v
                     => replies'[k].req < cur'[v]
               /\ \A j \in DOMAIN replies' :
                     j < k /\ Route(req[replies'[j].req]) = Route(req[replies'[k].req])
                        => replies'[j].req < replies'[k].req
    <3>1. CASE k = Len(replies) + 1
      <4>1. LeftQueue(replies'[k].req)
        BY <2>1, <2>2, <2>3, <3>1
      <4>2. \A v \in Writers : pc'[v] # "idle" => Route(req[replies'[k].req]) # v
        BY <1>1, <2>1, <2>2, <2>3, <3>1
      <4>3. ASSUME NEW j \in DOMAIN replies', j < k,
                   Route(req[replies'[j].req]) = Route(req[replies'[k].req])
            PROVE  replies'[j].req < replies'[k].req
        <5>1. j \in DOMAIN replies /\ replies'[j] = replies[j]
          BY <2>2, <3>1, <4>3
        <5>2. Route(req[replies[j].req]) = w /\ replies'[k].req = cur[w]
          BY <1>1, <2>1, <2>2, <2>3, <3>1, <4>3, <5>1
        <5>3. QED
          BY <5>1, <5>2 DEF Past
      <4>4. QED
        BY <4>1, <4>2, <4>3
    <3>2. CASE k # Len(replies) + 1
      <4>1. /\ k \in DOMAIN replies /\ replies'[k] = replies[k]
            /\ \A j \in DOMAIN replies' : j < k => j \in DOMAIN replies /\ replies'[j] = replies[j]
        BY <2>2, <3>2
      <4>2. \A v \in Writers : pc'[v] # "idle" => pc[v] # "idle" /\ cur'[v] = cur[v]
        OBVIOUS
      <4>3. QED
        BY <4>1, <4>2 DEF Past
    <3>3. QED
      BY <3>1, <3>2
  <2>5. QED
    BY <1>2, <1>3, <2>4 DEF Past, LeftQueue
<1>6. QED
  BY <1>4, <1>5

(* A worker is where it was when its own state is, its listing is, and its *)
(* request did not take effect meanwhile.                                  *)
LEMMA EffectKept ==
    ASSUME TypeOK, Tasks, Transactions, RowsListed, NEW v \in Writers, Effect(v),
           /\ pc'[v] = pc[v] /\ cur'[v] = cur[v] /\ (up'[v] => up[v])
           /\ autocommit'[v] = autocommit[v] /\ total'[v] = total[v]
           /\ err'[v] = err[v] /\ ok'[v] = ok[v],
           pc[v] # "idle" => (cur[v] \in bought' <=> cur[v] \in bought),
           \A r \in DOMAIN req : req'[r] = req[r],
           \A l \in ListIds : info[l] # Nothing => info'[l] = info[l]
    PROVE  Effect(v)'
<1>1. CASE pc[v] \in RegistSteps \cup {"idle"}
  BY <1>1 DEF Effect, RegistSteps, LockedSteps
<1>2. CASE pc[v] \notin RegistSteps \cup {"idle"}
  <2>1. cur[v] \in DOMAIN req /\ ThePurchase(v).list \in ListIds
    BY <1>2, PurchaseIsTyped
  <2>2. ThePurchase(v)' = ThePurchase(v)
    BY <2>1 DEF ThePurchase
  <2>3. up[v] /\ pc[v] \in LockedSteps => info[ThePurchase(v).list] # Nothing
    BY DEF Transactions, Transaction, Locked, RowsListed
  <2>4. QED
    BY <1>2, <2>1, <2>2, <2>3 DEF Effect, RegistSteps
<1>3. QED
  BY <1>1, <1>2

(* An answer stays true. *)
LEMMA VerdictKept ==
    ASSUME TypeOK, Tasks, Routes, Past, NEW k \in DOMAIN replies, Verdict(k),
           replies'[k] = replies[k],
           \A v \in Writers : up'[v] => up[v],
           \A r \in DOMAIN req : req'[r] = req[r],
           \A l \in ListIds : info[l] # Nothing => info'[l] = info[l],
           bought \subseteq bought',
           \A r \in bought' : r \in bought \/ \E v \in Writers : pc[v] # "idle" /\ r = cur[v]
    PROVE  Verdict(k)'
<1> DEFINE r == replies[k].req
<1>1. r \in DOMAIN req /\ req'[r] = req[r]
  BY DEF Past, LeftQueue
<1>2. req[r].kind = "purchase" => req[r].list \in ListIds
  BY <1>1 DEF Tasks
<1>3. r \in bought' => r \in bought
  <2>1. ASSUME NEW v \in Writers, pc[v] # "idle", r = cur[v] PROVE FALSE
    <3>1. Route(req[r]) = v
      BY <2>1 DEF Routes
    <3>2. r < cur[v]
      BY <2>1, <3>1 DEF Past
    <3>3. cur[v] \in Nat
      BY <1>1, <2>1 DEF TypeOK
    <3>4. QED
      BY <2>1, <3>2, <3>3
  <2>2. QED
    BY <2>1
<1>4. QED
  BY <1>1, <1>2, <1>3 DEF Verdict

(* A step of one worker that neither takes nor ends a task: what it must   *)
(* show for the answers to stay right.                                     *)
LEMMA WorkerMoves ==
    ASSUME IInv, AnswersInv, NEW w \in Writers,
           UNCHANGED <<req, queue, replies, cur>>,
           \A l \in ListIds : info[l] # Nothing => info'[l] = info[l],
           RowsListed',
           pc'[w] = "idle" <=> pc[w] = "idle", up'[w] => up[w],
           \A v \in Writers : v # w =>
              /\ pc'[v] = pc[v] /\ up'[v] = up[v] /\ autocommit'[v] = autocommit[v]
              /\ total'[v] = total[v] /\ err'[v] = err[v] /\ ok'[v] = ok[v],
           bought' = bought \/ (pc[w] # "idle" /\ bought' = bought \cup {cur[w]}),
           Effect(w)'
    PROVE  AnswersInv'
<1> USE DEF IInv, AnswersInv
<1>1. bought \subseteq bought'
         /\ \A r \in bought' : r \in bought \/ \E v \in Writers : pc[v] # "idle" /\ r = cur[v]
  OBVIOUS
<1>2. Routes' /\ Past'
  <2>1. \A v \in Writers : cur'[v] = cur[v] /\ (pc'[v] = "idle" <=> pc[v] = "idle")
    OBVIOUS
  <2>2. QED
    BY <1>1, <2>1, PastKept
<1>3. ASSUME NEW v \in Writers PROVE Effect(v)'
  <2>1. CASE v = w
    BY <2>1
  <2>2. CASE v # w
    <3>1. pc[v] # "idle" => (cur[v] \in bought' <=> cur[v] \in bought)
      <4>1. pc[v] # "idle" /\ pc[w] # "idle" => cur[v] # cur[w]
        BY <2>2 DEF Routes
      <4>2. QED
        BY <4>1
    <3>2. QED
      BY <2>2, <3>1, EffectKept
  <2>3. QED
    BY <2>1, <2>2
<1>4. ASSUME NEW k \in DOMAIN replies' PROVE Verdict(k)'
  <2>1. k \in DOMAIN replies /\ replies'[k] = replies[k] /\ Verdict(k)
    OBVIOUS
  <2>2. \A v \in Writers : up'[v] => up[v]
    OBVIOUS
  <2>3. QED
    BY <1>1, <2>1, <2>2, VerdictKept
<1>5. QED
  BY <1>2, <1>3, <1>4

(* The same for a step that lists nothing new. *)
LEMMA WorkerStep ==
    ASSUME IInv, AnswersInv, NEW w \in Writers,
           UNCHANGED <<req, queue, replies, info, cur>>, rows' \subseteq rows,
           pc'[w] = "idle" <=> pc[w] = "idle", up'[w] => up[w],
           \A v \in Writers : v # w =>
              /\ pc'[v] = pc[v] /\ up'[v] = up[v] /\ autocommit'[v] = autocommit[v]
              /\ total'[v] = total[v] /\ err'[v] = err[v] /\ ok'[v] = ok[v],
           bought' = bought \/ (pc[w] # "idle" /\ bought' = bought \cup {cur[w]}),
           Effect(w)'
    PROVE  AnswersInv'
<1>1. RowsListed' /\ \A l \in ListIds : info[l] # Nothing => info'[l] = info[l]
  BY DEF AnswersInv, RowsListed
<1>2. QED
  BY <1>1, WorkerMoves

(* A statement of a purchase that touches no table: what it has checked is *)
(* so, and the purchase has not taken effect. *)
LEMMA StatementStep ==
    ASSUME IInv, AnswersInv, NEW w \in Writers, pc[w] \in TransactionSteps,
           UNCHANGED <<req, queue, replies, info, cur, rows, bought, up>>,
           \A v \in Writers : v # w =>
              /\ pc'[v] = pc[v] /\ autocommit'[v] = autocommit[v]
              /\ total'[v] = total[v] /\ err'[v] = err[v] /\ ok'[v] = ok[v],
           pc'[w] \in {"rollback", "select"} \cup LockedSteps,
           up[w] /\ pc'[w] \in {"select"} \cup LockedSteps => ThePurchase(w).count > 0,
           up[w] /\ pc'[w] \in LockedSteps =>
              info[ThePurchase(w).list].seller # ThePurchase(w).player
    PROVE  AnswersInv'
<1>1. ThePurchase(w)' = ThePurchase(w)
  BY DEF ThePurchase
<1>2. up[w] => cur[w] \notin bought
  BY DEF AnswersInv, Effect, TransactionSteps
<1>3. Effect(w)'
  <2>1. pc'[w] \notin RegistSteps \cup {"idle", "restore", "answer"}
    BY DEF RegistSteps, LockedSteps
  <2>2. QED
    BY <1>1, <1>2, <2>1 DEF Effect
<1>4. QED
  <2>1. pc'[w] # "idle" /\ pc[w] # "idle"
    BY DEF LockedSteps, TransactionSteps
  <2>2. rows' \subseteq rows /\ \A v \in Writers : up'[v] = up[v]
    OBVIOUS
  <2>3. QED
    BY <1>3, <2>1, <2>2, WorkerStep

(* What BEGIN, and the checks after it, have established by a later step. *)
LEMMA Checked ==
    ASSUME AnswersInv, NEW w \in Writers, up[w]
    PROVE  /\ pc[w] \in {"select"} \cup LockedSteps => ThePurchase(w).count > 0
           /\ pc[w] \in LockedSteps =>
                 info[ThePurchase(w).list].seller # ThePurchase(w).player
BY DEF AnswersInv, Effect

LEMMA StatementsAnswers ==
    ASSUME IInv, AnswersInv, NEW w \in Writers,
           Begin(w) \/ SelectForUpdate(w) \/ ChargeGold(w) \/ TakeStock(w)
              \/ RecordTrade(w) \/ GiveReceipts(w)
    PROVE  AnswersInv'
<1>0. /\ pc \in [Writers -> Steps] /\ total \in [Writers -> Int]
      /\ autocommit \in [Writers -> BOOLEAN] /\ ok \in [Writers -> BOOLEAN]
      /\ err \in [Writers -> {"none", "deadlock", "lockwait", "other"}]
  BY DEF IInv, TypeOK
<1>1. CASE Begin(w)
  <2>1. /\ pc[w] = "begin" /\ autocommit' = [autocommit EXCEPT ![w] = FALSE]
        /\ \/ pc' = [pc EXCEPT ![w] = "rollback"] /\ err' = [err EXCEPT ![w] = "other"]
           \/ /\ pc' = [pc EXCEPT ![w] = "select"] /\ err' = err
              /\ ~(ThePurchase(w).count <= 0)
        /\ UNCHANGED <<req, queue, replies, info, cur, rows, bought, up, total, ok>>
    BY <1>1 DEF Begin, Throw, Goto, requestVars, tableVars
  <2>2. ThePurchase(w).count \in Int
    BY <2>1, PurchaseIsTyped DEF IInv, RegistSteps
  <2>3. pc'[w] = "rollback" \/ (pc'[w] = "select" /\ ThePurchase(w).count > 0)
    BY <1>0, <2>1, <2>2
  <2>4. QED
    BY <1>0, <2>1, <2>3, StatementStep DEF TransactionSteps, LockedSteps
<1>2. CASE SelectForUpdate(w)
  <2>1. /\ pc[w] = "select" /\ up[w]
        /\ UNCHANGED <<req, queue, replies, info, cur, rows, bought, up, autocommit, ok>>
    BY <1>2 DEF SelectForUpdate, requestVars, tableVars
  <2>2. /\ \/ pc' = [pc EXCEPT ![w] = "rollback"] /\ err' = [err EXCEPT ![w] = "other"]
           \/ /\ pc' = [pc EXCEPT ![w] = "charge"] /\ err' = err
              /\ info[ThePurchase(w).list].seller # ThePurchase(w).player
        /\ total' = total \/ \E n : total' = [total EXCEPT ![w] = n]
    BY <1>2 DEF SelectForUpdate, Throw, Goto
  <2>3. /\ \/ pc'[w] = "rollback"
           \/ pc'[w] = "charge" /\ info[ThePurchase(w).list].seller # ThePurchase(w).player
        /\ \A v \in Writers : v # w =>
              pc'[v] = pc[v] /\ total'[v] = total[v] /\ err'[v] = err[v]
    <3>1. \A v \in Writers : v # w => total'[v] = total[v]
      BY <1>0, <2>2
    <3>2. \A v \in Writers : v # w => pc'[v] = pc[v] /\ err'[v] = err[v]
      BY <1>0, <2>2
    <3>3. \/ pc'[w] = "rollback"
          \/ pc'[w] = "charge" /\ info[ThePurchase(w).list].seller # ThePurchase(w).player
      BY <1>0, <2>2
    <3>4. QED
      BY <3>1, <3>2, <3>3
  <2>4. QED
    BY <2>1, <2>3, Checked, StatementStep DEF TransactionSteps, LockedSteps
<1>3. CASE ChargeGold(w) \/ TakeStock(w)
  <2>1. /\ pc[w] \in {"charge", "take"} /\ up[w]
        /\ \/ pc' = [pc EXCEPT ![w] = "rollback"] /\ err' = [err EXCEPT ![w] = "other"]
           \/ pc' = [pc EXCEPT ![w] = "take"] /\ err' = err
           \/ pc' = [pc EXCEPT ![w] = "record"] /\ err' = err
        /\ UNCHANGED <<req, queue, replies, info, cur, rows, bought, up, autocommit, total,
                       ok>>
    BY <1>3 DEF ChargeGold, TakeStock, Throw, Goto, requestVars, tableVars
  <2>2. pc'[w] \in {"rollback", "take", "record"}
           /\ \A v \in Writers : v # w => pc'[v] = pc[v] /\ err'[v] = err[v]
    BY <1>0, <2>1
  <2>3. QED
    BY <2>1, <2>2, Checked, StatementStep DEF TransactionSteps, LockedSteps
<1>4. CASE RecordTrade(w) \/ GiveReceipts(w)
  <2>1. /\ pc[w] \in {"record", "receipts"} /\ up[w]
        /\ \/ pc' = [pc EXCEPT ![w] = "receipts"]
           \/ pc' = [pc EXCEPT ![w] = "commit"]
        /\ UNCHANGED <<req, queue, replies, info, cur, rows, bought, up, autocommit, total,
                       err, ok>>
    BY <1>4 DEF RecordTrade, GiveReceipts, Goto, requestVars, tableVars, localVars
  <2>2. pc'[w] \in {"receipts", "commit"}
           /\ \A v \in Writers : v # w => pc'[v] = pc[v]
    BY <1>0, <2>1
  <2>3. QED
    BY <2>1, <2>2, Checked, StatementStep DEF TransactionSteps, LockedSteps
<1>5. QED
  BY <1>1, <1>2, <1>3, <1>4

LEMMA ThrowsAnswers ==
    ASSUME IInv, AnswersInv, NEW w \in Writers,
           DeadStatement(w) \/ \E code \in {"deadlock", "lockwait", "other"} :
                                  StatementFails(w, code)
    PROVE  AnswersInv'
<1>1. /\ pc[w] \in TransactionSteps /\ pc' = [pc EXCEPT ![w] = "rollback"]
      /\ \E code : err' = [err EXCEPT ![w] = code]
      /\ UNCHANGED <<req, queue, replies, info, cur, rows, bought, up, autocommit, total, ok>>
  BY DEF DeadStatement, StatementFails, Throw, Goto, requestVars, tableVars
<1>2. pc'[w] = "rollback"
         /\ \A v \in Writers : v # w => pc'[v] = pc[v] /\ err'[v] = err[v]
  BY <1>1 DEF IInv, TypeOK
<1>3. "rollback" \notin {"select"} \cup LockedSteps
  BY DEF LockedSteps
<1>4. QED
  BY <1>1, <1>2, <1>3, StatementStep

LEMMA CommitAnswers == ASSUME IInv, AnswersInv, NEW w \in Writers, Commit(w) PROVE AnswersInv'
<1>1. /\ pc[w] = "commit" /\ up[w] /\ Persist(w)
      /\ pc' = [pc EXCEPT ![w] = "restore"] /\ ok' = [ok EXCEPT ![w] = TRUE]
      /\ err' = [err EXCEPT ![w] = "none"]
      /\ UNCHANGED <<req, queue, replies, info, cur, up, autocommit, total>>
  BY DEF Commit, Goto, requestVars
<1>2. /\ pc'[w] = "restore" /\ ok'[w] /\ err'[w] = "none"
      /\ \A v \in Writers : v # w => pc'[v] = pc[v] /\ ok'[v] = ok[v] /\ err'[v] = err[v]
  BY <1>1 DEF IInv, TypeOK
<1>3. rows' \subseteq rows
  BY <1>1, Checked, PersistPurchase DEF LockedSteps
<1>4. bought' = bought \cup {cur[w]} /\ Locked(w)
  BY <1>1 DEF IInv, Transactions, Transaction, LockedSteps, Persist
<1>5. Effect(w)'
  <2>1. ThePurchase(w)' = ThePurchase(w)
    BY <1>1 DEF ThePurchase
  <2>2. info[ThePurchase(w).list] # Nothing
           /\ total[w] = info[ThePurchase(w).list].price * ThePurchase(w).count
    BY <1>4 DEF Locked, AnswersInv, RowsListed
  <2>3. cur'[w] \in bought'
    BY <1>1, <1>4
  <2>4. QED
    BY <1>1, <1>2, <2>1, <2>2, <2>3 DEF Effect, RegistSteps, LockedSteps
<1>6. QED
  BY <1>1, <1>2, <1>3, <1>4, <1>5, WorkerStep

LEMMA RollbackAnswers ==
    ASSUME IInv, AnswersInv, NEW w \in Writers, Rollback(w) PROVE AnswersInv'
<1>1. /\ pc[w] = "rollback"
      /\ pc' = [pc EXCEPT ![w] = "restore"] /\ ok' = [ok EXCEPT ![w] = FALSE]
      /\ UNCHANGED <<req, queue, replies, info, cur, rows, bought, up, autocommit, total,
                     err>>
  BY DEF Rollback, Goto, requestVars, tableVars
<1>2. /\ pc'[w] = "restore" /\ ~ok'[w]
      /\ \A v \in Writers : v # w => pc'[v] = pc[v] /\ ok'[v] = ok[v]
  BY <1>1 DEF IInv, TypeOK
<1>3. up[w] => cur[w] \notin bought
  BY <1>1 DEF AnswersInv, Effect
<1>4. Effect(w)'
  BY <1>1, <1>2, <1>3 DEF Effect, RegistSteps, LockedSteps
<1>5. QED
  BY <1>1, <1>2, <1>4, WorkerStep

(* A connection that dies, its COMMIT carried out or not. *)
LEMMA ConnectionLostAnswers ==
    ASSUME IInv, AnswersInv, NEW w \in Writers, ConnectionLost(w) PROVE AnswersInv'
<1>1. /\ up' = [up EXCEPT ![w] = FALSE]
      /\ UNCHANGED <<req, queue, replies, info, cur, pc, autocommit, total, err, ok>>
      /\ UNCHANGED <<rows, bought>> \/ (up[w] /\ pc[w] = "commit" /\ Persist(w))
  BY DEF ConnectionLost, requestVars, localVars, tableVars
<1>2. ~up'[w] /\ \A v \in Writers : v # w => up'[v] = up[v]
  BY <1>1 DEF IInv, TypeOK
<1>3. rows' \subseteq rows
  BY <1>1, Checked, PersistPurchase DEF LockedSteps
<1>4. bought' = bought \/ (pc[w] = "commit" /\ bought' = bought \cup {cur[w]})
  BY <1>1 DEF IInv, Transactions, Transaction, LockedSteps, Persist
<1>5. Effect(w)'
  BY <1>1, <1>2, <1>4 DEF AnswersInv, Effect, ThePurchase
<1>6. QED
  BY <1>1, <1>2, <1>3, <1>4, <1>5, WorkerStep

LEMMA ExpireAnswers == ASSUME IInv, AnswersInv, NEW l \in ListIds, Expire(l) PROVE AnswersInv'
<1>1. UNCHANGED <<req, queue, replies, info, cur, rows, bought, up, pc, autocommit, total,
                  err, ok>>
  BY DEF Expire, requestVars, tableVars, localVars
<1>2. QED
  BY <1>1 DEF AnswersInv, Routes, Past, LeftQueue, RowsListed, Effect, ThePurchase, Verdict

(* A registration draws its id. *)
LEMMA DrawListIdAnswers ==
    ASSUME IInv, AnswersInv, NEW w \in Writers, DrawListId(w) PROVE AnswersInv'
<1>1. /\ pc[w] = "insert" /\ up[w] /\ pc' = [pc EXCEPT ![w] = "inserted"]
      /\ UNCHANGED <<req, queue, replies, info, cur, rows, bought, up, autocommit, total,
                     err, ok>>
  BY DEF DrawListId, Goto, requestVars, tableVars
<1>2. pc'[w] = "inserted" /\ \A v \in Writers : v # w => pc'[v] = pc[v]
  BY <1>1 DEF IInv, TypeOK
<1>3. Effect(w)'
  BY <1>1, <1>2 DEF AnswersInv, Effect, RegistSteps, LockedSteps
<1>4. QED
  BY <1>1, <1>2, <1>3, WorkerStep

(* The registration's row is there, and its request has taken effect. *)
LEMMA RegistAnswers == ASSUME IInv, AnswersInv, NEW w \in Writers, Regist(w) PROVE AnswersInv'
<1> DEFINE q == ThePurchase(w)
           l == seen[w]
           new == [seller |-> q.player, price |-> q.price, qty |-> q.count]
<1>1. pc[w] = "inserted" /\ up[w] /\ autocommit[w] /\ cur[w] \in DOMAIN req
  BY DEF Regist, AnswersInv, Effect, RegistSteps, IInv, Tasks
<1>2. /\ pc' = [pc EXCEPT ![w] = "answer"] /\ rows' = rows \cup {l}
      /\ info' = [info EXCEPT ![l] = new] /\ bought' = bought \cup {cur[w]}
      /\ UNCHANGED <<req, queue, replies, cur, up, autocommit, total, err, ok>>
  BY <1>1 DEF Regist, Goto, requestVars, localVars
<1>3. pc'[w] = "answer" /\ \A v \in Writers : v # w => pc'[v] = pc[v]
  BY <1>2 DEF IInv, TypeOK
<1>4. new # Nothing
  <2>1. q \in Request
    BY <1>1 DEF IInv, TypeOK, ThePurchase
  <2>2. q.player # 0
    BY <2>1, ConstantsAssumption DEF Request
  <2>3. new.seller # 0 /\ Nothing.seller = 0
    BY <2>2 DEF Nothing
  <2>4. QED
    BY <2>3
<1>5. info \in [ListIds -> Listing \cup {Nothing}] /\ rows \subseteq ListIds
         /\ l \in ListIds /\ info[l] = Nothing
  BY <1>1 DEF IInv, TypeOK, DrawnIds, Unused
<1>6. \A k \in ListIds : info[k] # Nothing => info'[k] = info[k]
  BY <1>2, <1>5
<1>7. RowsListed'
  BY <1>2, <1>4, <1>5, <1>6 DEF AnswersInv, RowsListed
<1>8. Effect(w)'
  BY <1>1, <1>2, <1>3 DEF Effect, RegistSteps, LockedSteps
<1>9. QED
  BY <1>1, <1>2, <1>3, <1>6, <1>7, <1>8, WorkerMoves
-----------------------------------------------------------------------------
(* Answers.                                                                *)

(* A task that ends, with an answer that says what happened or with none. *)
LEMMA EndStep ==
    ASSUME IInv, AnswersInv, NEW w \in Writers, pc[w] # "idle", pc'[w] = "idle",
           UNCHANGED <<req, queue, rows, info, bought, up>>,
           up'[w] => autocommit'[w],
           \A v \in Writers : v # w =>
              /\ pc'[v] = pc[v] /\ cur'[v] = cur[v] /\ autocommit'[v] = autocommit[v]
              /\ total'[v] = total[v] /\ err'[v] = err[v] /\ ok'[v] = ok[v],
           \/ replies' = replies
           \/ \E a :
                 /\ a.req = cur[w] /\ replies' = Append(replies, a)
                 /\ a.ok => /\ cur[w] \in bought
                            /\ ThePurchase(w).kind = "purchase" =>
                                  /\ info[ThePurchase(w).list] # Nothing
                                  /\ a.gold = info[ThePurchase(w).list].price
                                                 * ThePurchase(w).count
                 /\ ~a.ok => /\ ThePurchase(w).kind = "purchase"
                             /\ up[w] => cur[w] \notin bought
    PROVE  AnswersInv'
<1> USE DEF IInv, AnswersInv
<1>1. Routes' /\ Past'
  BY PastEnds
<1>2. RowsListed'
  BY DEF RowsListed
<1>3. ASSUME NEW v \in Writers PROVE Effect(v)'
  <2>1. CASE v = w
    BY <2>1 DEF Effect, LockedSteps
  <2>2. CASE v # w
    BY <2>2, EffectKept
  <2>3. QED
    BY <2>1, <2>2
<1>4. ASSUME NEW k \in DOMAIN replies, replies'[k] = replies[k] PROVE Verdict(k)'
  BY <1>4, VerdictKept
<1>5. ASSUME NEW k \in DOMAIN replies' PROVE Verdict(k)'
  <2>1. CASE replies' = replies
    BY <1>4, <2>1
  <2>2. CASE replies' # replies
    <3>1. PICK a :
                 /\ a.req = cur[w] /\ replies' = Append(replies, a)
                 /\ a.ok => /\ cur[w] \in bought
                            /\ ThePurchase(w).kind = "purchase" =>
                                  /\ info[ThePurchase(w).list] # Nothing
                                  /\ a.gold = info[ThePurchase(w).list].price
                                                 * ThePurchase(w).count
                 /\ ~a.ok => /\ ThePurchase(w).kind = "purchase"
                             /\ up[w] => cur[w] \notin bought
      BY <2>2
    <3>2. \/ k \in DOMAIN replies /\ replies'[k] = replies[k]
          \/ replies'[k] = a
      <4> USE DEF TypeOK
      <4>1. /\ Len(replies) \in Nat /\ DOMAIN replies = 1 .. Len(replies)
            /\ DOMAIN replies' = 1 .. Len(replies) + 1
            /\ replies'[Len(replies) + 1] = a
            /\ \A i \in DOMAIN replies : replies'[i] = replies[i]
        BY <3>1
      <4>2. QED
        BY <4>1
    <3>3. CASE replies'[k] = a
      <4>1. Route(req[cur[w]]) = w
        BY DEF Routes
      <4>2. QED
        BY <3>1, <3>3, <4>1 DEF Verdict, ThePurchase
    <3>4. QED
      BY <1>4, <3>2, <3>3
  <2>3. QED
    BY <2>1, <2>2
<1>6. QED
  BY <1>1, <1>2, <1>3, <1>5

LEMMA RegistEndsAnswers ==
    ASSUME IInv, AnswersInv, NEW w \in Writers, AnswerRegist(w) \/ RegistFails(w)
    PROVE  AnswersInv'
<1>1. /\ pc[w] \in RegistSteps /\ EndTask(w)
      /\ UNCHANGED <<req, queue, rows, info, bought, up, autocommit>>
      /\ \/ replies' = replies
         \/ /\ replies' = Append(replies, [req |-> cur[w], ok |-> TRUE, gold |-> 0])
            /\ pc[w] = "answer"
  BY DEF AnswerRegist, RegistFails, RegistSteps, requestVars, tableVars
<1>2. /\ pc'[w] = "idle" /\ pc[w] # "idle"
      /\ \A v \in Writers : v # w =>
            /\ pc'[v] = pc[v] /\ cur'[v] = cur[v]
            /\ total'[v] = total[v] /\ err'[v] = err[v] /\ ok'[v] = ok[v]
  BY <1>1 DEF EndTask, Goto, IInv, TypeOK, RegistSteps
<1>3. up[w] => autocommit[w]
  BY <1>1 DEF AnswersInv, Effect
<1>4. ThePurchase(w).kind # "purchase" /\ (pc[w] = "answer" => cur[w] \in bought)
  BY <1>1 DEF AnswersInv, Effect, IInv, Tasks
<1>5. CASE replies' = replies
  BY <1>1, <1>2, <1>3, <1>5, EndStep
<1>6. CASE replies' # replies
  <2> DEFINE a == [req |-> cur[w], ok |-> TRUE, gold |-> 0]
  <2>1. a.req = cur[w] /\ a.ok /\ replies' = Append(replies, a) /\ cur[w] \in bought
    BY <1>1, <1>4, <1>6
  <2> HIDE DEF a
  <2>2. QED
    BY <1>1, <1>2, <1>3, <1>4, <2>1, EndStep
<1>7. QED
  BY <1>5, <1>6

LEMMA RestoreAnswers ==
    ASSUME IInv, AnswersInv, NEW w \in Writers, RestoreAutoCommit(w) PROVE AnswersInv'
<1>1. /\ pc[w] = "restore" /\ autocommit' = [autocommit EXCEPT ![w] = up[w]]
      /\ UNCHANGED <<req, queue, info, up>>
  BY DEF RestoreAutoCommit, Restored, requestVars
<1>2. UNCHANGED tableVars
  <2>1. NothingOpen(w) /\ Persist(w)
    BY DEF RestoreAutoCommit, IInv, Transactions, Transaction, LockedSteps
  <2>2. QED
    BY <2>1, PersistNothing DEF IInv
<1>3. rows' = rows /\ bought' = bought
  BY <1>2 DEF tableVars
<1>4. autocommit'[w] = up[w] /\ \A v \in Writers : v # w => autocommit'[v] = autocommit[v]
  BY <1>1 DEF IInv, TypeOK
<1>5. CASE Retry(w)
  <2>1. /\ pc' = [pc EXCEPT ![w] = "begin"] /\ total' = [total EXCEPT ![w] = 0]
        /\ UNCHANGED <<replies, cur, err, ok>>
    BY <1>5 DEF RestoreAutoCommit, Goto
  <2>2. /\ pc'[w] = "begin"
        /\ \A v \in Writers : v # w => pc'[v] = pc[v] /\ total'[v] = total[v]
    BY <2>1 DEF IInv, TypeOK
  <2>3. up[w] => cur[w] \notin bought
    BY <1>1, <1>5 DEF Retry, AnswersInv, Effect
  <2>4. Effect(w)'
    BY <1>1, <1>3, <2>1, <2>2, <2>3 DEF Effect, RegistSteps, LockedSteps
  <2>5. QED
    BY <1>1, <1>3, <1>4, <2>1, <2>2, <2>4, WorkerStep
<1>6. CASE ~Retry(w)
  <2> DEFINE a == [req |-> cur[w], ok |-> ok[w], gold |-> total[w]]
  <2>1. replies' = Append(replies, a) /\ EndTask(w)
    BY <1>6 DEF RestoreAutoCommit
  <2>2. /\ pc'[w] = "idle"
        /\ \A v \in Writers : v # w =>
              /\ pc'[v] = pc[v] /\ cur'[v] = cur[v]
              /\ total'[v] = total[v] /\ err'[v] = err[v] /\ ok'[v] = ok[v]
    BY <2>1 DEF EndTask, Goto, IInv, TypeOK
  <2>3. a.req = cur[w] /\ a.ok = ok[w] /\ a.gold = total[w]
    OBVIOUS
  <2> HIDE DEF a
  <2>4. /\ ThePurchase(w).kind = "purchase"
        /\ a.ok => /\ cur[w] \in bought /\ info[ThePurchase(w).list] # Nothing
                   /\ a.gold = info[ThePurchase(w).list].price * ThePurchase(w).count
        /\ ~a.ok => (up[w] => cur[w] \notin bought)
    <3>1. ThePurchase(w).kind = "purchase"
      BY <1>1 DEF IInv, Tasks, RegistSteps
    <3>2. QED
      BY <1>1, <2>3, <3>1 DEF AnswersInv, Effect
  <2>5. QED
    BY <1>1, <1>3, <1>4, <2>1, <2>2, <2>3, <2>4, EndStep
<1>7. QED
  BY <1>5, <1>6
-----------------------------------------------------------------------------
(* Queues.                                                                 *)

LEMMA TakeTaskAnswers ==
    ASSUME IInv, AnswersInv, NEW w \in Writers, TakeTask(w) PROVE AnswersInv'
<1> DEFINE s == queue[w]
<1> USE DEF IInv, AnswersInv
<1>0. PICK r : r = Head(s)
  OBVIOUS
<1>1. /\ pc[w] = "idle" /\ s \in Seq(Nat) /\ s # <<>>
      /\ cur' = [cur EXCEPT ![w] = r] /\ queue' = [queue EXCEPT ![w] = Tail(s)]
      /\ pc' = [pc EXCEPT ![w] = IF req[r].kind = "purchase" THEN "begin" ELSE "insert"]
      /\ UNCHANGED <<req, replies, rows, info, bought, up, autocommit, total, err, ok>>
  BY <1>0 DEF TakeTask, Goto, TypeOK, tableVars
<1>2. /\ pc'[w] \in {"begin", "insert"} /\ cur'[w] = r /\ queue'[w] = Tail(s)
      /\ \A v \in Writers : v # w =>
            pc'[v] = pc[v] /\ cur'[v] = cur[v] /\ queue'[v] = queue[v]
  BY <1>1 DEF TypeOK
<1>3. /\ 1 \in DOMAIN s /\ r = s[1] /\ r \in Nat
      /\ \A i \in DOMAIN Tail(s) : i + 1 \in DOMAIN s /\ Tail(s)[i] = s[i + 1] /\ 1 < i + 1
      /\ \A i, j \in DOMAIN Tail(s) : i < j => i + 1 < j + 1
  <2> HIDE DEF s
  <2>1. /\ 1 \in DOMAIN s /\ r = s[1] /\ r \in Nat
    BY <1>0, <1>1 DEF s
  <2>2. \A i \in DOMAIN Tail(s) : i + 1 \in DOMAIN s /\ Tail(s)[i] = s[i + 1] /\ i \in Nat \ {0}
    BY <1>1
  <2>3. QED
    BY <2>1, <2>2
<1>4. /\ r \in DOMAIN req /\ Route(req[r]) = w
      /\ \A i \in DOMAIN Tail(s) : Route(req[Tail(s)[i]]) = w /\ r < Tail(s)[i]
      /\ \A i, j \in DOMAIN Tail(s) : i < j => Tail(s)[i] < Tail(s)[j]
  <2>1. r \in DOMAIN req /\ Route(req[r]) = w
    BY <1>3 DEF Tasks, Routes
  <2>2. \A i \in DOMAIN Tail(s) : Route(req[Tail(s)[i]]) = w /\ r < Tail(s)[i]
    BY <1>3 DEF Routes
  <2>3. \A i, j \in DOMAIN Tail(s) : i < j => Tail(s)[i] < Tail(s)[j]
    BY <1>3 DEF Routes
  <2>4. QED
    BY <2>1, <2>2, <2>3
<1>5. /\ LeftQueue(r)'
      /\ \A x : LeftQueue(x) => LeftQueue(x)' /\ (Route(req[x]) = w => x < r)
  <2>1. LeftQueue(r)'
    BY <1>1, <1>2, <1>4 DEF LeftQueue
  <2>2. ASSUME NEW x, LeftQueue(x) PROVE LeftQueue(x)'
    <3>1. x \in DOMAIN req' /\ req' = req
      BY <1>1, <2>2 DEF LeftQueue
    <3>2. ASSUME NEW v \in Writers, Route(req'[x]) = v, NEW i \in DOMAIN queue'[v]
          PROVE  x < queue'[v][i]
      <4>1. Route(req[x]) = v
        BY <1>1, <3>2
      <4>2. CASE v = w
        <5>1. i \in DOMAIN Tail(s) /\ queue'[v][i] = Tail(s)[i]
          BY <1>2, <3>2, <4>2
        <5>2. i + 1 \in DOMAIN s /\ queue'[v][i] = s[i + 1]
          BY <1>3, <5>1
        <5>3. QED
          BY <2>2, <4>1, <4>2, <5>2 DEF LeftQueue
      <4>3. CASE v # w
        BY <1>2, <2>2, <3>2, <4>1, <4>3 DEF LeftQueue
      <4>4. QED
        BY <4>2, <4>3
    <3>3. QED
      BY <3>1, <3>2 DEF LeftQueue
  <2>3. \A x : LeftQueue(x) /\ Route(req[x]) = w => x < r
    BY <1>3 DEF LeftQueue
  <2>4. QED
    BY <2>1, <2>2, <2>3
<1>6. Routes'
  <2>1. ASSUME NEW v \in Writers
        PROVE  /\ pc'[v] # "idle" => Route(req[cur'[v]]) = v /\ LeftQueue(cur[v])'
               /\ \A i \in DOMAIN queue'[v] : Route(req[queue'[v][i]]) = v
               /\ \A i, j \in DOMAIN queue'[v] : i < j => queue'[v][i] < queue'[v][j]
    <3>1. CASE v = w
      <4>1. LeftQueue(cur[w])'
        BY <1>2, <1>5 DEF LeftQueue
      <4>2. QED
        BY <1>2, <1>4, <3>1, <4>1
    <3>2. CASE v # w
      <4>1. pc[v] # "idle" => LeftQueue(cur[v])'
        <5>1. pc[v] # "idle" => LeftQueue(cur[v])
          BY DEF Routes
        <5>2. cur'[v] = cur[v]
          BY <1>2, <3>2
        <5>3. QED
          BY <1>5, <5>1, <5>2 DEF LeftQueue
      <4>2. QED
        BY <1>2, <3>2, <4>1 DEF Routes
    <3>3. QED
      BY <3>1, <3>2
  <2>2. QED
    BY <1>1, <2>1 DEF Routes
<1>7. Past'
  <2>1. \A x \in bought' : LeftQueue(x)'
    BY <1>1, <1>5 DEF Past
  <2>2. ASSUME NEW k \in DOMAIN replies
        PROVE  /\ LeftQueue(replies[k].req)'
               /\ \A v \in Writers : pc'[v] # "idle" /\ Route(req[replies[k].req]) = v
                     => replies[k].req < cur'[v]
    <3> DEFINE x == replies[k].req
    <3>1. LeftQueue(x)
      BY DEF Past
    <3>2. LeftQueue(replies[k].req)'
      <4>1. replies' = replies
        BY <1>1
      <4>2. QED
        BY <1>5, <3>1, <4>1 DEF LeftQueue
    <3>3. Route(req[x]) = w => x < cur'[w]
      BY <1>2, <1>5, <3>1 DEF LeftQueue
    <3>4. \A v \in Writers : v # w /\ pc'[v] # "idle" /\ Route(req[x]) = v => x < cur'[v]
      BY <1>2 DEF Past
    <3>5. QED
      BY <3>2, <3>3, <3>4
  <2>3. QED
    BY <1>1, <2>1, <2>2 DEF Past
<1>8. RowsListed'
  BY <1>1 DEF RowsListed
<1>9. ASSUME NEW v \in Writers PROVE Effect(v)'
  <2>1. CASE v = w
    <3>1. r \notin bought
      <4>1. r \in bought => r < r
        BY <1>4, <1>5 DEF Past
      <4>2. QED
        BY <1>3, <4>1
    <3>2. up[w] => autocommit[w]
      BY <1>1 DEF Effect
    <3>3. QED
      BY <1>1, <1>2, <2>1, <3>1, <3>2 DEF Effect, LockedSteps
  <2>2. CASE v # w
    BY <1>1, <1>2, <2>2, EffectKept
  <2>3. QED
    BY <2>1, <2>2
<1>10. ASSUME NEW k \in DOMAIN replies' PROVE Verdict(k)'
  BY <1>1, VerdictKept
<1>11. QED
  BY <1>6, <1>7, <1>8, <1>9, <1>10

(* A request that arrives goes to the end of its worker's queue. *)
LEMMA ArriveAnswers ==
    ASSUME IInv, AnswersInv, NEW q \in Request, Key(q) \in Nat, req' = Append(req, q),
           PostWrite(Key(q), Len(req) + 1), WorkerUnchanged
    PROVE  AnswersInv'
<1> DEFINE n == Len(req) + 1
           k == Route(q)
           s == queue[k]
<1> USE DEF IInv, AnswersInv
<1>1. /\ Len(req) \in Nat /\ DOMAIN req = 1 .. Len(req) /\ DOMAIN req' = 1 .. n
      /\ req'[n] = q /\ \A x \in DOMAIN req : x \in Nat /\ x < n /\ req'[x] = req[x]
      /\ n \in Nat
  BY DEF TypeOK
<1>2. k \in Writers
  BY ConstantsAssumption DEF Route, Writers
<1>3. /\ s \in Seq(Nat) /\ queue' = [queue EXCEPT ![k] = Append(s, n)]
      /\ UNCHANGED <<replies, rows, info, bought, up, autocommit, pc, cur, total, err, ok>>
  BY <1>2 DEF PostWrite, Route, WorkerUnchanged, TypeOK
<1>4. /\ queue'[k] = Append(s, n)
      /\ \A v \in Writers : v # k => queue'[v] = queue[v]
  BY <1>2, <1>3 DEF TypeOK
<1>5. /\ DOMAIN s \subseteq Nat
      /\ \A i \in DOMAIN Append(s, n) :
            \/ i \in DOMAIN s /\ Append(s, n)[i] = s[i]
            \/ i \notin DOMAIN s /\ Append(s, n)[i] = n /\ \A j \in DOMAIN Append(s, n) : j <= i
  <2> HIDE DEF s, n
  <2>1. QED
    BY <1>3
<1>6. \A v \in Writers : \A i \in DOMAIN queue[v] : queue[v][i] \in DOMAIN req
  BY DEF Tasks
<1>7. \A x : LeftQueue(x) => LeftQueue(x)'
  <2>1. SUFFICES ASSUME NEW x, LeftQueue(x) PROVE LeftQueue(x)'
    OBVIOUS
  <2>2. x \in DOMAIN req /\ x \in DOMAIN req' /\ req'[x] = req[x] /\ x < n
    BY <1>1, <2>1 DEF LeftQueue
  <2>3. ASSUME NEW v \in Writers, Route(req[x]) = v, NEW i \in DOMAIN queue'[v]
        PROVE  x < queue'[v][i]
    <3>1. CASE v = k /\ i \notin DOMAIN s
      BY <1>4, <1>5, <2>2, <3>1
    <3>2. CASE v # k \/ i \in DOMAIN s
      <4>1. i \in DOMAIN queue[v] /\ queue'[v][i] = queue[v][i]
        BY <1>4, <1>5, <2>3, <3>2
      <4>2. QED
        BY <2>1, <2>3, <4>1 DEF LeftQueue
    <3>3. QED
      BY <3>1, <3>2
  <2>4. QED
    BY <2>2, <2>3 DEF LeftQueue
<1>8. Routes'
  <2>1. ASSUME NEW v \in Writers, pc[v] # "idle"
        PROVE  Route(req'[cur[v]]) = v /\ LeftQueue(cur[v])'
    <3>1. LeftQueue(cur[v]) /\ Route(req[cur[v]]) = v /\ cur' = cur
      BY <1>3, <2>1 DEF Routes
    <3>2. cur[v] \in DOMAIN req
      BY <3>1 DEF LeftQueue
    <3>3. QED
      BY <1>1, <1>7, <3>1, <3>2 DEF LeftQueue
  <2>2. ASSUME NEW v \in Writers
        PROVE  /\ \A i \in DOMAIN queue'[v] : Route(req'[queue'[v][i]]) = v
               /\ \A i, j \in DOMAIN queue'[v] : i < j => queue'[v][i] < queue'[v][j]
    <3>1. CASE v # k
      <4>1. queue'[v] = queue[v]
        BY <1>4, <3>1
      <4>2. QED
        BY <1>1, <1>6, <4>1 DEF Routes
    <3>2. CASE v = k
      <4>1. \A i \in DOMAIN s : s[i] \in DOMAIN req /\ Route(req'[s[i]]) = k
        BY <1>1, <1>2, <1>6 DEF Routes
      <4>2. \A i, j \in DOMAIN s : i < j => s[i] < s[j]
        BY <1>2 DEF Routes
      <4>3. \A i \in DOMAIN queue'[v] : Route(req'[queue'[v][i]]) = v
        <5>1. ASSUME NEW i \in DOMAIN Append(s, n) PROVE Route(req'[Append(s, n)[i]]) = k
          <6>1. CASE i \in DOMAIN s /\ Append(s, n)[i] = s[i]
            BY <4>1, <6>1
          <6>2. CASE Append(s, n)[i] = n
            BY <1>1, <6>2
          <6>3. QED
            BY <1>5, <6>1, <6>2
        <5>2. QED
          BY <1>4, <3>2, <5>1
      <4>4. ASSUME NEW i \in DOMAIN queue'[v], NEW j \in DOMAIN queue'[v], i < j
            PROVE  queue'[v][i] < queue'[v][j]
        <5>1. i \in DOMAIN s /\ queue'[v][i] = s[i]
          <6>1. DOMAIN Append(s, n) \subseteq Nat
            BY <1>1, <1>3
          <6>2. ~(j <= i)
            BY <1>4, <3>2, <4>4, <6>1
          <6>3. QED
            BY <1>4, <1>5, <3>2, <6>2
        <5>2. \/ j \in DOMAIN s /\ queue'[v][j] = s[j]
              \/ queue'[v][j] = n
          BY <1>4, <1>5, <3>2
        <5>3. QED
          BY <1>1, <4>1, <4>2, <4>4, <5>1, <5>2
      <4>5. QED
        BY <4>3, <4>4
    <3>3. QED
      BY <3>1, <3>2
  <2>3. QED
    BY <1>3, <2>1, <2>2 DEF Routes
<1>9. Past'
  <2>1. \A x \in bought' : LeftQueue(x)'
    BY <1>3, <1>7 DEF Past
  <2>2. \A i \in DOMAIN replies : /\ LeftQueue(replies[i].req)'
                                  /\ req'[replies[i].req] = req[replies[i].req]
    <3>1. ASSUME NEW i \in DOMAIN replies
          PROVE  LeftQueue(replies[i].req)' /\ req'[replies[i].req] = req[replies[i].req]
      <4>1. LeftQueue(replies[i].req) /\ replies' = replies
        BY <1>3 DEF Past
      <4>2. replies[i].req \in DOMAIN req
        BY <4>1 DEF LeftQueue
      <4>3. QED
        BY <1>1, <1>7, <4>1, <4>2 DEF LeftQueue
    <3>2. QED
      BY <3>1
  <2>3. QED
    BY <1>3, <2>1, <2>2 DEF Past
<1>10. RowsListed'
  BY <1>3 DEF RowsListed
<1>11. ASSUME NEW v \in Writers PROVE Effect(v)'
  BY <1>1, <1>3, EffectKept
<1>12. ASSUME NEW i \in DOMAIN replies' PROVE Verdict(i)'
  BY <1>1, <1>3, VerdictKept
<1>13. QED
  BY <1>8, <1>9, <1>10, <1>11, <1>12

LEMMA ArrivalsAnswers == ASSUME IInv, AnswersInv, Arrive PROVE AnswersInv'
<1> USE ConstantsAssumption
<1>1. ASSUME NEW p \in Players, NEW l \in ListIds, NEW n \in Counts,
             Handle_REQ_PURCHASE_ITEM(p, l, n)
      PROVE  AnswersInv'
  <2> DEFINE q == [kind |-> "purchase", player |-> p, list |-> l, count |-> n, price |-> 0]
  <2>1. q \in Request /\ Key(q) = l /\ l \in Nat
    BY DEF Request, Key, ListIds
  <2>2. req' = Append(req, q) /\ PostWrite(l, Len(req) + 1) /\ WorkerUnchanged
    BY <1>1 DEF Handle_REQ_PURCHASE_ITEM, PurchaseKey
  <2>3. QED
    BY <2>1, <2>2, ArriveAnswers
<1>2. ASSUME NEW p \in Players, NEW n \in Counts, NEW price \in Prices,
             Handle_REQ_REGIST_ITEM(p, n, price)
      PROVE  AnswersInv'
  <2> DEFINE q == [kind |-> "regist", player |-> p, list |-> 0, count |-> n, price |-> price]
  <2>1. q \in Request /\ Key(q) = p /\ p \in Nat
    BY DEF Request, Key
  <2>2. req' = Append(req, q) /\ PostWrite(p, Len(req) + 1) /\ WorkerUnchanged
    BY <1>2 DEF Handle_REQ_REGIST_ITEM
  <2>3. QED
    BY <2>1, <2>2, ArriveAnswers
<1>3. QED
  BY <1>1, <1>2 DEF Arrive

LEMMA StepAnswers == IInv /\ AnswersInv /\ [Next]_vars => AnswersInv'
<1> SUFFICES ASSUME IInv, AnswersInv, [Next]_vars PROVE AnswersInv'
  OBVIOUS
<1>1. CASE Arrive
  BY <1>1, ArrivalsAnswers
<1>2. CASE \E l \in ListIds : Expire(l)
  BY <1>2, ExpireAnswers
<1>3. ASSUME NEW w \in Writers, Work(w) PROVE AnswersInv'
  BY <1>3, TakeTaskAnswers, StatementsAnswers, CommitAnswers, RollbackAnswers,
     RestoreAnswers, DrawListIdAnswers, RegistAnswers, RegistEndsAnswers, ThrowsAnswers
     DEF Work
<1>4. ASSUME NEW w \in Writers, Trouble(w) PROVE AnswersInv'
  BY <1>4, ThrowsAnswers, RegistEndsAnswers, ConnectionLostAnswers DEF Trouble
<1>5. CASE UNCHANGED vars
  <2>1. UNCHANGED <<req, queue, replies, rows, info, bought, up, autocommit, pc, cur, total,
                    err, ok>>
    BY <1>5 DEF vars
  <2>2. Routes' /\ Past' /\ RowsListed'
    BY <2>1 DEF AnswersInv, Routes, Past, LeftQueue, RowsListed
  <2>3. \A w \in Writers : Effect(w)'
    BY <2>1 DEF AnswersInv, Effect, ThePurchase
  <2>4. \A k \in DOMAIN replies' : Verdict(k)'
    BY <2>1 DEF AnswersInv, Verdict
  <2>5. QED
    BY <2>2, <2>3, <2>4 DEF AnswersInv
<1>6. QED
  BY <1>1, <1>2, <1>3, <1>4, <1>5 DEF Next

LEMMA AnswersInvariance == Spec => [](IInv /\ AnswersInv)
BY Invariance, InitAnswers, StepAnswers, PTL DEF Spec

(* A purchase answered with success was carried out, and the gold the      *)
(* answer names is the price of what was bought, retries and lost          *)
(* connections included (Purchase, AuctionService.cpp:131-171).            *)
THEOREM PurchaseSuccessIsReal == Spec => []SuccessIsReal
<1>1. AnswersInv => SuccessIsReal
  BY DEF AnswersInv, Verdict, SuccessIsReal
<1>2. QED
  BY <1>1, AnswersInvariance, PTL

(* A purchase answered with failure changed nothing, unless its worker's   *)
(* connection died at the COMMIT (Purchase, AuctionService.cpp:131-171).   *)
THEOREM PurchaseFailureIsHarmless == Spec => []FailureIsHarmless
<1>1. IInv /\ AnswersInv => FailureIsHarmless
  <2> SUFFICES ASSUME IInv, AnswersInv, NEW i \in DOMAIN replies,
                      ~replies[i].ok, replies[i].req \in bought
               PROVE  ~up[req[replies[i].req].list % WriterCount]
    BY DEF FailureIsHarmless
  <2> DEFINE r == replies[i].req
             w == req[r].list % WriterCount
  <2>1. r \in DOMAIN req /\ req[r].kind = "purchase"
    BY DEF AnswersInv, Past, LeftQueue, Verdict
  <2>2. req[r].list \in Nat
    BY <2>1 DEF IInv, Tasks, ListIds
  <2>3. w \in Writers /\ Route(req[r]) = w
    BY <2>1, <2>2, ConstantsAssumption DEF Route, Key, Writers
  <2>4. QED
    BY <2>3 DEF AnswersInv, Verdict
<1>2. QED
  BY <1>1, AnswersInvariance, PTL

(* Purchases of one listing are answered in the order they arrived         *)
(* (the choice of the worker, AuctionPacketHandler.cpp:79).                *)
THEOREM PurchaseSameListingInOrder == Spec => []SameListingInOrder
<1>1. AnswersInv => SameListingInOrder
  BY DEF AnswersInv, Past, SameListingInOrder, Route, Key
<1>2. QED
  BY <1>1, AnswersInvariance, PTL
-----------------------------------------------------------------------------
(* The write path implements the market.                                   *)

Answers == {[req |-> replies[i].req, ok |-> replies[i].ok] : i \in DOMAIN replies}
marketVars == <<req, info, bought, Answers, stock, gold, delivered, paid>>

LEMMA StutterIsMarketStep ==
    ASSUME UNCHANGED <<req, info, bought, replies, stock, gold, delivered, paid>>
    PROVE  [Market!Next]_marketVars
BY DEF marketVars, Answers

LEMMA ArriveIsAsk == ASSUME IInv, IInv', Arrive PROVE Market!Next
<1>1. \E q : req' = Append(req, q) /\ WorkerUnchanged
  BY DEF Arrive, Handle_REQ_PURCHASE_ITEM, Handle_REQ_REGIST_ITEM
<1>2. PICK q : req' = Append(req, q) /\ WorkerUnchanged
  BY <1>1
<1>3. /\ req' \in Seq(Request) /\ Len(req') = Len(req) + 1
      /\ \A r \in DOMAIN req : req'[r] = req[r]
  BY <1>2 DEF IInv, TypeOK
<1>4. UNCHANGED <<info, bought, replies, stock, gold, delivered, paid>>
  BY <1>2 DEF WorkerUnchanged
<1>5. Market!Ask
  BY <1>3, <1>4 DEF Market!Ask, Market!Request, Request
<1>6. QED
  BY <1>5 DEF Market!Next

(* The COMMIT, or a connection that dies after it, is the purchase. *)
LEMMA CommitIsBuy ==
    ASSUME IInv, AnswersInv, NEW w \in Writers, up[w], pc[w] = "commit", Persist(w),
           UNCHANGED <<req, info, replies>>
    PROVE  Market!Next
<1> USE ConstantsAssumption DEF IInv, AnswersInv
<1> DEFINE r == cur[w]
           q == ThePurchase(w)
           l == q.list
           cost == info[l].price * q.count
<1>1. /\ r \in DOMAIN req /\ req[r] = q /\ l \in ListIds /\ q.count \in Int
      /\ q.kind = "purchase"
  BY PurchaseIsTyped DEF RegistSteps, ThePurchase, Tasks
<1>2. /\ seen[w] = stock[l] /\ total[w] = cost /\ q.count <= stock[l]
      /\ charged[w] # {} /\ took[w] /\ logged[w] /\ receipted[w]
      /\ \A c \in charged[w] : AccountOf[c] = q.player /\ gold[c] >= total[w]
  BY DEF Transactions, Transaction, Locked, LockedSteps
<1>3. r \notin bought /\ q.count > 0 /\ info[l].seller # q.player
  BY DEF Effect, LockedSteps
<1>4. /\ stock' = [stock EXCEPT ![l] = @ - q.count]
      /\ delivered' = [delivered EXCEPT ![l] = @ + q.count]
      /\ paid' = [paid EXCEPT ![l] = @ + cost]
      /\ gold' = [c \in Characters |-> IF c \in charged[w] THEN gold[c] - cost ELSE gold[c]]
      /\ bought' = bought \cup {r}
  BY <1>2 DEF Persist
<1>5. charged[w] \in SUBSET {c \in Characters : AccountOf[c] = q.player /\ gold[c] >= cost}
  BY <1>2 DEF TypeOK
<1>6. q.count \in 1 .. stock[l]
  <2>1. stock[l] \in Int
    BY <1>1 DEF TypeOK
  <2> HIDE DEF l, q
  <2>2. QED
    BY <1>1, <1>2, <1>3, <2>1
<1>7. /\ r \in DOMAIN req \ bought /\ req[r].kind = "purchase" /\ req[r].list \in ListIds
      /\ req[r].count \in 1 .. stock[req[r].list]
      /\ info[req[r].list].seller # req[r].player
  BY <1>1, <1>3, <1>6
<1>8. \E ch \in SUBSET {c \in Characters : AccountOf[c] = req[r].player /\ gold[c] >= cost} :
         /\ ch # {}
         /\ gold' = [c \in Characters |-> IF c \in ch THEN gold[c] - cost ELSE gold[c]]
  <2>1. charged[w] # {}
    BY <1>2
  <2>2. gold' = [c \in Characters |-> IF c \in charged[w] THEN gold[c] - cost ELSE gold[c]]
    BY <1>4
  <2>3. req[r].player = q.player
    BY <1>1
  <2> HIDE DEF cost, q, l
  <2>4. QED
    BY <1>5, <2>1, <2>2, <2>3
<1>9. Market!Buy(r)
  <2>1. /\ q = req[r] /\ l = req[r].list /\ cost = info[req[r].list].price * req[r].count
        /\ UNCHANGED <<req, info, Answers>>
    BY <1>1 DEF Answers
  <2> HIDE DEF q, l, cost
  <2>2. /\ stock' = [stock EXCEPT ![req[r].list] = @ - req[r].count]
        /\ delivered' = [delivered EXCEPT ![req[r].list] = @ + req[r].count]
        /\ paid' = [paid EXCEPT ![req[r].list] = @ + info[req[r].list].price * req[r].count]
    BY <1>4, <2>1
  <2>3. \E ch \in SUBSET {c \in Characters :
               AccountOf[c] = req[r].player
                  /\ gold[c] >= info[req[r].list].price * req[r].count} :
           /\ ch # {}
           /\ gold' = [c \in Characters |->
                         IF c \in ch THEN gold[c] - info[req[r].list].price * req[r].count
                                     ELSE gold[c]]
    BY <1>8, <2>1
  <2>4. QED
    BY <1>4, <1>7, <2>1, <2>2, <2>3 DEF Market!Buy, Answers
<1>10. QED
  BY <1>1, <1>9 DEF Market!Next

LEMMA RegistIsList ==
    ASSUME IInv, AnswersInv, NEW w \in Writers, Regist(w)
    PROVE  Market!Next
<1> USE DEF IInv, AnswersInv
<1> DEFINE r == cur[w]
           l == seen[w]
<1>1. pc[w] = "inserted" /\ up[w]
  BY DEF Regist
<1>2. /\ autocommit[w] /\ r \notin bought /\ r \in DOMAIN req /\ req[r].kind = "regist"
      /\ ThePurchase(w) = req[r]
  BY <1>1 DEF Effect, RegistSteps, Tasks, ThePurchase
<1>3. l \in ListIds /\ info[l] = Nothing
  BY <1>1 DEF DrawnIds, Unused
<1>4. /\ info' = [info EXCEPT ![l] = [seller |-> req[r].player, price |-> req[r].price,
                                      qty |-> req[r].count]]
      /\ stock' = [stock EXCEPT ![l] = req[r].count]
      /\ bought' = bought \cup {r}
      /\ UNCHANGED <<req, replies, gold, delivered, paid>>
  BY <1>2 DEF Regist, requestVars
<1>5. Market!List(r, l)
  BY <1>2, <1>3, <1>4 DEF Market!List, Market!Nothing, Nothing
<1>6. QED
  BY <1>2, <1>3, <1>5 DEF Market!Next

(* An answer is given to a request that had none. *)
LEMMA ReplyIsAnswer ==
    ASSUME IInv, AnswersInv, NEW w \in Writers, pc[w] # "idle", NEW o \in BOOLEAN, NEW g,
           replies' = Append(replies, [req |-> cur[w], ok |-> o, gold |-> g]),
           o => cur[w] \in bought,
           UNCHANGED <<req, info, bought, stock, gold, delivered, paid>>
    PROVE  Market!Next
<1> USE DEF IInv, AnswersInv
<1> DEFINE r == cur[w]
           a == [req |-> r, ok |-> o, gold |-> g]
<1>1. r \in DOMAIN req /\ r \in Nat /\ Route(req[r]) = w
  BY DEF Tasks, Routes, TypeOK
<1>2. \A b \in Answers : b.req # r
  <2>1. ASSUME NEW i \in DOMAIN replies PROVE replies[i].req # r
    <3>1. Route(req[replies[i].req]) = w => replies[i].req < r
      BY DEF Past
    <3>2. QED
      BY <1>1, <3>1
  <2>2. QED
    BY <2>1 DEF Answers
<1>3. Answers' = Answers \cup {[req |-> r, ok |-> o]}
  <2>1. /\ DOMAIN replies' = DOMAIN replies \cup {Len(replies) + 1}
        /\ replies'[Len(replies) + 1] = a
        /\ \A i \in DOMAIN replies : replies'[i] = replies[i]
    <3>1. replies \in Seq([req : Nat, ok : BOOLEAN, gold : Int])
      BY DEF TypeOK
    <3>2. replies' = Append(replies, a)
      OBVIOUS
    <3> HIDE DEF a, IInv, AnswersInv
    <3>3. QED
      BY ONLY <3>1, <3>2
  <2>2. a.req = r /\ a.ok = o
    OBVIOUS
  <2>3. QED
    BY <2>1, <2>2 DEF Answers
<1>4. Market!Answer(r, o)
  BY <1>1, <1>2, <1>3 DEF Market!Answer, Answers
<1>5. QED
  BY <1>1, <1>4 DEF Market!Next

LEMMA StepIsMarketStep ==
    ASSUME IInv, IInv', AnswersInv, [Next]_vars PROVE [Market!Next]_marketVars
<1>1. CASE Arrive
  BY <1>1, ArriveIsAsk
<1>2. CASE \E l \in ListIds : Expire(l)
  BY <1>2, StutterIsMarketStep DEF Expire, requestVars, tableVars
<1>3. ASSUME NEW w \in Writers,
             TakeTask(w) \/ Begin(w) \/ SelectForUpdate(w) \/ ChargeGold(w) \/ TakeStock(w)
                \/ RecordTrade(w) \/ GiveReceipts(w)
      PROVE  [Market!Next]_marketVars
  <2>1. UNCHANGED <<req, info, replies, tableVars>>
    BY <1>3 DEF TakeTask, Begin, SelectForUpdate, ChargeGold, TakeStock, RecordTrade,
                GiveReceipts, requestVars
  <2>2. QED
    BY <2>1, StutterIsMarketStep DEF tableVars
<1>4. ASSUME NEW w \in Writers,
             Rollback(w) \/ DrawListId(w) \/ DeadStatement(w) \/ RegistFails(w)
                \/ \E code \in {"deadlock", "lockwait", "other"} : StatementFails(w, code)
      PROVE  [Market!Next]_marketVars
  <2>1. UNCHANGED <<req, info, replies, tableVars>>
    BY <1>4 DEF Rollback, DrawListId, DeadStatement, RegistFails, StatementFails, requestVars
  <2>2. QED
    BY <2>1, StutterIsMarketStep DEF tableVars
<1>5. ASSUME NEW w \in Writers, Commit(w) PROVE Market!Next
  BY <1>5, CommitIsBuy DEF Commit, requestVars
<1>6. ASSUME NEW w \in Writers, ConnectionLost(w) PROVE [Market!Next]_marketVars
  <2>1. /\ up[w] /\ UNCHANGED <<req, info, replies>>
        /\ UNCHANGED tableVars \/ (pc[w] = "commit" /\ Persist(w))
    BY <1>6 DEF ConnectionLost, requestVars
  <2>2. CASE UNCHANGED tableVars
    BY <2>1, <2>2, StutterIsMarketStep DEF tableVars
  <2>3. CASE pc[w] = "commit" /\ Persist(w)
    BY <2>1, <2>3, CommitIsBuy
  <2>4. QED
    BY <2>1, <2>2, <2>3
<1>7. ASSUME NEW w \in Writers, RestoreAutoCommit(w) PROVE [Market!Next]_marketVars
  <2>1. pc[w] = "restore" /\ UNCHANGED <<req, info>>
    BY <1>7 DEF RestoreAutoCommit, requestVars
  <2>2. UNCHANGED tableVars
    <3>1. NothingOpen(w) /\ Persist(w)
      BY <1>7, <2>1 DEF RestoreAutoCommit, IInv, Transactions, Transaction, LockedSteps
    <3>2. QED
      BY <3>1, PersistNothing DEF IInv
  <2>3. CASE Retry(w)
    BY <1>7, <2>1, <2>2, <2>3, StutterIsMarketStep DEF RestoreAutoCommit, tableVars
  <2>4. CASE ~Retry(w)
    <3>1. replies' = Append(replies, [req |-> cur[w], ok |-> ok[w], gold |-> total[w]])
      BY <1>7, <2>4 DEF RestoreAutoCommit
    <3>2. ok[w] \in BOOLEAN /\ (ok[w] => cur[w] \in bought)
      BY <2>1 DEF AnswersInv, Effect, IInv, TypeOK
    <3>3. UNCHANGED <<req, info, bought, stock, gold, delivered, paid>>
      BY <2>1, <2>2 DEF tableVars
    <3>4. pc[w] # "idle"
      BY <2>1
    <3>5. QED
      BY <3>1, <3>2, <3>3, <3>4, ReplyIsAnswer
  <2>5. QED
    BY <2>3, <2>4
<1>8. ASSUME NEW w \in Writers, Regist(w) PROVE Market!Next
  BY <1>8, RegistIsList
<1>9. ASSUME NEW w \in Writers, AnswerRegist(w) PROVE Market!Next
  <2>1. /\ pc[w] = "answer" /\ UNCHANGED <<req, info, bought, stock, gold, delivered, paid>>
        /\ replies' = Append(replies, [req |-> cur[w], ok |-> TRUE, gold |-> 0])
    BY <1>9 DEF AnswerRegist, requestVars, tableVars
  <2>2. cur[w] \in bought
    BY <2>1 DEF AnswersInv, Effect
  <2>3. QED
    BY <2>1, <2>2, ReplyIsAnswer
<1>10. CASE UNCHANGED vars
  BY <1>10, StutterIsMarketStep DEF vars
<1>11. ASSUME NEW w \in Writers, Work(w) \/ Trouble(w) PROVE [Market!Next]_marketVars
  BY <1>3, <1>4, <1>5, <1>6, <1>7, <1>8, <1>9, <1>11 DEF Work, Trouble
<1>12. QED
  BY <1>1, <1>2, <1>10, <1>11 DEF Next

(* Statement by statement, with its locks, retries, rollbacks and dying    *)
(* connections, the write path does what a market of atomic registrations  *)
(* and purchases does (AuctionService.cpp:79-253).                         *)
THEOREM PurchaseImplementsMarket == Spec => MarketSpec
<1>1. Init => Market!Init
  <2> SUFFICES ASSUME Init PROVE Market!Init
    OBVIOUS
  <2>1. info \in [ListIds -> [seller : Players \cup {0}, price : Int, qty : Int]]
    <3>1. \A l \in DOMAIN Opening : Opening[l] \in Listing
      BY ConstantsAssumption
    <3>2. \A l \in ListIds : info[l] \in [seller : Players \cup {0}, price : Int, qty : Int]
      BY <3>1 DEF Init, Listing, Nothing
    <3>3. info = [l \in ListIds |-> info[l]]
      BY DEF Init
    <3>4. QED
      BY <3>2, <3>3
  <2>2. Answers = {}
    BY DEF Init, Answers
  <2>3. gold \in [Characters -> Nat]
    BY ConstantsAssumption DEF Init
  <2>4. QED
    BY <2>1, <2>2, <2>3 DEF Init, Market!Init, Answers
<1>2. IInv /\ IInv' /\ AnswersInv /\ [Next]_vars => [Market!Next]_marketVars
  BY StepIsMarketStep
<1>3. QED
  BY <1>1, <1>2, AnswersInvariance, PTL
     DEF Spec, MarketSpec, Market!Spec, Market!vars, marketVars, Answers
-----------------------------------------------------------------------------
(* Sums.  That the library's fold satisfies its recursion equation, and    *)
(* what follows by induction, both from the well-foundedness of the subset *)
(* order: a set of counterexamples has a smallest member.                  *)

(* The recursion equation of the library's sum over a set of indices. *)
Taken(s) == CHOOSE x \in s : TRUE
Sums(g, f, S) ==
    g = [s \in SUBSET S |-> IF s = {} THEN 0 ELSE f[Taken(s)] + g[s \ {Taken(s)}]]

LEMMA SumIsRecursive ==
    ASSUME NEW f, NEW S PROVE SumFunctionOnSet(f, S) = (CHOOSE g : Sums(g, f, S))[S]
  BY DEF SumFunctionOnSet, FoldFunctionOnSet, MapThenFoldSet, Sums, Taken

(* A set of subsets of a finite set has a member no other is part of. *)
LEMMA SmallestSet ==
    ASSUME NEW S, IsFiniteSet(S), NEW T \in SUBSET SUBSET S, T # {}
    PROVE  \E X \in T : \A Y \in T : Y \subseteq X => Y = X
<1>1. IsWellFoundedOn(StrictSubsetOrdering(S), SUBSET S)
  BY FS_StrictSubsetOrderingWellFounded, FS_FiniteSubsetsOfFinite
<1>2. PICK X \in T : \A Y \in T : ~ <<Y, X>> \in StrictSubsetOrdering(S)
  BY <1>1, WFMin
<1>3. QED
  BY <1>2 DEF StrictSubsetOrdering

LEMMA TakenIsMember == ASSUME NEW s, s # {} PROVE Taken(s) \in s
  BY DEF Taken

(* Two functions that satisfy it agree wherever both are defined. *)
LEMMA SumsAgree ==
    ASSUME NEW f, NEW A, NEW B, NEW g, NEW h, Sums(g, f, A), Sums(h, f, B),
           NEW S \in SUBSET (A \cap B), IsFiniteSet(S)
    PROVE  g[S] = h[S]
<1> DEFINE T == {s \in SUBSET S : g[s] # h[s]}
<1>1. SUFFICES ASSUME T # {} PROVE FALSE
  OBVIOUS
<1>2. PICK X \in T : \A Y \in T : Y \subseteq X => Y = X
  <2>1. T \in SUBSET SUBSET S
    OBVIOUS
  <2> HIDE DEF T
  <2>2. QED
    BY <1>1, <2>1, SmallestSet
<1>3. X \in SUBSET A /\ X \in SUBSET B /\ X # {}
  BY <1>2 DEF Sums
<1>4. g[X \ {Taken(X)}] = h[X \ {Taken(X)}]
  BY <1>2, <1>3, TakenIsMember
<1>5. /\ g[X] = f[Taken(X)] + g[X \ {Taken(X)}]
      /\ h[X] = f[Taken(X)] + h[X \ {Taken(X)}]
  BY <1>3 DEF Sums
<1>6. QED
  BY <1>2, <1>4, <1>5

(* So on a finite set the equation has a solution, glued from the          *)
(* solutions on the sets it is made of.                                    *)
LEMMA SumsExist ==
    ASSUME NEW f, NEW S, IsFiniteSet(S) PROVE \E g : Sums(g, f, S)
<1> DEFINE T == {s \in SUBSET S : ~ \E g : Sums(g, f, s)}
<1>1. SUFFICES ASSUME T # {} PROVE FALSE
  OBVIOUS
<1>2. PICK X \in T : \A Y \in T : Y \subseteq X => Y = X
  <2>1. T \in SUBSET SUBSET S
    OBVIOUS
  <2> HIDE DEF T
  <2>2. QED
    BY <1>1, <2>1, SmallestSet
<1> DEFINE At(s) == (CHOOSE g : Sums(g, f, s))[s]
           g == [s \in SUBSET X |-> IF s = {} THEN 0
                                    ELSE f[Taken(s)] + At(s \ {Taken(s)})]
<1>3. ASSUME NEW s \in SUBSET X, s # X PROVE Sums(CHOOSE h : Sums(h, f, s), f, s)
  <2>1. \E h : Sums(h, f, s)
    BY <1>2, <1>3
  <2>2. QED
    BY <2>1
<1>4. ASSUME NEW s \in SUBSET X, s # X PROVE g[s] = At(s)
  <2> DEFINE h == CHOOSE k : Sums(k, f, s)
  <2>1. Sums(h, f, s)
    BY <1>3, <1>4
  <2> HIDE DEF h
  <2>2. CASE s = {}
    BY <2>1, <2>2 DEF Sums, h
  <2>3. CASE s # {}
    <3> DEFINE t == s \ {Taken(s)}
               k == CHOOSE j : Sums(j, f, t)
    <3>1. t \in SUBSET X /\ t # X /\ t \in SUBSET (s \cap t) /\ IsFiniteSet(t)
      <4>1. IsFiniteSet(s)
        BY FS_Subset
      <4>2. QED
        BY <4>1, <1>4, FS_Subset
    <3>2. Sums(k, f, t)
      BY <1>3, <3>1
    <3> HIDE DEF t, k
    <3>3. h[t] = k[t]
      BY <2>1, <3>1, <3>2, SumsAgree
    <3>4. h[s] = f[Taken(s)] + h[t]
      BY <2>1, <2>3 DEF Sums, t
    <3>5. g[s] = f[Taken(s)] + k[t]
      BY <2>3 DEF t, k
    <3>6. QED
      BY <3>3, <3>4, <3>5 DEF h
  <2>4. QED
    BY <2>2, <2>3
<1>5. \A s \in SUBSET X : s # {} => At(s \ {Taken(s)}) = g[s \ {Taken(s)}]
  <2>1. TAKE s \in SUBSET X
  <2>2. HAVE s # {}
  <2>3. s \ {Taken(s)} \in SUBSET X /\ s \ {Taken(s)} # X
    BY <2>2, TakenIsMember
  <2>4. QED
    BY <1>4, <2>3
<1> HIDE DEF At
<1>6. g = [s \in SUBSET X |-> IF s = {} THEN 0 ELSE f[Taken(s)] + g[s \ {Taken(s)}]]
  BY <1>5
<1>7. Sums(g, f, X)
  BY <1>6 DEF Sums
<1>8. QED
  BY <1>2, <1>7

LEMMA SumUnfolds ==
    ASSUME NEW f, NEW S, IsFiniteSet(S)
    PROVE  SumFunctionOnSet(f, S) =
              IF S = {} THEN 0
              ELSE f[Taken(S)] + SumFunctionOnSet(f, S \ {Taken(S)})
<1> DEFINE g == CHOOSE k : Sums(k, f, S)
           t == S \ {Taken(S)}
           h == CHOOSE k : Sums(k, f, t)
<1>1. IsFiniteSet(t) /\ t \in SUBSET (S \cap t)
  BY FS_Subset
<1>2. Sums(g, f, S) /\ Sums(h, f, t)
  BY <1>1, SumsExist
<1>3. SumFunctionOnSet(f, S) = g[S] /\ SumFunctionOnSet(f, t) = h[t]
  BY SumIsRecursive
<1> HIDE DEF g, h
<1>4. g[t] = h[t]
  BY <1>1, <1>2, SumsAgree
<1>5. g[S] = IF S = {} THEN 0 ELSE f[Taken(S)] + g[t]
  BY <1>2 DEF Sums
<1>6. QED
  BY <1>3, <1>4, <1>5

LEMMA SumIsInteger ==
    ASSUME NEW f, NEW S, IsFiniteSet(S), \A x \in S : f[x] \in Int
    PROVE  SumFunctionOnSet(f, S) \in Int
<1> DEFINE T == {s \in SUBSET S : SumFunctionOnSet(f, s) \notin Int}
<1>1. SUFFICES ASSUME T # {} PROVE FALSE
  OBVIOUS
<1>2. PICK X \in T : \A Y \in T : Y \subseteq X => Y = X
  <2>1. T \in SUBSET SUBSET S
    OBVIOUS
  <2> HIDE DEF T
  <2>2. QED
    BY <1>1, <2>1, SmallestSet
<1>3. IsFiniteSet(X) /\ X # {}
  <2>1. IsFiniteSet(X)
    BY FS_Subset
  <2>2. X = {} => SumFunctionOnSet(f, X) = 0
    BY <2>1, SumUnfolds
  <2>3. QED
    BY <2>1, <2>2
<1>4. Taken(X) \in X /\ SumFunctionOnSet(f, X \ {Taken(X)}) \in Int
  BY <1>2, <1>3, TakenIsMember
<1>5. QED
  BY <1>2, <1>3, <1>4, SumUnfolds

(* Any one term can be taken out of a sum. *)
LEMMA SumTakesOut ==
    ASSUME NEW f, NEW S, IsFiniteSet(S), \A x \in S : f[x] \in Int, NEW x \in S
    PROVE  SumFunctionOnSet(f, S) = f[x] + SumFunctionOnSet(f, S \ {x})
<1> DEFINE Sum(s) == SumFunctionOnSet(f, s)
           T == {s \in SUBSET S : \E y \in s : Sum(s) # f[y] + Sum(s \ {y})}
<1>1. SUFFICES ASSUME T # {} PROVE FALSE
  OBVIOUS
<1>2. PICK X \in T : \A Y \in T : Y \subseteq X => Y = X
  <2>1. T \in SUBSET SUBSET S
    OBVIOUS
  <2> HIDE DEF T
  <2>2. QED
    BY <1>1, <2>1, SmallestSet
<1>3. PICK y \in X : Sum(X) # f[y] + Sum(X \ {y})
  BY <1>2
<1> DEFINE p == Taken(X)
<1>4. /\ p \in X /\ p # y
      /\ Sum(X) = f[p] + Sum(X \ {p})
  <2>1. p \in X
    BY <1>3, TakenIsMember
  <2>2. IsFiniteSet(X)
    BY FS_Subset
  <2>3. Sum(X) = f[p] + Sum(X \ {p})
    BY <1>3, <2>2, SumUnfolds
  <2>4. QED
    BY <1>3, <2>1, <2>3
<1> HIDE DEF p
<1>5. /\ X \ {p} \in SUBSET S /\ X \ {p} \notin T
      /\ X \ {y} \in SUBSET S /\ X \ {y} \notin T
  BY <1>2, <1>3, <1>4
<1> DEFINE Z == X \ {p, y}
<1>6. (X \ {p}) \ {y} = Z /\ (X \ {y}) \ {p} = Z
  OBVIOUS
<1>7. Sum(X \ {p}) = f[y] + Sum((X \ {p}) \ {y})
  BY <1>3, <1>4, <1>5
<1>8. Sum(X \ {y}) = f[p] + Sum((X \ {y}) \ {p})
  BY <1>3, <1>4, <1>5
<1>9. Sum(Z) \in Int /\ f[y] \in Int /\ f[p] \in Int
  <2>1. Z \in SUBSET S /\ y \in S /\ p \in S
    BY <1>3, <1>4
  <2>2. IsFiniteSet(Z) /\ \A z \in Z : f[z] \in Int
    BY <2>1, FS_Subset
  <2>3. QED
    BY <2>1, <2>2, SumIsInteger
<1>10. Sum(X \ {p}) = f[y] + Sum(Z) /\ Sum(X \ {y}) = f[p] + Sum(Z)
  BY <1>6, <1>7, <1>8
<1> HIDE DEF Sum, T, Z
<1>11. QED
  BY <1>3, <1>4, <1>9, <1>10

(* A sum grows with its terms. *)
LEMMA SumIsMonotone ==
    ASSUME NEW f, NEW g, NEW S, IsFiniteSet(S),
           \A x \in S : f[x] \in Int /\ g[x] \in Int /\ f[x] <= g[x]
    PROVE  SumFunctionOnSet(f, S) <= SumFunctionOnSet(g, S)
<1> DEFINE F(s) == SumFunctionOnSet(f, s)
           G(s) == SumFunctionOnSet(g, s)
           T == {s \in SUBSET S : ~ F(s) <= G(s)}
<1>1. SUFFICES ASSUME T # {} PROVE FALSE
  OBVIOUS
<1>2. PICK X \in T : \A Y \in T : Y \subseteq X => Y = X
  <2>1. T \in SUBSET SUBSET S
    OBVIOUS
  <2> HIDE DEF T
  <2>2. QED
    BY <1>1, <2>1, SmallestSet
<1>3. IsFiniteSet(X)
  BY FS_Subset
<1>4. X # {}
  <2>1. X = {} => F(X) = 0 /\ G(X) = 0
    BY <1>3, SumUnfolds
  <2>2. QED
    BY <2>1
<1> DEFINE p == Taken(X)
           R == X \ {p}
<1>5. p \in X /\ F(X) = f[p] + F(R) /\ G(X) = g[p] + G(R)
  BY <1>3, <1>4, TakenIsMember, SumUnfolds
<1>6. R \in SUBSET S /\ R \notin T /\ IsFiniteSet(R)
  BY <1>2, <1>5, FS_Subset
<1>7. F(R) \in Int /\ G(R) \in Int
  BY <1>6, SumIsInteger
<1>8. f[p] \in Int /\ g[p] \in Int /\ f[p] <= g[p]
  BY <1>5
<1> HIDE DEF p, R, F, G
<1>9. QED
  BY <1>2, <1>5, <1>6, <1>7, <1>8

LEMMA SumOfEquals ==
    ASSUME NEW f, NEW g, NEW S, IsFiniteSet(S),
           \A x \in S : f[x] \in Int /\ g[x] = f[x]
    PROVE  SumFunctionOnSet(g, S) = SumFunctionOnSet(f, S)
<1>1. /\ SumFunctionOnSet(f, S) <= SumFunctionOnSet(g, S)
      /\ SumFunctionOnSet(g, S) <= SumFunctionOnSet(f, S)
  BY SumIsMonotone
<1>2. SumFunctionOnSet(f, S) \in Int /\ SumFunctionOnSet(g, S) \in Int
  BY SumIsInteger
<1>3. QED
  BY <1>1, <1>2

LEMMA SumOfZeros ==
    ASSUME NEW f, NEW S, IsFiniteSet(S), \A x \in S : f[x] = 0
    PROVE  SumFunctionOnSet(f, S) = 0
<1> DEFINE T == {s \in SUBSET S : SumFunctionOnSet(f, s) # 0}
<1>1. SUFFICES ASSUME T # {} PROVE FALSE
  OBVIOUS
<1>2. PICK X \in T : \A Y \in T : Y \subseteq X => Y = X
  <2>1. T \in SUBSET SUBSET S
    OBVIOUS
  <2> HIDE DEF T
  <2>2. QED
    BY <1>1, <2>1, SmallestSet
<1>3. IsFiniteSet(X)
  BY FS_Subset
<1>4. X # {}
  BY <1>2, <1>3, SumUnfolds
<1>5. Taken(X) \in X /\ SumFunctionOnSet(f, X \ {Taken(X)}) = 0
  BY <1>2, <1>4, TakenIsMember
<1>6. QED
  BY <1>2, <1>3, <1>4, <1>5, SumUnfolds

(* A receipt adds its gold to the sum of the receipts. *)
LEMMA SumOfReceipt ==
    ASSUME NEW S, IsFiniteSet(S), NEW f \in [S -> Int], NEW g \in [S -> Int],
           NEW x \in S, \A y \in S : y # x => g[y] = f[y]
    PROVE  /\ SumFunctionOnSet(f, S) \in Int
           /\ SumFunctionOnSet(g, S) = SumFunctionOnSet(f, S) + (g[x] - f[x])
<1> DEFINE R == S \ {x}
<1>1. \A y \in R : g[y] = f[y]
  OBVIOUS
<1>2. \A y \in S : f[y] \in Int /\ g[y] \in Int
  OBVIOUS
<1>3. R \in SUBSET S /\ IsFiniteSet(R)
  BY FS_Subset
<1>4. /\ SumFunctionOnSet(f, S) = f[x] + SumFunctionOnSet(f, R)
      /\ SumFunctionOnSet(g, S) = g[x] + SumFunctionOnSet(g, R)
  BY <1>2, SumTakesOut
<1> HIDE DEF R
<1>5. SumFunctionOnSet(g, R) = SumFunctionOnSet(f, R) /\ SumFunctionOnSet(f, R) \in Int
  BY <1>1, <1>2, <1>3, SumOfEquals, SumIsInteger
<1>6. QED
  BY <1>1, <1>2, <1>4, <1>5

(* Charging a set of characters takes the price at least once, and exactly *)
(* once when there is only one of them.                                    *)
LEMMA SumOfCharged ==
    ASSUME NEW S, IsFiniteSet(S), NEW f \in [S -> Int], NEW T \in SUBSET S, T # {},
           NEW cost \in Int, NEW g,
           g = [c \in S |-> IF c \in T THEN f[c] - cost ELSE f[c]]
    PROVE  /\ SumFunctionOnSet(f, S) \in Int /\ SumFunctionOnSet(g, S) \in Int
           /\ cost >= 0 => SumFunctionOnSet(g, S) <= SumFunctionOnSet(f, S) - cost
           /\ (\A c, d \in T : c = d) =>
                 SumFunctionOnSet(g, S) = SumFunctionOnSet(f, S) - cost
<1>1. PICK x \in T : TRUE
  OBVIOUS
<1> DEFINE R == S \ {x}
<1>2. /\ x \in S /\ g[x] = f[x] - cost
      /\ \A y \in S : f[y] \in Int /\ g[y] \in Int
      /\ cost >= 0 => \A y \in S : g[y] <= f[y]
      /\ (\A c, d \in T : c = d) => \A y \in R : g[y] = f[y]
  BY <1>1
<1>3. R \in SUBSET S /\ IsFiniteSet(R)
  BY FS_Subset
<1>4. /\ SumFunctionOnSet(f, S) = f[x] + SumFunctionOnSet(f, R)
      /\ SumFunctionOnSet(g, S) = g[x] + SumFunctionOnSet(g, R)
  BY <1>2, SumTakesOut
<1> HIDE DEF R
<1>5. SumFunctionOnSet(f, R) \in Int /\ SumFunctionOnSet(g, R) \in Int
  BY <1>2, <1>3, SumIsInteger
<1>6. cost >= 0 => SumFunctionOnSet(g, R) <= SumFunctionOnSet(f, R)
  BY <1>2, <1>3, SumIsMonotone
<1>7. (\A c, d \in T : c = d) => SumFunctionOnSet(g, R) = SumFunctionOnSet(f, R)
  <2>1. SUFFICES ASSUME \A c, d \in T : c = d
                 PROVE  SumFunctionOnSet(g, R) = SumFunctionOnSet(f, R)
    OBVIOUS
  <2>2. \A y \in R : f[y] \in Int /\ g[y] = f[y]
    BY <1>2, <1>3, <2>1
  <2>3. QED
    BY <1>3, <2>2, SumOfEquals
<1>8. QED
  BY <1>2, <1>4, <1>5, <1>6, <1>7
-----------------------------------------------------------------------------
(* Gold.  Only a sale moves any, and the market says how.                  *)

OneCharacterEach == \A c, d \in Characters : AccountOf[c] = AccountOf[d] => c = d

(* Nothing was sold from a listing with a negative price. *)
FairlyPriced == \A l \in ListIds : delivered[l] > 0 => info[l].price >= 0

LEMMA SetsAreFinite == IsFiniteSet(ListIds) /\ IsFiniteSet(Characters)
<1>1. MaxListings \in Int
  BY ConstantsAssumption
<1>2. QED
  BY <1>1, CharactersAssumption, FS_Interval DEF ListIds

LEMMA SumsAreIntegers ==
    ASSUME IInv, IInv'
    PROVE  /\ SumFunction(gold) \in Int /\ SumFunction(paid) \in Int
           /\ SumFunction(gold') \in Int /\ SumFunction(paid') \in Int
<1>1. /\ DOMAIN gold = Characters /\ \A c \in Characters : gold[c] \in Int
      /\ DOMAIN paid = ListIds /\ \A l \in ListIds : paid[l] \in Int
  BY DEF IInv, TypeOK
<1>2. /\ DOMAIN gold' = Characters /\ \A c \in Characters : gold'[c] \in Int
      /\ DOMAIN paid' = ListIds /\ \A l \in ListIds : paid'[l] \in Int
  BY DEF IInv, TypeOK
<1>3. QED
  BY <1>1, <1>2, SetsAreFinite, SumIsInteger DEF SumFunction

LEMMA SaleMovesGold ==
    ASSUME IInv, IInv', NEW r \in DOMAIN req, Market!Buy(r)
    PROVE  /\ FairlyPriced' =>
                 SumFunction(gold') + SumFunction(paid') <= SumFunction(gold) + SumFunction(paid)
           /\ OneCharacterEach =>
                 SumFunction(gold') + SumFunction(paid') = SumFunction(gold) + SumFunction(paid)
<1> DEFINE l == req[r].list
           cost == info[l].price * req[r].count
<1>1. /\ l \in ListIds
      /\ paid' = [paid EXCEPT ![l] = @ + cost]
      /\ req[r].count \in 1 .. stock[l]
  BY DEF Market!Buy
<1>2. PICK T \in SUBSET {c \in Characters : AccountOf[c] = req[r].player /\ gold[c] >= cost} :
         T # {} /\ gold' = [c \in Characters |-> IF c \in T THEN gold[c] - cost ELSE gold[c]]
  BY DEF Market!Buy
<1>3. cost \in Int /\ (FairlyPriced' => cost >= 0)
  <2>1. info[l].price \in Int /\ req[r].count \in Int
    <3>1. TypeOK /\ req \in Seq(Request)
      BY DEF IInv, TypeOK
    <3>2. QED
      BY <1>1, <3>1, InfoIsTyped DEF Request
  <2>2. /\ \A m, n \in Int : m * n \in Int
        /\ \A m, n \in Nat : m * n \in Nat
    OBVIOUS
  <2>3. FairlyPriced' => info[l].price >= 0
    <3>1. delivered[l] \in Nat /\ delivered' = [delivered EXCEPT ![l] = @ + req[r].count]
          /\ DOMAIN delivered = ListIds /\ info' = info
      BY <1>1 DEF IInv, TypeOK, Market!Buy
    <3>2. stock[l] \in Int
      BY <1>1 DEF IInv, TypeOK
    <3>3. delivered'[l] = delivered[l] + req[r].count /\ req[r].count > 0
      BY <1>1, <2>1, <3>1, <3>2
    <3>4. delivered'[l] > 0
      BY <2>1, <3>1, <3>3
    <3>5. QED
      BY <1>1, <3>1, <3>4 DEF FairlyPriced
  <2>4. req[r].count > 0
    <3>1. stock[l] \in Int
      BY <1>1 DEF IInv, TypeOK
    <3>2. QED
      BY <1>1, <2>1, <3>1
  <2> HIDE DEF l
  <2>5. QED
    BY <2>1, <2>2, <2>3, <2>4
<1>4. /\ gold \in [Characters -> Int] /\ paid \in [ListIds -> Int]
      /\ DOMAIN gold = Characters /\ DOMAIN gold' = Characters
      /\ DOMAIN paid = ListIds /\ DOMAIN paid' = ListIds
  BY DEF IInv, TypeOK
<1>5. IsFiniteSet(ListIds) /\ IsFiniteSet(Characters)
  BY SetsAreFinite
<1> HIDE DEF l, cost
<1>6. /\ SumFunctionOnSet(paid, ListIds) \in Int
      /\ SumFunctionOnSet(paid', ListIds) = SumFunctionOnSet(paid, ListIds) + cost
  <2>1. cost \in Int
    BY <1>3
  <2>2. /\ paid' \in [ListIds -> Int] /\ paid'[l] - paid[l] = cost
        /\ \A k \in ListIds : k # l => paid'[k] = paid[k]
    BY <1>1, <1>4, <2>1
  <2>3. /\ SumFunctionOnSet(paid, ListIds) \in Int
        /\ SumFunctionOnSet(paid', ListIds)
              = SumFunctionOnSet(paid, ListIds) + (paid'[l] - paid[l])
    <3>1. /\ l \in ListIds /\ IsFiniteSet(ListIds)
          /\ paid \in [ListIds -> Int] /\ paid' \in [ListIds -> Int]
      BY <1>1, <1>4, <1>5, <2>2
    <3>2. \A k \in ListIds : k # l => paid'[k] = paid[k]
      BY <2>2
    <3>3. QED
      BY <3>1, <3>2, SumOfReceipt
  <2>4. QED
    BY <2>2, <2>3
<1>7. /\ SumFunctionOnSet(gold, Characters) \in Int
      /\ SumFunctionOnSet(gold', Characters) \in Int
      /\ cost >= 0 =>
            SumFunctionOnSet(gold', Characters) <= SumFunctionOnSet(gold, Characters) - cost
      /\ (\A c, d \in T : c = d) =>
            SumFunctionOnSet(gold', Characters) = SumFunctionOnSet(gold, Characters) - cost
  <2>1. T \in SUBSET Characters /\ T # {}
    BY <1>2
  <2> DEFINE g == [c \in Characters |-> IF c \in T THEN gold[c] - cost ELSE gold[c]]
  <2>2. gold' = g
    BY <1>2
  <2>3. /\ SumFunctionOnSet(gold, Characters) \in Int
        /\ SumFunctionOnSet(g, Characters) \in Int
        /\ cost >= 0 =>
              SumFunctionOnSet(g, Characters) <= SumFunctionOnSet(gold, Characters) - cost
        /\ (\A c, d \in T : c = d) =>
              SumFunctionOnSet(g, Characters) = SumFunctionOnSet(gold, Characters) - cost
    BY <1>3, <1>4, <1>5, <2>1, SumOfCharged
  <2> HIDE DEF g
  <2>4. QED
    BY <2>2, <2>3
<1>8. OneCharacterEach => \A c, d \in T : c = d
  BY <1>2 DEF OneCharacterEach
<1>9. QED
  BY <1>3, <1>4, <1>6, <1>7, <1>8 DEF SumFunction

LEMMA StepMovesGold ==
    ASSUME IInv, IInv', AnswersInv, [Next]_vars
    PROVE  /\ FairlyPriced' =>
                 SumFunction(gold') + SumFunction(paid') <= SumFunction(gold) + SumFunction(paid)
           /\ OneCharacterEach =>
                 SumFunction(gold') + SumFunction(paid') = SumFunction(gold) + SumFunction(paid)
<1>1. SumFunction(gold) \in Int /\ SumFunction(paid) \in Int
  BY SumsAreIntegers
<1>2. [Market!Next]_marketVars
  BY StepIsMarketStep
<1>3. CASE gold' = gold /\ paid' = paid
  BY <1>1, <1>3
<1>4. ASSUME NEW r \in DOMAIN req, Market!Buy(r)
      PROVE  /\ FairlyPriced' => SumFunction(gold') + SumFunction(paid')
                                    <= SumFunction(gold) + SumFunction(paid)
             /\ OneCharacterEach => SumFunction(gold') + SumFunction(paid')
                                       = SumFunction(gold) + SumFunction(paid)
  BY <1>4, SaleMovesGold
<1>5. (gold' = gold /\ paid' = paid) \/ \E r \in DOMAIN req : Market!Buy(r)
  BY <1>2 DEF Market!Next, Market!Ask, Market!List, Market!Answer, marketVars
<1>6. QED
  BY <1>3, <1>4, <1>5

(* What was sold from stays what it was registered as, and more and more   *)
(* is sold. *)
LEMMA FairPricesKept ==
    ASSUME IInv, IInv', AnswersInv, [Next]_vars, FairlyPriced' PROVE FairlyPriced
<1> SUFFICES ASSUME NEW l \in ListIds, delivered[l] > 0 PROVE info[l].price >= 0
  BY DEF FairlyPriced
<1>1. delivered[l] \in Nat /\ DOMAIN delivered = ListIds
  BY DEF IInv, TypeOK
<1>2. [Market!Next]_marketVars
  BY StepIsMarketStep
<1>3. info[l] # Nothing
  <2>1. info[l] = Nothing => info[l].qty = 0
    BY DEF Nothing
  <2>2. stock[l] \in Int /\ stock[l] + delivered[l] = info[l].qty
           /\ (delivered[l] > 0 => stock[l] >= 0)
    BY DEF IInv, TypeOK, StockConserved
  <2>3. QED
    BY <1>1, <2>1, <2>2
<1>4. CASE delivered' = delivered /\ info' = info
  BY <1>4 DEF FairlyPriced
<1>5. ASSUME NEW r \in DOMAIN req, NEW k \in ListIds, Market!List(r, k)
      PROVE  info[l].price >= 0
  <2>1. /\ delivered' = delivered /\ k # l
        /\ \E x : info' = [info EXCEPT ![k] = x]
    BY <1>3, <1>5 DEF Market!List, Market!Nothing, Nothing
  <2>2. info'[l] = info[l]
    BY <2>1
  <2>3. QED
    BY <2>1, <2>2 DEF FairlyPriced
<1>6. ASSUME NEW r \in DOMAIN req, Market!Buy(r) PROVE info[l].price >= 0
  <2> DEFINE k == req[r].list
  <2>1. /\ info' = info /\ k \in ListIds /\ req[r].count \in 1 .. stock[k]
        /\ delivered' = [delivered EXCEPT ![k] = @ + req[r].count]
    BY <1>6 DEF Market!Buy
  <2>2. req[r].count \in Nat
    <3>1. stock[k] \in Int
      BY <2>1 DEF IInv, TypeOK
    <3>2. QED
      BY <2>1, <3>1
  <2>3. delivered'[l] > 0
    <3>1. CASE k = l
      BY <1>1, <2>1, <2>2, <3>1
    <3>2. CASE k # l
      BY <1>1, <2>1, <3>2
    <3>3. QED
      BY <3>1, <3>2
  <2>4. QED
    BY <2>1, <2>3 DEF FairlyPriced
<1>7. \/ delivered' = delivered /\ info' = info
      \/ \E r \in DOMAIN req, k \in ListIds : Market!List(r, k)
      \/ \E r \in DOMAIN req : Market!Buy(r)
  BY <1>2 DEF Market!Next, Market!Ask, Market!Answer, marketVars
<1>8. QED
  BY <1>4, <1>5, <1>6, <1>7

(* As long as nothing was sold from a listing with a negative price, a     *)
(* sale never creates gold: what the sellers' receipts hold was taken from *)
(* characters, whatever fails in between (the UPDATE of character_base and *)
(* the receipts, AuctionService.cpp:204-232; Regist, 117-126, accepts a    *)
(* negative price).                                                        *)
THEOREM PurchaseNeverCreatesGold == Spec => []GoldNeverCreated
<1>1. Init => GoldNeverCreated
  <2> SUFFICES ASSUME Init PROVE GoldNeverCreated
    OBVIOUS
  <2>1. /\ gold = InitGold /\ paid = [l \in ListIds |-> 0] /\ DOMAIN paid = ListIds
        /\ DOMAIN InitGold = Characters /\ \A c \in Characters : InitGold[c] \in Int
    BY ConstantsAssumption DEF Init
  <2>2. IsFiniteSet(ListIds) /\ IsFiniteSet(Characters)
    BY SetsAreFinite
  <2>3. SumFunction(InitGold) \in Int
    BY <2>1, <2>2, SumIsInteger DEF SumFunction
  <2>4. SumFunction(paid) = 0
    BY <2>1, <2>2, SumOfZeros DEF SumFunction
  <2>5. QED
    BY <2>1, <2>3, <2>4 DEF GoldNeverCreated
<1>2. IInv /\ IInv' /\ AnswersInv /\ GoldNeverCreated /\ [Next]_vars => GoldNeverCreated'
  <2> SUFFICES ASSUME IInv, IInv', AnswersInv, GoldNeverCreated, [Next]_vars, FairlyPriced'
               PROVE  SumFunction(gold') + SumFunction(paid') <= SumFunction(InitGold)
    BY DEF GoldNeverCreated, FairlyPriced
  <2>1. SumFunction(gold') + SumFunction(paid') <= SumFunction(gold) + SumFunction(paid)
    BY StepMovesGold
  <2>2. /\ SumFunction(gold) \in Int /\ SumFunction(paid) \in Int
        /\ SumFunction(gold') \in Int /\ SumFunction(paid') \in Int
    BY SumsAreIntegers
  <2>3. SumFunction(InitGold) \in Int
    BY ConstantsAssumption, SetsAreFinite, SumIsInteger DEF SumFunction
  <2>4. SumFunction(gold) + SumFunction(paid) <= SumFunction(InitGold)
    BY FairPricesKept DEF GoldNeverCreated, FairlyPriced
  <2>5. QED
    BY <2>1, <2>2, <2>3, <2>4
<1>3. QED
  BY <1>1, <1>2, AnswersInvariance, PTL DEF Spec

(* When no account has two characters a purchase moves exactly its price:  *)
(* the UPDATE keyed on account_id then charges one character, and the      *)
(* comment above it is true (AuctionService.cpp:203-209).                  *)
THEOREM PurchaseMovesGold ==
    ASSUME OneCharacterEach PROVE Spec => GoldMoves
<1>1. IInv /\ IInv' /\ AnswersInv /\ [Next]_vars =>
         [SumFunction(gold) - SumFunction(gold') = SumFunction(paid') - SumFunction(paid)]_vars
  <2> SUFFICES ASSUME IInv, IInv', AnswersInv, [Next]_vars
               PROVE  SumFunction(gold) - SumFunction(gold')
                         = SumFunction(paid') - SumFunction(paid)
    OBVIOUS
  <2>1. SumFunction(gold') + SumFunction(paid') = SumFunction(gold) + SumFunction(paid)
    BY StepMovesGold
  <2>2. /\ SumFunction(gold) \in Int /\ SumFunction(paid) \in Int
        /\ SumFunction(gold') \in Int /\ SumFunction(paid') \in Int
    BY SumsAreIntegers
  <2>3. QED
    BY <2>1, <2>2
<1>2. QED
  BY <1>1, AnswersInvariance, PTL DEF Spec, GoldMoves
-----------------------------------------------------------------------------
(* Receipts.  What was delivered is what the purchases that took effect    *)
(* asked for, each counted once.                                           *)

Amounts == [r \in DOMAIN req |-> req[r].count]
Purchased(l) == {r \in bought : req[r].kind = "purchase" /\ req[r].list = l}
ReceiptsMatchPurchases ==
    \A l \in ListIds : delivered[l] = SumFunctionOnSet(Amounts, Purchased(l))

LEMMA PurchasedIsFinite ==
    ASSUME IInv, AnswersInv, NEW l
    PROVE  /\ IsFiniteSet(Purchased(l)) /\ Purchased(l) \subseteq DOMAIN req
           /\ \A r \in DOMAIN req : Amounts[r] \in Int
<1>1. req \in Seq(Request)
  BY DEF IInv, TypeOK
<1>2. bought \subseteq DOMAIN req
  BY DEF AnswersInv, Past, LeftQueue
<1>3. Len(req) \in Nat /\ DOMAIN req = 1 .. Len(req)
  BY <1>1
<1>4. IsFiniteSet(DOMAIN req)
  <2>1. 1 \in Int /\ Len(req) \in Int
    BY <1>3
  <2>2. QED
    BY <1>3, <2>1, FS_Interval
<1>5. Purchased(l) \subseteq DOMAIN req
  BY <1>2 DEF Purchased
<1>6. \A r \in DOMAIN req : Amounts[r] \in Int
  <2>1. \A q \in Request : q.count \in Int
    BY DEF Request
  <2>2. \A r \in DOMAIN req : req[r] \in Request
    BY <1>1
  <2>3. QED
    BY <2>1, <2>2 DEF Amounts
<1>7. QED
  BY <1>4, <1>5, <1>6, FS_Subset

(* The sum of a listing stays when neither its purchases nor what they     *)
(* asked for change.                                                       *)
LEMMA ReceiptsKept ==
    ASSUME IInv, AnswersInv, NEW l, Purchased(l)' = Purchased(l),
           \A r \in DOMAIN req : Amounts'[r] = Amounts[r]
    PROVE  SumFunctionOnSet(Amounts, Purchased(l))' = SumFunctionOnSet(Amounts, Purchased(l))
<1>1. /\ IsFiniteSet(Purchased(l)) /\ Purchased(l) \subseteq DOMAIN req
      /\ \A r \in DOMAIN req : Amounts[r] \in Int
  BY PurchasedIsFinite
<1> DEFINE S == Purchased(l)
           f == Amounts
           g == Amounts'
<1>2. IsFiniteSet(S) /\ \A r \in S : f[r] \in Int /\ g[r] = f[r]
  BY <1>1
<1> HIDE DEF S, f, g
<1>3. SumFunctionOnSet(g, S) = SumFunctionOnSet(f, S)
  BY <1>2, SumOfEquals
<1>4. QED
  BY <1>3 DEF S, f, g

LEMMA SaleGivesReceipt ==
    ASSUME IInv, AnswersInv, ReceiptsMatchPurchases, NEW r \in DOMAIN req, Market!Buy(r)
    PROVE  ReceiptsMatchPurchases'
<1>0. PICK l \in ListIds : l = req[r].list
  BY DEF Market!Buy
<1> DEFINE n == req[r].count
<1>1. /\ r \notin bought /\ req[r].kind = "purchase"
      /\ delivered' = [delivered EXCEPT ![l] = @ + n]
      /\ bought' = bought \cup {r}
      /\ req' = req
  BY <1>0 DEF Market!Buy
<1>2. DOMAIN delivered = ListIds
  BY DEF IInv, TypeOK
<1>3. Amounts' = Amounts
  BY <1>1 DEF Amounts
<1>4. ASSUME NEW k \in ListIds, k # l
      PROVE  delivered'[k] = SumFunctionOnSet(Amounts, Purchased(k))'
  <2>1. Purchased(k)' = Purchased(k)
    BY <1>0, <1>1, <1>4 DEF Purchased
  <2>2. delivered'[k] = delivered[k]
    BY <1>1, <1>2, <1>4
  <2>3. QED
    BY <1>3, <2>1, <2>2 DEF ReceiptsMatchPurchases
<1>5. delivered'[l] = SumFunctionOnSet(Amounts, Purchased(l))'
  <2> DEFINE S == Purchased(l)
             T == Purchased(l)'
  <2>1. /\ IsFiniteSet(S) /\ S \subseteq DOMAIN req
        /\ \A x \in DOMAIN req : Amounts[x] \in Int
    BY PurchasedIsFinite
  <2>2. T = S \cup {r} /\ r \notin S
    BY <1>0, <1>1 DEF Purchased
  <2>3. IsFiniteSet(T) /\ r \in T /\ T \ {r} = S /\ \A x \in T : Amounts[x] \in Int
    <3> HIDE DEF S, T
    <3>1. QED
      BY <2>1, <2>2, FS_AddElement
  <2>4. Amounts[r] = n
    BY DEF Amounts
  <2>5. SumFunctionOnSet(Amounts, S) \in Int
    <3> HIDE DEF S, T
    <3>1. \A x \in S : Amounts[x] \in Int
      BY <2>1
    <3>2. QED
      BY <2>1, <3>1, SumIsInteger
  <2>6. SumFunctionOnSet(Amounts, T) = n + SumFunctionOnSet(Amounts, S)
    <3> HIDE DEF S, T
    <3>1. SumFunctionOnSet(Amounts, T) = Amounts[r] + SumFunctionOnSet(Amounts, T \ {r})
      BY <2>3, SumTakesOut
    <3>2. QED
      BY <2>3, <2>4, <3>1
  <2>7. delivered[l] = SumFunctionOnSet(Amounts, S) /\ delivered'[l] = delivered[l] + n
    BY <1>1, <1>2 DEF ReceiptsMatchPurchases
  <2>8. n \in Int
    BY <2>1, <2>4
  <2>9. delivered'[l] = SumFunctionOnSet(Amounts, T)
    <3> HIDE DEF S, T, n
    <3>1. QED
      BY <2>5, <2>6, <2>7, <2>8
  <2>10. QED
    BY <1>3, <2>9
<1>6. \A k \in ListIds : delivered'[k] = SumFunctionOnSet(Amounts, Purchased(k))'
  <2>1. TAKE k \in ListIds
  <2>2. CASE k = l
    BY <1>5, <2>2
  <2>3. CASE k # l
    BY <1>4, <2>3
  <2>4. QED
    BY <2>2, <2>3
<1>7. QED
  BY <1>6 DEF ReceiptsMatchPurchases

(* Every purchase that took effect is delivered once and whole, however    *)
(* often its transaction was retried and whatever was rolled back on the   *)
(* way: the buyers' receipts for a listing add up to what those purchases  *)
(* asked for (the receipt and the retry loop, AuctionService.cpp:137-171,  *)
(* 226-232).                                                               *)
THEOREM PurchaseDeliversOnce == Spec => []ReceiptsMatchPurchases
<1>1. Init => ReceiptsMatchPurchases
  <2> SUFFICES ASSUME Init, NEW l \in ListIds
               PROVE  delivered[l] = SumFunctionOnSet(Amounts, Purchased(l))
    BY DEF ReceiptsMatchPurchases
  <2>1. Purchased(l) = {} /\ delivered[l] = 0
    BY DEF Init, Purchased
  <2>2. SumFunctionOnSet(Amounts, {}) = 0
    BY FS_EmptySet, SumOfZeros
  <2>3. QED
    BY <2>1, <2>2
<1>2. IInv /\ IInv' /\ AnswersInv /\ ReceiptsMatchPurchases /\ [Next]_vars
         => ReceiptsMatchPurchases'
  <2> SUFFICES ASSUME IInv, IInv', AnswersInv, ReceiptsMatchPurchases, [Next]_vars
               PROVE  ReceiptsMatchPurchases'
    OBVIOUS
  <2>1. [Market!Next]_marketVars
    BY StepIsMarketStep
  <2>2. ASSUME NEW r \in DOMAIN req, Market!Buy(r) PROVE ReceiptsMatchPurchases'
    BY <2>2, SaleGivesReceipt
  <2>3. ASSUME delivered' = delivered, \A r \in DOMAIN req : req'[r] = req[r],
               \A l : Purchased(l)' = Purchased(l), DOMAIN req \subseteq DOMAIN req'
        PROVE  ReceiptsMatchPurchases'
    <3>1. \A r \in DOMAIN req : Amounts'[r] = Amounts[r]
      BY <2>3 DEF Amounts
    <3>2. ASSUME NEW l \in ListIds
          PROVE  delivered'[l] = SumFunctionOnSet(Amounts, Purchased(l))'
      <4>1. delivered[l] = SumFunctionOnSet(Amounts, Purchased(l))
        BY DEF ReceiptsMatchPurchases
      <4>2. SumFunctionOnSet(Amounts, Purchased(l))'
               = SumFunctionOnSet(Amounts, Purchased(l))
        BY <2>3, <3>1, ReceiptsKept
      <4>3. QED
        BY <2>3, <4>1, <4>2
    <3>3. QED
      BY <3>2 DEF ReceiptsMatchPurchases
  <2>4. bought \subseteq DOMAIN req
    BY DEF AnswersInv, Past, LeftQueue
  <2>5. CASE Market!Ask
    <3>1. /\ delivered' = delivered /\ bought' = bought
          /\ \A r \in DOMAIN req : req'[r] = req[r]
      BY <2>5 DEF Market!Ask
    <3>2. DOMAIN req \subseteq DOMAIN req'
      <4>1. req \in Seq(Request) /\ req' \in Seq(Request) /\ Len(req') = Len(req) + 1
        BY <2>5 DEF Market!Ask, IInv, TypeOK
      <4>2. QED
        BY <4>1
    <3>3. \A l : Purchased(l)' = Purchased(l)
      BY <2>4, <3>1 DEF Purchased
    <3>4. QED
      BY <2>3, <3>1, <3>2, <3>3
  <2>6. ASSUME NEW r \in DOMAIN req, NEW k \in ListIds, Market!List(r, k)
        PROVE  ReceiptsMatchPurchases'
    <3>1. /\ delivered' = delivered /\ bought' = bought \cup {r} /\ req' = req
          /\ req[r].kind = "regist"
      BY <2>6 DEF Market!List
    <3>2. \A l : Purchased(l)' = Purchased(l)
      BY <3>1 DEF Purchased
    <3>3. QED
      BY <2>3, <3>1, <3>2
  <2>7. CASE (\E r \in DOMAIN req, o \in BOOLEAN : Market!Answer(r, o)) \/ UNCHANGED marketVars
    <3>1. delivered' = delivered /\ bought' = bought /\ req' = req
      BY <2>7 DEF Market!Answer, marketVars
    <3>2. \A l : Purchased(l)' = Purchased(l)
      BY <3>1 DEF Purchased
    <3>3. QED
      BY <2>3, <3>1, <3>2
  <2>8. QED
    BY <2>1, <2>2, <2>5, <2>6, <2>7 DEF Market!Next
<1>3. QED
  BY <1>1, <1>2, AnswersInvariance, PTL DEF Spec
-----------------------------------------------------------------------------
(* Ranks.  How many steps a worker can still take for the task it runs.    *)

StepsLeft(s) ==
    CASE s = "begin"    -> 9
      [] s = "select"   -> 8
      [] s = "charge"   -> 7
      [] s = "take"     -> 6
      [] s = "record"   -> 5
      [] s = "receipts" -> 4
      [] s = "commit"   -> 3
      [] s = "rollback" -> 2
      [] s = "restore"  -> 1
      [] s = "insert"   -> 3
      [] s = "inserted" -> 2
      [] s = "answer"   -> 1
      [] OTHER          -> 0

Rank(w) ==
    IF pc[w] = "idle" THEN 0
    ELSE 9 * (kMaxTxAttempts - attempt[w]) + StepsLeft(pc[w])

RankBounded == \A w \in Writers : Rank(w) \in 0 .. 9 * kMaxTxAttempts

(* Nothing that happens to a busy worker raises its rank, and what it does *)
(* itself lowers it.                                                       *)
RankFalls ==
    \A w \in Writers : pc[w] # "idle" =>
        /\ Rank(w)' <= Rank(w)
        /\ Work(w) \/ RegistFails(w) => Rank(w)' < Rank(w)
TasksRunOut == [][RankFalls]_vars

(* A worker that runs a task has begun an attempt. *)
Busy == \A w \in Writers : pc[w] # "idle" => attempt[w] >= 1

(* Worker w goes on from its step to step s, in attempt a. *)
Moves(w, s, a) ==
    pc' = [pc EXCEPT ![w] = s] /\ attempt' = [attempt EXCEPT ![w] = a]

(* It takes a task, ends one, starts another attempt, or comes nearer to   *)
(* the end of this one.                                                    *)
Advances(w) ==
    \/ pc[w] = "idle" /\ \E s \in {"begin", "insert"} : Moves(w, s, 1)
    \/ pc[w] # "idle" /\ Moves(w, "idle", 0)
    \/ pc[w] = "restore" /\ attempt[w] < kMaxTxAttempts /\ Moves(w, "begin", attempt[w] + 1)
    \/ pc[w] # "idle" /\ \E s \in Steps \ {"idle"} :
          Moves(w, s, attempt[w]) /\ StepsLeft(s) < StepsLeft(pc[w])

LEMMA StepComesNearer ==
    ASSUME TypeOK, NEW w \in Writers, pc[w] # "idle",
           NEW s \in Steps \ {"idle"}, Goto(w, s), attempt' = attempt,
           StepsLeft(s) < StepsLeft(pc[w])
    PROVE  Advances(w)
<1>1. attempt = [attempt EXCEPT ![w] = attempt[w]]
  BY DEF TypeOK
<1>2. QED
  BY <1>1 DEF Goto, Moves, Advances

LEMMA EndTaskAdvances ==
    ASSUME NEW w \in Writers, pc[w] # "idle", EndTask(w) PROVE Advances(w)
  BY DEF EndTask, Goto, Moves, Advances

LEMMA WorkAdvances ==
    ASSUME TypeOK, NEW w \in Writers,
           Work(w) \/ RegistFails(w)
              \/ \E code \in {"deadlock", "lockwait", "other"} : StatementFails(w, code)
    PROVE  Advances(w)
<1>1. CASE TakeTask(w)
  <2>1. \E s \in {"begin", "insert"} : Moves(w, s, 1)
    BY <1>1 DEF TakeTask, Goto, Moves
  <2>2. QED
    BY <1>1, <2>1 DEF TakeTask, Advances
<1>2. CASE Begin(w) \/ SelectForUpdate(w) \/ ChargeGold(w) \/ TakeStock(w)
  <2>1. attempt' = attempt
    BY <1>2 DEF Begin, SelectForUpdate, ChargeGold, TakeStock
  <2>2. /\ pc[w] \in {"begin", "select", "charge", "take"}
        /\ Goto(w, "rollback")
              \/ (pc[w] = "begin" /\ Goto(w, "select"))
              \/ (pc[w] = "select" /\ Goto(w, "charge"))
              \/ (pc[w] = "charge" /\ Goto(w, "take"))
              \/ (pc[w] = "take" /\ Goto(w, "record"))
    BY <1>2 DEF Begin, SelectForUpdate, ChargeGold, TakeStock, Throw
  <2>3. PICK s \in {"rollback", "select", "charge", "take", "record"} :
           Goto(w, s) /\ StepsLeft(s) < StepsLeft(pc[w])
    BY <2>2 DEF StepsLeft
  <2>4. QED
    BY <2>1, <2>2, <2>3, StepComesNearer DEF Steps, TransactionSteps
<1>3. CASE RecordTrade(w) \/ GiveReceipts(w) \/ Commit(w) \/ Rollback(w) \/ DrawListId(w)
              \/ Regist(w)
  <2>1. attempt' = attempt
    BY <1>3 DEF RecordTrade, GiveReceipts, Commit, Rollback, DrawListId, Regist, localVars
  <2>2. \/ pc[w] = "record" /\ Goto(w, "receipts")
        \/ pc[w] = "receipts" /\ Goto(w, "commit")
        \/ pc[w] \in {"commit", "rollback"} /\ Goto(w, "restore")
        \/ pc[w] = "insert" /\ Goto(w, "inserted")
        \/ pc[w] = "inserted" /\ Goto(w, "answer")
    BY <1>3 DEF RecordTrade, GiveReceipts, Commit, Rollback, DrawListId, Regist
  <2>3. PICK s \in {"receipts", "commit", "restore", "inserted", "answer"} :
           Goto(w, s) /\ StepsLeft(s) < StepsLeft(pc[w]) /\ pc[w] # "idle"
    BY <2>2 DEF StepsLeft
  <2>4. QED
    BY <2>1, <2>3, StepComesNearer DEF Steps, TransactionSteps
<1>4. CASE DeadStatement(w)
              \/ \E code \in {"deadlock", "lockwait", "other"} : StatementFails(w, code)
  <2>1. attempt' = attempt /\ pc[w] \in TransactionSteps /\ Goto(w, "rollback")
    BY <1>4 DEF DeadStatement, StatementFails, Throw
  <2>2. StepsLeft("rollback") < StepsLeft(pc[w]) /\ pc[w] # "idle"
    BY <2>1 DEF StepsLeft, TransactionSteps
  <2>3. QED
    BY <2>1, <2>2, StepComesNearer DEF Steps
<1>5. CASE AnswerRegist(w) \/ RegistFails(w)
  BY <1>5, EndTaskAdvances DEF AnswerRegist, RegistFails
<1>6. CASE RestoreAutoCommit(w)
  <2>1. CASE Retry(w)
    BY <1>6, <2>1 DEF RestoreAutoCommit, Retry, Goto, Moves, Advances
  <2>2. CASE ~Retry(w)
    BY <1>6, <2>2, EndTaskAdvances DEF RestoreAutoCommit
  <2>3. QED
    BY <2>1, <2>2
<1>7. QED
  BY <1>1, <1>2, <1>3, <1>4, <1>5, <1>6 DEF Work

LEMMA MovesMoves ==
    ASSUME TypeOK, NEW w \in Writers, NEW s, NEW a, Moves(w, s, a)
    PROVE  /\ pc'[w] = s /\ attempt'[w] = a
           /\ \A v \in Writers : v # w => pc'[v] = pc[v] /\ attempt'[v] = attempt[v]
  BY DEF TypeOK, Moves

LEMMA RankIsNumber ==
    ASSUME TypeOK, NEW w \in Writers
    PROVE  /\ kMaxTxAttempts \in Nat /\ attempt[w] \in 0 .. kMaxTxAttempts
           /\ StepsLeft(pc[w]) \in 0 .. 9 /\ (pc[w] # "idle" => StepsLeft(pc[w]) > 0)
           /\ \A s : StepsLeft(s) \in 0 .. 9
<1>1. \A s : StepsLeft(s) \in 0 .. 9
  BY DEF StepsLeft
<1>2. pc[w] # "idle" => StepsLeft(pc[w]) > 0
  BY DEF TypeOK, Steps, TransactionSteps, StepsLeft
<1>3. kMaxTxAttempts \in Nat /\ attempt[w] \in 0 .. kMaxTxAttempts
  BY ConstantsAssumption DEF TypeOK
<1>4. QED
  BY <1>1, <1>2, <1>3

(* A busy worker that advances has fewer steps left, counting those of the *)
(* attempts it has not used.                                               *)
LEMMA AdvancingLowersRank ==
    ASSUME TypeOK, TypeOK', NEW w \in Writers, pc[w] # "idle", Advances(w)
    PROVE  Rank(w)' < Rank(w)
<1>1. /\ kMaxTxAttempts \in Nat /\ attempt[w] \in 0 .. kMaxTxAttempts
      /\ StepsLeft(pc[w]) \in 0 .. 9 /\ StepsLeft(pc[w]) > 0
      /\ \A s : StepsLeft(s) \in 0 .. 9
  BY RankIsNumber
<1>2. Rank(w) = 9 * (kMaxTxAttempts - attempt[w]) + StepsLeft(pc[w])
  BY DEF Rank
<1>3. CASE Moves(w, "idle", 0)
  <2>1. Rank(w)' = 0
    BY <1>3, MovesMoves DEF Rank
  <2>2. QED
    BY <1>1, <1>2, <2>1
<1>4. CASE pc[w] = "restore" /\ attempt[w] < kMaxTxAttempts
              /\ Moves(w, "begin", attempt[w] + 1)
  <2>1. Rank(w)' = 9 * (kMaxTxAttempts - (attempt[w] + 1)) + StepsLeft("begin")
    BY <1>4, MovesMoves DEF Rank
  <2>2. StepsLeft("begin") = 9 /\ StepsLeft(pc[w]) = 1
    BY <1>4 DEF StepsLeft
  <2>3. QED
    BY <1>1, <1>2, <2>1, <2>2
<1>5. ASSUME NEW s \in Steps \ {"idle"}, Moves(w, s, attempt[w]),
             StepsLeft(s) < StepsLeft(pc[w])
      PROVE  Rank(w)' < Rank(w)
  <2>1. Rank(w)' = 9 * (kMaxTxAttempts - attempt[w]) + StepsLeft(s)
    BY <1>5, MovesMoves DEF Rank
  <2>2. QED
    BY <1>1, <1>2, <1>5, <2>1
<1>6. QED
  BY <1>3, <1>4, <1>5 DEF Advances

(* What a step may do to a worker: nothing, or what it does by itself. *)
LEMMA StepAdvances ==
    ASSUME TypeOK, [Next]_vars, NEW w \in Writers
    PROVE  (pc'[w] = pc[w] /\ attempt'[w] = attempt[w]) \/ Advances(w)
<1>1. CASE Arrive \/ (\E l \in ListIds : Expire(l)) \/ UNCHANGED vars
  BY <1>1 DEF Arrive, Handle_REQ_PURCHASE_ITEM, Handle_REQ_REGIST_ITEM, WorkerUnchanged,
              Expire, localVars, vars
<1>2. ASSUME NEW v \in Writers, ConnectionLost(v)
      PROVE  pc'[w] = pc[w] /\ attempt'[w] = attempt[w]
  BY <1>2 DEF ConnectionLost, localVars
<1>3. ASSUME NEW v \in Writers,
             Work(v) \/ RegistFails(v)
                \/ \E code \in {"deadlock", "lockwait", "other"} : StatementFails(v, code)
      PROVE  (pc'[w] = pc[w] /\ attempt'[w] = attempt[w]) \/ Advances(w)
  <2>1. Advances(v)
    BY <1>3, WorkAdvances
  <2>2. PICK s, a : Moves(v, s, a)
    BY <2>1 DEF Advances
  <2>3. QED
    BY <2>1, <2>2, MovesMoves
<1>4. QED
  BY <1>1, <1>2, <1>3 DEF Next, Trouble

LEMMA StepBusy == IInv /\ IInv' /\ Busy /\ [Next]_vars => Busy'
<1> SUFFICES ASSUME IInv, IInv', Busy, [Next]_vars, NEW w \in Writers, pc'[w] # "idle"
             PROVE  attempt'[w] >= 1
  BY DEF Busy
<1>1. TypeOK /\ TypeOK' /\ (pc[w] # "idle" => attempt[w] >= 1) /\ attempt[w] \in Int
  <2>1. TypeOK /\ TypeOK'
    BY DEF IInv
  <2>2. attempt[w] \in Int
    BY <2>1, RankIsNumber
  <2>3. QED
    BY <2>1, <2>2 DEF Busy
<1>2. CASE pc'[w] = pc[w] /\ attempt'[w] = attempt[w]
  BY <1>1, <1>2
<1>3. CASE Advances(w)
  <2>1. \/ attempt'[w] = 1
        \/ pc'[w] = "idle"
        \/ pc[w] # "idle" /\ attempt'[w] \in {attempt[w], attempt[w] + 1}
    BY <1>1, <1>3, MovesMoves DEF Advances
  <2>2. QED
    BY <1>1, <2>1
<1>4. QED
  BY <1>1, <1>2, <1>3, StepAdvances

LEMMA BusyInvariance == Spec => [](IInv /\ Busy)
<1>1. Init => Busy
  BY DEF Init, Busy
<1>2. QED
  BY <1>1, Invariance, StepBusy, PTL DEF Spec

(* Retries end, whatever the database does: a task is over after at most   *)
(* nine steps of its worker per attempt, because each of them lowers a     *)
(* number that starts below that and that no step of anyone else raises.   *)
(* What is left to fairness is that the worker can take its next step: the *)
(* lock is given, the database answers (Purchase, AuctionService.cpp:      *)
(* 137-171).                                                               *)
THEOREM PurchaseRetriesEnd == Spec => []RankBounded /\ TasksRunOut
<1>1. IInv /\ Busy => RankBounded
  <2> SUFFICES ASSUME IInv, Busy, NEW w \in Writers PROVE Rank(w) \in 0 .. 9 * kMaxTxAttempts
    BY DEF RankBounded
  <2>1. /\ kMaxTxAttempts \in Nat /\ attempt[w] \in 0 .. kMaxTxAttempts
        /\ StepsLeft(pc[w]) \in 0 .. 9 /\ (pc[w] # "idle" => attempt[w] >= 1)
    BY RankIsNumber DEF IInv, Busy
  <2>2. QED
    BY <2>1 DEF Rank
<1>2. IInv /\ IInv' /\ [Next]_vars => [RankFalls]_vars
  <2> SUFFICES ASSUME IInv, IInv', [Next]_vars, NEW w \in Writers, pc[w] # "idle"
               PROVE  /\ Rank(w)' <= Rank(w)
                      /\ Work(w) \/ RegistFails(w) => Rank(w)' < Rank(w)
    BY DEF RankFalls
  <2>1. TypeOK /\ TypeOK' /\ Rank(w) \in Int /\ Rank(w)' \in Int
    <3>1. TypeOK /\ TypeOK'
      BY DEF IInv
    <3>2. kMaxTxAttempts \in Int /\ attempt[w] \in Int /\ \A s : StepsLeft(s) \in Int
      BY <3>1, RankIsNumber
    <3>3. attempt'[w] \in Int
      BY <3>1 DEF TypeOK
    <3>4. QED
      BY <3>1, <3>2, <3>3 DEF Rank
  <2>2. Work(w) \/ RegistFails(w) => Rank(w)' < Rank(w)
    BY <2>1, WorkAdvances, AdvancingLowersRank
  <2>3. Advances(w) => Rank(w)' < Rank(w)
    BY <2>1, AdvancingLowersRank
  <2>4. pc'[w] = pc[w] /\ attempt'[w] = attempt[w] => Rank(w)' = Rank(w)
    BY DEF Rank
  <2>5. QED
    BY <2>1, <2>2, <2>3, <2>4, StepAdvances
<1>3. QED
  BY <1>1, <1>2, BusyInvariance, PTL DEF Spec, TasksRunOut
-----------------------------------------------------------------------------
(* No purchase is forgotten.                                               *)

Queued(r, w) == \E j \in DOMAIN queue[w] : queue[w][j] = r
Run(r, w) == pc[w] # "idle" /\ cur[w] = r
Answered(r) == \E i \in DOMAIN replies : replies[i].req = r

(* It waits at a worker, is being run by one, or was answered. *)
NoneForgotten ==
    \A r \in DOMAIN req : req[r].kind = "purchase" =>
        Answered(r) \/ \E w \in Writers : Queued(r, w) \/ Run(r, w)

LEMMA StatementForgetsNone ==
    ASSUME IInv, NoneForgotten, NEW w \in Writers,
           UNCHANGED <<req, queue, cur, replies>>,
           NEW s, s # "idle", Goto(w, s) \/ pc' = pc
    PROVE  NoneForgotten'
<1>1. \A v \in Writers : pc[v] # "idle" => pc'[v] # "idle"
  BY DEF IInv, TypeOK, Goto
<1>2. QED
  BY <1>1 DEF NoneForgotten, Queued, Run, Answered

(* A task that ends was answered, or was no purchase. *)
LEMMA EndForgetsNone ==
    ASSUME IInv, NoneForgotten, NEW w \in Writers, EndTask(w), UNCHANGED <<req, queue>>,
           \/ \E a : a.req = cur[w] /\ replies' = Append(replies, a)
           \/ replies' = replies /\ ThePurchase(w).kind # "purchase"
    PROVE  NoneForgotten'
<1>1. \A v \in Writers : v # w => pc'[v] = pc[v] /\ cur'[v] = cur[v]
  BY DEF IInv, TypeOK, EndTask, Goto
<1>2. replies \in Seq([req : Nat, ok : BOOLEAN, gold : Int])
  BY DEF IInv, TypeOK
<1> DEFINE Told(r) == \E i \in DOMAIN replies' : replies'[i].req = r
<1>3. /\ \A r : Answered(r) => Told(r)
      /\ ThePurchase(w).kind = "purchase" => Told(cur[w])
  <2>1. CASE replies' = replies /\ ThePurchase(w).kind # "purchase"
    BY <2>1 DEF Answered
  <2>2. ASSUME NEW a, a.req = cur[w], replies' = Append(replies, a)
        PROVE  (\A r : Answered(r) => Told(r)) /\ Told(cur[w])
    <3>1. /\ DOMAIN replies' = DOMAIN replies \cup {Len(replies) + 1}
          /\ replies'[Len(replies) + 1] = a
          /\ \A i \in DOMAIN replies : replies'[i] = replies[i]
      BY ONLY <1>2, <2>2
    <3>2. QED
      BY <2>2, <3>1 DEF Answered
  <2>3. QED
    BY <2>1, <2>2
<1> HIDE DEF Told
<1>4. ASSUME NEW r \in DOMAIN req, req[r].kind = "purchase"
      PROVE  Told(r) \/ \E v \in Writers : Queued(r, v) \/ (pc'[v] # "idle" /\ cur'[v] = r)
  <2>1. CASE Answered(r)
    BY <1>3, <2>1
  <2>2. ASSUME NEW v \in Writers, Queued(r, v)
        PROVE  \E u \in Writers : Queued(r, u)
    BY <2>2
  <2>3. ASSUME NEW v \in Writers, Run(r, v)
        PROVE  Told(r) \/ \E u \in Writers : pc'[u] # "idle" /\ cur'[u] = r
    <3>1. CASE v = w
      BY <1>3, <1>4, <2>3, <3>1 DEF Run, ThePurchase
    <3>2. CASE v # w
      BY <1>1, <2>3, <3>2 DEF Run
    <3>3. QED
      BY <3>1, <3>2
  <2>4. QED
    BY <1>4, <2>1, <2>2, <2>3 DEF NoneForgotten
<1>5. QED
  BY <1>4 DEF NoneForgotten, Queued, Run, Answered, Told

LEMMA TakingForgetsNone ==
    ASSUME IInv, NoneForgotten, NEW w \in Writers, TakeTask(w) PROVE NoneForgotten'
<1>1. /\ pc[w] = "idle" /\ queue[w] # <<>> /\ queue[w] \in Seq(Nat)
      /\ pc'[w] # "idle" /\ cur'[w] = Head(queue[w]) /\ queue'[w] = Tail(queue[w])
      /\ \A v \in Writers : v # w =>
            pc'[v] = pc[v] /\ cur'[v] = cur[v] /\ queue'[v] = queue[v]
      /\ UNCHANGED <<req, replies>>
  BY DEF TakeTask, Goto, IInv, TypeOK
<1>2. ASSUME NEW r, Queued(r, w)
      PROVE  cur'[w] = r \/ \E j \in DOMAIN queue'[w] : queue'[w][j] = r
  <2> DEFINE q == queue[w]
  <2>1. PICK j \in DOMAIN q : q[j] = r
    BY <1>2 DEF Queued
  <2>2. q \in Seq(Nat) /\ q # <<>>
    BY <1>1
  <2> HIDE DEF q
  <2>3. j = 1 \/ (j - 1 \in DOMAIN Tail(q) /\ Tail(q)[j - 1] = q[j])
    BY <2>1, <2>2
  <2>4. j = 1 => Head(q) = r
    BY <2>1, <2>2
  <2>5. QED
    BY <1>1, <2>1, <2>3, <2>4 DEF q
<1>3. ASSUME NEW r, NEW v \in Writers, Queued(r, v) \/ Run(r, v)
      PROVE  (\E j \in DOMAIN queue'[v] : queue'[v][j] = r) \/ (pc'[v] # "idle" /\ cur'[v] = r)
  <2>1. CASE v = w
    BY <1>1, <1>2, <1>3, <2>1 DEF Run
  <2>2. CASE v # w
    BY <1>1, <1>3, <2>2 DEF Queued, Run
  <2>3. QED
    BY <2>1, <2>2
<1>4. QED
  BY <1>1, <1>3 DEF NoneForgotten, Queued, Run, Answered

LEMMA ArrivingForgetsNone ==
    ASSUME IInv, NoneForgotten, NEW r \in Request, NEW key \in Nat,
           req' = Append(req, r), PostWrite(key, Len(req) + 1), WorkerUnchanged
    PROVE  NoneForgotten'
<1> DEFINE k == key % WriterCount
           n == Len(req) + 1
<1>1. k \in Writers
  BY ConstantsAssumption DEF Writers
<1>2. /\ DOMAIN req' = DOMAIN req \cup {n} /\ \A m \in DOMAIN req : req'[m] = req[m]
  <2>1. req \in Seq(Request)
    BY DEF IInv, TypeOK
  <2>2. QED
    BY ONLY <2>1, req' = Append(req, r)
<1>3. /\ queue'[k] = Append(queue[k], n) /\ \A v \in Writers : v # k => queue'[v] = queue[v]
      /\ queue[k] \in Seq(Nat)
  BY <1>1 DEF PostWrite, IInv, TypeOK
<1>4. /\ \A j \in DOMAIN queue[k] : j \in DOMAIN queue'[k] /\ queue'[k][j] = queue[k][j]
      /\ \E j \in DOMAIN queue'[k] : queue'[k][j] = n
  <2> DEFINE q == queue[k]
             p == queue'[k]
  <2>1. q \in Seq(Nat) /\ p = Append(q, n)
    BY <1>3
  <2> HIDE DEF q, p, k, n
  <2>2. /\ \A j \in DOMAIN q : j \in DOMAIN p /\ p[j] = q[j]
        /\ Len(q) + 1 \in DOMAIN p /\ p[Len(q) + 1] = n
    BY <2>1
  <2>3. QED
    BY <2>2 DEF q, p
<1> HIDE DEF k, n
<1>5. \A m, v : v \in Writers /\ Queued(m, v) => \E j \in DOMAIN queue'[v] : queue'[v][j] = m
  BY <1>3, <1>4 DEF Queued
<1>6. UNCHANGED <<pc, cur, replies>>
  BY DEF WorkerUnchanged
<1>7. ASSUME NEW m \in DOMAIN req', req'[m].kind = "purchase"
      PROVE  Answered(m) \/ \E v \in Writers :
                (\E j \in DOMAIN queue'[v] : queue'[v][j] = m) \/ Run(m, v)
  <2>1. CASE m = n
    BY <1>1, <1>4, <2>1
  <2>2. CASE m # n
    BY <1>2, <1>5, <1>7, <2>2 DEF NoneForgotten
  <2>3. QED
    BY <2>1, <2>2
<1>8. QED
  BY <1>6, <1>7 DEF NoneForgotten, Queued, Run, Answered

LEMMA StepForgetsNone == IInv /\ NoneForgotten /\ [Next]_vars => NoneForgotten'
<1> SUFFICES ASSUME IInv, NoneForgotten, [Next]_vars PROVE NoneForgotten'
  OBVIOUS
<1>1. CASE (\E l \in ListIds : Expire(l)) \/ UNCHANGED vars
  <2>1. UNCHANGED <<req, queue, cur, replies, pc>>
    BY <1>1 DEF Expire, requestVars, vars
  <2>2. QED
    BY <2>1 DEF NoneForgotten, Queued, Run, Answered
<1>2. ASSUME NEW p \in Players, NEW l \in ListIds, NEW n \in Counts,
             Handle_REQ_PURCHASE_ITEM(p, l, n)
      PROVE  NoneForgotten'
  <2> DEFINE r == [kind |-> "purchase", player |-> p, list |-> l, count |-> n, price |-> 0]
  <2>1. r \in Request /\ l \in Nat
    BY ConstantsAssumption DEF Request, ListIds
  <2>2. req' = Append(req, r) /\ PostWrite(l, Len(req) + 1) /\ WorkerUnchanged
    BY <1>2 DEF Handle_REQ_PURCHASE_ITEM, PurchaseKey
  <2>3. QED
    BY <2>1, <2>2, ArrivingForgetsNone
<1>3. ASSUME NEW p \in Players, NEW n \in Counts, NEW price \in Prices,
             Handle_REQ_REGIST_ITEM(p, n, price)
      PROVE  NoneForgotten'
  <2> DEFINE r == [kind |-> "regist", player |-> p, list |-> 0, count |-> n, price |-> price]
  <2>1. r \in Request /\ p \in Nat
    BY ConstantsAssumption DEF Request
  <2>2. req' = Append(req, r) /\ PostWrite(p, Len(req) + 1) /\ WorkerUnchanged
    BY <1>3 DEF Handle_REQ_REGIST_ITEM
  <2>3. QED
    BY <2>1, <2>2, ArrivingForgetsNone
<1>4. ASSUME NEW w \in Writers,
             Begin(w) \/ SelectForUpdate(w) \/ ChargeGold(w) \/ TakeStock(w)
                \/ RecordTrade(w) \/ GiveReceipts(w)
      PROVE  NoneForgotten'
  <2>1. UNCHANGED <<req, queue, cur, replies>>
    BY <1>4 DEF Begin, SelectForUpdate, ChargeGold, TakeStock, RecordTrade, GiveReceipts,
                requestVars
  <2>2. PICK s \in {"rollback", "select", "charge", "take", "record", "receipts", "commit"} :
           Goto(w, s)
    BY <1>4 DEF Begin, SelectForUpdate, ChargeGold, TakeStock, RecordTrade, GiveReceipts, Throw
  <2>3. QED
    BY <2>1, <2>2, StatementForgetsNone
<1>5. ASSUME NEW w \in Writers,
             Commit(w) \/ Rollback(w) \/ DrawListId(w) \/ Regist(w) \/ DeadStatement(w)
                \/ ConnectionLost(w)
                \/ \E code \in {"deadlock", "lockwait", "other"} : StatementFails(w, code)
      PROVE  NoneForgotten'
  <2>1. UNCHANGED <<req, queue, cur, replies>>
    BY <1>5 DEF Commit, Rollback, DrawListId, Regist, DeadStatement, ConnectionLost,
                StatementFails, requestVars
  <2>2. PICK s \in {"rollback", "restore", "inserted", "answer"} : Goto(w, s) \/ pc' = pc
    BY <1>5 DEF Commit, Rollback, DrawListId, Regist, DeadStatement, ConnectionLost,
                StatementFails, Throw
  <2>3. QED
    BY <2>1, <2>2, StatementForgetsNone
<1>6. ASSUME NEW w \in Writers, RestoreAutoCommit(w) PROVE NoneForgotten'
  <2>1. CASE Retry(w)
    <3>1. PICK s : s = "begin" /\ UNCHANGED <<req, queue, cur, replies>> /\ Goto(w, s)
      BY <1>6, <2>1 DEF RestoreAutoCommit, requestVars
    <3>2. QED
      BY <3>1, StatementForgetsNone
  <2>2. CASE ~Retry(w)
    <3> DEFINE a == [req |-> cur[w], ok |-> ok[w], gold |-> total[w]]
    <3>1. /\ EndTask(w) /\ UNCHANGED <<req, queue>>
          /\ a.req = cur[w] /\ replies' = Append(replies, a)
      BY <1>6, <2>2 DEF RestoreAutoCommit, requestVars
    <3> HIDE DEF a
    <3>2. QED
      BY <3>1, EndForgetsNone
  <2>3. QED
    BY <2>1, <2>2
<1>7. ASSUME NEW w \in Writers, AnswerRegist(w) PROVE NoneForgotten'
  <2> DEFINE a == [req |-> cur[w], ok |-> TRUE, gold |-> 0]
  <2>1. /\ EndTask(w) /\ UNCHANGED <<req, queue>>
        /\ a.req = cur[w] /\ replies' = Append(replies, a)
    BY <1>7 DEF AnswerRegist, requestVars
  <2> HIDE DEF a
  <2>2. QED
    BY <2>1, EndForgetsNone
<1>8. ASSUME NEW w \in Writers, RegistFails(w) PROVE NoneForgotten'
  <2>1. EndTask(w) /\ UNCHANGED <<req, queue, replies>> /\ pc[w] \in RegistSteps
    BY <1>8 DEF RegistFails, requestVars, RegistSteps
  <2>2. ThePurchase(w).kind # "purchase"
    BY <2>1 DEF IInv, Tasks
  <2>3. QED
    BY <2>1, <2>2, EndForgetsNone
<1>9. ASSUME NEW w \in Writers, TakeTask(w) PROVE NoneForgotten'
  BY <1>9, TakingForgetsNone
<1>10. QED
  BY <1>1, <1>2, <1>3, <1>4, <1>5, <1>6, <1>7, <1>8, <1>9 DEF Next, Arrive, Work, Trouble

(* No purchase is forgotten: from its arrival it waits in a worker's queue *)
(* or is being run, until it is answered, whatever fails on the way.  With *)
(* PurchaseRetriesEnd this is what PurchasesAnswered needs besides the     *)
(* workers' fairness (Handle_REQ_PURCHASE_ITEM, AuctionPacketHandler.cpp:  *)
(* 73-87, and ProcessPurchaseItem, AuctionService.cpp:61-71).              *)
THEOREM PurchaseNeverForgotten == Spec => []NoneForgotten
<1>1. Init => NoneForgotten
  BY DEF Init, NoneForgotten
<1>2. QED
  BY <1>1, StepForgetsNone, Invariance, PTL DEF Spec
=============================================================================
