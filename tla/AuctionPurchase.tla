--------------------------- MODULE AuctionPurchase ---------------------------
(***************************************************************************)
(* The write side of the auction server: registrations and purchases run   *)
(* by the write workers of AuctionWorkerPool, one database statement per   *)
(* step, over an InnoDB-like store with row locks.  A transaction's writes *)
(* stay private to its worker until they are persisted.                    *)
(* Source: AuctionServer/AuctionService.cpp and                            *)
(* AuctionServer/Network/Handlers/AuctionPacketHandler.cpp.                *)
(***************************************************************************)
EXTENDS Integers, Sequences, FiniteSets, Functions

CONSTANTS
    WriterCount,      \* number of write workers
    Players,          \* account ids
    Characters,       \* character rows
    AccountOf,        \* the account a character belongs to
    InitGold,         \* gold of each character at the start
    Opening,          \* listings in the table at the start; ids are 1..Len
    MaxListings,      \* bound: listing ids that exist
    Counts, Prices,   \* quantities and unit prices a request may name; the
                      \* handlers and Regist check the sign of neither
    MaxRequests,      \* bound: requests that arrive
    kMaxTxAttempts    \* AuctionService.cpp:12

Writers  == 0 .. WriterCount - 1
ListIds  == 1 .. MaxListings
NoWriter == -1

(* A listing that was never registered. *)
Nothing == [seller |-> 0, price |-> 0, qty |-> 0]
Listing == [seller : Players, price : Int, qty : Int]
Request == [kind : {"purchase", "regist"}, player : Players,
            list : ListIds \cup {0}, count : Int, price : Int]

ASSUME ConstantsAssumption ==
    /\ WriterCount \in Nat \ {0}
    /\ Players \subseteq Nat \ {0}
    /\ AccountOf \in [Characters -> Players]
    /\ InitGold \in [Characters -> Nat]
    /\ MaxListings \in Nat
    /\ Opening \in Seq(Listing)
    /\ Len(Opening) <= MaxListings
    /\ Counts \subseteq Int /\ Prices \subseteq Int
    /\ MaxRequests \in Nat
    /\ kMaxTxAttempts \in Nat \ {0}

(* The rows of a table are finitely many. *)
ASSUME CharactersAssumption == IsFiniteSet(Characters)

VARIABLES
    \* Requests and the workers' queues.
    req,        \* the requests received, in order; a request is its index
    queue,      \* per worker: the tasks posted to it
    replies,    \* the replies given to the session, in order
    \* The committed tables.
    rows,       \* ids present in auction_listings
    expired,    \* ids whose expired_at has passed
    info,       \* seller, price and registered quantity of an id
    stock,      \* remaining_quantity, 0 where there is no row
    nextId,     \* the table's auto-increment counter
    gold,       \* character_base.gold
    trades,     \* rows of auction_transactions
    delivered,  \* quantity on buyers' auction_receipts, per source listing
    paid,       \* gold on sellers' auction_receipts, per source listing
    bought,     \* history: requests whose writes were persisted
    \* Row locks.
    listLock,   \* holder of the lock on an auction_listings row
    goldLock,   \* holder of the locks on an account's character_base rows
    \* Per worker: the connection, the control state and the local variables.
    up,         \* the connection is alive
    autocommit, \* the connection's autocommit mode
    pc, cur, attempt,
    total,      \* totalPrice
    seen,       \* remaining, as read by SELECT ... FOR UPDATE
    err,        \* the error code of the exception being handled
    ok,         \* result.success
    \* Per worker: the writes of the open transaction.
    charged,    \* characters whose gold it took
    took, logged, receipted

requestVars == <<req, queue>>
tableVars   == <<rows, stock, gold, trades, delivered, paid, bought>>
lockVars    == <<listLock, goldLock>>
localVars   == <<attempt, total, seen, err, ok>>
txVars      == <<charged, took, logged, receipted>>
vars == <<req, queue, replies, rows, expired, info, stock, nextId, gold, trades,
          delivered, paid, bought, listLock, goldLock, up, autocommit, pc, cur,
          attempt, total, seen, err, ok, charged, took, logged, receipted>>

TransactionSteps == {"begin", "select", "charge", "take", "record", "receipts",
                     "commit"}

ThePurchase(w) == req[cur[w]]
-----------------------------------------------------------------------------
Init ==
    /\ req = <<>> /\ replies = <<>>
    /\ queue = [w \in Writers |-> <<>>]
    /\ rows = DOMAIN Opening
    /\ expired = {}
    /\ info = [l \in ListIds |-> IF l \in DOMAIN Opening THEN Opening[l]
                                                         ELSE Nothing]
    /\ stock = [l \in ListIds |-> info[l].qty]
    /\ nextId = Len(Opening) + 1
    /\ gold = InitGold
    /\ trades = 0
    /\ delivered = [l \in ListIds |-> 0]
    /\ paid = [l \in ListIds |-> 0]
    /\ bought = {}
    /\ listLock = [l \in ListIds |-> NoWriter]
    /\ goldLock = [p \in Players |-> NoWriter]
    /\ up = [w \in Writers |-> TRUE]
    /\ autocommit = [w \in Writers |-> TRUE]
    /\ pc = [w \in Writers |-> "idle"]
    /\ cur = [w \in Writers |-> 0]
    /\ attempt = [w \in Writers |-> 0]
    /\ total = [w \in Writers |-> 0]
    /\ seen = [w \in Writers |-> 0]
    /\ err = [w \in Writers |-> "none"]
    /\ ok = [w \in Writers |-> FALSE]
    /\ charged = [w \in Writers |-> {}]
    /\ took = [w \in Writers |-> FALSE]
    /\ logged = [w \in Writers |-> FALSE]
    /\ receipted = [w \in Writers |-> FALSE]

-----------------------------------------------------------------------------
(* The packet handlers: a request becomes a task of the worker its key     *)
(* picks.  One that carries no info is dropped and changes nothing.        *)
PostWrite(key, r) ==
    queue' = [queue EXCEPT ![key % WriterCount] = Append(@, r)]

PurchaseKey_Buyer(p, l) == p
PurchaseKey(p, l) == l

WorkerUnchanged ==
    UNCHANGED <<replies, rows, expired, info, stock, nextId, gold, trades,
                delivered, paid, bought, listLock, goldLock, up, autocommit, pc,
                cur, attempt, total, seen, err, ok, charged, took, logged,
                receipted>>

Handle_REQ_PURCHASE_ITEM(p, l, n) ==
    /\ Len(req) < MaxRequests
    /\ req' = Append(req, [kind |-> "purchase", player |-> p, list |-> l,
                           count |-> n, price |-> 0])
    /\ PostWrite(PurchaseKey(p, l), Len(req) + 1)
    /\ WorkerUnchanged

Registrations == {r \in DOMAIN req : req[r].kind = "regist"}

Handle_REQ_REGIST_ITEM(p, n, price) ==
    /\ Len(req) < MaxRequests
    /\ Len(Opening) + Cardinality(Registrations) < MaxListings
    /\ req' = Append(req, [kind |-> "regist", player |-> p, list |-> 0,
                           count |-> n, price |-> price])
    /\ PostWrite(p, Len(req) + 1)
    /\ WorkerUnchanged

(* Time passes a listing's expired_at. *)
Expire(l) ==
    /\ l \in rows \ expired
    /\ expired' = expired \cup {l}
    /\ UNCHANGED <<requestVars, replies, tableVars, info, nextId, lockVars, up,
                   autocommit, pc, cur, localVars, txVars>>
-----------------------------------------------------------------------------
(* What the database does for a connection.                                *)

LockFree_Ignored(holder) == TRUE
LockFree(holder) == holder = NoWriter

ReleaseLocks_Forgotten(w) == UNCHANGED lockVars
ReleaseLocks(w) ==
    /\ listLock' = [l \in ListIds |->
                     IF listLock[l] = w THEN NoWriter ELSE listLock[l]]
    /\ goldLock' = [p \in Players |->
                     IF goldLock[p] = w THEN NoWriter ELSE goldLock[p]]

(* The end of a transaction: nothing is left to persist, no lock is held. *)
EndTransaction(w) ==
    /\ ReleaseLocks(w)
    /\ charged' = [charged EXCEPT ![w] = {}]
    /\ took' = [took EXCEPT ![w] = FALSE]
    /\ logged' = [logged EXCEPT ![w] = FALSE]
    /\ receipted' = [receipted EXCEPT ![w] = FALSE]

(* The writes of w's open transaction become part of the tables. *)
Persist(w) ==
    LET q == ThePurchase(w)
        l == q.list
    IN  /\ gold' = [c \in Characters |->
                     IF c \in charged[w] THEN gold[c] - total[w] ELSE gold[c]]
        /\ rows' = IF took[w] /\ seen[w] = q.count THEN rows \ {l} ELSE rows
        /\ stock' = IF took[w] THEN [stock EXCEPT ![l] = @ - q.count] ELSE stock
        /\ trades' = IF logged[w] THEN trades + 1 ELSE trades
        /\ delivered' = IF receipted[w]
                           THEN [delivered EXCEPT ![l] = @ + q.count]
                           ELSE delivered
        /\ paid' = IF receipted[w] THEN [paid EXCEPT ![l] = @ + total[w]]
                                   ELSE paid
        /\ bought' = IF charged[w] # {} THEN bought \cup {cur[w]} ELSE bought
-----------------------------------------------------------------------------
(* The purchase, statement by statement (TryPurchase and Purchase).        *)

Goto(w, label) == pc' = [pc EXCEPT ![w] = label]

(* An sql::SQLException leaves TryPurchase. *)
Throw(w, code) ==
    /\ Goto(w, "rollback")
    /\ err' = [err EXCEPT ![w] = code]

(* The task ends and its locals go out of scope. *)
EndTask(w) ==
    /\ Goto(w, "idle")
    /\ cur' = [cur EXCEPT ![w] = 0]
    /\ attempt' = [attempt EXCEPT ![w] = 0]
    /\ total' = [total EXCEPT ![w] = 0]
    /\ seen' = [seen EXCEPT ![w] = 0]
    /\ err' = [err EXCEPT ![w] = "none"]
    /\ ok' = [ok EXCEPT ![w] = FALSE]

(* The worker's io_context runs its next task. *)
TakeTask(w) ==
    /\ pc[w] = "idle" /\ queue[w] # <<>>
    /\ cur' = [cur EXCEPT ![w] = Head(queue[w])]
    /\ queue' = [queue EXCEPT ![w] = Tail(@)]
    /\ attempt' = [attempt EXCEPT ![w] = 1]
    /\ Goto(w, IF req[Head(queue[w])].kind = "purchase" THEN "begin"
                                                        ELSE "insert")
    /\ UNCHANGED <<req, replies, tableVars, expired, info, nextId, lockVars, up,
                   autocommit, total, seen, err, ok, txVars>>

Begin(w) ==
    /\ pc[w] = "begin" /\ up[w]
    /\ autocommit' = [autocommit EXCEPT ![w] = FALSE]
    /\ IF ThePurchase(w).count <= 0
          THEN Throw(w, "other")
          ELSE Goto(w, "select") /\ UNCHANGED err
    /\ UNCHANGED <<requestVars, replies, tableVars, expired, info, nextId,
                   lockVars, up, cur, attempt, total, seen, ok, txVars>>

(* SELECT ... FOR UPDATE waits for the row lock, then reads the row. *)
SelectForUpdate(w) ==
    LET q == ThePurchase(w)
        l == q.list
    IN  /\ pc[w] = "select" /\ up[w]
        /\ LockFree(listLock[l])
        /\ listLock' = IF l \in rows THEN [listLock EXCEPT ![l] = w]
                                     ELSE listLock
        /\ IF l \in rows \ expired
              THEN /\ seen' = [seen EXCEPT ![w] = stock[l]]
                   /\ total' = [total EXCEPT ![w] = info[l].price * q.count]
                   /\ IF info[l].seller = q.player
                         THEN Throw(w, "other")
                         ELSE Goto(w, "charge") /\ UNCHANGED err
              ELSE Throw(w, "other") /\ UNCHANGED <<seen, total>>
        /\ UNCHANGED <<requestVars, replies, tableVars, expired, info, nextId,
                       goldLock, up, autocommit, cur, attempt, ok, txVars>>

(* An UPDATE or DELETE that affected no row makes TryPurchase throw. *)
Affected_Unchecked(touched) == TRUE
Affected(touched) == touched # {}

(* UPDATE character_base SET gold = gold - ? WHERE account_id = ? AND gold >= ? *)
(* touches every character of the account that has the gold.               *)
Payers_Overdrawn(p, cost) == {c \in Characters : AccountOf[c] = p}
Payers(p, cost) == {c \in Characters : AccountOf[c] = p /\ gold[c] >= cost}

ChargeGold(w) ==
    LET p == ThePurchase(w).player
        payers == Payers(p, total[w])
    IN  /\ pc[w] = "charge" /\ up[w]
        /\ LockFree(goldLock[p])
        /\ goldLock' = [goldLock EXCEPT ![p] = w]
        /\ charged' = [charged EXCEPT ![w] = payers]
        /\ IF Affected(payers) THEN Goto(w, "take") /\ UNCHANGED err
                               ELSE Throw(w, "other")
        /\ UNCHANGED <<requestVars, replies, tableVars, expired, info, nextId,
                       listLock, up, autocommit, cur, attempt, total, seen, ok,
                       took, logged, receipted>>

(* The row is deleted when the whole rest is bought, else decremented. *)
TakeStock(w) ==
    LET q == ThePurchase(w)
        touched == {l \in rows : l = q.list /\ (seen[w] = q.count
                                                  \/ stock[l] > q.count)}
    IN  /\ pc[w] = "take" /\ up[w]
        /\ IF Affected(touched)
              THEN /\ took' = [took EXCEPT ![w] = TRUE]
                   /\ Goto(w, "record") /\ UNCHANGED err
              ELSE Throw(w, "other") /\ UNCHANGED took
        /\ UNCHANGED <<requestVars, replies, tableVars, expired, info, nextId,
                       lockVars, up, autocommit, cur, attempt, total, seen, ok,
                       charged, logged, receipted>>

(* INSERT INTO auction_transactions *)
RecordTrade(w) ==
    /\ pc[w] = "record" /\ up[w]
    /\ logged' = [logged EXCEPT ![w] = TRUE]
    /\ Goto(w, "receipts")
    /\ UNCHANGED <<requestVars, replies, tableVars, expired, info, nextId,
                   lockVars, up, autocommit, cur, localVars, charged, took,
                   receipted>>

(* INSERT INTO auction_receipts: the buyer's and the seller's row together. *)
GiveReceipts(w) ==
    /\ pc[w] = "receipts" /\ up[w]
    /\ receipted' = [receipted EXCEPT ![w] = TRUE]
    /\ Goto(w, "commit")
    /\ UNCHANGED <<requestVars, replies, tableVars, expired, info, nextId,
                   lockVars, up, autocommit, cur, localVars, charged, took,
                   logged>>

Commit(w) ==
    /\ pc[w] = "commit" /\ up[w]
    /\ Persist(w) /\ EndTransaction(w)
    /\ ok' = [ok EXCEPT ![w] = TRUE]
    /\ err' = [err EXCEPT ![w] = "none"]
    /\ Goto(w, "restore")
    /\ UNCHANGED <<requestVars, replies, expired, info, nextId, up, autocommit,
                   cur, attempt, total, seen>>

(* The catch clause of Purchase: SafeRollback, and result.success = false. *)
Rollback_Skipped(w) ==
    /\ pc[w] = "rollback"
    /\ ok' = [ok EXCEPT ![w] = FALSE]
    /\ Goto(w, "restore")
    /\ UNCHANGED <<requestVars, replies, tableVars, expired, info, nextId, up,
                   autocommit, cur, attempt, total, seen, err, lockVars, txVars>>

Rollback(w) ==
    /\ pc[w] = "rollback"
    /\ EndTransaction(w)
    /\ ok' = [ok EXCEPT ![w] = FALSE]
    /\ Goto(w, "restore")
    /\ UNCHANGED <<requestVars, replies, tableVars, expired, info, nextId, up,
                   autocommit, cur, attempt, total, seen, err>>

Retry_Always(w) == attempt[w] < kMaxTxAttempts
Retry(w) == err[w] \in {"deadlock", "lockwait"} /\ attempt[w] < kMaxTxAttempts

Restored_Never(w) == FALSE
Restored(w) == up[w]

(* SafeRestoreAutoCommit, then the next attempt or the reply.  Turning     *)
(* autocommit on persists whatever a transaction left open.                *)
RestoreAutoCommit(w) ==
    /\ pc[w] = "restore"
    /\ autocommit' = [autocommit EXCEPT ![w] = Restored(w)]
    /\ Persist(w) /\ EndTransaction(w)
    /\ IF Retry(w)
          THEN /\ attempt' = [attempt EXCEPT ![w] = @ + 1]
               /\ total' = [total EXCEPT ![w] = 0]
               /\ Goto(w, "begin")
               /\ UNCHANGED <<replies, cur, seen, err, ok>>
          ELSE /\ replies' = Append(replies, [req |-> cur[w], ok |-> ok[w],
                                              gold |-> total[w]])
               /\ EndTask(w)
    /\ UNCHANGED <<requestVars, expired, info, nextId, up>>
-----------------------------------------------------------------------------
(* The registration: one INSERT under autocommit.  Its id is drawn when    *)
(* the statement runs and the row is visible when it commits.              *)

DrawListId(w) ==
    /\ pc[w] = "insert" /\ up[w]
    /\ nextId \in ListIds
    /\ seen' = [seen EXCEPT ![w] = nextId]
    /\ nextId' = nextId + 1
    /\ Goto(w, "inserted")
    /\ UNCHANGED <<requestVars, replies, tableVars, expired, info, lockVars, up,
                   autocommit, cur, attempt, total, err, ok, txVars>>

Regist(w) ==
    LET q == ThePurchase(w)
        l == seen[w]
    IN  /\ pc[w] = "inserted" /\ up[w]
        /\ IF autocommit[w]
              THEN /\ rows' = rows \cup {l}
                   /\ info' = [info EXCEPT ![l] = [seller |-> q.player,
                                                   price  |-> q.price,
                                                   qty    |-> q.count]]
                   /\ stock' = [stock EXCEPT ![l] = q.count]
                   /\ bought' = bought \cup {cur[w]}
              ELSE UNCHANGED <<rows, info, stock, bought>>
        /\ Goto(w, "answer")
        /\ UNCHANGED <<requestVars, replies, expired, nextId, gold, trades,
                       delivered, paid, lockVars, up, autocommit, cur,
                       localVars, txVars>>

AnswerRegist(w) ==
    /\ pc[w] = "answer"
    /\ replies' = Append(replies, [req |-> cur[w], ok |-> TRUE, gold |-> 0])
    /\ EndTask(w)
    /\ UNCHANGED <<requestVars, tableVars, expired, info, nextId, lockVars, up,
                   autocommit, txVars>>

(* Were the exception not caught by the pool, the thread would end. *)
RegistFails_Uncaught(w) ==
    /\ pc[w] \in {"insert", "inserted"}
    /\ Goto(w, "ended")
    /\ UNCHANGED <<requestVars, replies, tableVars, expired, info, nextId,
                   lockVars, up, autocommit, cur, localVars, txVars>>

(* The INSERT fails: nobody between Regist and the pool catches it, the    *)
(* pool logs it and the task ends without a reply.                         *)
RegistFails(w) ==
    /\ pc[w] \in {"insert", "inserted"}
    /\ EndTask(w)
    /\ UNCHANGED <<requestVars, replies, tableVars, expired, info, nextId,
                   lockVars, up, autocommit, txVars>>
-----------------------------------------------------------------------------
(* Failures of the database.                                               *)

(* A statement of a transaction throws.  A deadlock victim is rolled back  *)
(* by the server, a lock wait timeout leaves the transaction open.         *)
StatementFails(w, code) ==
    /\ pc[w] \in TransactionSteps /\ up[w]
    /\ pc[w] \in {"begin", "commit"} => code = "other"
    /\ Throw(w, code)
    /\ IF code = "deadlock" THEN EndTransaction(w)
                            ELSE UNCHANGED <<lockVars, txVars>>
    /\ UNCHANGED <<requestVars, replies, tableVars, expired, info, nextId, up,
                   autocommit, cur, attempt, total, seen, ok>>

(* The connection dies and the server drops its transaction; a COMMIT      *)
(* already sent may have been carried out.                                 *)
ConnectionLost(w) ==
    /\ up[w]
    /\ up' = [up EXCEPT ![w] = FALSE]
    /\ EndTransaction(w)
    /\ \/ UNCHANGED tableVars
       \/ pc[w] = "commit" /\ Persist(w)
    /\ UNCHANGED <<requestVars, replies, expired, info, nextId, autocommit, pc,
                   cur, localVars>>

(* Every later call on the dead connection throws. *)
DeadStatement(w) ==
    /\ pc[w] \in TransactionSteps /\ ~up[w]
    /\ Throw(w, "other")
    /\ UNCHANGED <<requestVars, replies, tableVars, expired, info, nextId,
                   lockVars, up, autocommit, cur, attempt, total, seen, ok,
                   txVars>>
-----------------------------------------------------------------------------
Arrive ==
    \/ \E p \in Players, l \in ListIds, n \in Counts :
          Handle_REQ_PURCHASE_ITEM(p, l, n)
    \/ \E p \in Players, n \in Counts, price \in Prices :
          Handle_REQ_REGIST_ITEM(p, n, price)

(* What worker w does by itself when the database answers it. *)
Work(w) ==
    \/ TakeTask(w) \/ Begin(w) \/ SelectForUpdate(w) \/ ChargeGold(w)
    \/ TakeStock(w) \/ RecordTrade(w) \/ GiveReceipts(w) \/ Commit(w)
    \/ Rollback(w) \/ RestoreAutoCommit(w)
    \/ DrawListId(w) \/ Regist(w) \/ AnswerRegist(w)
    \/ DeadStatement(w)

Trouble(w) ==
    \/ \E code \in {"deadlock", "lockwait", "other"} : StatementFails(w, code)
    \/ RegistFails(w)
    \/ ConnectionLost(w)

Next ==
    \/ Arrive
    \/ \E l \in ListIds : Expire(l)
    \/ \E w \in Writers : Work(w) \/ Trouble(w)

Spec == Init /\ [][Next]_vars

(* The thread of each worker runs, the database answers, and a call on a   *)
(* dead connection throws.                                                 *)
Fairness ==
    \A w \in Writers : WF_vars(Work(w) \/ (~up[w] /\ RegistFails(w)))
FairSpec == Spec /\ Fairness
-----------------------------------------------------------------------------
(* Properties *)

Steps == TransactionSteps \cup {"idle", "rollback", "restore", "insert",
                               "inserted", "answer"}

TypeOK ==
    /\ req \in Seq(Request)
    /\ queue \in [Writers -> Seq(Nat)]
    /\ replies \in Seq([req : Nat, ok : BOOLEAN, gold : Int])
    /\ rows \subseteq ListIds /\ expired \subseteq ListIds
    /\ info \in [ListIds -> Listing \cup {Nothing}]
    /\ stock \in [ListIds -> Int]
    /\ nextId \in Nat \ {0}
    /\ gold \in [Characters -> Nat]
    /\ trades \in Nat
    /\ delivered \in [ListIds -> Nat] /\ paid \in [ListIds -> Int]
    /\ bought \subseteq Nat
    /\ listLock \in [ListIds -> Writers \cup {NoWriter}]
    /\ goldLock \in [Players -> Writers \cup {NoWriter}]
    /\ up \in [Writers -> BOOLEAN] /\ autocommit \in [Writers -> BOOLEAN]
    /\ pc \in [Writers -> Steps]
    /\ cur \in [Writers -> Nat] /\ attempt \in [Writers -> 0 .. kMaxTxAttempts]
    /\ total \in [Writers -> Int] /\ seen \in [Writers -> Int]
    /\ err \in [Writers -> {"none", "deadlock", "lockwait", "other"}]
    /\ ok \in [Writers -> BOOLEAN]
    /\ charged \in [Writers -> SUBSET Characters]
    /\ took \in [Writers -> BOOLEAN]
    /\ logged \in [Writers -> BOOLEAN] /\ receipted \in [Writers -> BOOLEAN]

(* What a transaction read stays true until it ends: the listing it locked *)
(* is still there with the quantity it saw, and every character it charged *)
(* still has the gold (TryPurchase decides on these reads, 191-219).       *)
ReadsStayTrue ==
    \A w \in Writers :
        /\ pc[w] \in {"charge", "take", "record", "receipts", "commit"} /\ up[w]
              => /\ ThePurchase(w).list \in rows
                 /\ seen[w] = stock[ThePurchase(w).list]
        /\ \A c \in charged[w] : gold[c] >= total[w]

(* Nothing is lost or sold twice: what is left of a listing and what the   *)
(* buyers' receipts hold add up to what was registered, no more is sold    *)
(* than that, and the seller's receipts hold exactly the price of what was *)
(* sold.                                                                   *)
StockConserved ==
    \A l \in ListIds :
        /\ stock[l] + delivered[l] = info[l].qty
        /\ delivered[l] > 0 => stock[l] >= 0
        /\ paid[l] = info[l].price * delivered[l]

(* A sale never creates gold, what the sellers' receipts hold was taken    *)
(* from characters, as long as nothing was sold from a listing with a      *)
(* negative price.  Regist (AuctionService.cpp:117-126) accepts such a     *)
(* price, `gold >= ?` (206) then holds of every character of the buyer,    *)
(* and each of them is credited.                                           *)
GoldNeverCreated ==
    (\A l \in ListIds : delivered[l] > 0 => info[l].price >= 0)
        => SumFunction(gold) + SumFunction(paid) <= SumFunction(InitGold)

(* A purchase is answered with success only if its transaction was         *)
(* persisted, and the gold it reports is the price of what was bought.     *)
SuccessIsReal ==
    \A i \in DOMAIN replies :
        LET q == req[replies[i].req]
        IN  replies[i].ok => /\ replies[i].req \in bought
                             /\ q.kind = "purchase" =>
                                   replies[i].gold = info[q.list].price * q.count

(* A purchase answered with failure changed nothing, unless its worker's   *)
(* connection died (then a COMMIT may have been carried out unheard).      *)
FailureIsHarmless ==
    \A i \in DOMAIN replies :
        ~replies[i].ok /\ replies[i].req \in bought =>
            ~up[req[replies[i].req].list % WriterCount]

(* Requests for one listing are answered in the order they arrived         *)
(* (AuctionPacketHandler.cpp:79).                                          *)
SameListingInOrder ==
    \A i, j \in DOMAIN replies :
        LET r == replies[i].req  s == replies[j].req
        IN  i < j /\ req[r].kind = "purchase" /\ req[s].kind = "purchase"
              /\ req[r].list = req[s].list => r < s

(* A worker holds row locks only inside a transaction that can still       *)
(* persist, so the locks of an abandoned one are never left behind; and    *)
(* the lock on a buyer's gold is the last it takes, so whoever waits for   *)
(* that lock waits for a worker that waits for none.                       *)
NoLockLeft ==
    \A w \in Writers :
        /\ (\E l \in ListIds : listLock[l] = w)
              => up[w] /\ pc[w] \in {"charge", "take", "record", "receipts",
                                     "commit", "rollback"}
        /\ (\E p \in Players : goldLock[p] = w)
              => up[w] /\ pc[w] \in {"take", "record", "receipts", "commit",
                                     "rollback"}

(* The statement-level purchase implements the atomic market. *)
Market == INSTANCE AuctionMarket WITH
    asked   <- req,
    done    <- bought,
    answers <- {[req |-> replies[i].req, ok |-> replies[i].ok] :
                  i \in DOMAIN replies}
MarketSpec == Market!Spec

(* Every purchase is answered, whatever the database does: retries end,    *)
(* locks are released, a dead connection fails fast.                       *)
PurchasesAnswered ==
    \A r \in 1 .. MaxRequests :
        (r \in DOMAIN req /\ req[r].kind = "purchase")
            ~> (\E i \in DOMAIN replies : replies[i].req = r)

(* Every task queued is run and ended, a registration whose exception is   *)
(* only logged included: no failure leaves a worker stuck or its queue     *)
(* unserved (AuctionWorkerPool::Post, AuctionWorkerPool.cpp:97-121).       *)
TasksEnd ==
    \A w \in Writers :
        (queue[w] # <<>>) ~> (queue[w] = <<>> /\ pc[w] = "idle")

(* A purchase moves gold, never destroys it: the gold leaving characters   *)
(* in a step is the gold the seller's receipt gains (TryPurchase's         *)
(* "deduct the gold", AuctionService.cpp:205, and the receipt, :229).      *)
GoldMoves ==
    [][SumFunction(gold) - SumFunction(gold')
         = SumFunction(paid') - SumFunction(paid)]_vars
=============================================================================
