----------------------------- MODULE LobbyCharactersProofs -------------------------
(***************************************************************************)
(* Theorems about LobbyCharacters: for any number of accounts, characters  *)
(* and connections a character is whole, an answer is true, nobody touches *)
(* another account's characters and no request inherits a transaction,     *)
(* whatever throws, dies or restarts.                                      *)
(***************************************************************************)
EXTENDS LobbyCharacters, TLAPS

Writing == {"begin", "execute", "commit", "rollback"}
Busy    == Writing \cup {"query", "restore", "reply"}

(* The pool and the connection of the handler are all connections, each    *)
(* once, until an exception ends the process.                              *)
PoolKept ==
    /\ pc = "idle" => Len(pool) = PoolSize
    /\ pc \in Busy => Len(pool) = PoolSize - 1 /\ conn \in Conns
    /\ pc \notin Busy => conn = 0
    /\ \A i, j \in DOMAIN pool : pool[i] = pool[j] => i = j
    /\ \A i \in DOMAIN pool : pool[i] # conn

(* Autocommit is off exactly in the middle of a transaction. *)
Modes ==
    /\ PooledConnsClean
    /\ pc \in {"query", "begin", "reply"} => autocommit[conn]
    /\ pc \in {"execute", "commit"} => ~autocommit[conn]

(* The request a handler works on. *)
Handled ==
    /\ pc \in Busy => cur.kind \in {"create", "delete", "query"}
    /\ pc \in Writing \cup {"restore"} => cur.kind # "query"
    /\ pc = "query" => cur.kind = "query"
    /\ cur.kind \in {"create", "delete"} => cur.id \in Ids /\ cur.account \in Accounts
    /\ pc \in Writing => ~result
    /\ pc = "begin" => stmt = 1
    /\ pc = "execute" => stmt <= Len(Script)
    /\ pc \in {"begin", "execute"} /\ cur.kind = "create" /\ stmt = 1 =>
          nextId = cur.id

(* The statement of the script that writes table t. *)
Place(t) ==
    IF cur.kind = "create"
       THEN CASE t = "base" -> 1 [] t = "combat" -> 2 [] t = "skin" -> 3 [] OTHER -> 9
       ELSE CASE t = "combat" -> 1 [] t = "skin" -> 2 [] t = "inventory" -> 3
              [] OTHER -> 4

(* What the whole script makes of table t. *)
Effect(t) ==
    IF cur.kind = "create"
       THEN IF t = "inventory" THEN rows[t] ELSE rows[t] \cup {cur.id}
    ELSE IF t = "base" /\ owner[cur.id] # cur.account THEN rows[t]
    ELSE rows[t] \ {cur.id}

(* The open transaction has done the statements before stmt, and to commit *)
(* all of them; outside it sees what is committed.                         *)
Transaction ==
    /\ CharactersWhole
    /\ pc \notin {"execute", "commit", "rollback"} => work = rows
    /\ pc \in Writing /\ alive[conn] => rows = start
    /\ pc = "execute" /\ alive[conn] =>
          \A t \in Tables : work[t] = IF Place(t) < stmt THEN Effect(t) ELSE rows[t]
    /\ pc = "commit" /\ alive[conn] =>
          /\ \A t \in Tables : work[t] = Effect(t)
          /\ cur.kind = "delete" => owner[cur.id] = cur.account

(* The verdict the handler is about to answer. *)
Verdict ==
    pc \in {"restore", "reply"} /\ cur.kind # "query" =>
        IF result
           THEN \A t \in {"base", "combat", "skin"} :
                   rows[t] = IF cur.kind = "create" THEN start[t] \cup {cur.id}
                                                    ELSE start[t] \ {cur.id}
           ELSE rows = start

IInv == TypeOK /\ PoolKept /\ Modes /\ Handled /\ Transaction /\ Verdict

LEMMA InitInv == Init => IInv
<1> SUFFICES ASSUME Init PROVE IInv
  OBVIOUS
<1> USE LobbyAssumption DEF Init
<1>1. /\ pool \in Seq(Conns) /\ Len(pool) = PoolSize /\ DOMAIN pool = Conns
      /\ \A i \in Conns : pool[i] = i
  <2>1. pool = [c \in 1 .. PoolSize |-> c] /\ PoolSize \in Nat
    BY DEF Conns
  <2>2. QED
    BY <2>1 DEF Conns
<1>2. TypeOK
  <2>1. /\ rows \in [Tables -> SUBSET Ids] /\ work \in [Tables -> SUBSET Ids]
        /\ start \in [Tables -> SUBSET Ids]
        /\ owner \in [Ids -> Accounts \cup {Nobody}]
    OBVIOUS
  <2>2. nextId \in 1 .. MaxIds + 1 /\ stmt \in 1 .. 4
    OBVIOUS
  <2>3. cur \in [kind : {"none", "create", "delete", "query"},
                account : Accounts \cup {Nobody}, id : Ids \cup {NoId}]
    BY DEF NoRequest
  <2>4. alive \in [Conns -> BOOLEAN] /\ autocommit \in [Conns -> BOOLEAN]
    OBVIOUS
  <2>5. QED
    BY <1>1, <2>1, <2>2, <2>3, <2>4 DEF TypeOK
<1>3. PoolKept
  BY <1>1 DEF PoolKept, Busy, Writing, Conns
<1>4. Modes
  BY <1>1 DEF Modes, PooledConnsClean
<1>5. Handled
  BY DEF Handled, Busy, Writing, NoRequest
<1>6. Transaction
  BY DEF Transaction, CharactersWhole, Tables, Writing
<1>7. Verdict
  BY DEF Verdict
<1>8. QED
  BY <1>2, <1>3, <1>4, <1>5, <1>6, <1>7 DEF IInv

(* The connection at the front of the pool is taken from it. *)
LEMMA BorrowedFirst ==
    ASSUME NEW S, NEW s \in Seq(S), s # <<>>,
           \A i, j \in DOMAIN s : s[i] = s[j] => i = j
    PROVE  /\ Head(s) \in S /\ Tail(s) \in Seq(S)
           /\ Len(Tail(s)) = Len(s) - 1
           /\ \A i \in DOMAIN Tail(s) :
                 /\ i + 1 \in DOMAIN s /\ Tail(s)[i] = s[i + 1]
                 /\ Tail(s)[i] # Head(s)
           /\ \A i, j \in DOMAIN Tail(s) : Tail(s)[i] = Tail(s)[j] => i = j
<1>1. /\ Head(s) \in S /\ Tail(s) \in Seq(S) /\ Len(Tail(s)) = Len(s) - 1
      /\ Head(s) = s[1] /\ 1 \in DOMAIN s
  OBVIOUS
<1>2. \A i \in DOMAIN Tail(s) : i \in Nat /\ i > 0 /\ i + 1 \in DOMAIN s /\ Tail(s)[i] = s[i + 1]
  OBVIOUS
<1>3. \A i \in DOMAIN Tail(s) : Tail(s)[i] # Head(s)
  BY <1>1, <1>2
<1>4. \A i, j \in DOMAIN Tail(s) : Tail(s)[i] = Tail(s)[j] => i = j
  BY <1>2
<1>5. QED
  BY <1>1, <1>2, <1>3, <1>4

(* What is given back goes to the end of the pool. *)
LEMMA GivenBackLast ==
    ASSUME NEW S, NEW s \in Seq(S), NEW c \in S,
           \A i, j \in DOMAIN s : s[i] = s[j] => i = j,
           \A i \in DOMAIN s : s[i] # c
    PROVE  /\ Append(s, c) \in Seq(S) /\ Len(Append(s, c)) = Len(s) + 1
           /\ \A i \in DOMAIN Append(s, c) :
                 \/ i \in DOMAIN s /\ Append(s, c)[i] = s[i]
                 \/ i = Len(s) + 1 /\ Append(s, c)[i] = c
           /\ \A i, j \in DOMAIN Append(s, c) :
                 Append(s, c)[i] = Append(s, c)[j] => i = j
<1>1. /\ Append(s, c) \in Seq(S) /\ Len(Append(s, c)) = Len(s) + 1
      /\ \A i \in DOMAIN Append(s, c) :
            \/ i \in DOMAIN s /\ Append(s, c)[i] = s[i]
            \/ i = Len(s) + 1 /\ Append(s, c)[i] = c
  OBVIOUS
<1>2. QED
  BY <1>1

LEMMA ReceiveInv ==
    ASSUME IInv, NEW request \in [kind : {"create", "delete", "query"},
                                  account : Accounts, id : Ids \cup {NoId}],
           Receive(request),
           request.kind # "query" => request.id \in Ids,
           request.kind = "create" => request.id = nextId
    PROVE  IInv'
<1> USE LobbyAssumption DEF IInv
<1>1. /\ pc = "idle" /\ cur' = request /\ stmt' = 1 /\ result' = FALSE
      /\ conn' = Head(pool) /\ pool' = Tail(pool) /\ work' = rows /\ start' = rows
      /\ UNCHANGED <<rows, owner, nextId, alive, autocommit>>
      /\ pc' = IF request.kind = "query" THEN "query" ELSE "begin"
  BY DEF Receive
<1>2. /\ pool \in Seq(Conns) /\ Len(pool) = PoolSize
      /\ \A i, j \in DOMAIN pool : pool[i] = pool[j] => i = j
  BY <1>1 DEF TypeOK, PoolKept
<1>3. pool # <<>> /\ 1 \in DOMAIN pool /\ Head(pool) = pool[1]
  BY <1>2
<1>4. /\ conn' \in Conns /\ pool' \in Seq(Conns) /\ Len(pool') = PoolSize - 1
      /\ \A i \in DOMAIN pool' : i + 1 \in DOMAIN pool /\ pool'[i] = pool[i + 1]
                                  /\ pool'[i] # conn'
      /\ \A i, j \in DOMAIN pool' : pool'[i] = pool'[j] => i = j
  BY <1>1, <1>2, <1>3, BorrowedFirst
<1>5. TypeOK'
  <2>1. cur' \in [kind : {"none", "create", "delete", "query"},
                 account : Accounts \cup {Nobody}, id : Ids \cup {NoId}]
    BY <1>1
  <2>2. /\ work' \in [Tables -> SUBSET Ids] /\ start' \in [Tables -> SUBSET Ids]
        /\ stmt' \in 1 .. 4 /\ result' \in BOOLEAN
    <3>1. work' = rows /\ start' = rows /\ stmt' = 1 /\ result' = FALSE
      BY <1>1
    <3>2. rows \in [Tables -> SUBSET Ids]
      BY DEF TypeOK
    <3>3. work' \in [Tables -> SUBSET Ids] /\ start' \in [Tables -> SUBSET Ids]
      BY <3>1, <3>2
    <3>4. stmt' \in 1 .. 4
      BY <3>1
    <3>5. result' \in BOOLEAN
      BY <3>1
    <3>6. QED
      BY <3>3, <3>4, <3>5
  <2>3. /\ rows' = rows /\ owner' = owner /\ nextId' = nextId /\ alive' = alive
        /\ autocommit' = autocommit /\ conn' \in Conns /\ pool' \in Seq(Conns)
    BY <1>1, <1>4
  <2>4. pc' \in {"query", "begin"}
    BY <1>1
  <2>5. QED
    BY <2>1, <2>2, <2>3, <2>4 DEF TypeOK
<1>6. PoolKept'
  BY <1>1, <1>4 DEF PoolKept, Busy, Writing
<1>7. Modes'
  BY <1>1, <1>3, <1>4 DEF Modes, PooledConnsClean
<1>8. Handled'
  BY <1>1 DEF Handled, Busy, Writing
<1>9. Transaction'
  BY <1>1 DEF Transaction, CharactersWhole, Writing
<1>10. Verdict'
  BY <1>1 DEF Verdict
<1>11. QED
  BY <1>5, <1>6, <1>7, <1>8, <1>9, <1>10

LEMMA ArriveInv == ASSUME IInv, Arrive PROVE IInv'
<1>1. PICK a \in Accounts :
        \/ Handle_REQ_CREATE_CHARACTER(a)
        \/ \E id \in Ids : Handle_REQ_DELETE_CHARACTER(a, id)
        \/ Handle_Query(a)
  BY DEF Arrive
<1>2. CASE Handle_REQ_CREATE_CHARACTER(a)
  <2> DEFINE r == [kind |-> "create", account |-> a, id |-> nextId]
  <2>1. nextId \in Ids /\ Receive(r)
    BY <1>2 DEF Handle_REQ_CREATE_CHARACTER
  <2>2. /\ r \in [kind : {"create", "delete", "query"}, account : Accounts,
                  id : Ids \cup {NoId}]
        /\ r.kind = "create" /\ r.id = nextId
    BY <2>1
  <2> HIDE DEF r
  <2>3. QED
    BY <2>1, <2>2, ReceiveInv
<1>3. ASSUME NEW id \in Ids, Handle_REQ_DELETE_CHARACTER(a, id) PROVE IInv'
  <2> DEFINE r == [kind |-> "delete", account |-> a, id |-> id]
  <2>1. Receive(r)
    BY <1>3 DEF Handle_REQ_DELETE_CHARACTER
  <2>2. /\ r \in [kind : {"create", "delete", "query"}, account : Accounts,
                  id : Ids \cup {NoId}]
        /\ r.kind = "delete" /\ r.id \in Ids
    OBVIOUS
  <2> HIDE DEF r
  <2>3. QED
    BY <2>1, <2>2, ReceiveInv
<1>4. CASE Handle_Query(a)
  <2> DEFINE r == [kind |-> "query", account |-> a, id |-> NoId]
  <2>1. Receive(r)
    BY <1>4 DEF Handle_Query
  <2>2. /\ r \in [kind : {"create", "delete", "query"}, account : Accounts,
                  id : Ids \cup {NoId}]
        /\ r.kind = "query"
    OBVIOUS
  <2> HIDE DEF r
  <2>3. QED
    BY <2>1, <2>2, ReceiveInv
<1>5. QED
  BY <1>1, <1>2, <1>3, <1>4

LEMMA QueryInv == ASSUME IInv, Query PROVE IInv'
<1> USE DEF IInv
<1>1. /\ pc = "query" /\ pc' = "reply" /\ result' = TRUE
      /\ UNCHANGED <<rows, owner, nextId, pool, conn, alive, autocommit, work, stmt,
                     cur, start>>
  BY DEF Query, connVars
<1>2. TypeOK' /\ PoolKept' /\ Modes'
  BY <1>1 DEF TypeOK, PoolKept, Busy, Writing, Modes, PooledConnsClean
<1>4. Handled'
  BY <1>1 DEF Handled, Busy, Writing
<1>5. Transaction'
  BY <1>1 DEF Transaction, CharactersWhole, Writing
<1>6. QED
  BY <1>1, <1>2, <1>4, <1>5 DEF Verdict, Handled

LEMMA BeginInv == ASSUME IInv, BeginTransaction PROVE IInv'
<1> USE DEF IInv
<1>1. /\ pc = "begin" /\ pc' = "execute" /\ alive[conn]
      /\ autocommit' = [autocommit EXCEPT ![conn] = FALSE]
      /\ UNCHANGED <<rows, owner, nextId, pool, conn, alive, work, stmt, cur, result,
                     start>>
  BY DEF BeginTransaction, TransactionMode
<1>2. conn \in Conns /\ stmt = 1
  BY <1>1 DEF PoolKept, Handled, Busy, Writing
<1>3. TypeOK' /\ PoolKept'
  BY <1>1 DEF TypeOK, PoolKept, Busy, Writing
<1>4. Modes'
  BY <1>1, <1>2 DEF Modes, PooledConnsClean, PoolKept, TypeOK
<1>5. 1 <= Len(Script)
  BY DEF Script
<1>6. Script' = Script
  BY <1>1 DEF Script
<1>7. Handled'
  BY <1>1, <1>2, <1>5, <1>6 DEF Handled, Busy, Writing
<1>8. \A t \in Tables : ~(Place(t)' < stmt')
  BY <1>1, <1>2 DEF Place
<1>9. Transaction'
  BY <1>1, <1>8 DEF Transaction, CharactersWhole, Writing
<1>10. QED
  BY <1>1, <1>3, <1>4, <1>7, <1>9 DEF Verdict

(* A statement of the script leaves every table but its own alone. *)
LEMMA ScriptPlaces ==
    ASSUME TypeOK, cur.kind \in {"create", "delete"}, stmt <= Len(Script)
    PROVE  /\ Script[stmt] \in Tables
           /\ \A t \in Tables : Place(t) = stmt <=> t = Script[stmt]
           /\ stmt = Len(Script) /\ cur.kind = "create" =>
                 \A t \in Tables : Place(t) <= stmt <=> t # "inventory"
           /\ stmt = Len(Script) /\ cur.kind = "delete" =>
                 Script[stmt] = "base" /\ \A t \in Tables : Place(t) <= stmt
           /\ \A t \in Tables : Place(t) \in 1 .. 9
           /\ Len(Script) <= 4
           /\ cur.kind = "create" => (Script[stmt] = "base" <=> stmt = 1)
<1>1. stmt \in 1 .. 4
  BY DEF TypeOK
<1>2. CASE cur.kind = "create"
  <2>1. Script = <<"base", "combat", "skin">>
    BY <1>2 DEF Script
  <2>2. stmt = 1 \/ stmt = 2 \/ stmt = 3
    BY <1>1, <2>1
  <2>3. QED
    BY <1>2, <2>1, <2>2 DEF Place, Tables
<1>3. CASE cur.kind = "delete"
  <2>1. Script = <<"combat", "skin", "inventory", "base">>
    BY <1>3 DEF Script
  <2>2. stmt = 1 \/ stmt = 2 \/ stmt = 3 \/ stmt = 4
    BY <1>1, <2>1
  <2>3. QED
    BY <1>3, <2>1, <2>2 DEF Place, Tables
<1>4. QED
  BY <1>2, <1>3

LEMMA ExecuteInv == ASSUME IInv, Execute PROVE IInv'
<1> USE LobbyAssumption DEF IInv
<1> DEFINE t0 == Script[stmt]
           touched == Written(t0) # work[t0]
<1>1. /\ pc = "execute" /\ alive[conn] /\ conn \in Conns /\ ~autocommit[conn]
      /\ cur.kind \in {"create", "delete"} /\ stmt <= Len(Script)
      /\ cur.id \in Ids /\ cur.account \in Accounts /\ ~result
  BY DEF Execute, PoolKept, Modes, Handled, Busy, Writing
<1>2. /\ work' = [work EXCEPT ![t0] = Written(t0)] /\ rows' = rows
      /\ UNCHANGED <<pool, conn, alive, autocommit, cur, result, start>>
      /\ IF cur.kind = "create" /\ t0 = "base"
            THEN owner' = [owner EXCEPT ![cur.id] = cur.account] /\ nextId' = nextId + 1
            ELSE UNCHANGED <<owner, nextId>>
      /\ IF stmt < Len(Script)
            THEN stmt' = stmt + 1 /\ UNCHANGED pc
            ELSE /\ pc' = IF Succeeded(touched) THEN "commit" ELSE "rollback"
                 /\ UNCHANGED stmt
  BY <1>1 DEF Execute, connVars, More
<1>3. /\ t0 \in Tables /\ Len(Script) <= 4
      /\ \A t \in Tables : Place(t) = stmt <=> t = t0
      /\ \A t \in Tables : Place(t) \in 1 .. 9
      /\ cur.kind = "create" => (t0 = "base" <=> stmt = 1)
  BY <1>1, ScriptPlaces
<1>4. /\ stmt = Len(Script) /\ cur.kind = "create" =>
            \A t \in Tables : Place(t) <= stmt <=> t # "inventory"
      /\ stmt = Len(Script) /\ cur.kind = "delete" =>
            t0 = "base" /\ \A t \in Tables : Place(t) <= stmt
  BY <1>1, ScriptPlaces
<1>5. stmt \in 1 .. 4 /\ Len(Script) \in Nat
  BY DEF TypeOK, Script
<1>6. Script' = Script /\ \A t \in Tables : Place(t)' = Place(t)
  BY <1>2 DEF Script, Place
<1>7. pc' \in {"execute", "commit", "rollback"} /\ stmt' \in 1 .. 4
  BY <1>1, <1>2, <1>3, <1>5
<1>8. Written(t0) \subseteq Ids
  BY <1>1, <1>3 DEF Written, TypeOK
<1>9. /\ owner' \in [Ids -> Accounts \cup {Nobody}]
      /\ nextId' \in 1 .. MaxIds + 1
  <2>1. CASE cur.kind = "create" /\ t0 = "base"
    <3>1. nextId = cur.id /\ nextId \in 1 .. MaxIds
      BY <1>1, <1>3, <2>1 DEF Handled, Ids
    <3>2. owner' \in [Ids -> Accounts \cup {Nobody}]
      BY <1>1, <1>2, <2>1 DEF TypeOK
    <3>3. QED
      BY <1>2, <2>1, <3>1, <3>2
  <2>2. CASE ~(cur.kind = "create" /\ t0 = "base")
    BY <1>2, <2>2 DEF TypeOK
  <2>3. QED
    BY <2>1, <2>2
<1>10. work' \in [Tables -> SUBSET Ids]
  BY <1>2, <1>3, <1>8 DEF TypeOK
<1>11. TypeOK'
  BY <1>2, <1>7, <1>9, <1>10 DEF TypeOK
<1>12. PoolKept' /\ Modes'
  BY <1>1, <1>2, <1>7 DEF PoolKept, Modes, PooledConnsClean, Busy, Writing
<1>13. Handled'
  <2>1. pc' = "execute" => stmt' <= Len(Script') /\ stmt' # 1
    BY <1>2, <1>5, <1>6
  <2>2. QED
    BY <1>1, <1>2, <1>7, <2>1 DEF Handled, Busy, Writing
<1>14. \A t \in Tables : Effect(t)' = Effect(t)
  BY <1>1, <1>2 DEF Effect
<1>15. \A t \in Tables : work[t] = IF Place(t) < stmt THEN Effect(t) ELSE rows[t]
  BY <1>1 DEF Transaction
<1>16. Written(t0) = Effect(t0)
  <2>1. work[t0] = rows[t0]
    BY <1>3, <1>5, <1>15
  <2>2. cur.kind = "create" => t0 # "inventory"
    BY <1>1, <1>3 DEF Place
  <2>3. QED
    BY <1>1, <2>1, <2>2 DEF Written, Effect
<1>17. \A t \in Tables :
          work'[t] = IF Place(t) <= stmt THEN Effect(t) ELSE rows[t]
  <2> TAKE t \in Tables
  <2>1. CASE t = t0
    BY <1>2, <1>3, <1>5, <1>16, <2>1 DEF TypeOK
  <2>2. CASE t # t0
    <3>1. work'[t] = work[t]
      BY <1>2, <2>2 DEF TypeOK
    <3>2. Place(t) # stmt /\ Place(t) \in 1 .. 9
      BY <1>3, <2>2
    <3>3. Place(t) <= stmt <=> Place(t) < stmt
      BY <1>5, <3>2
    <3>4. QED
      BY <1>15, <3>1, <3>3
  <2>3. QED
    BY <2>1, <2>2
<1>18. rows' = start'
  BY <1>1, <1>2 DEF Transaction, Writing
<1>19. CASE pc' = "execute"
  <2>1. stmt' = stmt + 1
    BY <1>2, <1>19
  <2>2. \A t \in Tables : Place(t) <= stmt <=> Place(t) < stmt + 1
    BY <1>3, <1>5
  <2>3. \A t \in Tables :
          work'[t] = IF Place(t)' < stmt' THEN Effect(t)' ELSE rows'[t]
    BY <1>2, <1>6, <1>14, <1>17, <2>1, <2>2
  <2>4. Transaction'
    BY <1>2, <1>18, <1>19, <2>3 DEF Transaction, CharactersWhole
  <2>5. QED
    BY <1>11, <1>12, <1>13, <1>19, <2>4 DEF Verdict
<1>20. CASE pc' = "rollback"
  <2>1. Transaction'
    BY <1>2, <1>18, <1>20 DEF Transaction, CharactersWhole
  <2>2. QED
    BY <1>11, <1>12, <1>13, <1>20, <2>1 DEF Verdict
<1>21. CASE pc' = "commit"
  <2>1. stmt = Len(Script) /\ Succeeded(touched)
    BY <1>1, <1>2, <1>5, <1>21
  <2>2. \A t \in Tables : work'[t] = Effect(t)
    <3>1. CASE cur.kind = "create"
      BY <1>4, <1>17, <2>1, <3>1 DEF Effect
    <3>2. CASE cur.kind = "delete"
      BY <1>4, <1>17, <2>1, <3>2
    <3>3. QED
      BY <1>1, <3>1, <3>2
  <2>3. cur.kind = "delete" => owner[cur.id] = cur.account
    BY <1>4, <2>1 DEF Succeeded, Written
  <2>4. cur'.kind = "delete" => owner'[cur'.id] = cur'.account
    BY <1>2, <2>3
  <2>5. Transaction'
    BY <1>2, <1>14, <1>18, <1>21, <2>2, <2>4 DEF Transaction, CharactersWhole
  <2>6. QED
    BY <1>11, <1>12, <1>13, <1>21, <2>5 DEF Verdict
<1>22. QED
  BY <1>7, <1>19, <1>20, <1>21

LEMMA StatementFailsInv == ASSUME IInv, StatementFails PROVE IInv'
<1> USE DEF IInv
<1>1. /\ pc \in {"begin", "execute", "commit"} /\ pc' = "rollback"
      /\ UNCHANGED <<rows, owner, nextId, pool, conn, alive, autocommit, work, stmt,
                     cur, result, start>>
  BY DEF StatementFails, connVars
<1>2. TypeOK' /\ PoolKept' /\ Modes'
  BY <1>1 DEF TypeOK, PoolKept, Busy, Writing, Modes, PooledConnsClean
<1>3. Handled' /\ Transaction'
  BY <1>1 DEF Handled, Busy, Writing, Transaction, CharactersWhole
<1>4. QED
  BY <1>1, <1>2, <1>3 DEF Verdict

(* What a commit makes of the tables: every table gets the effect of the   *)
(* script, and a whole character stays whole.                              *)
LEMMA EffectIsWhole ==
    ASSUME TypeOK, CharactersWhole, cur.kind \in {"create", "delete"},
           cur.kind = "delete" => owner[cur.id] = cur.account
    PROVE  /\ Effect("combat") = Effect("base") /\ Effect("skin") = Effect("base")
           /\ \A t \in {"base", "combat", "skin"} :
                 Effect(t) = IF cur.kind = "create" THEN rows[t] \cup {cur.id}
                                                    ELSE rows[t] \ {cur.id}
           /\ \A t \in Tables, id \in Ids :
                 id \in rows[t] \ Effect(t) => owner[id] = cur.account
BY DEF CharactersWhole, Effect, Tables

LEMMA CommitInv ==
    ASSUME IInv, Commit
    PROVE  /\ IInv'
           /\ \A t \in Tables, id \in Ids :
                 id \in rows[t] \ rows'[t] => owner[id] = cur.account
<1> USE DEF IInv
<1>1. /\ pc = "commit" /\ pc' = "restore" /\ alive[conn]
      /\ rows' = work /\ result' = TRUE
      /\ UNCHANGED <<owner, nextId, pool, conn, alive, autocommit, work, stmt, cur,
                     start>>
  BY DEF Commit, connVars
<1>2. cur.kind \in {"create", "delete"}
  BY <1>1 DEF Handled, Busy, Writing
<1>3. /\ CharactersWhole /\ rows = start
      /\ \A t \in Tables : work[t] = Effect(t)
      /\ cur.kind = "delete" => owner[cur.id] = cur.account
  BY <1>1 DEF Transaction, Writing
<1>4. /\ Effect("combat") = Effect("base") /\ Effect("skin") = Effect("base")
      /\ \A t \in {"base", "combat", "skin"} :
            Effect(t) = IF cur.kind = "create" THEN rows[t] \cup {cur.id}
                                               ELSE rows[t] \ {cur.id}
      /\ \A t \in Tables, id \in Ids :
            id \in rows[t] \ Effect(t) => owner[id] = cur.account
  BY <1>2, <1>3, EffectIsWhole
<1>5. \A t \in Tables : rows'[t] = Effect(t)
  BY <1>1, <1>3
<1>6. TypeOK' /\ PoolKept' /\ Modes'
  BY <1>1 DEF TypeOK, PoolKept, Busy, Writing, Modes, PooledConnsClean
<1>7. Handled'
  BY <1>1 DEF Handled, Busy, Writing
<1>8. CharactersWhole'
  BY <1>4, <1>5 DEF CharactersWhole, Tables
<1>9. Transaction'
  BY <1>1, <1>8 DEF Transaction, Writing
<1>10. Verdict'
  <2>1. \A t \in {"base", "combat", "skin"} :
          rows'[t] = IF cur'.kind = "create" THEN start'[t] \cup {cur'.id}
                                             ELSE start'[t] \ {cur'.id}
    BY <1>1, <1>3, <1>4, <1>5 DEF Tables
  <2>2. QED
    BY <1>1, <2>1 DEF Verdict
<1>11. QED
  BY <1>4, <1>5, <1>6, <1>7, <1>9, <1>10

LEMMA RollbackInv == ASSUME IInv, Rollback PROVE IInv'
<1> USE DEF IInv
<1>1. /\ pc = "rollback" /\ pc' = "restore" /\ alive[conn] /\ work' = rows
      /\ UNCHANGED <<rows, owner, nextId, pool, conn, alive, autocommit, stmt, cur,
                     result, start>>
  BY DEF Rollback, RolledBack, connVars
<1>2. rows = start /\ CharactersWhole /\ ~result
  BY <1>1 DEF Transaction, Handled, Writing
<1>3. TypeOK' /\ PoolKept' /\ Modes'
  BY <1>1 DEF TypeOK, PoolKept, Busy, Writing, Modes, PooledConnsClean
<1>4. Handled'
  BY <1>1 DEF Handled, Busy, Writing
<1>5. Transaction'
  BY <1>1 DEF Transaction, CharactersWhole, Writing
<1>6. Verdict'
  BY <1>1, <1>2 DEF Verdict
<1>7. QED
  BY <1>3, <1>4, <1>5, <1>6

LEMMA RestoreInv == ASSUME IInv, RestoreAutoCommit PROVE IInv' /\ rows' = rows
<1> USE DEF IInv
<1>1. /\ pc = "restore" /\ pc' = "reply" /\ rows' = work
      /\ autocommit' = [autocommit EXCEPT ![conn] = TRUE]
      /\ UNCHANGED <<owner, nextId, pool, conn, alive, work, stmt, cur, result, start>>
  BY DEF RestoreAutoCommit, Restored
<1>2. work = rows /\ conn \in Conns
  BY <1>1 DEF Transaction, PoolKept, Busy, Writing
<1>3. rows' = rows
  BY <1>1, <1>2
<1>4. TypeOK' /\ PoolKept'
  BY <1>1, <1>3 DEF TypeOK, PoolKept, Busy, Writing
<1>5. Modes'
  BY <1>1, <1>2 DEF Modes, PooledConnsClean, TypeOK
<1>6. Handled' /\ Transaction' /\ Verdict'
  BY <1>1, <1>2, <1>3
     DEF Handled, Busy, Writing, Transaction, CharactersWhole, Verdict
<1>7. QED
  BY <1>3, <1>4, <1>5, <1>6

LEMMA ReplyInv == ASSUME IInv, Reply PROVE IInv'
<1> USE LobbyAssumption DEF IInv
<1>1. /\ pc = "reply" /\ pc' = "idle" /\ cur' = NoRequest /\ conn' = 0
      /\ pool' = Append(pool, conn)
      /\ UNCHANGED <<rows, owner, nextId, alive, autocommit, work, stmt, result, start>>
  BY DEF Reply, GivenBack
<1>2. /\ conn \in Conns /\ pool \in Seq(Conns) /\ Len(pool) = PoolSize - 1
      /\ \A i, j \in DOMAIN pool : pool[i] = pool[j] => i = j
      /\ \A i \in DOMAIN pool : pool[i] # conn
  BY <1>1 DEF TypeOK, PoolKept, Busy
<1>3. /\ pool' \in Seq(Conns) /\ Len(pool') = Len(pool) + 1
      /\ \A i \in DOMAIN pool' :
            \/ i \in DOMAIN pool /\ pool'[i] = pool[i]
            \/ i = Len(pool) + 1 /\ pool'[i] = conn
      /\ \A i, j \in DOMAIN pool' : pool'[i] = pool'[j] => i = j
  BY <1>1, <1>2, GivenBackLast
<1>4. Len(pool') = PoolSize
  BY <1>2, <1>3
<1>5. \A i \in DOMAIN pool' : pool'[i] \in Conns /\ pool'[i] # 0
  BY <1>2, <1>3 DEF Conns
<1>6. cur' \in [kind : {"none", "create", "delete", "query"},
               account : Accounts \cup {Nobody}, id : Ids \cup {NoId}]
  BY <1>1 DEF NoRequest
<1>7. TypeOK'
  <2>1. /\ rows' = rows /\ owner' = owner /\ nextId' = nextId /\ alive' = alive
        /\ autocommit' = autocommit /\ work' = work /\ stmt' = stmt
        /\ result' = result /\ start' = start /\ conn' = 0 /\ pc' = "idle"
    BY <1>1
  <2>2. QED
    BY <1>3, <1>6, <2>1 DEF TypeOK
<1>8. PoolKept'
  BY <1>1, <1>3, <1>4, <1>5 DEF PoolKept, Busy, Writing
<1>9. Modes'
  <2>1. autocommit[conn]
    BY <1>1 DEF Modes
  <2>2. QED
    BY <1>1, <1>3, <2>1 DEF Modes, PooledConnsClean
<1>10. Handled'
  BY <1>1 DEF Handled, Busy, Writing, NoRequest
<1>11. Transaction'
  BY <1>1 DEF Transaction, CharactersWhole, Writing
<1>12. QED
  BY <1>1, <1>7, <1>8, <1>9, <1>10, <1>11 DEF Verdict

LEMMA ConnectionLostInv ==
    ASSUME IInv, NEW c \in Conns, ConnectionLost(c)
    PROVE  /\ IInv'
           /\ \A t \in Tables, id \in Ids :
                 id \in rows[t] \ rows'[t] => owner[id] = cur.account
<1> USE DEF IInv
<1>1. /\ pc # "down" /\ alive' = [alive EXCEPT ![c] = FALSE] /\ alive[c]
      /\ UNCHANGED <<owner, nextId, pool, conn, autocommit, pc, stmt, cur, result,
                     start>>
  BY DEF ConnectionLost
<1>2. alive' \in [Conns -> BOOLEAN] /\ ~alive'[c] /\ \A d \in Conns : alive'[d] => alive[d]
  BY <1>1 DEF TypeOK
<1>3. PoolKept' /\ Modes'
  BY <1>1 DEF PoolKept, Modes, PooledConnsClean
<1>4. Handled'
  <2>1. Script' = Script
    BY <1>1 DEF Script
  <2>2. QED
    BY <1>1, <2>1 DEF Handled
<1>5. CASE rows' = rows /\ work' = work /\ c # conn
  <2>1. TypeOK'
    BY <1>1, <1>2, <1>5 DEF TypeOK
  <2>2. pc \in Writing => alive'[conn] = alive[conn]
    BY <1>1, <1>5 DEF TypeOK, PoolKept, Busy
  <2>3. \A t \in Tables : Place(t)' = Place(t) /\ Effect(t)' = Effect(t)
    BY <1>1, <1>5 DEF Place, Effect
  <2>4. Transaction'
    BY <1>1, <1>5, <2>2, <2>3 DEF Transaction, CharactersWhole, Writing
  <2>5. Verdict'
    BY <1>1, <1>5 DEF Verdict
  <2>6. QED
    BY <1>3, <1>4, <1>5, <2>1, <2>4, <2>5
<1>6. CASE rows' = rows /\ work' = rows /\ c = conn
  <2>1. TypeOK'
    BY <1>1, <1>2, <1>6 DEF TypeOK
  <2>2. ~alive'[conn']
    BY <1>1, <1>2, <1>6
  <2>3. Transaction'
    BY <1>1, <1>6, <2>2 DEF Transaction, CharactersWhole
  <2>4. Verdict'
    BY <1>1, <1>6 DEF Verdict
  <2>5. QED
    BY <1>3, <1>4, <1>6, <2>1, <2>3, <2>4
<1>7. CASE pc = "commit" /\ rows' = work /\ work' = work /\ c = conn
  <2>1. TypeOK'
    BY <1>1, <1>2, <1>7 DEF TypeOK
  <2>2. ~alive'[conn']
    BY <1>1, <1>2, <1>7
  <2>3. cur.kind \in {"create", "delete"} /\ alive[conn]
    BY <1>1, <1>7 DEF Handled, Busy, Writing
  <2>4. /\ CharactersWhole /\ \A t \in Tables : work[t] = Effect(t)
        /\ cur.kind = "delete" => owner[cur.id] = cur.account
    BY <1>7, <2>3 DEF Transaction
  <2>5. /\ Effect("combat") = Effect("base") /\ Effect("skin") = Effect("base")
        /\ \A t \in Tables, id \in Ids :
              id \in rows[t] \ Effect(t) => owner[id] = cur.account
    BY <2>3, <2>4, EffectIsWhole
  <2>6. CharactersWhole'
    BY <1>7, <2>4, <2>5 DEF CharactersWhole, Tables
  <2>7. Transaction'
    BY <1>1, <1>7, <2>2, <2>6 DEF Transaction
  <2>8. Verdict'
    BY <1>1, <1>7 DEF Verdict
  <2>9. QED
    BY <1>3, <1>4, <1>7, <2>1, <2>4, <2>5, <2>7, <2>8
<1>8. QED
  BY <1>5, <1>6, <1>7 DEF ConnectionLost

LEMMA EscapeInv == ASSUME IInv, ExceptionEscapes PROVE IInv'
<1> USE LobbyAssumption DEF IInv
<1>1. /\ pc' = "down" /\ work' = rows /\ conn' = 0 /\ cur' = NoRequest
      /\ UNCHANGED <<rows, owner, nextId, pool, alive, autocommit, stmt, result, start>>
  BY DEF ExceptionEscapes
<1>2. cur' \in [kind : {"none", "create", "delete", "query"},
               account : Accounts \cup {Nobody}, id : Ids \cup {NoId}]
  BY <1>1 DEF NoRequest
<1>3. TypeOK'
  BY <1>1, <1>2 DEF TypeOK
<1>4. \A i \in DOMAIN pool : pool[i] # 0
  BY DEF TypeOK, Conns
<1>5. PoolKept' /\ Modes'
  BY <1>1, <1>4 DEF PoolKept, Modes, PooledConnsClean, Busy, Writing
<1>6. Handled' /\ Transaction' /\ Verdict'
  BY <1>1 DEF Handled, Busy, Writing, NoRequest, Transaction, CharactersWhole, Verdict
<1>7. QED
  BY <1>3, <1>5, <1>6

LEMMA RestartInv == ASSUME IInv, Restart PROVE IInv'
<1> USE LobbyAssumption DEF IInv
<1>1. /\ pc = "down" /\ pc' = "idle" /\ pool' = [c \in Conns |-> c]
      /\ alive' = [c \in Conns |-> TRUE] /\ autocommit' = [c \in Conns |-> TRUE]
      /\ UNCHANGED <<rows, owner, nextId, conn, work, stmt, cur, result, start>>
  BY DEF Restart
<1>2. /\ pool' \in Seq(Conns) /\ Len(pool') = PoolSize /\ DOMAIN pool' = Conns
      /\ \A i \in Conns : pool'[i] = i /\ i # 0
  <2>1. pool' = [c \in 1 .. PoolSize |-> c] /\ PoolSize \in Nat
    BY <1>1 DEF Conns
  <2>2. QED
    BY <2>1 DEF Conns
<1>3. conn = 0
  BY <1>1 DEF PoolKept, Busy, Writing
<1>4. TypeOK'
  BY <1>1, <1>2 DEF TypeOK
<1>5. PoolKept'
  BY <1>1, <1>2, <1>3 DEF PoolKept, Busy, Writing
<1>6. Modes'
  BY <1>1, <1>2 DEF Modes, PooledConnsClean
<1>7. Handled' /\ Transaction' /\ Verdict'
  BY <1>1 DEF Handled, Busy, Writing, Transaction, CharactersWhole, Verdict
<1>8. QED
  BY <1>4, <1>5, <1>6, <1>7

LEMMA StepInv == IInv /\ [Next]_vars => IInv'
<1> SUFFICES ASSUME IInv, [Next]_vars PROVE IInv'
  OBVIOUS
<1>1. CASE UNCHANGED vars
  <2>1. UNCHANGED <<rows, owner, nextId, pool, conn, alive, autocommit, work, pc, stmt,
                    cur, result, start>>
    BY <1>1 DEF vars
  <2>2. TypeOK' /\ PoolKept' /\ Modes' /\ Verdict'
    BY <2>1 DEF IInv, TypeOK, PoolKept, Modes, PooledConnsClean, Verdict
  <2>3. Script' = Script /\ \A t \in Tables : Place(t)' = Place(t) /\ Effect(t)' = Effect(t)
    BY <2>1 DEF Script, Place, Effect
  <2>4. Handled' /\ Transaction'
    BY <2>1, <2>3 DEF IInv, Handled, Transaction, CharactersWhole
  <2>5. QED
    BY <2>2, <2>4 DEF IInv
<1>2. CASE Handle
  BY <1>2, QueryInv, BeginInv, ExecuteInv, StatementFailsInv, CommitInv, RollbackInv,
     RestoreInv, ReplyInv DEF Handle
<1>3. CASE Arrive \/ ExceptionEscapes \/ Restart \/ \E c \in Conns : ConnectionLost(c)
  BY <1>3, ArriveInv, EscapeInv, RestartInv, ConnectionLostInv
<1>4. QED
  BY <1>1, <1>2, <1>3 DEF Next

LEMMA Invariance == Spec => []IInv
BY InitInv, StepInv, PTL DEF Spec

(* The tables, the pool and the handler's locals keep their types: no id   *)
(* beyond those drawn, no statement beyond the script.                     *)
THEOREM LobbyTypes == Spec => []TypeOK
<1>1. IInv => TypeOK
  BY DEF IInv
<1>2. QED
  BY <1>1, Invariance, PTL

(* For any number of accounts, characters and connections a character is   *)
(* in its three tables or in none, whatever throws, dies or restarts (the  *)
(* transactions of LobbyPacketHandler.cpp:130-163, 188-222).               *)
THEOREM LobbyCharactersWhole == Spec => []CharactersWhole
<1>1. IInv => CharactersWhole
  BY DEF IInv, Transaction
<1>2. QED
  BY <1>1, Invariance, PTL

(* What the handlers answer is what happened to the tables since they      *)
(* began (LobbyPacketHandler.cpp:146-170, 206-229).                        *)
THEOREM LobbyAnswersAreTrue == Spec => []AnswersAreTrue
<1>1. IInv => AnswersAreTrue
  BY DEF IInv, Verdict, AnswersAreTrue
<1>2. QED
  BY <1>1, Invariance, PTL

(* No request runs inside a transaction another one left open: every       *)
(* connection in the pool has autocommit on (LobbyPacketHandler.cpp:164).  *)
THEOREM LobbyPooledConnsClean == Spec => []PooledConnsClean
<1>1. IInv => PooledConnsClean
  BY DEF IInv, Modes
<1>2. QED
  BY <1>1, Invariance, PTL

(* Rows disappear only by a COMMIT or by a COMMIT the client did not hear  *)
(* of, and then they are the character of the requesting account           *)
(* (LobbyPacketHandler.cpp:192-212).                                       *)
THEOREM LobbyOthersUntouched == Spec => OthersUntouched
<1> DEFINE Kept == \A t \in Tables, id \in Ids :
                      id \in rows[t] \ rows'[t] => owner[id] = cur.account
<1>1. IInv /\ [Next]_vars => Kept
  <2> SUFFICES ASSUME IInv, [Next]_vars PROVE Kept
    OBVIOUS
  <2>1. CASE Commit \/ \E c \in Conns : ConnectionLost(c)
    BY <2>1, CommitInv, ConnectionLostInv
  <2>2. CASE Execute
    BY <2>2 DEF Execute, IInv, Modes
  <2>3. CASE RestoreAutoCommit
    BY <2>3, RestoreInv
  <2>4. CASE UNCHANGED rows
    BY <2>4
  <2>5. CASE Arrive
    BY <2>5 DEF Arrive, Handle_REQ_CREATE_CHARACTER, Handle_REQ_DELETE_CHARACTER,
                Handle_Query, Receive
  <2>6. QED
    BY <2>1, <2>2, <2>3, <2>4, <2>5
       DEF Next, Handle, Query, BeginTransaction, StatementFails, Rollback, Reply,
           ExceptionEscapes, Restart, vars
<1>2. IInv /\ [Next]_vars =>
          [\A t \in Tables, id \in Ids :
              id \in rows[t] \ rows'[t] => owner[id] = cur.account]_vars
  BY <1>1
<1>3. QED
  BY <1>2, Invariance, PTL DEF Spec, OthersUntouched
=============================================================================
