--------------------------- MODULE LobbyCharacters ---------------------------
(***************************************************************************)
(* Characters in the lobby: the game server's main thread serves one       *)
(* request at a time on a pooled connection, statement by statement.  An   *)
(* exception no handler catches ends run() and with it the process; a new  *)
(* process finds what the database kept.                                   *)
(* Source: GameServer/Network/Handlers/LobbyPacketHandler.cpp.             *)
(***************************************************************************)
EXTENDS Integers, Sequences, FiniteSets

CONSTANTS
    Accounts,
    MaxIds,      \* bound: character ids ever drawn
    PoolSize     \* connections of GConnectionPool


Ids    == 1 .. MaxIds
Conns  == 1 .. PoolSize
NoId   == 0
Tables == {"base", "combat", "skin", "inventory"}
Nobody == "nobody"
NoRequest == [kind |-> "none", account |-> Nobody, id |-> NoId]

ASSUME LobbyAssumption ==
    MaxIds \in Nat /\ PoolSize \in Nat \ {0} /\ Nobody \notin Accounts

VARIABLES
    rows,        \* the committed tables: ids of the characters in each
    owner,       \* account_id of every character ever inserted
    nextId,      \* auto-increment of character_base
    pool,        \* free connections, a FIFO
    conn,        \* the connection the handler borrowed, or 0
    alive, autocommit,   \* per connection
    work,        \* the tables as the open transaction sees them
    pc, stmt,    \* what the handler does; its next statement
    cur,         \* the request being handled
    result,      \* what the handler will answer
    start        \* history: the tables when the handler began

connVars == <<pool, conn, alive, autocommit>>
vars == <<rows, owner, nextId, pool, conn, alive, autocommit, work, pc, stmt, cur,
          result, start>>

Init ==
    /\ rows = [t \in Tables |-> {}] /\ work = rows /\ start = rows
    /\ owner = [id \in Ids |-> Nobody] /\ nextId = 1
    /\ pool = [c \in Conns |-> c] /\ conn = 0
    /\ alive = [c \in Conns |-> TRUE] /\ autocommit = [c \in Conns |-> TRUE]
    /\ pc = "idle" /\ stmt = 1 /\ cur = NoRequest /\ result = FALSE
-----------------------------------------------------------------------------
(* The tables each request's transaction writes, in order.                 *)
Script ==
    IF cur.kind = "create" THEN <<"base", "combat", "skin">>
                           ELSE <<"combat", "skin", "inventory", "base">>

(* A handler starts: it borrows the connection at the front of the pool.   *)
(* A create that does not hold exactly one character, and a delete that    *)
(* names no account or no character, are dropped before that: nothing is   *)
(* borrowed, written or answered.                                          *)
Receive(request) ==
    /\ pc = "idle"
    /\ cur' = request /\ stmt' = 1 /\ result' = FALSE
    /\ conn' = Head(pool) /\ pool' = Tail(pool)
    /\ work' = rows /\ start' = rows
    /\ pc' = IF request.kind = "query" THEN "query" ELSE "begin"
    /\ UNCHANGED <<rows, owner, nextId, alive, autocommit>>

Handle_REQ_CREATE_CHARACTER(a) ==
    nextId \in Ids /\ Receive([kind |-> "create", account |-> a, id |-> nextId])

Handle_REQ_DELETE_CHARACTER(a, id) ==
    Receive([kind |-> "delete", account |-> a, id |-> id])

(* CHECK_TOKENVALID, CHARACTER_LIST and CHECK_NICKNAME: one SELECT. *)
Handle_Query(a) == Receive([kind |-> "query", account |-> a, id |-> NoId])

Query ==
    /\ pc = "query" /\ alive[conn]
    /\ pc' = "reply" /\ result' = TRUE
    /\ UNCHANGED <<rows, owner, nextId, connVars, work, stmt, cur, start>>

TransactionMode_LeftOn == TRUE
TransactionMode == FALSE

BeginTransaction ==
    /\ pc = "begin" /\ alive[conn]
    /\ autocommit' = [autocommit EXCEPT ![conn] = TransactionMode]
    /\ pc' = "execute"
    /\ UNCHANGED <<rows, owner, nextId, pool, conn, alive, work, stmt, cur,
                   result, start>>

(* What a statement of the script does to table t.  Only the DELETE of     *)
(* character_base looks at the account.                                    *)
Written(t) ==
    IF cur.kind = "create" THEN work[t] \cup {cur.id}
    ELSE IF t = "base" /\ owner[cur.id] # cur.account THEN work[t]
    ELSE work[t] \ {cur.id}

Succeeded_Anyway(touched) == TRUE
Succeeded(touched) == cur.kind = "create" \/ touched

More == stmt < Len(Script)

(* One statement.  After the last the handler looks at the counts: a       *)
(* creation's are positive, a deletion needs a row of character_base.      *)
Execute ==
    LET t == Script[stmt]
        touched == Written(t) # work[t]
    IN  /\ pc = "execute" /\ alive[conn]
        /\ work' = [work EXCEPT ![t] = Written(t)]
        /\ rows' = IF autocommit[conn] THEN [rows EXCEPT ![t] = Written(t)]
                                       ELSE rows
        /\ IF cur.kind = "create" /\ t = "base"
              THEN /\ owner' = [owner EXCEPT ![cur.id] = cur.account]
                   /\ nextId' = nextId + 1
              ELSE UNCHANGED <<owner, nextId>>
        /\ IF More
              THEN stmt' = stmt + 1 /\ UNCHANGED pc
              ELSE /\ pc' = IF Succeeded(touched) THEN "commit" ELSE "rollback"
                   /\ UNCHANGED stmt
        /\ UNCHANGED <<connVars, cur, result, start>>

(* A statement, or the commit, throws sql::SQLException. *)
StatementFails ==
    /\ pc \in {"begin", "execute", "commit"}
    /\ pc' = "rollback"
    /\ UNCHANGED <<rows, owner, nextId, connVars, work, stmt, cur, result, start>>

Commit ==
    /\ pc = "commit" /\ alive[conn]
    /\ rows' = work /\ result' = TRUE
    /\ pc' = "restore"
    /\ UNCHANGED <<owner, nextId, connVars, work, stmt, cur, start>>

RolledBack_Skipped == work
RolledBack == rows

Rollback ==
    /\ pc = "rollback" /\ alive[conn]
    /\ work' = RolledBack
    /\ pc' = "restore"
    /\ UNCHANGED <<rows, owner, nextId, connVars, stmt, cur, result, start>>

Restored_Never == FALSE
Restored == TRUE

(* setAutoCommit(true) commits whatever is open. *)
RestoreAutoCommit ==
    /\ pc = "restore" /\ alive[conn]
    /\ rows' = work
    /\ autocommit' = [autocommit EXCEPT ![conn] = Restored]
    /\ pc' = "reply"
    /\ UNCHANGED <<owner, nextId, pool, conn, alive, work, stmt, cur, result, start>>

(* The connection goes back to the pool and the answer to the client. *)
GivenBack_AfterReset == 0
GivenBack == conn

Reply ==
    /\ pc = "reply"
    /\ pool' = Append(pool, GivenBack) /\ conn' = 0
    /\ pc' = "idle" /\ cur' = NoRequest
    /\ UNCHANGED <<rows, owner, nextId, alive, autocommit, work, stmt, result, start>>
-----------------------------------------------------------------------------
(* Failures.                                                               *)

(* A connection dies; the database drops its transaction, unless a COMMIT  *)
(* already sent was carried out.                                           *)
ConnectionLost(c) ==
    /\ pc # "down" /\ alive[c]
    /\ alive' = [alive EXCEPT ![c] = FALSE]
    /\ IF c = conn
          THEN \/ work' = rows /\ UNCHANGED rows
               \/ pc = "commit" /\ rows' = work /\ UNCHANGED work
          ELSE UNCHANGED <<rows, work>>
    /\ UNCHANGED <<owner, nextId, pool, conn, autocommit, pc, stmt, cur, result,
                   start>>

(* The SELECT of a query, the Rollback in a catch clause or the restoring  *)
(* SetAutoCommit throws: nothing catches it below main(), which returns.   *)
ExceptionEscapes ==
    /\ pc \in {"query", "rollback", "restore"}
    /\ pc' = "down"
    /\ work' = rows /\ conn' = 0 /\ cur' = NoRequest
    /\ UNCHANGED <<rows, owner, nextId, pool, alive, autocommit, stmt, result, start>>

Restart ==
    /\ pc = "down"
    /\ pc' = "idle"
    /\ pool' = [c \in Conns |-> c]
    /\ alive' = [c \in Conns |-> TRUE] /\ autocommit' = [c \in Conns |-> TRUE]
    /\ UNCHANGED <<rows, owner, nextId, conn, work, stmt, cur, result, start>>
-----------------------------------------------------------------------------
Arrive ==
    \E a \in Accounts :
        \/ Handle_REQ_CREATE_CHARACTER(a)
        \/ \E id \in Ids : Handle_REQ_DELETE_CHARACTER(a, id)
        \/ Handle_Query(a)

Handle ==
    \/ Query \/ BeginTransaction \/ Execute \/ StatementFails \/ Commit
    \/ Rollback \/ RestoreAutoCommit \/ Reply

Next ==
    \/ Arrive \/ Handle
    \/ \E c \in Conns : ConnectionLost(c)
    \/ ExceptionEscapes \/ Restart

Spec == Init /\ [][Next]_vars
-----------------------------------------------------------------------------
(* Properties *)

TypeOK ==
    /\ rows \in [Tables -> SUBSET Ids] /\ work \in [Tables -> SUBSET Ids]
    /\ start \in [Tables -> SUBSET Ids]
    /\ owner \in [Ids -> Accounts \cup {Nobody}] /\ nextId \in 1 .. MaxIds + 1
    /\ pool \in Seq(Conns) /\ conn \in Conns \cup {0}
    /\ alive \in [Conns -> BOOLEAN] /\ autocommit \in [Conns -> BOOLEAN]
    /\ pc \in {"idle", "query", "begin", "execute", "commit", "rollback",
               "restore", "reply", "down"}
    /\ stmt \in 1 .. 4 /\ result \in BOOLEAN
    /\ cur \in [kind : {"none", "create", "delete", "query"},
                account : Accounts \cup {Nobody}, id : Ids \cup {NoId}]

(* A character is in character_base, character_combat and character_skin   *)
(* or in none of them, whatever fails and whenever the server dies         *)
(* (the transactions of LobbyPacketHandler.cpp:130-163, 188-222).          *)
CharactersWhole ==
    rows["combat"] = rows["base"] /\ rows["skin"] = rows["base"]

(* An answer tells what happened: after success exactly the character      *)
(* asked for appeared or disappeared, after failure no table changed.      *)
AnswersAreTrue ==
    pc = "reply" /\ cur.kind # "query" =>
        IF result
           THEN \A t \in {"base", "combat", "skin"} :
                   rows[t] = IF cur.kind = "create" THEN start[t] \cup {cur.id}
                                                    ELSE start[t] \ {cur.id}
           ELSE rows = start

(* Only its owner deletes a character or a part of one, although three of  *)
(* the four DELETEs name no account (LobbyPacketHandler.cpp:192-212).      *)
OthersUntouched ==
    [][\A t \in Tables, id \in Ids :
          id \in rows[t] \ rows'[t] => owner[id] = cur.account]_vars

(* The next handler gets its connection with autocommit on: no request is  *)
(* run inside a transaction another one left open.                         *)
PooledConnsClean ==
    \A i \in DOMAIN pool : autocommit[pool[i]]
=============================================================================
