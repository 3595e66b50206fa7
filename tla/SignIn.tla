-------------------------------- MODULE SignIn --------------------------------
(***************************************************************************)
(* Sign-up, sign-in and the token that carries a client from the login     *)
(* server to the game server.  The login server's only thread runs one     *)
(* handler at a time, statement by statement under autocommit; the game    *)
(* server looks the token up, and time expires it.                         *)
(* Source: LoginServer/SignManager.cpp, LoginPacketHandler.cpp,            *)
(* Handle_REQ_CHECK_TOKENVALID of the game server.                         *)
(***************************************************************************)
EXTENDS Integers, FiniteSets

CONSTANTS
    Users,         \* user_id values
    Tokens,        \* what GenerateToken may return
    MaxAccounts    \* bound: account ids ever drawn

ASSUME SignInAssumption == MaxAccounts \in Nat

NoAccount == -1
NoToken   == "none"
Accounts  == 1 .. MaxAccounts
NoReply   == [account |-> NoAccount, token |-> NoToken]
Idle      == [kind |-> "none", user |-> "none"]

VARIABLES
    account,     \* table account: the account_id of each user_id, or -1
    nextId,      \* its auto-increment
    sessions,    \* table sessions: pairs of token and account_id
    expired,     \* tokens whose expires_at has passed
    pc, cur,     \* the login thread and its request
    result,      \* what TrySignIn will return
    issued,      \* history: what RES_LOGIN gave to clients
    escaped      \* history: the request an exception ended the server in

tables == <<account, nextId, sessions, expired>>
vars == <<account, nextId, sessions, expired, pc, cur, result, issued, escaped>>

Init ==
    /\ account = [u \in Users |-> NoAccount] /\ nextId = 1
    /\ sessions = {} /\ expired = {}
    /\ pc = "idle" /\ cur = Idle /\ result = NoReply
    /\ issued = {} /\ escaped = "none"
-----------------------------------------------------------------------------
(* REQ_CHECK_ID, REQ_LOGIN and REQ_JOIN. *)
Receive(kind, u) ==
    /\ pc = "idle"
    /\ cur' = [kind |-> kind, user |-> u]
    /\ result' = NoReply
    /\ pc' = CASE kind = "check" -> "check"
               [] kind = "login" -> "find"
               [] kind = "join"  -> "signup"
    /\ UNCHANGED <<tables, issued, escaped>>

TryCheckID ==
    /\ pc = "check"
    /\ pc' = "reply"
    /\ UNCHANGED <<tables, cur, result, issued, escaped>>

(* The SELECT and the comparison with the stored hash. *)
FindAccount ==
    /\ pc = "find"
    /\ \/ pc' = "insert" /\ account[cur.user] # NoAccount
       \/ pc' = "reply"
    /\ UNCHANGED <<tables, cur, result, issued, escaped>>

Stored_Ignored(token) == FALSE
Stored(token) == \E row \in sessions : row.token = token

TokenRow(token) == [token |-> token, account |-> account[cur.user]]

(* One turn of the do-while: a new token and its INSERT, which a token     *)
(* already there makes throw.                                              *)
InsertToken(token) ==
    /\ pc = "insert"
    /\ IF Stored(token)
          THEN UNCHANGED <<sessions, result, pc>>
          ELSE /\ sessions' = sessions \cup {TokenRow(token)}
               /\ result' = TokenRow(token)
               /\ pc' = "touch"
    /\ UNCHANGED <<account, nextId, expired, cur, issued, escaped>>

(* It throws for any other reason, with the row stored (the answer was     *)
(* lost) or not: the same catch clause, and the loop turns.                *)
InsertFails(token) ==
    /\ pc = "insert" /\ ~Stored(token)
    /\ sessions' \in {sessions, sessions \cup {TokenRow(token)}}
    /\ UNCHANGED <<account, nextId, expired, pc, cur, result, issued, escaped>>

(* UPDATE account SET last_login = NOW() *)
TouchAccount ==
    /\ pc = "touch"
    /\ pc' = "reply"
    /\ UNCHANGED <<tables, cur, result, issued, escaped>>

(* TrySignUp: a user_id that is taken makes the INSERT throw. *)
NewAccount ==
    /\ pc = "signup" /\ account[cur.user] = NoAccount /\ nextId \in Accounts
    /\ account' = [account EXCEPT ![cur.user] = nextId]
    /\ nextId' = nextId + 1
    /\ UNCHANGED <<sessions, expired>>

SignUp ==
    /\ NewAccount
    /\ pc' = "reply"
    /\ UNCHANGED <<cur, result, issued, escaped>>

GotToken == result # NoReply

Reply ==
    /\ pc = "reply"
    /\ issued' = IF GotToken THEN issued \cup {result} ELSE issued
    /\ pc' = "idle" /\ cur' = Idle
    /\ UNCHANGED <<tables, result, escaped>>

(* Any statement but the token's INSERT throws, a sign-up's also after the *)
(* account was stored: nothing catches it below main(), which returns.     *)
ExceptionEscapes ==
    /\ pc \in {"check", "find", "touch", "signup"}
    /\ escaped' = cur.kind
    /\ pc' = "down" /\ cur' = Idle
    /\ NewAccount \/ UNCHANGED tables
    /\ UNCHANGED <<result, issued>>

Restart ==
    /\ pc = "down"
    /\ pc' = "idle" /\ result' = NoReply
    /\ UNCHANGED <<tables, cur, issued, escaped>>

(* 30 minutes after its INSERT *)
Expire(token) ==
    /\ Stored(token)
    /\ expired' = expired \cup {token}
    /\ UNCHANGED <<account, nextId, sessions, pc, cur, result, issued, escaped>>

(* What the game server answers to REQ_CHECK_TOKENVALID. *)
TokenValid(id, token) ==
    [token |-> token, account |-> id] \in sessions /\ token \notin expired
-----------------------------------------------------------------------------
Next ==
    \/ \E kind \in {"check", "login", "join"}, u \in Users : Receive(kind, u)
    \/ TryCheckID \/ FindAccount \/ TouchAccount \/ SignUp \/ Reply
    \/ \E token \in Tokens : InsertToken(token) \/ InsertFails(token) \/ Expire(token)
    \/ ExceptionEscapes \/ Restart

Spec == Init /\ [][Next]_vars
-----------------------------------------------------------------------------
(* Properties *)

TypeOK ==
    /\ account \in [Users -> Accounts \cup {NoAccount}]
    /\ nextId \in 1 .. MaxAccounts + 1
    /\ sessions \subseteq [token : Tokens, account : Accounts]
    /\ expired \subseteq Tokens
    /\ pc \in {"idle", "check", "find", "insert", "touch", "signup", "reply", "down"}
    /\ cur.kind \in {"none", "check", "login", "join"}
    /\ result.account \in Accounts \cup {NoAccount}
    /\ result.token \in Tokens \cup {NoToken}
    /\ issued \subseteq [token : Tokens, account : Accounts]
    /\ escaped \in {"none", "check", "login", "join"}

(* A token the login server gave out lets its account, and no other, into  *)
(* the game server until it expires, however many INSERTs failed before    *)
(* (the retry loop, SignManager.cpp:84-98, LobbyPacketHandler.cpp:20-27).  *)
IssuedTokensWork ==
    \A t \in issued, id \in Accounts :
        t.token \notin expired => (TokenValid(id, t.token) <=> id = t.account)

(* A sign-up that fails is answered (SignManager.cpp:126). *)
FailedSignUpIsAnswered == escaped # "join"
=============================================================================
