----------------------------- MODULE SignInProofs -----------------------------
(***************************************************************************)
(* Theorems about SignIn: whatever throws and however often the servers    *)
(* restart, a token the login server gave out lets its account in and no   *)
(* other.                                                                  *)
(***************************************************************************)
EXTENDS SignIn, TLAPS

(* The user a handler works for exists, and an account is known before a   *)
(* token is made for it.                                                   *)
Request ==
    /\ pc \in {"check", "find", "insert", "touch", "signup"} => cur.user \in Users
    /\ pc = "insert" => account[cur.user] \in Accounts

(* A stored token belongs to one account; what is answered, and what was   *)
(* ever answered, is stored.                                               *)
TokensStored ==
    /\ \A r, s \in sessions : r.token = s.token => r = s
    /\ result = NoReply \/ result \in sessions
    /\ issued \subseteq sessions

IInv == TypeOK /\ Request /\ TokensStored

LEMMA InitInv == Init => IInv
BY SignInAssumption
   DEF Init, IInv, TypeOK, Request, TokensStored, NoReply, NoAccount, NoToken, Idle,
       Accounts

(* A new token is in no row yet, so its row is the only one with it. *)
LEMMA InsertInv ==
    ASSUME IInv, NEW token \in Tokens, InsertToken(token)
    PROVE  IInv'
<1> USE DEF IInv
<1>1. CASE Stored(token)
  <2>1. UNCHANGED vars
    BY <1>1 DEF InsertToken, vars
  <2>2. QED
    BY <2>1 DEF vars, TypeOK, Request, TokensStored
<1>2. CASE ~Stored(token)
  <2> DEFINE row == TokenRow(token)
  <2>1. /\ pc = "insert" /\ pc' = "touch"
        /\ sessions' = sessions \cup {row} /\ result' = row
        /\ UNCHANGED <<account, nextId, expired, cur, issued, escaped>>
    BY <1>2 DEF InsertToken
  <2>2. cur.user \in Users /\ account[cur.user] \in Accounts
    BY <2>1 DEF Request
  <2>3. TypeOK'
    BY <2>1, <2>2 DEF TypeOK, TokenRow
  <2>4. Request'
    BY <2>1, <2>2 DEF Request
  <2>5. \A s \in sessions : s.token # token
    BY <1>2 DEF Stored
  <2>6. TokensStored'
    BY <2>1, <2>5 DEF TokensStored, TokenRow
  <2>7. QED
    BY <2>3, <2>4, <2>6
<1>3. QED
  BY <1>1, <1>2

(* So is the row of an INSERT that failed: nobody was told of it. *)
LEMMA InsertFailsInv ==
    ASSUME IInv, NEW token \in Tokens, InsertFails(token)
    PROVE  IInv'
<1> USE DEF IInv
<1>1. /\ pc = "insert" /\ ~Stored(token)
      /\ sessions' = sessions \/ sessions' = sessions \cup {TokenRow(token)}
      /\ UNCHANGED <<account, nextId, expired, pc, cur, result, issued, escaped>>
  BY DEF InsertFails
<1>2. TokenRow(token) \in [token : Tokens, account : Accounts]
  BY <1>1 DEF TokenRow, Request
<1>3. TypeOK'
  BY <1>1, <1>2 DEF TypeOK
<1>4. Request'
  BY <1>1 DEF Request
<1>5. \A s \in sessions : s.token # token
  BY <1>1 DEF Stored
<1>6. TokensStored'
  BY <1>1, <1>5 DEF TokensStored, TokenRow
<1>7. QED
  BY <1>3, <1>4, <1>6

(* A sign-up's INSERT, whether its answer arrives or not. *)
LEMMA NewAccountInv ==
    ASSUME IInv, NewAccount, UNCHANGED <<result, issued>>,
           pc' \in {"reply", "down"}, cur' \in {cur, Idle},
           escaped' \in {escaped, cur.kind}
    PROVE  IInv'
<1> USE DEF IInv
<1>1. /\ nextId \in Accounts
      /\ account' = [account EXCEPT ![cur.user] = nextId] /\ nextId' = nextId + 1
      /\ UNCHANGED <<sessions, expired>>
  BY DEF NewAccount
<1>2. nextId' \in 1 .. MaxAccounts + 1
  BY <1>1, SignInAssumption DEF Accounts
<1>3. account' \in [Users -> Accounts \cup {NoAccount}]
  BY <1>1 DEF TypeOK
<1>4. cur'.kind \in {"none", "check", "login", "join"}
  BY DEF TypeOK, Idle
<1>5. TypeOK'
  BY <1>1, <1>2, <1>3, <1>4 DEF TypeOK
<1>6. Request' /\ TokensStored'
  BY <1>1 DEF Request, TokensStored
<1>7. QED
  BY <1>5, <1>6

LEMMA StepInv == IInv /\ [Next]_vars => IInv'
<1> SUFFICES ASSUME IInv, [Next]_vars PROVE IInv'
  OBVIOUS
<1> USE SignInAssumption DEF IInv
<1>1. ASSUME NEW kind \in {"check", "login", "join"}, NEW u \in Users,
             Receive(kind, u)
      PROVE  IInv'
  <2>1. /\ cur' = [kind |-> kind, user |-> u] /\ result' = NoReply
        /\ UNCHANGED <<account, nextId, sessions, expired, issued, escaped>>
    BY <1>1 DEF Receive, tables
  <2>2. pc' \in {"check", "find", "signup"}
    BY <1>1 DEF Receive
  <2>3. TypeOK'
    BY <2>1, <2>2 DEF TypeOK, NoReply
  <2>4. Request' /\ TokensStored'
    BY <2>1, <2>2 DEF Request, TokensStored
  <2>5. QED
    BY <2>3, <2>4
<1>2. CASE TryCheckID
  BY <1>2 DEF TryCheckID, tables, TypeOK, Request, TokensStored
<1>3. CASE FindAccount
  <2>1. /\ pc = "find" /\ pc' \in {"insert", "reply"}
        /\ pc' = "insert" => account[cur.user] # NoAccount
        /\ UNCHANGED <<account, nextId, sessions, expired, cur, result, issued, escaped>>
    BY <1>3 DEF FindAccount, tables
  <2>2. pc' = "insert" => account[cur.user] \in Accounts
    BY <2>1 DEF TypeOK, Request
  <2>3. TypeOK' /\ TokensStored'
    BY <2>1 DEF TypeOK, TokensStored
  <2>4. Request'
    BY <2>1, <2>2 DEF Request
  <2>5. QED
    BY <2>3, <2>4
<1>4. ASSUME NEW token \in Tokens, InsertFails(token) PROVE IInv'
  BY <1>4, InsertFailsInv
<1>5. CASE TouchAccount
  BY <1>5 DEF TouchAccount, tables, TypeOK, Request, TokensStored
<1>6. CASE SignUp
  BY <1>6, NewAccountInv DEF SignUp
<1>7. CASE Reply
  <2>1. issued' \subseteq sessions
    BY <1>7 DEF Reply, GotToken, TokensStored
  <2>2. /\ pc' = "idle" /\ cur' = Idle
        /\ UNCHANGED <<account, nextId, sessions, expired, result, escaped>>
    BY <1>7 DEF Reply, tables
  <2>3. TypeOK'
    BY <2>1, <2>2 DEF TypeOK, Idle
  <2>4. Request' /\ TokensStored'
    BY <2>1, <2>2 DEF Request, TokensStored
  <2>5. QED
    BY <2>3, <2>4
<1>8. ASSUME NEW token \in Tokens, Expire(token) PROVE IInv'
  BY <1>8 DEF Expire, TypeOK, Request, TokensStored
<1>9. CASE ExceptionEscapes
  <2>1. CASE NewAccount
    BY <1>9, <2>1, NewAccountInv DEF ExceptionEscapes
  <2>2. CASE UNCHANGED tables
    BY <1>9, <2>2 DEF ExceptionEscapes, tables, Idle, TypeOK, Request, TokensStored
  <2>3. QED
    BY <1>9, <2>1, <2>2 DEF ExceptionEscapes
<1>10. CASE Restart
  BY <1>10 DEF Restart, tables, NoReply, TypeOK, Request, TokensStored
<1>11. CASE UNCHANGED vars
  BY <1>11 DEF vars, TypeOK, Request, TokensStored
<1>12. QED
  BY <1>1, <1>2, <1>3, <1>4, <1>5, <1>6, <1>7, <1>8, <1>9, <1>10, <1>11, InsertInv
     DEF Next

LEMMA Invariance == Spec => []IInv
BY InitInv, StepInv, PTL DEF Spec

(* Every table, answer and local of the login server keeps its type: an    *)
(* account id is drawn or -1, a token given out has an account             *)
(* (SignManager.cpp:35-128).                                               *)
THEOREM SignInTypes == Spec => []TypeOK
<1>1. IInv => TypeOK
  BY DEF IInv
<1>2. QED
  BY <1>1, Invariance, PTL

(* For any number of users, tokens and accounts: until it expires a token  *)
(* the login server answered lets its own account into the game server and *)
(* no other one, whatever the retry loop went through                      *)
(* (SignManager.cpp:84-98, LobbyPacketHandler.cpp:20-27).                  *)
THEOREM SignInIssuedTokensWork == Spec => []IssuedTokensWork
<1>1. IInv => IssuedTokensWork
  <2> SUFFICES ASSUME IInv, NEW t \in issued, NEW id \in Accounts, t.token \notin expired
               PROVE  TokenValid(id, t.token) <=> id = t.account
    BY DEF IssuedTokensWork
  <2>1. t \in sessions /\ t \in [token : Tokens, account : Accounts]
    BY DEF IInv, TypeOK, TokensStored
  <2>2. ASSUME TokenValid(id, t.token) PROVE id = t.account
    <3> DEFINE row == [token |-> t.token, account |-> id]
    <3>1. row \in sessions /\ row.token = t.token
      BY <2>2 DEF TokenValid
    <3>2. row = t
      BY <2>1, <3>1 DEF IInv, TokensStored
    <3>3. row.account = id
      OBVIOUS
    <3>4. QED
      BY <3>2, <3>3
  <2>3. ASSUME id = t.account PROVE TokenValid(id, t.token)
    <3>1. t = [token |-> t.token, account |-> t.account]
      BY <2>1
    <3>2. QED
      BY <2>1, <2>3, <3>1 DEF TokenValid
  <2>4. QED
    BY <2>2, <2>3
<1>2. QED
  BY <1>1, Invariance, PTL
=============================================================================
