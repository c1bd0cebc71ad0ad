----------------------------- MODULE UserSessions ------------------------------
(***************************************************************************)
(* Accounts and sessions: internal/service/user_service.go over the table  *)
(* url_users (internal/repository/user_repository.go) and the keys         *)
(* "refresh:<id>" of Redis (internal/redisrepo/redis_user_repository.go),  *)
(* as internal/handler/user_handler.go calls it.                           *)
(*                                                                         *)
(* A step of a request is one command to a store with the code up to the   *)
(* next one, as in URLService.  A session is its refresh token: the access *)
(* tokens made beside it are kept nowhere, and what they open is           *)
(* URLService.                                                             *)
(***************************************************************************)
EXTENDS Naturals

CONSTANTS
  Users,        \* email addresses; at most one account each (UNIQUE)
  Passwords,
  Tokens,       \* refresh tokens GenerateJWT may make, told apart by their jti
  Clients,      \* requests that may be in flight at the same time
  Nil,
  MaxRequests,  \* bound: requests received in a behaviour
  MaxFaults     \* bound: commands and processes that fail, and restarts of Redis

ASSUME NilIsNoValue == Nil \notin Users \cup Passwords \cup Tokens

ASSUME BoundsAreNumbers ==
  MaxRequests \in Nat /\ MaxFaults \in Nat

VARIABLES
  accounts,     \* accounts[u]: the password of the row with that email, or Nil
  session,      \* session[u]: the token at key "refresh:<id of u>", or Nil
  snapshot,     \* session as Redis last saved it to disk
  copies,       \* SETs on connections that were given up, yet to be executed
  owner,        \* owner[t]: the user_id claim of token t, Nil until it is made
  expired,      \* tokens whose exp claim has passed
  pc,           \* pc[c]: the command client c issues next, "idle" between requests
  req,          \* req[c]: what client c is serving, or served last
  userID,       \* userID[c]: the user whose id the handler has in hand
  newToken,     \* newToken[c]: tokens.RefreshToken of the handler
  status,       \* status[c]: how the last request of c was answered
  received, faults, restarts,
  delivered,    \* history: tokens that have reached their user
  late,         \* history: clients who came with a token that was replaced
  known         \* history: clients who came with the password of an account

redisVars   == <<session, snapshot, copies>>
storeVars   == <<accounts, redisVars>>
tokenVars   == <<owner, expired>>
requestVars == <<pc, req, userID, newToken, status>>
boundVars   == <<received, faults, restarts>>
historyVars == <<delivered, late, known>>
vars == <<storeVars, tokenVars, requestVars, boundVars, historyVars>>

Steps    == {"idle", "insert", "retrieve", "get", "save"}
Statuses == {"ok", "exists", "unauthorized", "error"}

FirstStep == [register |-> "insert", login |-> "retrieve", refresh |-> "get"]

Request == [op : {"register", "login"}, user : Users, password : Passwords]
             \cup [op : {"refresh"}, token : Tokens \cup {Nil}]

ASSUME NilIsNoRequest == Nil \notin Request \cup Statuses

Init ==
  /\ accounts  = [u \in Users |-> Nil]
  /\ session   = [u \in Users |-> Nil]
  /\ snapshot  = [u \in Users |-> Nil]
  /\ copies    = {}
  /\ owner     = [t \in Tokens |-> Nil]
  /\ expired   = {}
  /\ pc        = [c \in Clients |-> "idle"]
  /\ req       = [c \in Clients |-> Nil]
  /\ userID    = [c \in Clients |-> Nil]
  /\ newToken  = [c \in Clients |-> Nil]
  /\ status    = [c \in Clients |-> Nil]
  /\ received  = 0 /\ faults = 0 /\ restarts = 0
  /\ delivered = {}
  /\ late      = {}
  /\ known     = {}

--------------------------------------------------------------------------------
(***************************************************************************)
(* Tokens that users were given and that have been replaced in Redis, by a *)
(* login or a refresh, or have expired there, for good: no SET of them is  *)
(* under way.                                                              *)
(***************************************************************************)
Replaced ==
  {t \in delivered : session[owner[t]] # t /\ \A copy \in copies : copy.token # t}

(***************************************************************************)
(* A user sends what he has: an address and a password, a refresh token he *)
(* was given, or something that is no token (Nil).                         *)
(***************************************************************************)
Credentials == [op : {"register", "login"}, user : Users, password : Passwords]

Refreshes == [op : {"refresh"}, token : delivered \cup {Nil}]

Receive(c) ==
  /\ pc[c] = "idle"
  /\ received < MaxRequests
  /\ received' = received + 1
  /\ \E request \in Credentials \cup Refreshes :
       /\ req' = [req EXCEPT ![c] = request]
       /\ pc' = [pc EXCEPT ![c] = FirstStep[request.op]]
       /\ late' = IF request.op = "refresh" /\ request.token \in Replaced
                  THEN late \cup {c}
                  ELSE late \ {c}
       /\ known' = IF request.op = "login" /\ accounts[request.user] = request.password
                   THEN known \cup {c}
                   ELSE known \ {c}
  /\ userID' = [userID EXCEPT ![c] = Nil]
  /\ newToken' = [newToken EXCEPT ![c] = Nil]
  /\ status' = [status EXCEPT ![c] = Nil]
  /\ UNCHANGED <<storeVars, tokenVars, faults, restarts, delivered>>

Answer(c, s) ==
  /\ pc' = [pc EXCEPT ![c] = "idle"]
  /\ status' = [status EXCEPT ![c] = s]

(***************************************************************************)
(* The command was executed and its reply never came.                      *)
(***************************************************************************)
ReplyLost(c) ==
  /\ faults + restarts < MaxFaults
  /\ faults' = faults + 1
  /\ Answer(c, "error")

(***************************************************************************)
(* A mutant of the next: tokens without a jti, of which two made for a     *)
(* user in the same second are the same one.                               *)
(***************************************************************************)
GenerateWithoutJti(c, user) ==
  /\ \E t \in Tokens :
       /\ owner[t] \in {Nil, user}
       /\ owner' = [owner EXCEPT ![t] = user]
       /\ newToken' = [newToken EXCEPT ![c] = t]
  /\ userID' = [userID EXCEPT ![c] = user]
  /\ pc' = [pc EXCEPT ![c] = "save"]
  /\ UNCHANGED <<status, faults>>

(***************************************************************************)
(* GenerateJWT, twice, and on to SaveRefreshToken.                         *)
(***************************************************************************)
GenerateFor(c, user) ==
  /\ \E t \in Tokens :
       /\ owner[t] = Nil
       /\ owner' = [owner EXCEPT ![t] = user]
       /\ newToken' = [newToken EXCEPT ![c] = t]
  /\ userID' = [userID EXCEPT ![c] = user]
  /\ pc' = [pc EXCEPT ![c] = "save"]
  /\ UNCHANGED <<status, faults>>

(***************************************************************************)
(* Mutants (RedisURLs tells what they are): an INSERT that overwrites the  *)
(* row, a refresh that does not compare the tokens, the arguments of       *)
(* SaveRefreshToken swapped, the tokens of a request kept in the service,  *)
(* which serves others at the same time, a registration that takes its row *)
(* back when a command after it fails.                                     *)
(***************************************************************************)
InsertOverwriting(c) ==
  /\ pc[c] = "insert"
  /\ accounts' = [accounts EXCEPT ![req[c].user] = req[c].password]
  /\ GenerateFor(c, req[c].user)
  /\ UNCHANGED <<redisVars, expired, req, received, restarts, historyVars>>

GetUncompared(c) ==
  LET token == req[c].token
  IN  /\ pc[c] = "get"
      /\ IF token # Nil /\ token \notin expired
         THEN GenerateFor(c, owner[token])
         ELSE Answer(c, "unauthorized") /\ UNCHANGED <<owner, userID, newToken, faults>>
      /\ UNCHANGED <<storeVars, expired, req, received, restarts, historyVars>>

SetSessionSwapped(user, token) == session' = [session EXCEPT ![user] = user]

SaveShared(c) ==
  /\ pc[c] = "save"
  /\ \E d \in Clients :
       /\ pc[d] = "save"
       /\ session' = [session EXCEPT ![userID[c]] = newToken[d]]
       /\ delivered' = delivered \cup {newToken[d]}
  /\ Answer(c, "ok")
  /\ UNCHANGED <<accounts, snapshot, copies, tokenVars, req, userID, newToken, received,
                 faults, restarts, late, known>>

CommandFailsUndoing(c) ==
  /\ pc[c] # "idle"
  /\ ReplyLost(c)
  /\ accounts' = IF pc[c] = "save" /\ req[c].op = "register"
                 THEN [accounts EXCEPT ![req[c].user] = Nil]
                 ELSE accounts
  /\ UNCHANGED <<redisVars, tokenVars, req, userID, newToken, received, restarts, historyVars>>

(***************************************************************************)
(* UserRepository: an INSERT and a SELECT on the table url_users.  An      *)
(* address that has an account violates UNIQUE: ErrEmailExists.            *)
(***************************************************************************)
EmailExists(user) == accounts[user] # Nil

RepoInsertUser(user, password) == accounts' = [accounts EXCEPT ![user] = password]

RepoRetrieveUser(user) == accounts[user]

(***************************************************************************)
(* ServiceRegister: RepoInsertUser.                                        *)
(***************************************************************************)
Insert(c) ==
  LET user == req[c].user
  IN  /\ pc[c] = "insert"
      /\ \/ /\ ~EmailExists(user)
            /\ RepoInsertUser(user, req[c].password)
            /\ \/ GenerateFor(c, user)
               \/ ReplyLost(c) /\ UNCHANGED <<owner, userID, newToken>>
         \/ /\ EmailExists(user)
            /\ Answer(c, "exists")
            /\ UNCHANGED <<accounts, owner, userID, newToken, faults>>
      /\ UNCHANGED <<redisVars, expired, req, received, restarts, historyVars>>

(***************************************************************************)
(* ServiceLogin: RepoRetrieveUser and the comparison of the passwords.     *)
(* That there is no row is answered like a wrong password.                 *)
(***************************************************************************)
Retrieve(c) ==
  LET user   == req[c].user
      stored == RepoRetrieveUser(user)
  IN  /\ pc[c] = "retrieve"
      /\ \/ /\ stored = req[c].password
            /\ GenerateFor(c, user)
         \/ /\ stored # req[c].password
            /\ Answer(c, "unauthorized")
            /\ UNCHANGED <<owner, userID, newToken, faults>>
      /\ UNCHANGED <<storeVars, expired, req, received, restarts, historyVars>>

(***************************************************************************)
(* ServiceRefresh: ValidateJWT, then GetRefreshToken.  That Redis has no   *)
(* token at all is an error like any other (redis.Nil is not looked for).  *)
(***************************************************************************)
ValidJWT(token) == token # Nil /\ token \notin expired

GetRefreshToken(user) == session[user]

Get(c) ==
  LET token  == req[c].token
      stored == GetRefreshToken(owner[token])
  IN  /\ pc[c] = "get"
      /\ \/ /\ ~ValidJWT(token)
            /\ Answer(c, "unauthorized")
            /\ UNCHANGED <<owner, userID, newToken, faults>>
         \/ /\ ValidJWT(token) /\ stored = Nil
            /\ Answer(c, "error")
            /\ UNCHANGED <<owner, userID, newToken, faults>>
         \/ /\ ValidJWT(token) /\ stored \notin {Nil, token}
            /\ Answer(c, "unauthorized")
            /\ UNCHANGED <<owner, userID, newToken, faults>>
         \/ /\ ValidJWT(token) /\ stored = token
            /\ GenerateFor(c, owner[token])
      /\ UNCHANGED <<storeVars, expired, req, received, restarts, historyVars>>

(***************************************************************************)
(* SaveRefreshToken, the last command of all three.                        *)
(***************************************************************************)
SetSession(user, token) == session' = [session EXCEPT ![user] = token]

Save(c) ==
  /\ pc[c] = "save"
  /\ SetSession(userID[c], newToken[c])
  /\ \/ /\ Answer(c, "ok")
        /\ delivered' = delivered \cup {newToken[c]}
        /\ UNCHANGED faults
     \/ ReplyLost(c) /\ UNCHANGED delivered
  /\ UNCHANGED <<accounts, snapshot, copies, tokenVars, req, userID, newToken, received,
                 restarts, late, known>>

--------------------------------------------------------------------------------
(***************************************************************************)
(* Time: a token expires seven days after it was made, its key seven days  *)
(* after it was set, which is later.                                       *)
(***************************************************************************)
TokenExpires ==
  /\ \E t \in Tokens \ expired : owner[t] # Nil /\ expired' = expired \cup {t}
  /\ UNCHANGED <<storeVars, owner, requestVars, boundVars, historyVars>>

KeyExpires ==
  /\ \E u \in Users :
       session[u] \in expired /\ session' = [session EXCEPT ![u] = Nil]
  /\ UNCHANGED <<accounts, snapshot, copies, tokenVars, requestVars, boundVars, historyVars>>

(***************************************************************************)
(* Failures, as in URLService.  When the reply to a SET does not come in   *)
(* time, go-redis closes the connection and sends the SET again on another *)
(* one or gives up.  Redis executes the copy on the closed connection when *)
(* it gets to it, before the other or after it, or never.                  *)
(***************************************************************************)
CommandFails(c) ==
  /\ pc[c] # "idle"
  /\ ReplyLost(c)
  /\ UNCHANGED <<storeVars, tokenVars, req, userID, newToken, received, restarts, historyVars>>

SaveTimesOut(c) ==
  /\ pc[c] = "save"
  /\ faults + restarts < MaxFaults
  /\ faults' = faults + 1
  /\ copies' = copies \cup {[user |-> userID[c], token |-> newToken[c], id |-> faults]}
  /\ UNCHANGED <<pc, status>> \/ Answer(c, "error")
  /\ UNCHANGED <<accounts, session, snapshot, tokenVars, req, userID, newToken, received,
                 restarts, historyVars>>

CopyArrives ==
  /\ \E copy \in copies :
       SetSession(copy.user, copy.token) /\ copies' = copies \ {copy}
  /\ UNCHANGED <<accounts, snapshot, tokenVars, requestVars, boundVars, historyVars>>

Crash ==
  /\ \E c \in Clients : pc[c] # "idle"
  /\ faults + restarts < MaxFaults
  /\ faults' = faults + 1
  /\ pc' = [c \in Clients |-> "idle"]
  /\ status' = [c \in Clients |-> IF pc[c] = "idle" THEN status[c] ELSE "error"]
  /\ UNCHANGED <<storeVars, tokenVars, req, userID, newToken, received, restarts, historyVars>>

RedisSaves ==
  /\ faults + restarts < MaxFaults
  /\ snapshot' = session
  /\ UNCHANGED <<accounts, session, copies, tokenVars, requestVars, boundVars, historyVars>>

(***************************************************************************)
(* A restart brings back what was saved - with it, tokens that were        *)
(* replaced after the save - or, in a new container, nothing.  What was    *)
(* under way to the old process is lost with its connections.  (A save is  *)
(* of interest only if a restart can follow.)                              *)
(***************************************************************************)
RedisRestarts ==
  /\ faults + restarts < MaxFaults
  /\ restarts' = restarts + 1
  /\ session' \in {snapshot, [u \in Users |-> Nil]}
  /\ copies' = {} /\ late' = {}
  /\ UNCHANGED <<accounts, snapshot, tokenVars, requestVars, received, faults, delivered,
                 known>>

Handle(c) == Insert(c) \/ Retrieve(c) \/ Get(c) \/ Save(c)

Next ==
  \/ \E c \in Clients : Receive(c) \/ Handle(c) \/ CommandFails(c) \/ SaveTimesOut(c)
  \/ CopyArrives
  \/ TokenExpires \/ KeyExpires
  \/ Crash \/ RedisSaves \/ RedisRestarts

Spec == Init /\ [][Next]_vars

--------------------------------------------------------------------------------
TypeOK ==
  /\ accounts \in [Users -> Passwords \cup {Nil}]
  /\ session \in [Users -> Tokens \cup {Nil}]
  /\ snapshot \in [Users -> Tokens \cup {Nil}]
  /\ copies \in SUBSET [user : Users, token : Tokens, id : Nat]
  /\ owner \in [Tokens -> Users \cup {Nil}]
  /\ expired \in SUBSET Tokens
  /\ pc \in [Clients -> Steps]
  /\ req \in [Clients -> Request \cup {Nil}]
  /\ userID \in [Clients -> Users \cup {Nil}]
  /\ newToken \in [Clients -> Tokens \cup {Nil}]
  /\ status \in [Clients -> Statuses \cup {Nil}]
  /\ received \in Nat /\ faults \in Nat /\ restarts \in Nat
  /\ delivered \in SUBSET Tokens
  /\ late \in SUBSET Clients
  /\ known \in SUBSET Clients

(***************************************************************************)
(* Nobody's session is another's.  The key a handler stores a token under  *)
(* and the user it is signed for are passed separately; yet the token      *)
(* under a user's key, in memory and on disk, was made for that very user, *)
(* and he has an account.  And whoever is given a token gets one for the   *)
(* account he has shown the password or the token of.                      *)
(***************************************************************************)
StoredAreOwn ==
  \A u \in Users :
    \A token \in {session[u], snapshot[u]} :
      token # Nil => owner[token] = u /\ accounts[u] # Nil

Entitled(request, u) ==
  IF request.op = "refresh"
  THEN u = owner[request.token]
  ELSE u = request.user /\ accounts[u] = request.password

GivenAreOwn ==
  \A c \in Clients : status[c] = "ok" => Entitled(req[c], owner[newToken[c]])

SessionsAreOwn == StoredAreOwn /\ GivenAreOwn

(***************************************************************************)
(* Whoever comes with a refresh token that was replaced, by a login or by  *)
(* its own exchange, is turned away, whatever logins and refreshes of that *)
(* user are under way.  There are two exceptions: Redis restarts, or a SET *)
(* of this very token had not been executed on a connection that go-redis  *)
(* has given up; then its late execution makes the token good again.       *)
(***************************************************************************)
ReplacedIsRefused == \A c \in late : status[c] # "ok" /\ pc[c] # "save"

(***************************************************************************)
(* A login with the password of an account is never told that it is wrong, *)
(* whatever has become of the registration that created the account (its   *)
(* SET may have failed, and registering again answers that the address is  *)
(* taken) and whoever tries to register the address again meanwhile.       *)
(***************************************************************************)
NeverLockedOut == \A c \in known : status[c] \notin {"unauthorized", "exists"}

(***************************************************************************)
(* Of the registrations of an address, however they overlap, one at most   *)
(* succeeds.                                                               *)
(***************************************************************************)
HasRegistered(c) == status[c] = "ok" /\ req[c].op = "register"

RegisteredOnce ==
  \A c, d \in Clients :
    c # d /\ HasRegistered(c) /\ HasRegistered(d) => req[c].user # req[d].user

(***************************************************************************)
(* A session that a user has lost - he logged in again, refreshed it or    *)
(* let it expire - is over: none of the logins and refreshes of his that   *)
(* are under way makes a token he was given and has lost good again, nor   *)
(* does one that times out and is sent twice.  Only a late SET of that     *)
(* token itself can, or a restart of Redis.                                *)
(***************************************************************************)
ReplacedForGood == [][RedisRestarts \/ Replaced \subseteq Replaced']_vars

--------------------------------------------------------------------------------
(***************************************************************************)
(* A refresh token is exchanged at most once: no two requests have         *)
(* succeeded with the same one.                                            *)
(***************************************************************************)
HasRefreshed(c) == status[c] = "ok" /\ req[c].op = "refresh"

ExchangedOnce ==
  \A c, d \in Clients :
    c # d /\ HasRefreshed(c) /\ HasRefreshed(d) => req[c].token # req[d].token

(***************************************************************************)
(* As long as the stores execute every command, no request ends in an      *)
(* internal error; above all not one whose token Redis does not have.      *)
(***************************************************************************)
NoInternalError == faults = 0 => \A c \in Clients : status[c] # "error"

================================================================================
