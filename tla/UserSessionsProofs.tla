--------------------------- MODULE UserSessionsProofs --------------------------
(***************************************************************************)
(* Proofs about UserSessions, for every set of users, passwords, tokens    *)
(* and clients and every bound: SessionInv is inductive, and what follows  *)
(* from it.                                                                *)
(***************************************************************************)
EXTENDS SessionInvariant, TLAPS

LEMMA InitSessions == Init => SessionInv
<1> SUFFICES ASSUME Init
             PROVE  SessionInv
  OBVIOUS
<1>1. TypeOK
  BY BoundsAreNumbers DEF Init, TypeOK, Steps
<1>2. TokensOK
  BY DEF Init, TokensOK, StoredAreOwn
<1>3. TokensApart /\ RegisteringApart
  BY DEF Init, TokensApart, RegisteringApart, Registering
<1>4. ASSUME NEW c \in Clients
      PROVE  ClientOK(c)
  BY NilIsNoRequest DEF Init, ClientOK, Serving, Saving, Late, Known, Answered, Statuses
<1> QED
  BY <1>1, <1>2, <1>3, <1>4 DEF SessionInv

--------------------------------------------------------------------------------
(***************************************************************************)
(* No account is lost by a step of a handler, and no password changed; so  *)
(* a token that was made for a user stays one, and what has entitled to a  *)
(* session still does.                                                     *)
(***************************************************************************)
AccountsGrow ==
  /\ accounts' \in [Users -> Passwords \cup {Nil}]
  /\ \A u \in Users : accounts[u] # Nil => accounts'[u] = accounts[u]

TokensKept == \A t \in Tokens : owner[t] # Nil => owner'[t] = owner[t]

LEMMA MadeLasts ==
  ASSUME TypeOK, AccountsGrow, TokensKept, NEW t, Made(t)
  PROVE  Made(t)' /\ owner'[t] = owner[t]
BY NilIsNoValue DEF Made, AccountsGrow, TokensKept, TypeOK

LEMMA EntitledLasts ==
  ASSUME TypeOK, AccountsGrow, TokensKept,
         NEW request \in Request, NEW u \in Users, Entitled(request, u),
         request.op = "refresh" => Made(request.token)
  PROVE  Entitled(request, u)'
<1>1. CASE request.op = "refresh"
  BY <1>1, MadeLasts DEF Entitled
<1>2. CASE request.op # "refresh"
  <2>1. request.password \in Passwords
    BY <1>2 DEF Request
  <2> QED
    BY <1>2, <2>1, NilIsNoValue DEF Entitled, AccountsGrow
<1> QED
  BY <1>1, <1>2

LEMMA ReplacedLasts ==
  ASSUME SessionInv, TokensKept, UNCHANGED <<session, copies>>, delivered \subseteq delivered'
  PROVE  Replaced \subseteq Replaced'
BY NilIsNoValue DEF Replaced, TokensKept, SessionInv, TokensOK, Made

(***************************************************************************)
(* A client whose handler stays where it is or is answered, and not with   *)
(* success, is none the worse for what becomes of the stores.              *)
(***************************************************************************)
Stops(c) ==
  \/ pc'[c] = pc[c] /\ status'[c] = status[c]
  \/ /\ pc'[c] = "idle"
     /\ status'[c] \in Statuses \ {"ok"}
     /\ c \in known => status'[c] = "error"

LEMMA ClientKept ==
  ASSUME SessionInv, AccountsGrow, TokensKept,
         NEW c \in Clients, Stops(c),
         req'[c] = req[c], userID'[c] = userID[c], newToken'[c] = newToken[c],
         delivered \subseteq delivered',
         pc[c] = "save" => newToken[c] \notin delivered',
         c \in late' => c \in late /\ Replaced \subseteq Replaced',
         c \in known' => c \in known
  PROVE  ClientOK(c)'
<1>1. TypeOK /\ TokensOK /\ ClientOK(c)
  BY DEF SessionInv
<1>2. req[c] # Nil => req[c] \in Request
  BY <1>1 DEF TypeOK
<1>3. Serving(c)'
  BY <1>1 DEF ClientOK, Serving, Stops
<1>4. Late(c)'
  BY <1>1 DEF ClientOK, Late, Stops
<1>5. Known(c)'
  <2>1. CASE pc[c] = "retrieve" /\ pc'[c] = "retrieve" /\ c \in known
    <3>1. /\ req[c] \in Request /\ req[c].op = "login"
          /\ accounts[req[c].user] = req[c].password
      BY <1>1, <1>2, <2>1 DEF ClientOK, Serving, Known
    <3>2. req[c].user \in Users /\ req[c].password \in Passwords
      BY <3>1 DEF Request
    <3>3. accounts'[req[c].user] = req[c].password
      BY <3>1, <3>2, NilIsNoValue DEF AccountsGrow
    <3> QED
      BY <1>1, <2>1, <3>3 DEF ClientOK, Known, Stops
  <2>2. CASE ~(pc[c] = "retrieve" /\ pc'[c] = "retrieve" /\ c \in known)
    BY <1>1, <2>2 DEF ClientOK, Known, Stops
  <2> QED
    BY <2>1, <2>2
<1>6. Saving(c)'
  <2> SUFFICES ASSUME pc'[c] = "save"
               PROVE  /\ Made(newToken[c])' /\ newToken[c] \notin delivered'
                      /\ owner'[newToken[c]] = userID[c]
                      /\ req[c].op = "refresh" => req[c].token \in delivered'
                      /\ Entitled(req[c], userID[c])'
    BY DEF Saving
  <2>1. pc[c] = "save"
    BY DEF Stops
  <2>2. /\ Made(newToken[c]) /\ owner[newToken[c]] = userID[c]
        /\ req[c].op = "refresh" => req[c].token \in delivered
        /\ Entitled(req[c], userID[c])
        /\ req[c] \in Request
    BY <1>1, <1>2, <2>1 DEF ClientOK, Saving, Serving
  <2>3. userID[c] \in Users
    BY <2>2 DEF Made
  <2>4. req[c].op = "refresh" => Made(req[c].token)
    BY <1>1, <2>2 DEF TokensOK
  <2>5. Entitled(req[c], userID[c])'
    BY <1>1, <2>2, <2>3, <2>4, EntitledLasts DEF Made, Entitled
  <2> QED
    BY <1>1, <2>1, <2>2, <2>5, MadeLasts DEF Made
<1>7. Answered(c)'
  <2> SUFFICES ASSUME status'[c] = "ok"
               PROVE  /\ req[c] # Nil /\ Made(newToken[c])'
                      /\ req[c].op = "refresh" => Made(req[c].token)'
                      /\ Entitled(req[c], owner[newToken[c]])'
    BY DEF Answered
  <2>1. /\ req[c] # Nil /\ Made(newToken[c])
        /\ req[c].op = "refresh" => Made(req[c].token)
        /\ Entitled(req[c], owner[newToken[c]])
    BY <1>1 DEF ClientOK, Answered, Stops
  <2> QED
    BY <1>1, <1>2, <2>1, MadeLasts, EntitledLasts DEF Made, Entitled
<1> QED
  BY <1>3, <1>4, <1>5, <1>6, <1>7 DEF ClientOK

(***************************************************************************)
(* Steps that make no handler go on, whatever they do to Redis.            *)
(***************************************************************************)
LEMMA HandlersKept ==
  ASSUME SessionInv, TypeOK', TokensOK', AccountsGrow,
         UNCHANGED <<owner, req, userID, newToken, delivered>>,
         late' \subseteq late, late' # {} => Replaced \subseteq Replaced',
         known' \subseteq known,
         \A c \in Clients : Stops(c)
  PROVE  SessionInv'
<1>1. TokensKept
  BY DEF TokensKept
<1>2. TokensApart'
  BY DEF SessionInv, TokensApart, Stops
<1>3. RegisteringApart'
  <2>1. ASSUME NEW c \in Clients, Registering(c)'
        PROVE  Registering(c) /\ req[c].user \in Users
    <3>1. Registering(c)
      BY <2>1 DEF Registering, Stops
    <3>2. req[c] \in Request /\ req[c].op = "register"
      BY <3>1 DEF Registering, SessionInv, TypeOK
    <3> QED
      BY <3>1, <3>2 DEF Request
  <2> QED
    BY <2>1 DEF SessionInv, RegisteringApart, AccountsGrow
<1>4. ASSUME NEW c \in Clients
      PROVE  ClientOK(c)'
  <2>1. pc[c] = "save" => newToken[c] \notin delivered'
    BY DEF SessionInv, ClientOK, Saving
  <2> QED
    BY <1>1, <2>1, ClientKept
<1> QED
  BY <1>2, <1>3, <1>4 DEF SessionInv

BoundsKept == received' \in Nat /\ faults' \in Nat /\ restarts' \in Nat

(***************************************************************************)
(* The same, when Redis is left alone.                                     *)
(***************************************************************************)
LEMMA StopsPreserve ==
  ASSUME SessionInv, AccountsGrow, BoundsKept,
         UNCHANGED <<redisVars, owner, req, userID, newToken, historyVars>>,
         expired' \in SUBSET Tokens,
         pc' \in [Clients -> Steps],
         status' \in [Clients -> Statuses \cup {Nil}],
         \A c \in Clients : Stops(c)
  PROVE  SessionInv'
<1> USE DEF redisVars, historyVars
<1>1. TypeOK /\ TokensOK
  BY DEF SessionInv
<1>2. TypeOK'
  BY <1>1 DEF TypeOK, AccountsGrow, BoundsKept
<1>3. TokensOK'
  BY <1>1 DEF TokensOK, StoredAreOwn, Made, AccountsGrow
<1>4. Replaced \subseteq Replaced'
  BY DEF Replaced
<1> QED
  BY <1>2, <1>3, <1>4, HandlersKept

(***************************************************************************)
(* Steps of Redis alone: a key changes, a SET comes to be under way or is  *)
(* executed.                                                               *)
(***************************************************************************)
LEMMA StoresPreserve ==
  ASSUME SessionInv, BoundsKept,
         session' \in [Users -> Tokens \cup {Nil}],
         snapshot' \in [Users -> Tokens \cup {Nil}],
         copies' \in SUBSET [user : Users, token : Tokens, id : Nat],
         StoredAreOwn',
         \A copy \in copies' : Made(copy.token) /\ copy.user = owner[copy.token],
         UNCHANGED <<accounts, tokenVars, req, userID, newToken, delivered, known>>,
         late' = {} \/ (late' = late /\ Replaced \subseteq Replaced'),
         pc' \in [Clients -> Steps],
         status' \in [Clients -> Statuses \cup {Nil}],
         \A c \in Clients : Stops(c)
  PROVE  SessionInv'
<1> USE DEF tokenVars
<1>1. TypeOK /\ TokensOK
  BY DEF SessionInv
<1>2. TypeOK'
  BY <1>1 DEF TypeOK, BoundsKept
<1>3. TokensOK'
  BY <1>1 DEF TokensOK, Made
<1>4. AccountsGrow
  BY <1>1 DEF AccountsGrow, TypeOK
<1> QED
  BY <1>2, <1>3, <1>4, HandlersKept

--------------------------------------------------------------------------------
(***************************************************************************)
(* A handler makes a token and goes on to save it.                         *)
(***************************************************************************)
LEMMA GeneratePreserves ==
  ASSUME SessionInv, AccountsGrow, BoundsKept,
         NEW c \in Clients, NEW user \in Users,
         GenerateFor(c, user),
         UNCHANGED <<redisVars, expired, req, historyVars>>,
         pc[c] # "idle", pc[c] # "save", c \notin late,
         accounts'[user] # Nil,
         req[c].op = "refresh" =>
           req[c].token \in delivered /\ owner[req[c].token] = user,
         req[c].op # "refresh" =>
           req[c].user = user /\ accounts'[user] = req[c].password,
         req[c].op = "register" => accounts[req[c].user] = Nil
  PROVE  SessionInv'
<1> USE DEF redisVars, historyVars
<1>1. PICK t \in Tokens :
        /\ owner[t] = Nil
        /\ owner' = [owner EXCEPT ![t] = user]
        /\ newToken' = [newToken EXCEPT ![c] = t]
  BY DEF GenerateFor
<1>2. /\ pc' = [pc EXCEPT ![c] = "save"]
      /\ userID' = [userID EXCEPT ![c] = user]
      /\ status' = status
  BY DEF GenerateFor
<1>3. TypeOK /\ TokensOK
  BY DEF SessionInv
<1>4. TypeOK'
  BY <1>1, <1>2, <1>3 DEF TypeOK, AccountsGrow, BoundsKept, Steps
<1>5. user # Nil
  BY NilIsNoValue
<1>6. /\ owner'[t] = user /\ newToken'[c] = t /\ pc'[c] = "save" /\ userID'[c] = user
      /\ \A s \in Tokens : s # t => owner'[s] = owner[s]
      /\ \A d \in Clients : d # c => /\ newToken'[d] = newToken[d] /\ pc'[d] = pc[d]
                                     /\ userID'[d] = userID[d]
  BY <1>1, <1>2, <1>3 DEF TypeOK
<1>7. TokensKept
  BY <1>1, <1>6 DEF TokensKept
<1>8. ASSUME NEW s, Made(s)
      PROVE  s # t
  BY <1>1, <1>8, NilIsNoValue DEF Made
<1>9. TokensOK'
  <2>1. StoredAreOwn'
    <3>1. ASSUME NEW u \in Users, NEW token \in {session[u], snapshot[u]}, token # Nil
          PROVE  owner'[token] = u /\ accounts'[u] # Nil
      <4>1. token \in Tokens /\ owner[token] = u /\ accounts[u] # Nil
        BY <1>3, <3>1 DEF TokensOK, StoredAreOwn, TypeOK
      <4> QED
        BY <1>1, <1>6, <4>1, NilIsNoValue DEF AccountsGrow
    <3> QED
      BY <3>1 DEF StoredAreOwn
  <2>2. \A s \in delivered : Made(s)'
    BY <1>3, <1>7, MadeLasts DEF TokensOK, Made
  <2>3. \A copy \in copies : Made(copy.token)' /\ copy.user = owner'[copy.token]
    BY <1>3, <1>7, MadeLasts DEF TokensOK, Made
  <2> QED
    BY <2>1, <2>2, <2>3 DEF TokensOK
<1>10. ASSUME NEW d \in Clients, d # c, pc[d] = "save"
       PROVE  newToken[d] # t
  BY <1>8, <1>10 DEF SessionInv, ClientOK, Saving
<1>11. TokensApart'
  BY <1>6, <1>10 DEF SessionInv, TokensApart
<1>12. RegisteringApart'
  <2>1. ASSUME NEW d \in Clients, d # c
        PROVE  Registering(d)' <=> Registering(d)
    BY <1>2, <1>6, <2>1 DEF Registering
  <2>2. ASSUME NEW d \in Clients, Registering(d)
        PROVE  req[d].user \in Users
    BY <1>3, <2>2, NilIsNoRequest DEF Registering, TypeOK, Request
  <2>3. ASSUME NEW d \in Clients, Registering(d)'
        PROVE  accounts'[req[d].user] # Nil
    <3>1. CASE d = c
      BY <2>3, <3>1 DEF Registering
    <3>2. CASE d # c
      BY <2>1, <2>2, <2>3, <3>2 DEF SessionInv, RegisteringApart, AccountsGrow
    <3> QED
      BY <3>1, <3>2
  <2>4. ASSUME NEW d \in Clients, d # c, Registering(d)', Registering(c)'
        PROVE  req[d].user # req[c].user
    BY <2>1, <2>4 DEF SessionInv, RegisteringApart, Registering
  <2> QED
    BY <2>1, <2>3, <2>4 DEF SessionInv, RegisteringApart
<1>13. Replaced \subseteq Replaced'
  BY <1>7, ReplacedLasts
<1>14. ASSUME NEW d \in Clients
       PROVE  ClientOK(d)'
  <2>1. ClientOK(c)
    BY DEF SessionInv
  <2>2. CASE d # c
    <3>1. pc[d] = "save" => newToken[d] \notin delivered'
      BY DEF SessionInv, ClientOK, Saving
    <3>2. Stops(d)
      BY <1>2, <1>6, <2>2 DEF Stops
    <3> QED
      BY <1>6, <1>7, <1>13, <2>2, <3>1, <3>2, ClientKept
  <2>3. CASE d = c
    <3>1. t \notin delivered
      BY <1>3, <1>8 DEF TokensOK
    <3>2. Made(t)'
      BY <1>6 DEF Made
    <3>3. Entitled(req[c], user)'
      <4>1. CASE req[c].op = "refresh"
        BY <1>3, <1>7, <4>1, MadeLasts DEF Entitled, TokensOK, Made
      <4>2. CASE req[c].op # "refresh"
        BY <4>2 DEF Entitled
      <4> QED
        BY <4>1, <4>2
    <3>4. Saving(c)'
      BY <1>6, <3>1, <3>2, <3>3 DEF Saving, Made, Entitled
    <3>5. Serving(c)' /\ Late(c)' /\ Known(c)'
      BY <1>2, <1>6, <2>1 DEF ClientOK, Serving, Late, Known
    <3>6. Answered(c)'
      BY <1>2, <2>1, NilIsNoRequest DEF ClientOK, Serving, Answered, Statuses
    <3> QED
      BY <2>3, <3>4, <3>5, <3>6 DEF ClientOK
  <2> QED
    BY <2>2, <2>3
<1> QED
  BY <1>4, <1>9, <1>11, <1>12, <1>14 DEF SessionInv

--------------------------------------------------------------------------------
(***************************************************************************)
(* The SET of a handler.  The token put in place is no one's yet, so it is *)
(* none of those that were replaced.                                       *)
(***************************************************************************)
SavesToken(c) == session' = [session EXCEPT ![userID[c]] = newToken[c]]

LEMMA SavedIsNew ==
  ASSUME SessionInv, NEW c \in Clients, pc[c] = "save", SavesToken(c),
         UNCHANGED <<copies, owner>>, delivered \subseteq delivered'
  PROVE  /\ newToken[c] \in Tokens \ delivered /\ Made(newToken[c])
         /\ userID[c] \in Users /\ owner[newToken[c]] = userID[c]
         /\ session' \in [Users -> Tokens \cup {Nil}]
         /\ StoredAreOwn => (UNCHANGED <<accounts, snapshot>> => StoredAreOwn')
         /\ Replaced \subseteq Replaced'
<1>1. TypeOK /\ TokensOK
  BY DEF SessionInv
<1>2. /\ newToken[c] \in Tokens \ delivered /\ Made(newToken[c])
      /\ userID[c] \in Users /\ owner[newToken[c]] = userID[c]
  BY DEF SessionInv, ClientOK, Saving, Made
<1>3. session' \in [Users -> Tokens \cup {Nil}]
  BY <1>1, <1>2 DEF TypeOK, SavesToken
<1>4. ASSUME StoredAreOwn, UNCHANGED <<accounts, snapshot>>
      PROVE  StoredAreOwn'
  BY <1>1, <1>2, <1>4 DEF StoredAreOwn, SavesToken, TypeOK, Made
<1>5. ASSUME NEW t \in Replaced
      PROVE  t \in Replaced'
  <2>1. t \in delivered /\ owner[t] \in Users /\ session[owner[t]] # t
    BY <1>1, <1>5 DEF Replaced, TokensOK, Made
  <2>2. session'[owner[t]] # t
    BY <1>1, <1>2, <2>1 DEF SavesToken, TypeOK
  <2> QED
    BY <1>5, <2>1, <2>2 DEF Replaced
<1> QED
  BY <1>2, <1>3, <1>4, <1>5

LEMMA SavePreserves ==
  ASSUME SessionInv, NEW c \in Clients, Save(c)
  PROVE  SessionInv'
<1> USE DEF tokenVars
<1> DEFINE token == newToken[c]
<1>1. TypeOK /\ TokensOK /\ ClientOK(c) /\ pc[c] = "save"
  BY DEF SessionInv, Save
<1>2. /\ SavesToken(c)
      /\ UNCHANGED <<accounts, snapshot, copies, owner, expired, req, userID, newToken,
                     received, restarts, late, known>>
      /\ pc' = [pc EXCEPT ![c] = "idle"]
      /\ \/ /\ status' = [status EXCEPT ![c] = "ok"]
            /\ delivered' = delivered \cup {token}
         \/ /\ status' = [status EXCEPT ![c] = "error"]
            /\ delivered' = delivered
      /\ BoundsKept
  BY <1>1 DEF Save, SetSession, SavesToken, Answer, ReplyLost, BoundsKept, TypeOK
<1>3. /\ token \in Tokens \ delivered /\ Made(token)
      /\ userID[c] \in Users /\ owner[token] = userID[c]
      /\ session' \in [Users -> Tokens \cup {Nil}]
      /\ StoredAreOwn'
      /\ Replaced \subseteq Replaced'
  BY <1>1, <1>2, SavedIsNew DEF TokensOK
<1>4. TypeOK'
  BY <1>1, <1>2, <1>3 DEF TypeOK, BoundsKept, Steps, Statuses
<1>5. TokensOK'
  BY <1>1, <1>2, <1>3 DEF TokensOK, Made
<1>6. AccountsGrow /\ TokensKept
  BY <1>1, <1>2 DEF AccountsGrow, TokensKept, TypeOK
<1>7. /\ pc'[c] = "idle" /\ status'[c] \in {"ok", "error"}
      /\ \A d \in Clients : d # c => pc'[d] = pc[d] /\ status'[d] = status[d]
  BY <1>1, <1>2 DEF TypeOK
<1>8. TokensApart'
  BY <1>2, <1>7 DEF SessionInv, TokensApart
<1>9. RegisteringApart'
  <2>1. \A d \in Clients : Registering(d)' => Registering(d)
    BY <1>1, <1>2, <1>7 DEF Registering
  <2> QED
    BY <1>2, <2>1 DEF SessionInv, RegisteringApart
<1>10. ASSUME NEW d \in Clients
       PROVE  ClientOK(d)'
  <2>1. CASE d # c
    <3>1. pc[d] = "save" => newToken[d] \notin delivered'
      BY <1>1, <1>2, <2>1 DEF SessionInv, ClientOK, Saving, TokensApart
    <3>2. Stops(d)
      BY <1>7, <2>1 DEF Stops
    <3> QED
      BY <1>2, <1>3, <1>6, <3>1, <3>2, ClientKept
  <2>2. CASE d = c
    <3>1. /\ req[c].op = "refresh" => Made(req[c].token)
          /\ Entitled(req[c], userID[c]) /\ req[c] # Nil /\ c \notin late
      BY <1>1 DEF ClientOK, Saving, Serving, Late, TokensOK
    <3>2. Answered(c)'
      BY <1>2, <1>3, <3>1 DEF Answered, Made, Entitled
    <3>3. Serving(c)' /\ Saving(c)' /\ Late(c)'
      BY <1>2, <1>7, <3>1 DEF Serving, Saving, Late
    <3>4. Known(c)'
      BY <1>1, <1>2, <1>7 DEF ClientOK, Known
    <3> QED
      BY <2>2, <3>2, <3>3, <3>4 DEF ClientOK
  <2> QED
    BY <2>1, <2>2
<1> QED
  BY <1>4, <1>5, <1>8, <1>9, <1>10 DEF SessionInv

--------------------------------------------------------------------------------
(***************************************************************************)
(* The actions.                                                            *)
(***************************************************************************)
LEMMA ReceivePreserves ==
  ASSUME SessionInv, NEW c \in Clients, Receive(c)
  PROVE  SessionInv'
<1> USE DEF storeVars, redisVars, tokenVars
<1>1. PICK request \in Credentials \cup Refreshes :
        /\ req' = [req EXCEPT ![c] = request]
        /\ pc' = [pc EXCEPT ![c] = FirstStep[request.op]]
        /\ late' = IF request.op = "refresh" /\ request.token \in Replaced
                   THEN late \cup {c}
                   ELSE late \ {c}
        /\ known' = IF request.op = "login" /\ accounts[request.user] = request.password
                    THEN known \cup {c}
                    ELSE known \ {c}
  BY DEF Receive
<1>2. /\ UNCHANGED <<accounts, session, snapshot, copies, owner, expired, faults, restarts,
                     delivered>>
      /\ userID' = [userID EXCEPT ![c] = Nil]
      /\ newToken' = [newToken EXCEPT ![c] = Nil]
      /\ status' = [status EXCEPT ![c] = Nil]
      /\ received' = received + 1
  BY DEF Receive
<1>3. TypeOK /\ TokensOK
  BY DEF SessionInv
<1>4. /\ request \in Request /\ request # Nil
      /\ request.op \in {"register", "login", "refresh"}
      /\ request.op = "refresh" => request.token \in delivered \cup {Nil}
  BY <1>3, NilIsNoRequest DEF Credentials, Refreshes, Request, TypeOK
<1>5. /\ req'[c] = request /\ status'[c] = Nil /\ pc'[c] = FirstStep[request.op]
      /\ \A d \in Clients : d # c => /\ req'[d] = req[d] /\ pc'[d] = pc[d]
                                     /\ status'[d] = status[d]
                                     /\ userID'[d] = userID[d]
                                     /\ newToken'[d] = newToken[d]
                                     /\ d \in late' <=> d \in late
                                     /\ d \in known' <=> d \in known
  BY <1>1, <1>2, <1>3 DEF TypeOK
<1>6. /\ pc'[c] \in {"insert", "retrieve", "get"}
      /\ pc'[c] = "insert" => request.op = "register"
      /\ pc'[c] = "retrieve" <=> request.op = "login"
      /\ pc'[c] = "get" <=> request.op = "refresh"
  BY <1>4, <1>5 DEF FirstStep
<1>7. TypeOK'
  <2>1. /\ req' \in [Clients -> Request \cup {Nil}]
        /\ pc' \in [Clients -> Steps]
        /\ late' \in SUBSET Clients
        /\ known' \in SUBSET Clients
    BY <1>1, <1>3, <1>4, <1>5, <1>6 DEF TypeOK, Steps
  <2>2. /\ newToken' \in [Clients -> Tokens \cup {Nil}]
        /\ userID' \in [Clients -> Users \cup {Nil}]
        /\ status' \in [Clients -> Statuses \cup {Nil}]
        /\ received' \in Nat
    BY <1>2, <1>3 DEF TypeOK
  <2> QED
    BY <1>2, <1>3, <2>1, <2>2 DEF TypeOK
<1>8. TokensOK'
  BY <1>2, <1>3 DEF TokensOK, StoredAreOwn, Made
<1>9. TokensApart'
  BY <1>5, <1>6 DEF SessionInv, TokensApart
<1>10. RegisteringApart'
  <2>1. ~Registering(c)'
    BY <1>5, <1>6, NilIsNoRequest DEF Registering, Statuses
  <2>2. ASSUME NEW d \in Clients, d # c
        PROVE  Registering(d)' <=> Registering(d)
    BY <1>5, <2>2 DEF Registering
  <2> QED
    BY <1>2, <1>5, <2>1, <2>2 DEF SessionInv, RegisteringApart
<1>11. AccountsGrow /\ TokensKept /\ Replaced \subseteq Replaced'
  BY <1>2, <1>3 DEF AccountsGrow, TokensKept, Replaced, TypeOK
<1>12. ASSUME NEW d \in Clients
       PROVE  ClientOK(d)'
  <2>1. CASE d # c
    <3>1. pc[d] = "save" => newToken[d] \notin delivered'
      BY <1>2 DEF SessionInv, ClientOK, Saving
    <3>2. Stops(d)
      BY <1>5, <2>1 DEF Stops
    <3> QED
      BY <1>2, <1>5, <1>11, <2>1, <3>1, <3>2, ClientKept
  <2>2. CASE d = c
    <3>1. status'[c] \notin Statuses
      BY <1>5, NilIsNoRequest
    <3>2. /\ c \in late' => request.op = "refresh" /\ request.token \in Replaced
          /\ c \in known' => /\ request.op = "login"
                             /\ accounts[request.user] = request.password
      BY <1>1
    <3>3. Serving(c)' /\ Saving(c)' /\ Answered(c)'
      BY <1>2, <1>4, <1>5, <1>6, <3>1 DEF Serving, Saving, Answered, Statuses
    <3>4. Late(c)' /\ Known(c)'
      BY <1>2, <1>5, <1>6, <1>11, <3>1, <3>2 DEF Late, Known, Statuses
    <3> QED
      BY <2>2, <3>3, <3>4 DEF ClientOK
  <2> QED
    BY <2>1, <2>2
<1> QED
  BY <1>7, <1>8, <1>9, <1>10, <1>12 DEF SessionInv

(***************************************************************************)
(* What a handler is answered with when it is not with success.            *)
(***************************************************************************)
LEMMA AnswerStops ==
  ASSUME SessionInv, NEW c \in Clients,
         NEW s \in {"exists", "unauthorized", "error"}, Answer(c, s),
         c \in known => s = "error"
  PROVE  /\ pc' \in [Clients -> Steps] /\ status' \in [Clients -> Statuses \cup {Nil}]
         /\ \A d \in Clients : Stops(d)
BY DEF SessionInv, TypeOK, Steps, Statuses, Stops, Answer

LEMMA FaultStops ==
  ASSUME SessionInv, NEW c \in Clients, ReplyLost(c)
  PROVE  /\ pc' \in [Clients -> Steps] /\ status' \in [Clients -> Statuses \cup {Nil}]
         /\ faults' \in Nat
         /\ \A d \in Clients : Stops(d)
<1>1. faults' \in Nat /\ Answer(c, "error")
  BY DEF SessionInv, TypeOK, ReplyLost
<1> QED
  BY <1>1, AnswerStops

LEMMA InsertPreserves ==
  ASSUME SessionInv, NEW c \in Clients, Insert(c)
  PROVE  SessionInv'
<1> USE DEF EmailExists, RepoInsertUser
<1> DEFINE user == req[c].user
<1>1. TypeOK /\ ClientOK(c) /\ pc[c] = "insert"
  BY DEF SessionInv, Insert
<1>2. /\ c \notin late /\ c \notin known
      /\ req[c] \in Request /\ req[c].op = "register"
  BY <1>1 DEF ClientOK, Serving, Late, Known, TypeOK
<1>3. user \in Users /\ req[c].password \in Passwords
  BY <1>2 DEF Request
<1>4. UNCHANGED <<redisVars, expired, req, historyVars, received, restarts>>
  BY DEF Insert
<1>5. CASE accounts[user] = Nil
  <2>1. accounts' = [accounts EXCEPT ![user] = req[c].password]
    BY <1>5 DEF Insert
  <2>2. AccountsGrow /\ accounts'[user] = req[c].password /\ accounts'[user] # Nil
    <3>1. accounts \in [Users -> Passwords \cup {Nil}]
      BY <1>1 DEF TypeOK
    <3>2. accounts'[user] = req[c].password /\ accounts'[user] # Nil
      BY <1>3, <2>1, <3>1, NilIsNoValue
    <3>3. AccountsGrow
      BY <1>3, <1>5, <2>1, <3>1 DEF AccountsGrow
    <3> QED
      BY <3>2, <3>3
  <2>3. CASE GenerateFor(c, user)
    <3>1. BoundsKept
      BY <1>1, <1>4, <2>3 DEF GenerateFor, BoundsKept, TypeOK
    <3> QED
      BY <1>1, <1>2, <1>3, <1>4, <1>5, <2>2, <2>3, <3>1, GeneratePreserves
  <2>4. CASE ReplyLost(c) /\ UNCHANGED <<owner, userID, newToken>>
    <3>1. BoundsKept
      BY <1>1, <1>4, <2>4, FaultStops DEF BoundsKept, TypeOK
    <3> QED
      BY <1>1, <1>4, <2>2, <2>4, <3>1, FaultStops, StopsPreserve DEF TypeOK
  <2> QED
    BY <1>5, <2>3, <2>4 DEF Insert
<1>6. CASE accounts[user] # Nil
  <2>1. Answer(c, "exists") /\ UNCHANGED <<accounts, owner, userID, newToken, faults>>
    BY <1>6 DEF Insert
  <2>2. AccountsGrow /\ BoundsKept
    BY <1>1, <1>4, <2>1 DEF AccountsGrow, BoundsKept, TypeOK
  <2> QED
    BY <1>1, <1>2, <1>4, <2>1, <2>2, AnswerStops, StopsPreserve DEF TypeOK
<1> QED
  BY <1>5, <1>6

LEMMA RetrievePreserves ==
  ASSUME SessionInv, NEW c \in Clients, Retrieve(c)
  PROVE  SessionInv'
<1> USE DEF RepoRetrieveUser
<1> DEFINE user == req[c].user
<1>1. TypeOK /\ ClientOK(c) /\ pc[c] = "retrieve"
  BY DEF SessionInv, Retrieve
<1>2. /\ c \notin late
      /\ c \in known => accounts[user] = req[c].password
      /\ req[c] \in Request /\ req[c].op = "login"
  BY <1>1 DEF ClientOK, Serving, Late, Known, TypeOK
<1>3. user \in Users /\ req[c].password \in Passwords
  BY <1>2 DEF Request
<1>4. UNCHANGED <<accounts, redisVars, expired, req, historyVars, received, restarts, faults>>
  BY DEF Retrieve, GenerateFor, storeVars
<1>5. AccountsGrow /\ BoundsKept
  BY <1>1, <1>4 DEF AccountsGrow, BoundsKept, TypeOK
<1>6. CASE accounts[user] = req[c].password /\ GenerateFor(c, user)
  <2>1. accounts'[user] = req[c].password /\ accounts'[user] # Nil
    BY <1>3, <1>4, <1>6, NilIsNoValue
  <2> QED
    BY <1>1, <1>2, <1>3, <1>4, <1>5, <1>6, <2>1, GeneratePreserves
<1>7. CASE /\ accounts[user] # req[c].password
           /\ Answer(c, "unauthorized") /\ UNCHANGED <<owner, userID, newToken>>
  BY <1>1, <1>2, <1>4, <1>5, <1>7, AnswerStops, StopsPreserve DEF TypeOK
<1> QED
  BY <1>6, <1>7 DEF Retrieve

LEMMA GetPreserves ==
  ASSUME SessionInv, NEW c \in Clients, Get(c)
  PROVE  SessionInv'
<1> USE DEF GetRefreshToken
<1> DEFINE token == req[c].token
<1>1. TypeOK /\ TokensOK /\ ClientOK(c) /\ pc[c] = "get"
  BY DEF SessionInv, Get
<1>2. c \notin known /\ req[c].op = "refresh" /\ token \in delivered \cup {Nil}
  BY <1>1 DEF ClientOK, Serving, Known
<1>3. UNCHANGED <<accounts, redisVars, expired, req, historyVars, received, restarts, faults>>
  BY DEF Get, GenerateFor, storeVars
<1>4. AccountsGrow /\ BoundsKept
  BY <1>1, <1>3 DEF AccountsGrow, BoundsKept, TypeOK
<1>5. CASE ValidJWT(token) /\ session[owner[token]] = token /\ GenerateFor(c, owner[token])
  <2>1. token \in delivered /\ Made(token)
    BY <1>1, <1>2, <1>5 DEF ValidJWT, TokensOK
  <2>2. owner[token] \in Users /\ accounts'[owner[token]] # Nil
    BY <1>3, <2>1 DEF Made
  (* A replaced token is in nobody's session. *)
  <2>3. c \notin late
    BY <1>1, <1>5 DEF ClientOK, Late, Replaced
  <2> QED
    BY <1>1, <1>2, <1>3, <1>4, <1>5, <2>1, <2>2, <2>3, GeneratePreserves
<1>6. CASE \/ Answer(c, "unauthorized") /\ UNCHANGED <<owner, userID, newToken>>
           \/ Answer(c, "error") /\ UNCHANGED <<owner, userID, newToken>>
  BY <1>1, <1>2, <1>3, <1>4, <1>6, AnswerStops, StopsPreserve DEF TypeOK
<1> QED
  BY <1>5, <1>6 DEF Get

(***************************************************************************)
(* A SET that is given up: its copy carries what the handler was about to  *)
(* store.                                                                  *)
(***************************************************************************)
LEMMA SaveTimesOutPreserves ==
  ASSUME SessionInv, NEW c \in Clients, SaveTimesOut(c)
  PROVE  SessionInv'
<1>1. TypeOK /\ TokensOK /\ ClientOK(c) /\ pc[c] = "save"
  BY DEF SessionInv, SaveTimesOut
<1>2. /\ copies' = copies \cup {[user |-> userID[c], token |-> newToken[c], id |-> faults]}
      /\ faults' = faults + 1
      /\ UNCHANGED <<pc, status>> \/ Answer(c, "error")
      /\ UNCHANGED <<accounts, session, snapshot, tokenVars, req, userID, newToken,
                     received, restarts, delivered, late, known>>
  BY DEF SaveTimesOut, historyVars
<1>3. /\ newToken[c] \in Tokens \ delivered /\ Made(newToken[c])
      /\ userID[c] \in Users /\ owner[newToken[c]] = userID[c]
  BY <1>1 DEF ClientOK, Saving, Made
<1>4. /\ copies' \in SUBSET [user : Users, token : Tokens, id : Nat]
      /\ \A copy \in copies' : Made(copy.token) /\ copy.user = owner[copy.token]
  BY <1>1, <1>2, <1>3 DEF TypeOK, TokensOK
<1>5. BoundsKept /\ StoredAreOwn'
  BY <1>1, <1>2 DEF BoundsKept, TypeOK, TokensOK, StoredAreOwn, tokenVars
<1>6. Replaced \subseteq Replaced'
  BY <1>2, <1>3 DEF Replaced, tokenVars
<1>7. /\ pc' \in [Clients -> Steps] /\ status' \in [Clients -> Statuses \cup {Nil}]
      /\ \A d \in Clients : Stops(d)
  BY <1>1, <1>2, AnswerStops DEF TypeOK, Stops
<1> QED
  BY <1>1, <1>2, <1>4, <1>5, <1>6, <1>7, StoresPreserve DEF TypeOK

(***************************************************************************)
(* A late copy puts back only its own token, which does not count as       *)
(* replaced as long as the copy is under way.                              *)
(***************************************************************************)
LEMMA CopyArrivesPreserves ==
  ASSUME SessionInv, CopyArrives
  PROVE  SessionInv' /\ Replaced \subseteq Replaced'
<1> USE DEF tokenVars, requestVars, historyVars, boundVars
<1>1. TypeOK /\ TokensOK
  BY DEF SessionInv
<1>2. PICK copy \in copies :
        session' = [session EXCEPT ![copy.user] = copy.token] /\ copies' = copies \ {copy}
  BY DEF CopyArrives, SetSession
<1>3. /\ copy.user \in Users /\ copy.token \in Tokens
      /\ Made(copy.token) /\ copy.user = owner[copy.token]
  BY <1>1, <1>2 DEF TypeOK, TokensOK
<1>4. /\ session' \in [Users -> Tokens \cup {Nil}]
      /\ StoredAreOwn'
  BY <1>1, <1>2, <1>3 DEF CopyArrives, TypeOK, TokensOK, StoredAreOwn, Made
<1>5. ASSUME NEW t \in Replaced
      PROVE  t \in Replaced'
  <2>1. /\ t \in delivered /\ owner[t] \in Users
        /\ session[owner[t]] # t /\ copy.token # t
    BY <1>1, <1>2, <1>5 DEF Replaced, TokensOK, Made
  <2> QED
    BY <1>1, <1>2, <1>3, <1>5, <2>1 DEF Replaced, CopyArrives, TypeOK
<1>6. BoundsKept /\ \A c \in Clients : Stops(c)
  BY <1>1 DEF CopyArrives, BoundsKept, TypeOK, Stops
<1>7. /\ copies' \in SUBSET [user : Users, token : Tokens, id : Nat]
      /\ \A other \in copies' : Made(other.token) /\ other.user = owner[other.token]
  BY <1>1, <1>2 DEF TypeOK, TokensOK
<1>8. SessionInv'
  BY <1>1, <1>4, <1>5, <1>6, <1>7, StoresPreserve DEF CopyArrives, TypeOK
<1> QED
  BY <1>5, <1>8

LEMMA FailuresPreserve ==
  ASSUME SessionInv, Crash \/ TokenExpires \/ \E c \in Clients : CommandFails(c)
  PROVE  SessionInv'
<1>1. TypeOK
  BY DEF SessionInv
<1>2. /\ UNCHANGED <<accounts, redisVars, owner, req, userID, newToken, received, restarts,
                     historyVars>>
      /\ expired' \in SUBSET Tokens /\ faults' \in Nat
  BY <1>1
  DEF Crash, TokenExpires, CommandFails, ReplyLost, storeVars, requestVars, boundVars,
      tokenVars, TypeOK
<1>3. AccountsGrow /\ BoundsKept
  BY <1>1, <1>2 DEF AccountsGrow, BoundsKept, TypeOK
<1>4. /\ pc' \in [Clients -> Steps] /\ status' \in [Clients -> Statuses \cup {Nil}]
      /\ \A c \in Clients : Stops(c)
  <2>1. CASE \E c \in Clients : CommandFails(c)
    BY <2>1, FaultStops DEF CommandFails
  <2>2. CASE TokenExpires
    BY <1>1, <2>2 DEF TokenExpires, requestVars, TypeOK, Stops
  <2>3. CASE Crash
    BY <1>1, <2>3 DEF Crash, TypeOK, Stops, Steps, Statuses
  <2> QED
    BY <2>1, <2>2, <2>3
<1> QED
  BY <1>2, <1>3, <1>4, StopsPreserve

LEMMA RedisPreserves ==
  ASSUME SessionInv, KeyExpires \/ RedisSaves \/ RedisRestarts
  PROVE  SessionInv'
<1> USE DEF requestVars, boundVars, historyVars, tokenVars
<1>1. TypeOK /\ TokensOK
  BY DEF SessionInv
<1>2. /\ BoundsKept
      /\ UNCHANGED <<accounts, tokenVars, req, userID, newToken, delivered, known, pc, status>>
  BY <1>1 DEF KeyExpires, RedisSaves, RedisRestarts, BoundsKept, TypeOK
<1>3. \A c \in Clients : Stops(c)
  BY <1>2 DEF Stops
<1>4. /\ session' \in [Users -> Tokens \cup {Nil}]
      /\ snapshot' \in [Users -> Tokens \cup {Nil}]
      /\ copies' \subseteq copies
      /\ \A u \in Users : /\ session'[u] \in {session[u], snapshot[u], Nil}
                          /\ snapshot'[u] \in {session[u], snapshot[u]}
  BY <1>1 DEF KeyExpires, RedisSaves, RedisRestarts, TypeOK
<1>5. StoredAreOwn'
  BY <1>1, <1>2, <1>4 DEF TokensOK, StoredAreOwn
<1>6. late' = {} \/ (late' = late /\ Replaced \subseteq Replaced')
  <2>1. CASE RedisRestarts
    BY <2>1 DEF RedisRestarts
  <2>2. CASE KeyExpires
    BY <1>1, <2>2, NilIsNoValue DEF KeyExpires, Replaced, TokensOK, Made, TypeOK
  <2>3. CASE RedisSaves
    BY <2>3 DEF RedisSaves, Replaced
  <2> QED
    BY <2>1, <2>2, <2>3
<1>7. /\ copies' \in SUBSET [user : Users, token : Tokens, id : Nat]
      /\ \A copy \in copies' : Made(copy.token) /\ copy.user = owner[copy.token]
  BY <1>1, <1>4 DEF TypeOK, TokensOK
<1> QED
  BY <1>1, <1>2, <1>3, <1>4, <1>5, <1>6, <1>7, StoresPreserve DEF TypeOK

LEMMA NextPreserves ==
  ASSUME SessionInv, [Next]_vars
  PROVE  SessionInv'
<1>1. CASE UNCHANGED vars
  <2>1. TypeOK
    BY DEF SessionInv
  <2>2. AccountsGrow /\ BoundsKept
    BY <1>1, <2>1 DEF vars, storeVars, boundVars, AccountsGrow, BoundsKept, TypeOK
  <2>3. UNCHANGED <<redisVars, owner, req, userID, newToken, historyVars, expired, pc, status>>
    BY <1>1 DEF vars, storeVars, tokenVars, requestVars
  <2> QED
    BY <2>1, <2>2, <2>3, StopsPreserve DEF TypeOK, Stops
<1>2. CASE Next
  BY <1>2, ReceivePreserves, InsertPreserves, RetrievePreserves, GetPreserves,
     SavePreserves, SaveTimesOutPreserves, CopyArrivesPreserves, FailuresPreserve,
     RedisPreserves
  DEF Next, Handle
<1> QED
  BY <1>1, <1>2

--------------------------------------------------------------------------------
(***************************************************************************)
(* SessionInv is inductive: what it says of the stores, of the tokens that *)
(* are on their way there and of the handlers holds throughout.            *)
(***************************************************************************)
THEOREM SessionsInductive == Spec => []SessionInv
<1> QED
  BY InitSessions, NextPreserves, PTL DEF Spec

(***************************************************************************)
(* Accounts, sessions and requests have their types throughout.            *)
(***************************************************************************)
THEOREM SessionTypes == Spec => []TypeOK
<1>1. SessionInv => TypeOK
  BY DEF SessionInv
<1> QED
  BY <1>1, SessionsInductive, PTL

(***************************************************************************)
(* No refresh token is ever stored under the key of a user it was not made *)
(* for, or of one without an account, and nobody is given a token for an   *)
(* account whose password or token he has not shown (user_service.go, all  *)
(* three requests, whose handlers pass the user and the token separately). *)
(***************************************************************************)
THEOREM SessionsNeverCross == Spec => []SessionsAreOwn
<1>1. SessionInv => SessionsAreOwn
  BY DEF SessionInv, TokensOK, SessionsAreOwn, GivenAreOwn, ClientOK, Answered
<1> QED
  BY <1>1, SessionsInductive, PTL

(***************************************************************************)
(* A refresh token that its user had and that was replaced gets nobody a   *)
(* new one, unless a SET of that very token was still to be executed when  *)
(* he came with it, or Redis has gone back to an older state since: the    *)
(* comparison in ServiceRefresh never finds it again.                      *)
(***************************************************************************)
THEOREM ReplacedAlwaysRefused == Spec => []ReplacedIsRefused
<1>1. SessionInv => ReplacedIsRefused
  <2> SUFFICES ASSUME SessionInv, NEW c \in late
               PROVE  status[c] # "ok" /\ pc[c] # "save"
    BY DEF ReplacedIsRefused
  <2>1. c \in Clients
    BY DEF SessionInv, TypeOK
  <2> QED
    BY <2>1 DEF SessionInv, ClientOK, Late
<1> QED
  BY <1>1, SessionsInductive, PTL

(***************************************************************************)
(* Whoever logs in with the password of an account is never told that it   *)
(* is wrong, though the registration of the account may have been answered *)
(* with an error and whatever is registered meanwhile.                     *)
(***************************************************************************)
THEOREM NobodyIsLockedOut == Spec => []NeverLockedOut
<1>1. SessionInv => NeverLockedOut
  <2> SUFFICES ASSUME SessionInv, NEW c \in known
               PROVE  status[c] \notin {"unauthorized", "exists"}
    BY DEF NeverLockedOut
  <2>1. c \in Clients
    BY DEF SessionInv, TypeOK
  <2> QED
    BY <2>1 DEF SessionInv, ClientOK, Known
<1> QED
  BY <1>1, SessionsInductive, PTL

(***************************************************************************)
(* Overlapping registrations of one address: one at most succeeds.         *)
(***************************************************************************)
THEOREM OneRegistration == Spec => []RegisteredOnce
<1>1. SessionInv => RegisteredOnce
  <2> SUFFICES ASSUME SessionInv
               PROVE  RegisteredOnce
    OBVIOUS
  <2>1. \A c \in Clients : HasRegistered(c) => Registering(c)
    BY DEF HasRegistered, Registering, SessionInv, ClientOK, Answered
  <2> QED
    BY <2>1 DEF RegisteredOnce, SessionInv, RegisteringApart
<1> QED
  BY <1>1, SessionsInductive, PTL

(***************************************************************************)
(* A session once replaced or expired is never the user's again, however   *)
(* his logins and refreshes overlap and time out: what a handler's SET     *)
(* puts in place is a token nobody has been given yet, and a late copy of  *)
(* a SET puts in place a token that was not replaced for good.             *)
(***************************************************************************)
THEOREM ReplacedStaysReplaced == Spec => ReplacedForGood
<1>1. SessionInv /\ [Next]_vars => [RedisRestarts \/ Replaced \subseteq Replaced']_vars
  <2> SUFFICES ASSUME SessionInv, Next, ~RedisRestarts
               PROVE  Replaced \subseteq Replaced'
    OBVIOUS
  <2>1. TypeOK /\ TokensOK
    BY DEF SessionInv
  <2>2. ASSUME NEW c \in Clients, Save(c)
        PROVE  Replaced \subseteq Replaced'
    <3>1. /\ pc[c] = "save" /\ SavesToken(c)
          /\ UNCHANGED <<copies, owner>> /\ delivered \subseteq delivered'
      BY <2>2 DEF Save, SetSession, SavesToken, tokenVars
    <3> QED
      BY <3>1, SavedIsNew
  <2>3. ASSUME NEW c \in Clients, SaveTimesOut(c)
        PROVE  Replaced \subseteq Replaced'
    <3>1. newToken[c] \notin delivered
      BY <2>3 DEF SaveTimesOut, SessionInv, ClientOK, Saving
    <3> QED
      BY <2>3, <3>1 DEF SaveTimesOut, Replaced, tokenVars, historyVars
  <2>4. CASE CopyArrives
    BY <2>4, CopyArrivesPreserves
  <2>5. CASE KeyExpires
    BY <2>1, <2>5, NilIsNoValue
    DEF KeyExpires, Replaced, TokensOK, Made, TypeOK, tokenVars, historyVars
  <2>6. ASSUME NEW c \in Clients, NEW user, GenerateFor(c, user),
               UNCHANGED <<redisVars, delivered>>
        PROVE  Replaced \subseteq Replaced'
    <3>1. TokensKept
      BY <2>1, <2>6 DEF GenerateFor, TokensKept, TypeOK
    <3> QED
      BY <2>6, <3>1, ReplacedLasts DEF redisVars
  <2>7. ASSUME UNCHANGED <<redisVars, owner, delivered>>
        PROVE  Replaced \subseteq Replaced'
    BY <2>7 DEF Replaced, redisVars
  <2>8. ASSUME NEW c \in Clients,
               Receive(c) \/ Insert(c) \/ Retrieve(c) \/ Get(c) \/ CommandFails(c)
        PROVE  Replaced \subseteq Replaced'
    BY <2>6, <2>7, <2>8
    DEF Receive, Insert, Retrieve, Get, CommandFails, storeVars, tokenVars, historyVars
  <2>9. CASE TokenExpires \/ Crash \/ RedisSaves
    BY <2>7, <2>9
    DEF TokenExpires, Crash, RedisSaves, Replaced, storeVars, redisVars, tokenVars, historyVars
  <2> QED
    BY <2>2, <2>3, <2>4, <2>5, <2>8, <2>9 DEF Next, Handle
<1> QED
  BY <1>1, SessionsInductive, PTL DEF Spec, ReplacedForGood

================================================================================
