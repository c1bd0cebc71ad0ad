--------------------------- MODULE SessionInvariant ----------------------------
(***************************************************************************)
(* An inductive invariant of UserSessions that implies SessionsAreOwn,     *)
(* ReplacedIsRefused, NeverLockedOut and RegisteredOnce                    *)
(* (UserSessionsProofs).  What makes it inductive is what it says of the   *)
(* tokens on their way to Redis: each is held by one handler, no user has  *)
(* it yet, and it goes to the key of the user it was made for.             *)
(***************************************************************************)
EXTENDS UserSessions

Made(token) == token \in Tokens /\ owner[token] \in Users /\ accounts[owner[token]] # Nil

TokensOK ==
  /\ StoredAreOwn
  /\ \A t \in delivered : Made(t)
  /\ \A copy \in copies : Made(copy.token) /\ copy.user = owner[copy.token]

Serving(c) ==
  /\ pc[c] # "idle" => req[c] # Nil /\ status[c] = Nil
  /\ pc[c] = "insert" => req[c].op = "register"
  /\ pc[c] = "retrieve" => req[c].op = "login"
  /\ pc[c] = "get" => req[c].op = "refresh" /\ req[c].token \in delivered \cup {Nil}

(***************************************************************************)
(* A handler about to save a token.                                        *)
(***************************************************************************)
Saving(c) ==
  pc[c] = "save" =>
    /\ Made(newToken[c]) /\ newToken[c] \notin delivered
    /\ owner[newToken[c]] = userID[c]
    /\ req[c].op = "refresh" => req[c].token \in delivered
    /\ Entitled(req[c], userID[c])

TokensApart ==
  \A c, d \in Clients :
    c # d /\ pc[c] = "save" /\ pc[d] = "save" => newToken[c] # newToken[d]

(***************************************************************************)
(* A client that came with a replaced token has got no further than to be  *)
(* refused; one that came with the right password finds the same account.  *)
(***************************************************************************)
Late(c) ==
  c \in late => /\ pc[c] \in {"idle", "get"} /\ status[c] # "ok"
                /\ pc[c] = "get" => req[c].token \in Replaced

Known(c) ==
  c \in known => /\ status[c] \notin {"unauthorized", "exists"}
                 /\ pc[c] \in {"idle", "retrieve", "save"}
                 /\ pc[c] = "retrieve" => accounts[req[c].user] = req[c].password

(***************************************************************************)
(* Whoever has inserted a row is the only one to have inserted it.         *)
(***************************************************************************)
Registering(c) ==
  req[c] # Nil /\ req[c].op = "register" /\ (pc[c] = "save" \/ status[c] = "ok")

RegisteringApart ==
  /\ \A c \in Clients : Registering(c) => accounts[req[c].user] # Nil
  /\ \A c, d \in Clients :
       c # d /\ Registering(c) /\ Registering(d) => req[c].user # req[d].user

Answered(c) ==
  status[c] = "ok" =>
    /\ req[c] # Nil /\ Made(newToken[c])
    /\ req[c].op = "refresh" => Made(req[c].token)
    /\ Entitled(req[c], owner[newToken[c]])

ClientOK(c) == Serving(c) /\ Saving(c) /\ Late(c) /\ Known(c) /\ Answered(c)

SessionInv ==
  /\ TypeOK
  /\ TokensOK
  /\ TokensApart
  /\ RegisteringApart
  /\ \A c \in Clients : ClientOK(c)

================================================================================
