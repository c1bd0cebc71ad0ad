------------------------------ MODULE SerialLinks ------------------------------
(***************************************************************************)
(* What the service does for a link as long as nothing fails and no two    *)
(* requests on that link overlap: requests on other links run at the same  *)
(* time, and so does the syncer.  Under these assumptions the two stores   *)
(* behave as the one table of LinkService.                                 *)
(***************************************************************************)
EXTENDS URLSystem

(***************************************************************************)
(* A request makes no step on a code another one is working on.  (A POST   *)
(* works on a code from the moment it has drawn it.)  Every failure is     *)
(* counted in faults.                                                      *)
(***************************************************************************)
NoOverlap ==
  \A c, d \in Clients :
    c # d /\ pc'[c] # pc[c] /\ pc[d] # "idle"
      => req'[c].code = Nil \/ req'[c].code # req[d].code

SerialNext == Next /\ NoOverlap /\ UNCHANGED faults

SerialSpec == Init /\ [][SerialNext]_vars

--------------------------------------------------------------------------------
(***************************************************************************)
(* The link a user sees: a complete hash goes before the row, and a link   *)
(* is gone once its DELETE can no longer be refused, although its row      *)
(* (whose counter may be behind that of the hash) is still there.          *)
(***************************************************************************)
Removing(c) == pc[c] = "del_row" /\ OwnedRow(req[c].code, req[c].user)

Link(code) ==
  IF ~HasRow(code) \/ \E c \in Clients : Removing(c) /\ req[c].code = code
  THEN Nil
  ELSE IF cache[code].owner # Nil
       THEN [owner |-> cache[code].owner, url |-> cache[code].url,
             count |-> cache[code].count]
       ELSE urls[code]

(***************************************************************************)
(* A PUT takes effect with the first of its writes the user can see: that  *)
(* of the hash if there is one, that of the row if not.                    *)
(***************************************************************************)
Changed(c) ==
  \/ pc[c] \in {"put_stamp", "put_reread", "put_save"}
  \/ pc[c] = "put_update" /\ hits[c] # Nil

Told(c) == [status |-> status[c],
            url    |-> IF status[c] = "ok" /\ req[c].op # "delete"
                       THEN data[c].url ELSE Nil,
            count  |-> IF status[c] = "ok" /\ req[c].op \notin {"get", "delete"}
                       THEN data[c].count ELSE Nil]

ReplyTo(c) ==
  CASE status[c] # Nil -> Told(c)
    [] Changed(c)      -> [status |-> "ok", url |-> req[c].url,
                           count |-> Link(req[c].code).count]
    [] Removing(c)     -> [status |-> "ok", url |-> Nil, count |-> Nil]
    [] OTHER           -> Nil

Outcomes == [status : Statuses, url : Urls \cup {Nil}, count : Nat \cup {Nil}]

ASSUME NilIsNoOutcome == Nil \notin Outcomes

AskedBy(c) ==
  IF req[c] # Nil /\ req[c].op = "post" THEN [req[c] EXCEPT !.code = Nil] ELSE req[c]

Links == [code \in Codes |-> Link(code)]

Asked == [c \in Clients |-> AskedBy(c)]

Replies == [c \in Clients |-> ReplyTo(c)]

Abstract == INSTANCE LinkService WITH links <- Links, asked <- Asked, reply <- Replies

(***************************************************************************)
(* The service implements LinkService: every answer is the one the single  *)
(* table would have given at some moment of the request, every visit       *)
(* counts once, whatever the hash, the row and the syncer do in between.   *)
(***************************************************************************)
ServesLinks == Abstract!Spec

================================================================================
