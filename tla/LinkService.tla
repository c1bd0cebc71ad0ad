------------------------------ MODULE LinkService ------------------------------
(***************************************************************************)
(* What the service promises its users about their links: one table of     *)
(* links, and every request served from it in one atomic step, at some     *)
(* moment between its arrival and its answer.  No cache, no row, no copy   *)
(* of a counter.                                                           *)
(***************************************************************************)
EXTENDS URLModels

CONSTANT Clients

VARIABLES
  links,    \* links[code]: the link of that code, or Nil
  asked,    \* asked[c]: the request of client c, the last one if answered
  reply     \* reply[c]: its outcome, Nil as long as it has none

vars == <<links, asked, reply>>

Request ==
  {r \in [op   : {"post", "get", "put", "delete", "stats"},
          user : Users,
          code : Codes \cup {Nil},
          url  : Urls \cup {Nil}] :
     /\ r.code = Nil <=> r.op = "post"
     /\ r.url # Nil <=> r.op \in {"post", "put"}}

Outcome(status, url, count) == [status |-> status, url |-> url, count |-> count]

Init ==
  /\ links = [code \in Codes |-> Nil]
  /\ asked = [c \in Clients |-> Nil]
  /\ reply = [c \in Clients |-> Nil]

Ask(c) ==
  /\ asked[c] = Nil \/ reply[c] # Nil
  /\ reply' = [reply EXCEPT ![c] = Nil]
  /\ \E request \in Request : asked' = [asked EXCEPT ![c] = request]
  /\ UNCHANGED links

--------------------------------------------------------------------------------
Pending(c) == asked[c] # Nil /\ reply[c] = Nil

Finish(c, outcome) == reply' = [reply EXCEPT ![c] = outcome] /\ UNCHANGED asked

(***************************************************************************)
(* A POST creates a link under a code that has none, or fails because the  *)
(* code it has drawn is taken.                                             *)
(***************************************************************************)
Create(c) ==
  /\ Pending(c) /\ asked[c].op = "post"
  /\ \E code \in Codes :
       \/ /\ links[code] = Nil
          /\ links' = [links EXCEPT ![code] = [owner |-> asked[c].user,
                                               url   |-> asked[c].url,
                                               count |-> 0]]
          /\ Finish(c, Outcome("ok", asked[c].url, 0))
       \/ /\ links[code] # Nil
          /\ Finish(c, Outcome("error", Nil, Nil))
          /\ UNCHANGED links

(***************************************************************************)
(* The other requests name a code.  Only the owner of its link gets more   *)
(* than an error.                                                          *)
(***************************************************************************)
Refuse(c) ==
  /\ Pending(c) /\ asked[c].op # "post"
  /\ \/ /\ links[asked[c].code] = Nil
        /\ Finish(c, Outcome("notfound", Nil, Nil))
     \/ /\ links[asked[c].code] # Nil
        /\ links[asked[c].code].owner # asked[c].user
        /\ Finish(c, Outcome("forbidden", Nil, Nil))
  /\ UNCHANGED links

Grant(c, op) ==
  /\ Pending(c) /\ asked[c].op = op
  /\ links[asked[c].code] # Nil
  /\ links[asked[c].code].owner = asked[c].user

Visit(c) ==
  LET code == asked[c].code
  IN  /\ Grant(c, "get")
      /\ links' = [links EXCEPT ![code].count = @ + 1]
      /\ Finish(c, Outcome("ok", links[code].url, Nil))

Report(c) ==
  LET link == links[asked[c].code]
  IN  /\ Grant(c, "stats")
      /\ Finish(c, Outcome("ok", link.url, link.count))
      /\ UNCHANGED links

Change(c) ==
  LET code == asked[c].code
  IN  /\ Grant(c, "put")
      /\ links' = [links EXCEPT ![code].url = asked[c].url]
      /\ Finish(c, Outcome("ok", asked[c].url, links[code].count))

Remove(c) ==
  /\ Grant(c, "delete")
  /\ links' = [links EXCEPT ![asked[c].code] = Nil]
  /\ Finish(c, Outcome("ok", Nil, Nil))

--------------------------------------------------------------------------------
Next ==
  \E c \in Clients :
    \/ Ask(c)
    \/ Create(c) \/ Refuse(c)
    \/ Visit(c) \/ Report(c) \/ Change(c) \/ Remove(c)

Spec == Init /\ [][Next]_vars

================================================================================
