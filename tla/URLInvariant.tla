------------------------------ MODULE URLInvariant -----------------------------
(***************************************************************************)
(* An inductive invariant of URLSystem that implies TypeOK, CountsBounded, *)
(* OwnersAgree, SuccessIsTheOwners and DeletedOnce (URLSystemProofs).      *)
(*                                                                         *)
(* None of the five is inductive: a handler writes what it read some steps *)
(* earlier, so the invariant says of every value a handler or the syncer   *)
(* still holds what the five say of the stores.                            *)
(***************************************************************************)
EXTENDS URLSystem

(***************************************************************************)
(* The past of a code, and what it says of content held under that code:   *)
(* a hash, a row (or a handler's copy of one), a counter.                  *)
(***************************************************************************)
Past(code) == [owner |-> ownerOf[code], offers |-> offered[code], limit |-> visits[code]]

Counted(count, past) == count # Nil => count <= past.limit

HashOK(hash, past) ==
  /\ HashAgrees(hash, past.owner)
  /\ hash.url # Nil => hash.url \in past.offers
  /\ Counted(hash.count, past)

RowOK(row, past) ==
  row # Nil => /\ row.owner = past.owner
               /\ row.url \in past.offers
               /\ Counted(row.count, past)

BatchOK(counts, past) == \A count \in counts : Counted(count, past)

StoresOK ==
  \A code \in Codes :
    /\ HashOK(cache[code], Past(code))
    /\ HashOK(snapshot[code], Past(code))
    /\ RowOK(urls[code], Past(code))
    /\ BatchOK(batch[code], Past(code))

(***************************************************************************)
(* A write that is to be executed late is still one its link's owner has   *)
(* asked for.                                                              *)
(***************************************************************************)
CopyOK(copy) ==
  /\ copy.user = ownerOf[copy.code]
  /\ copy.step \in SaveSteps =>
       copy.value \in URLInfo /\ RowOK(copy.value, Past(copy.code))
  /\ copy.step = "put_url" => copy.value \in offered[copy.code]

(***************************************************************************)
(* What the service has made sure of by the time a handler is about to     *)
(* issue a command.                                                        *)
(***************************************************************************)
Serving(c) ==
  pc[c] # "idle" =>
    /\ req[c] # Nil
    /\ status[c] = Nil
    /\ pc[c] = "insert" => req[c].op = "post"
    /\ pc[c] \in GetSteps => req[c].op = "get"
    /\ pc[c] \in PutSteps => req[c].op = "put"
    /\ pc[c] \in DelSteps => req[c].op = "delete"
    /\ pc[c] \in StatsSteps => req[c].op = "stats"
    /\ pc[c] # "insert" => req[c].code \in Codes
    /\ req[c].op \in {"post", "put"} => req[c].url \in Urls

PastCheck == SaveSteps \cup {"get_count", "put_url", "put_stamp", "put_reread", "del_key"}

Authorised(c) == pc[c] \in PastCheck => req[c].user = ownerOf[req[c].code]

HoldsData(c) ==
  /\ pc[c] \in SaveSteps => data[c] # Nil /\ RowOK(data[c], Past(req[c].code))
  /\ pc[c] = "get_count" => data[c] # Nil /\ data[c].url \in offered[req[c].code]
  /\ pc[c] \in PutSteps => Counted(hits[c], Past(req[c].code))

Answered(c) ==
  status[c] = "ok" =>
    /\ req[c] # Nil /\ req[c].code \in Codes
    /\ req[c].user = ownerOf[req[c].code]
    /\ req[c].op # "delete" => data[c] # Nil /\ data[c].url \in offered[req[c].code]
    /\ req[c].op = "delete" => ~HasRow(req[c].code)

ClientOK(c) == Serving(c) /\ Authorised(c) /\ HoldsData(c) /\ Answered(c)

IInv ==
  /\ TypeOK
  /\ StoresOK
  /\ \A copy \in copies : CopyOK(copy)
  /\ \A c \in Clients : ClientOK(c)
  /\ DeletedOnce

================================================================================
