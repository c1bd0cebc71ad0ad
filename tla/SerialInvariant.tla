---------------------------- MODULE SerialInvariant ----------------------------
(***************************************************************************)
(* An inductive invariant of SerialLinks, next to IInv, that implies       *)
(* NoVisitLost, DeletedIsGone, RedirectIsCurrent and ForbiddenIsForeign,   *)
(* and what the refinement of LinkService rests on (SerialLinksProofs).    *)
(*                                                                         *)
(* The four speak of moments without a request in flight; the invariant    *)
(* says how far hash, row and history may be apart while one is.           *)
(***************************************************************************)
EXTENDS SerialLinks, URLInvariant

(***************************************************************************)
(* No two requests work on the same code.                                  *)
(***************************************************************************)
WorksOn(c, code) == pc[c] \notin {"idle", "insert"} /\ req[c].code = code

Alone ==
  \A c, d \in Clients, code \in Codes : WorksOn(c, code) /\ WorksOn(d, code) => c = d

(***************************************************************************)
(* A hash is complete, has a row, and counts every visit; only a PUT that  *)
(* has yet to reach the row makes the URLs of the two differ.  A row       *)
(* without a hash counts every visit, too, but for the one of a GET that   *)
(* has yet to fill the cache; after a DELETE has removed the hash it does  *)
(* not, and is as good as gone.  What the syncer has read is no older than *)
(* the row.                                                                *)
(***************************************************************************)
UrlPending(c) == pc[c] \in {"put_stamp", "put_reread", "put_update"}

CountPending(c) == pc[c] = "get_fill" \/ Removing(c)

HashCurrent(code) ==
  KeyExists(code) =>
    /\ cache[code].owner # Nil
    /\ HasRow(code)
    /\ cache[code].count = visits[code]
    /\ \/ cache[code].url = urls[code].url
       \/ \E c \in Clients : WorksOn(c, code) /\ UrlPending(c)

RowCurrent(code) ==
  HasRow(code) =>
    /\ \A count \in batch[code] : urls[code].count <= count
    /\ \/ KeyExists(code)
       \/ urls[code].count = visits[code]
       \/ \E c \in Clients : WorksOn(c, code) /\ CountPending(c)

Unvisited(code) == ownerOf[code] = Nil => visits[code] = 0

LinkOK(code) == HashCurrent(code) /\ RowCurrent(code) /\ Unvisited(code)

(***************************************************************************)
(* What a request has found out stays true until it issues its next        *)
(* command.                                                                *)
(***************************************************************************)
HitSteps == {"get_count", "put_url", "put_stamp", "put_reread", "del_key"}

MissSteps == {"get_select", "get_fill", "stats_select", "stats_fill", "del_row"}

Looked(c) ==
  /\ pc[c] \in HitSteps => KeyExists(req[c].code)
  /\ pc[c] \in MissSteps => ~KeyExists(req[c].code)
  /\ pc[c] \in {"put_exists", "del_exists"} => ~OwnedRow(req[c].code, req[c].user)

(***************************************************************************)
(* The copy a request holds is that of the link.                           *)
(***************************************************************************)
Copied(c) ==
  LET code == req[c].code
  IN  /\ pc[c] = "get_count" => data[c].url = cache[code].url
      /\ pc[c] \in SaveSteps =>
           /\ HasRow(code)
           /\ data[c].url = urls[code].url
           /\ data[c].count = visits[code]
      /\ pc[c] = "get_fill" =>
           /\ visits[code] = urls[code].count + 1
           /\ \A count \in batch[code] : count <= urls[code].count
      /\ pc[c] = "put_save" => data[c].url = req[c].url

(***************************************************************************)
(* Whether a PUT has hit the cache is told by hits.                        *)
(***************************************************************************)
Putting(c) ==
  LET code == req[c].code
  IN  /\ pc[c] \in PutSteps \ {"put_update", "put_save", "put_exists"} => hits[c] = Nil
      /\ pc[c] \in {"put_stamp", "put_reread"} => cache[code].url = req[c].url
      /\ pc[c] = "put_update" /\ hits[c] = Nil => ~KeyExists(code)
      /\ pc[c] = "put_update" /\ hits[c] # Nil =>
           /\ KeyExists(code)
           /\ cache[code].owner = req[c].user
           /\ cache[code].url = req[c].url
           /\ hits[c] = visits[code]

Told403(c) ==
  status[c] = "forbidden" => /\ req[c] # Nil /\ req[c].code \in Codes
                             /\ ownerOf[req[c].code] \notin {Nil, req[c].user}

Replied(c) ==
  /\ pc[c] = "insert" => req[c].code = Nil
  /\ pc[c] = "idle" => req[c] = Nil \/ status[c] # Nil

RequestOK(c) == Looked(c) /\ Copied(c) /\ Putting(c) /\ Told403(c) /\ Replied(c)

SerialInv ==
  /\ faults = 0 /\ copies = {}
  /\ Alone
  /\ \A code \in Codes : LinkOK(code)
  /\ \A c \in Clients : RequestOK(c)

================================================================================
