------------------------------ MODULE URLService -------------------------------
(***************************************************************************)
(* The link requests of the HTTP service: internal/service/url_service.go  *)
(* over RedisURLs and PostgresURLs, as internal/handler/url_handler.go     *)
(* calls it.  Every request is served by a goroutine of its own; a client  *)
(* here is such a goroutine, serving one request after another.            *)
(*                                                                         *)
(* Between two commands to Redis or Postgres any other goroutine may run,  *)
(* so a step of a request is exactly one command, together with the code   *)
(* up to the next one.  pc names the command a request is about to issue.  *)
(***************************************************************************)
EXTENDS RedisURLs, PostgresURLs

CONSTANTS
  Clients,      \* requests that may be in flight at the same time
  MaxRequests,  \* bound: requests received in a behaviour
  MaxFaults     \* bound: failures of all kinds in a behaviour

ASSUME BoundsAreNat == MaxRequests \in Nat /\ MaxFaults \in Nat

VARIABLES
  pc,           \* pc[c]: the command client c issues next, "idle" between requests
  req,          \* req[c]: what client c is serving, or served last (Nil: nothing yet)
  data,         \* data[c]: newData, the URLInfo held in the handler
  hits,         \* hits[c]: cachedData.AccessCount of a PUT that hit the cache
  status,       \* status[c]: how the last request of c was answered
  received,     \* number of requests received so far
  faults,       \* number of failures so far
  ownerOf,      \* history: ownerOf[code] is the user whose POST created code
  offered,      \* history: offered[code], URLs its owner has asked to store
  visits        \* history: visits[code], how often a visit has been counted

storeVars   == <<cache, urls>>
requestVars == <<pc, req, data, hits, status>>
historyVars == <<ownerOf, offered, visits>>
serviceVars == <<storeVars, requestVars, received, faults, historyVars>>

Ops == {"post", "get", "put", "delete", "stats"}

GetSteps   == {"get_lookup", "get_count", "get_select", "get_fill"}
PutSteps   == {"put_check", "put_url", "put_stamp", "put_reread",
               "put_update", "put_exists", "put_save"}
DelSteps   == {"del_check", "del_key", "del_row", "del_exists"}
StatsSteps == {"stats_lookup", "stats_select", "stats_fill"}

Steps == {"idle", "insert"} \cup GetSteps \cup PutSteps \cup DelSteps \cup StatsSteps

FillSteps == {"get_fill", "stats_fill"}
SaveSteps == FillSteps \cup {"put_save"}

FirstStep == [post  |-> "insert",     get    |-> "get_lookup",
              put   |-> "put_check",  delete |-> "del_check",
              stats |-> "stats_lookup"]

Statuses == {"ok", "notfound", "forbidden", "error"}

Request == [op   : Ops, user : Users,
            code : Codes \cup {Nil},    \* Nil until a POST has drawn one
            url  : Urls \cup {Nil}]     \* the JSON body of a POST or a PUT

ASSUME NilIsNoReply == Nil \notin Request \cup Statuses

ServiceInit ==
  /\ cache    = NoHashes
  /\ urls     = [code \in Codes |-> Nil]
  /\ pc       = [c \in Clients |-> "idle"]
  /\ req      = [c \in Clients |-> Nil]
  /\ data     = [c \in Clients |-> Nil]
  /\ hits     = [c \in Clients |-> Nil]
  /\ status   = [c \in Clients |-> Nil]
  /\ received = 0
  /\ faults   = 0
  /\ ownerOf  = [code \in Codes |-> Nil]
  /\ offered  = [code \in Codes |-> {}]
  /\ visits   = [code \in Codes |-> 0]

--------------------------------------------------------------------------------
(***************************************************************************)
(* How a command leaves its request: on to the next command, answered, or  *)
(* answered with an internal error because the reply to a command that     *)
(* Redis or Postgres did execute never arrived (connection lost, the       *)
(* handler's 5 s context expired, the client went away).                   *)
(***************************************************************************)
Goto(c, step) ==
  /\ pc' = [pc EXCEPT ![c] = step]
  /\ UNCHANGED <<status, faults>>

Answer(c, s) ==
  /\ pc' = [pc EXCEPT ![c] = "idle"]
  /\ status' = [status EXCEPT ![c] = s]
  /\ UNCHANGED faults

ReplyLost(c) ==
  /\ faults < MaxFaults
  /\ faults' = faults + 1
  /\ pc' = [pc EXCEPT ![c] = "idle"]
  /\ status' = [status EXCEPT ![c] = "error"]

--------------------------------------------------------------------------------
(***************************************************************************)
(* Mutants: the visit left out of the copy that goes to Redis; the counter *)
(* of the cache added to that of the row, or forgotten, by a PUT; a PUT    *)
(* that caches the row as it was before; "forbidden" and "not found"       *)
(* mixed up; a DELETE that leaves the hash, or does not look at the number *)
(* of rows it has deleted.                                                 *)
(***************************************************************************)
GetSelectUncounted(c) ==
  LET code == req[c].code
  IN  /\ pc[c] = "get_select"
      /\ \/ /\ OwnedRow(code, req[c].user)
            /\ data' = [data EXCEPT ![c] = urls[code]]
            /\ visits' = [visits EXCEPT ![code] = @ + 1]
            /\ Goto(c, "get_fill")
         \/ /\ ~OwnedRow(code, req[c].user)
            /\ Answer(c, IF HasRow(code) THEN "forbidden" ELSE "notfound")
            /\ UNCHANGED <<data, visits>>
      /\ UNCHANGED <<storeVars, req, hits, received, ownerOf, offered>>

PutUpdateCaching(c, info) ==
  LET code == req[c].code
  IN  /\ pc[c] = "put_update"
      /\ \/ /\ OwnedRow(code, req[c].user)
            /\ UpdateRow(code, req[c].url)
            /\ data' = [data EXCEPT ![c] = info]
            /\ offered' = [offered EXCEPT ![code] = @ \cup {req[c].url}]
            /\ Goto(c, "put_save") \/ ReplyLost(c)
         \/ /\ ~OwnedRow(code, req[c].user)
            /\ Goto(c, "put_exists")
            /\ UNCHANGED <<urls, data, offered>>
      /\ UNCHANGED <<cache, req, hits, received, ownerOf, visits>>

PutUpdateAdding(c) ==
  PutUpdateCaching(c, [urls'[req[c].code] EXCEPT
                         !.count = IF hits[c] = Nil THEN @ ELSE @ + hits[c]])

PutUpdateForgetting(c) == PutUpdateCaching(c, urls'[req[c].code])

PutUpdateReturningOld(c) ==
  PutUpdateCaching(c, [urls[req[c].code] EXCEPT !.count = IF hits[c] = Nil THEN @ ELSE hits[c]])

ExistsSwapped(c) ==
  /\ pc[c] \in {"put_exists", "del_exists"}
  /\ Answer(c, IF HasRow(req[c].code) THEN "notfound" ELSE "forbidden")
  /\ UNCHANGED <<storeVars, req, data, hits, received, historyVars>>

DelKeyLeft(c) ==
  /\ pc[c] = "del_key"
  /\ Goto(c, "del_row")
  /\ UNCHANGED <<storeVars, req, data, hits, received, historyVars>>

DelRowUncounted(c) ==
  /\ pc[c] = "del_row"
  /\ DeleteRow(req[c].code)
  /\ Answer(c, "ok") \/ ReplyLost(c)
  /\ UNCHANGED <<cache, req, data, hits, received, historyVars>>

--------------------------------------------------------------------------------
(***************************************************************************)
(* A handler takes the request from the router and calls the service.      *)
(***************************************************************************)
Receive(c) ==
  /\ pc[c] = "idle"
  /\ received < MaxRequests
  /\ received' = received + 1
  /\ \E op \in Ops, user \in Users, code \in Codes, url \in Urls :
       /\ req' = [req EXCEPT ![c] =
                    [op   |-> op,
                     user |-> user,
                     code |-> IF op = "post" THEN Nil ELSE code,
                     url  |-> IF op \in {"post", "put"} THEN url ELSE Nil]]
       /\ pc' = [pc EXCEPT ![c] = FirstStep[op]]
  /\ data' = [data EXCEPT ![c] = Nil]
  /\ hits' = [hits EXCEPT ![c] = Nil]
  /\ status' = [status EXCEPT ![c] = Nil]
  /\ UNCHANGED <<storeVars, faults, historyVars>>

--------------------------------------------------------------------------------
(***************************************************************************)
(* ServicePost.  A drawn code is that of a live link (then INSERT is       *)
(* rejected) or one nobody has heard of: that a deleted code is drawn      *)
(* again, or one that a request in flight has guessed, is one chance in    *)
(* 36^6 for each draw and is left out.                                     *)
(***************************************************************************)
Fresh(code) ==
  /\ ownerOf[code] = Nil
  /\ \A c \in Clients : pc[c] # "idle" => req[c].code # code

Drawable == {code \in Codes : HasRow(code) \/ Fresh(code)}

Insert(c) ==
  /\ pc[c] = "insert"
  /\ \E code \in Drawable :
       /\ req' = [req EXCEPT ![c].code = code]
       /\ \/ /\ InsertRejected(code)
             /\ Answer(c, "error")
             /\ UNCHANGED <<urls, data, ownerOf, offered>>
          \/ /\ ~InsertRejected(code)
             /\ InsertRow(code, req[c].user, req[c].url)
             /\ ownerOf' = [ownerOf EXCEPT ![code] = req[c].user]
             /\ offered' = [offered EXCEPT ![code] = @ \cup {req[c].url}]
             /\ data' = [data EXCEPT ![c] = urls'[code]]
             /\ Answer(c, "ok") \/ ReplyLost(c)
  /\ UNCHANGED <<cache, hits, received, visits>>

--------------------------------------------------------------------------------
(***************************************************************************)
(* ServiceGet: the redirect.                                               *)
(***************************************************************************)
GetLookup(c) ==
  LET code == req[c].code
      found == GetUrl(code, req[c].user)
  IN  /\ pc[c] = "get_lookup"
      /\ \/ /\ found = "ok"
            /\ data' = [data EXCEPT ![c] = [owner |-> cache[code].owner,
                                            url   |-> cache[code].url,
                                            count |-> cache[code].count]]
            /\ Goto(c, "get_count")
         \/ /\ found = "notfound"
            /\ Goto(c, "get_select")
            /\ UNCHANGED data
         \/ /\ found = "forbidden"
            /\ Answer(c, "forbidden")
            /\ UNCHANGED data
      /\ UNCHANGED <<storeVars, req, hits, received, historyVars>>

GetCount(c) ==
  LET code == req[c].code
  IN  /\ pc[c] = "get_count"
      /\ IncrementCounter(code)
      /\ visits' = [visits EXCEPT ![code] = @ + 1]
      /\ Answer(c, "ok") \/ ReplyLost(c)
      /\ UNCHANGED <<urls, req, data, hits, received, ownerOf, offered>>

(***************************************************************************)
(* The cache missed: read the row, count the visit in the copy at hand.    *)
(***************************************************************************)
GetSelect(c) ==
  LET code == req[c].code
      row  == RepositoryGet(code)
  IN  /\ pc[c] = "get_select"
      /\ \/ /\ row # Nil /\ row.owner = req[c].user
            /\ data' = [data EXCEPT ![c] = [row EXCEPT !.count = @ + 1]]
            /\ visits' = [visits EXCEPT ![code] = @ + 1]
            /\ Goto(c, "get_fill")
         \/ /\ row # Nil /\ row.owner # req[c].user
            /\ Answer(c, "forbidden")
            /\ UNCHANGED <<data, visits>>
         \/ /\ row = Nil
            /\ Answer(c, "notfound")
            /\ UNCHANGED <<data, visits>>
      /\ UNCHANGED <<storeVars, req, hits, received, ownerOf, offered>>

(***************************************************************************)
(* SaveUrl of the copy at hand, by ServiceGet and by ServiceGetStats.      *)
(***************************************************************************)
Fill(c) ==
  /\ pc[c] \in FillSteps
  /\ SaveUrl(req[c].code, data[c])
  /\ Answer(c, "ok") \/ ReplyLost(c)
  /\ UNCHANGED <<urls, req, data, hits, received, historyVars>>

--------------------------------------------------------------------------------
(***************************************************************************)
(* ServiceGetStats.                                                        *)
(***************************************************************************)
StatsLookup(c) ==
  LET code == req[c].code
      found == GetUrlStats(code, req[c].user)
  IN  /\ pc[c] = "stats_lookup"
      /\ \/ /\ found = "ok"
            /\ data' = [data EXCEPT ![c] = [owner |-> cache[code].owner,
                                            url   |-> cache[code].url,
                                            count |-> cache[code].count]]
            /\ Answer(c, "ok")
         \/ /\ found = "notfound"
            /\ Goto(c, "stats_select")
            /\ UNCHANGED data
         \/ /\ found \in {"forbidden", "error"}
            /\ Answer(c, found)
            /\ UNCHANGED data
      /\ UNCHANGED <<storeVars, req, hits, received, historyVars>>

StatsSelect(c) ==
  LET code == req[c].code
      row  == RepositoryGetStats(code)
  IN  /\ pc[c] = "stats_select"
      /\ \/ /\ row # Nil /\ row.owner = req[c].user
            /\ data' = [data EXCEPT ![c] = row]
            /\ Goto(c, "stats_fill")
         \/ /\ row # Nil /\ row.owner # req[c].user
            /\ Answer(c, "forbidden")
            /\ UNCHANGED data
         \/ /\ row = Nil
            /\ Answer(c, "notfound")
            /\ UNCHANGED data
      /\ UNCHANGED <<storeVars, req, hits, received, historyVars>>

--------------------------------------------------------------------------------
(***************************************************************************)
(* ServicePut, first half: RedisURLRepository.UpdateUrl, four commands.    *)
(***************************************************************************)
PutCheck(c) ==
  LET found == CheckOwner(req[c].code, req[c].user)
  IN  /\ pc[c] = "put_check"
      /\ \/ found = "ok" /\ Goto(c, "put_url")
         \/ found = "notfound" /\ Goto(c, "put_update")
         \/ found = "forbidden" /\ Answer(c, "forbidden")
      /\ UNCHANGED <<storeVars, req, data, hits, received, historyVars>>

PutUrl(c) ==
  LET code == req[c].code
  IN  /\ pc[c] = "put_url"
      /\ SetUrl(code, req[c].url)
      /\ offered' = [offered EXCEPT ![code] = @ \cup {req[c].url}]
      /\ Goto(c, "put_stamp") \/ ReplyLost(c)
      /\ UNCHANGED <<urls, req, data, hits, received, ownerOf, visits>>

PutStamp(c) ==
  /\ pc[c] = "put_stamp"
  /\ SetUpdatedAt(req[c].code)
  /\ Goto(c, "put_reread") \/ ReplyLost(c)
  /\ UNCHANGED <<urls, req, data, hits, received, historyVars>>

(***************************************************************************)
(* GetUrlStats inside UpdateUrl: its errors are wrapped, so a hash deleted *)
(* meanwhile still counts as a miss and a foreign one as forbidden.        *)
(***************************************************************************)
PutReread(c) ==
  LET code == req[c].code
      found == GetUrlStats(code, req[c].user)
  IN  /\ pc[c] = "put_reread"
      /\ \/ /\ found = "ok"
            /\ hits' = [hits EXCEPT ![c] = cache[code].count]
            /\ Goto(c, "put_update")
         \/ /\ found = "notfound"
            /\ Goto(c, "put_update")
            /\ UNCHANGED hits
         \/ /\ found \in {"forbidden", "error"}
            /\ Answer(c, found)
            /\ UNCHANGED hits
      /\ UNCHANGED <<storeVars, req, data, received, historyVars>>

(***************************************************************************)
(* Second half: the row, then the cache again with the row's new content   *)
(* and, after a hit, the counter the cache held.                           *)
(***************************************************************************)
PutUpdate(c) ==
  LET code == req[c].code
  IN  /\ pc[c] = "put_update"
      /\ \/ /\ OwnedRow(code, req[c].user)
            /\ UpdateRow(code, req[c].url)
            /\ data' = [data EXCEPT ![c] =
                          [urls'[code] EXCEPT !.count =
                             IF hits[c] = Nil THEN @ ELSE hits[c]]]
            /\ offered' = [offered EXCEPT ![code] = @ \cup {req[c].url}]
            /\ Goto(c, "put_save") \/ ReplyLost(c)
         \/ /\ ~OwnedRow(code, req[c].user)
            /\ Goto(c, "put_exists")
            /\ UNCHANGED <<urls, data, offered>>
      /\ UNCHANGED <<cache, req, hits, received, ownerOf, visits>>

PutSave(c) ==
  /\ pc[c] = "put_save"
  /\ SaveUrl(req[c].code, data[c])
  /\ Answer(c, "ok") \/ ReplyLost(c)
  /\ UNCHANGED <<urls, req, data, hits, received, historyVars>>

(***************************************************************************)
(* existsByShortCode tells a foreign row from none, for PUT and DELETE.    *)
(***************************************************************************)
Exists(c) ==
  /\ pc[c] \in {"put_exists", "del_exists"}
  /\ Answer(c, IF HasRow(req[c].code) THEN "forbidden" ELSE "notfound")
  /\ UNCHANGED <<storeVars, req, data, hits, received, historyVars>>

--------------------------------------------------------------------------------
(***************************************************************************)
(* ServiceDelete: the hash first, then the row.                            *)
(***************************************************************************)
DelCheck(c) ==
  LET found == CheckOwner(req[c].code, req[c].user)
  IN  /\ pc[c] = "del_check"
      /\ \/ found = "ok" /\ Goto(c, "del_key")
         \/ found = "notfound" /\ Goto(c, "del_row")
         \/ found = "forbidden" /\ Answer(c, "forbidden")
      /\ UNCHANGED <<storeVars, req, data, hits, received, historyVars>>

DelKey(c) ==
  /\ pc[c] = "del_key"
  /\ DeleteKey(req[c].code)
  /\ Goto(c, "del_row") \/ ReplyLost(c)
  /\ UNCHANGED <<urls, req, data, hits, received, historyVars>>

DelRow(c) ==
  LET code == req[c].code
  IN  /\ pc[c] = "del_row"
      /\ \/ /\ OwnedRow(code, req[c].user)
            /\ DeleteRow(code)
            /\ Answer(c, "ok") \/ ReplyLost(c)
         \/ /\ ~OwnedRow(code, req[c].user)
            /\ Goto(c, "del_exists")
            /\ UNCHANGED urls
      /\ UNCHANGED <<cache, req, data, hits, received, historyVars>>

--------------------------------------------------------------------------------
(***************************************************************************)
(* Failures.  CommandFails: a command is not executed and the request ends *)
(* with its error; every such error is answered as an internal one.        *)
(* Crash: the process stops with requests in flight.  (A write to Redis    *)
(* that is sent twice, or executed late, is URLSystem!WriteTimesOut.)      *)
(***************************************************************************)
CommandFails(c) ==
  /\ pc[c] # "idle"
  /\ faults < MaxFaults
  /\ faults' = faults + 1
  /\ pc' = [pc EXCEPT ![c] = "idle"]
  /\ status' = [status EXCEPT ![c] = "error"]
  /\ UNCHANGED <<storeVars, req, data, hits, received, historyVars>>

Crash ==
  /\ \E c \in Clients : pc[c] # "idle"
  /\ faults < MaxFaults
  /\ faults' = faults + 1
  /\ pc' = [c \in Clients |-> "idle"]
  /\ status' = [c \in Clients |-> IF pc[c] = "idle" THEN status[c] ELSE "error"]
  /\ UNCHANGED <<storeVars, req, data, hits, received, historyVars>>

--------------------------------------------------------------------------------
Handle(c) ==
  \/ Insert(c)
  \/ GetLookup(c) \/ GetCount(c) \/ GetSelect(c) \/ Fill(c)
  \/ StatsLookup(c) \/ StatsSelect(c)
  \/ PutCheck(c) \/ PutUrl(c) \/ PutStamp(c) \/ PutReread(c)
  \/ PutUpdate(c) \/ PutSave(c)
  \/ DelCheck(c) \/ DelKey(c) \/ DelRow(c)
  \/ Exists(c)

ServiceNext ==
  \/ \E c \in Clients : Receive(c) \/ Handle(c) \/ CommandFails(c)
  \/ Crash

================================================================================
