--------------------------- MODULE SerialLinksProofs ---------------------------
(***************************************************************************)
(* Proofs about SerialLinks, for every set of users, codes, URLs and       *)
(* clients: SerialInv is inductive, and what follows from it.  IInv holds  *)
(* of every state (URLSystemProofs), so a step starts in IInv and ends     *)
(* there.                                                                  *)
(***************************************************************************)
EXTENDS SerialInvariant, URLSystemProofs

(***************************************************************************)
(* What is known of the link a request works on.  As no other request      *)
(* does, it is this one that is to blame for any difference.               *)
(***************************************************************************)
LEMMA Worker ==
  ASSUME IInv, SerialInv, NEW c \in Clients, NEW code \in Codes, WorksOn(c, code)
  PROVE  /\ req[c] \in Request /\ status[c] = Nil
         /\ req[c].code = code /\ req[c].user \in Users
         /\ data[c] \in URLInfo \cup {Nil} /\ hits[c] \in Nat \cup {Nil}
         /\ visits[code] \in Nat /\ batch[code] \in SUBSET Nat
         /\ ownerOf[code] \in Users \cup {Nil}
         /\ RequestOK(c) /\ Serving(c) /\ Authorised(c) /\ LinkOK(code)
<1>1. TypeOK /\ pc[c] # "idle" /\ req[c].code = code
  BY DEF IInv, WorksOn
<1>2. req[c] \in Request /\ status[c] = Nil /\ Serving(c) /\ Authorised(c)
  BY <1>1, InFlight
<1> QED
  BY <1>1, <1>2 DEF TypeOK, Request, SerialInv

LEMMA WorkersHash ==
  ASSUME IInv, SerialInv, NEW c \in Clients, NEW code \in Codes, WorksOn(c, code)
  PROVE  /\ cache[code] \in Hash
         /\ ~KeyExists(code) => cache[code] = NoHash
         /\ KeyExists(code) =>
              /\ cache[code].owner = ownerOf[code] /\ ownerOf[code] \in Users
              /\ cache[code].url \in Urls
              /\ cache[code].stamped
              /\ cache[code].count = visits[code]
              /\ HasRow(code)
              /\ cache[code].url = urls[code].url \/ UrlPending(c)
<1>1. /\ cache[code] \in Hash /\ HashOK(cache[code], Past(code))
      /\ ownerOf[code] \in Users \cup {Nil}
  BY DEF IInv, TypeOK, StoresOK
<1>2. LinkOK(code) /\ Alone
  BY DEF SerialInv
<1>3. KeyExists(code) =>
        /\ cache[code].owner # Nil /\ HasRow(code) /\ cache[code].count = visits[code]
        /\ cache[code].url = urls[code].url \/ UrlPending(c)
  BY <1>2 DEF LinkOK, HashCurrent, Alone
<1>4. cache[code].owner # Nil =>
        /\ cache[code].owner = ownerOf[code]
        /\ cache[code].url # Nil /\ cache[code].stamped
  BY <1>1 DEF HashOK, HashAgrees, Past
<1> QED
  BY <1>1, <1>3, <1>4 DEF Hash, KeyExists

LEMMA WorkersRow ==
  ASSUME IInv, SerialInv, NEW c \in Clients, NEW code \in Codes, WorksOn(c, code)
  PROVE  /\ ~HasRow(code) => urls[code] = Nil
         /\ HasRow(code) =>
              /\ urls[code] \in URLInfo
              /\ urls[code].owner = ownerOf[code] /\ ownerOf[code] \in Users
              /\ urls[code].count <= visits[code]
              /\ \A count \in batch[code] : urls[code].count <= count /\ count <= visits[code]
              /\ KeyExists(code) \/ urls[code].count = visits[code] \/ CountPending(c)
<1>1. /\ urls[code] \in URLInfo \cup {Nil} /\ RowOK(urls[code], Past(code))
      /\ batch[code] \in SUBSET Nat /\ BatchOK(batch[code], Past(code))
      /\ visits[code] \in Nat /\ faults = 0
  BY DEF IInv, TypeOK, StoresOK, SerialInv
<1>2. LinkOK(code) /\ Alone
  BY DEF SerialInv
<1>3. HasRow(code) =>
        /\ \A count \in batch[code] : urls[code].count <= count
        /\ KeyExists(code) \/ urls[code].count = visits[code] \/ CountPending(c)
  BY <1>2 DEF LinkOK, RowCurrent, Alone
<1>4. Past(code).limit = visits[code]
  BY <1>1 DEF Past
<1>5. \A count \in batch[code] : count <= visits[code]
  BY <1>1, <1>4, NilIsFresh DEF BatchOK, Counted
<1>6. HasRow(code) => /\ urls[code] \in URLInfo
                      /\ urls[code].owner = ownerOf[code]
                      /\ urls[code].count <= visits[code]
  BY <1>1, <1>4, NilIsFresh DEF HasRow, RowOK, Counted, Past, URLInfo
<1> QED
  BY <1>3, <1>5, <1>6 DEF HasRow, URLInfo

--------------------------------------------------------------------------------
(***************************************************************************)
(* What a step of one request leaves alone: all other requests, and what   *)
(* is stored and remembered under any code but its own.                    *)
(***************************************************************************)
StoreAlone(code) ==
  /\ cache'[code] = cache[code] /\ urls'[code] = urls[code]
  /\ visits'[code] = visits[code] /\ batch'[code] = batch[code]
  /\ ownerOf'[code] = ownerOf[code]

Local(c, code) ==
  /\ OthersAlone(c)
  /\ \A other \in Codes \ {code} : StoreAlone(other)
  /\ UNCHANGED <<faults, copies>>

(***************************************************************************)
(* A request stays right while others work on other codes.                 *)
(***************************************************************************)
LEMMA OtherRequest ==
  ASSUME IInv, SerialInv, NEW d \in Clients, LeftAlone(d),
         \A code \in Codes : ownerOf[code] # Nil => ownerOf'[code] = ownerOf[code],
         \A code \in Codes : WorksOn(d, code) => StoreAlone(code)
  PROVE  RequestOK(d)'
<1>1. RequestOK(d) /\ Serving(d)
  BY DEF IInv, SerialInv, ClientOK
<1>2. /\ pc'[d] = pc[d] /\ req'[d] = req[d] /\ data'[d] = data[d]
      /\ hits'[d] = hits[d] /\ status'[d] = status[d]
  BY DEF LeftAlone
<1>3. Told403(d)' /\ Replied(d)'
  BY <1>1, <1>2 DEF RequestOK, Told403, Replied
<1>4. CASE pc[d] \in {"idle", "insert"}
  BY <1>1, <1>2, <1>3, <1>4
  DEF RequestOK, Looked, Copied, Putting, HitSteps, MissSteps, SaveSteps, FillSteps, PutSteps
<1>5. CASE pc[d] \notin {"idle", "insert"}
  <2>1. PICK code \in Codes : req[d].code = code
    BY <1>1, <1>5 DEF Serving
  <2>2. StoreAlone(code)
    BY <1>5, <2>1 DEF WorksOn
  <2>3. Looked(d)'
    BY <1>1, <1>2, <2>1, <2>2
    DEF RequestOK, Looked, StoreAlone, KeyExists, OwnedRow, HasRow
  <2>4. Copied(d)'
    BY <1>1, <1>2, <2>1, <2>2 DEF RequestOK, Copied, StoreAlone, HasRow
  <2>5. Putting(d)'
    BY <1>1, <1>2, <2>1, <2>2 DEF RequestOK, Putting, StoreAlone, KeyExists
  <2> QED
    BY <1>3, <2>3, <2>4, <2>5 DEF RequestOK
<1> QED
  BY <1>4, <1>5

(***************************************************************************)
(* So does a link that is not the one worked on.                           *)
(***************************************************************************)
LEMMA OtherLink ==
  ASSUME SerialInv, NEW code \in Codes, StoreAlone(code),
         \A d \in Clients : WorksOn(d, code) => LeftAlone(d)
  PROVE  LinkOK(code)'
<1>1. LinkOK(code)
  BY DEF SerialInv
<1>2. ASSUME NEW d \in Clients, WorksOn(d, code)
      PROVE  /\ WorksOn(d, code)'
             /\ UrlPending(d) => UrlPending(d)'
             /\ CountPending(d) => CountPending(d)'
  BY <1>2 DEF LeftAlone, WorksOn, UrlPending, CountPending, Removing,
     OwnedRow, HasRow, StoreAlone
<1>3. HashCurrent(code)'
  BY <1>1, <1>2 DEF LinkOK, HashCurrent, StoreAlone, KeyExists, HasRow
<1>4. RowCurrent(code)'
  BY <1>1, <1>2 DEF LinkOK, RowCurrent, StoreAlone, KeyExists, HasRow
<1> QED
  BY <1>1, <1>3, <1>4 DEF LinkOK, Unvisited, StoreAlone

(***************************************************************************)
(* What is left to show of a step of client c on a code: that the link of  *)
(* that code, and c itself, stay right.  (The code is Nil if c has none.)  *)
(***************************************************************************)
LEMMA RequestStep ==
  ASSUME IInv, SerialInv, NEW c \in Clients, NEW code \in Codes \cup {Nil},
         Local(c, code),
         \A d \in Clients \ {c} : ~WorksOn(d, code),
         \A other \in Codes \ {code} : ~WorksOn(c, other),
         pc'[c] \in {"idle", "insert"} \/ req'[c].code = code,
         code \in Codes => /\ ownerOf[code] # Nil => ownerOf'[code] = ownerOf[code]
                           /\ LinkOK(code)',
         RequestOK(c)'
  PROVE  SerialInv'
<1>1. ASSUME NEW d \in Clients
      PROVE  RequestOK(d)'
  BY OtherRequest DEF Local, OthersAlone, StoreAlone
<1>2. ASSUME NEW other \in Codes
      PROVE  LinkOK(other)'
  BY OtherLink DEF Local, OthersAlone
<1>3. Alone'
  BY DEF SerialInv, Alone, WorksOn, Local, OthersAlone, LeftAlone
<1> QED
  BY <1>1, <1>2, <1>3 DEF SerialInv, Local

(***************************************************************************)
(* The same for the steps of a request that has its code.                  *)
(***************************************************************************)
LEMMA WorkStep ==
  ASSUME IInv, SerialInv, NEW c \in Clients, NEW code \in Codes, WorksOn(c, code),
         Local(c, code), req'[c] = req[c], ownerOf'[code] = ownerOf[code],
         LinkOK(code)', RequestOK(c)'
  PROVE  SerialInv'
<1>1. req'[c].code = code /\ \A other \in Codes \ {code} : ~WorksOn(c, other)
  BY DEF WorksOn
<1>2. \A d \in Clients \ {c} : ~WorksOn(d, code)
  BY DEF SerialInv, Alone
<1> QED
  BY <1>1, <1>2, RequestStep

(***************************************************************************)
(* The link, after a step that leaves it alone and makes no difference     *)
(* good that the request is to blame for.                                  *)
(***************************************************************************)
LEMMA LinkLasts ==
  ASSUME IInv, SerialInv, NEW c \in Clients, NEW code \in Codes, WorksOn(c, code),
         StoreAlone(code), ~UrlPending(c), ~CountPending(c)
  PROVE  LinkOK(code)'
<1>1. LinkOK(code)
  BY Worker
<1>2. KeyExists(code) => cache[code].url = urls[code].url
  BY WorkersHash
<1>3. HasRow(code) => KeyExists(code) \/ urls[code].count = visits[code]
  BY WorkersRow
<1> QED
  BY <1>1, <1>2, <1>3
  DEF LinkOK, HashCurrent, RowCurrent, Unvisited, StoreAlone, KeyExists, HasRow

--------------------------------------------------------------------------------
(***************************************************************************)
(* What each command does, given what SerialInv says of the request and of *)
(* the link: the branches that are left, and what they write, told link by *)
(* link and field by field.                                                *)
(***************************************************************************)
Serial(c, code) ==
  IInv /\ SerialInv /\ WorksOn(c, code) /\ UNCHANGED <<syncVars, faults, copies>>

Calls(c, code) ==
  Local(c, code) /\ req'[c] = req[c] /\ ownerOf' = ownerOf /\ batch' = batch

Goes(c, step) == pc'[c] = step /\ status'[c] = Nil

Ends(c, s) == pc'[c] = "idle" /\ status'[c] = s

SameStores(code) ==
  cache'[code] = cache[code] /\ urls'[code] = urls[code] /\ visits'[code] = visits[code]

(***************************************************************************)
(* ServiceGet.                                                             *)
(***************************************************************************)
GetLookupEffect(c, code) ==
  /\ Calls(c, code) /\ SameStores(code)
  /\ \/ /\ KeyExists(code) /\ Goes(c, "get_count")
        /\ data'[c].url = cache[code].url
     \/ ~KeyExists(code) /\ Goes(c, "get_select")
     \/ KeyExists(code) /\ ownerOf[code] # req[c].user /\ Ends(c, "forbidden")

LEMMA GetLookupDoes ==
  ASSUME NEW c \in Clients, NEW code \in Codes, Serial(c, code), GetLookup(c)
  PROVE  GetLookupEffect(c, code)
<1>1. TypeOK /\ req[c].code = code
  BY DEF Serial, IInv, WorksOn
<1>2. /\ UNCHANGED <<storeVars, req, hits, received, historyVars, syncVars, faults, copies>>
      /\ status[c] = Nil
  BY Worker DEF GetLookup, Serial
<1>3. KeyExists(code) => cache[code].owner = ownerOf[code]
  BY WorkersHash DEF Serial
<1>4. \/ /\ KeyExists(code)
         /\ data' = [data EXCEPT ![c] = [owner |-> cache[code].owner,
                                         url   |-> cache[code].url,
                                         count |-> cache[code].count]]
         /\ pc' = [pc EXCEPT ![c] = "get_count"] /\ status' = status
      \/ /\ ~KeyExists(code) /\ data' = data
         /\ pc' = [pc EXCEPT ![c] = "get_select"] /\ status' = status
      \/ /\ KeyExists(code) /\ cache[code].owner # req[c].user /\ data' = data
         /\ pc' = [pc EXCEPT ![c] = "idle"]
         /\ status' = [status EXCEPT ![c] = "forbidden"]
  BY <1>1 DEF GetLookup, GetUrl, Goto, Answer
<1>5. Calls(c, code) /\ SameStores(code)
  BY <1>1, <1>2, <1>4
  DEF TypeOK, Calls, Local, OthersAlone, LeftAlone, SameStores, StoreAlone,
      storeVars, historyVars, syncVars
<1> QED
  BY <1>1, <1>2, <1>3, <1>4, <1>5 DEF TypeOK, GetLookupEffect, Goes, Ends

GetCountEffect(c, code) ==
  /\ Calls(c, code) /\ Ends(c, "ok")
  /\ KeyExists(code) /\ ownerOf[code] = req[c].user
  /\ data'[c] = data[c] /\ data[c].url = cache[code].url
  /\ visits'[code] = visits[code] + 1
  /\ cache'[code].owner = cache[code].owner
  /\ cache'[code].url = cache[code].url
  /\ cache'[code].count = visits[code] + 1
  /\ urls'[code] = urls[code]

LEMMA GetCountDoes ==
  ASSUME NEW c \in Clients, NEW code \in Codes, Serial(c, code), GetCount(c)
  PROVE  GetCountEffect(c, code)
<1>1. /\ TypeOK /\ req[c].code = code /\ pc[c] = "get_count" /\ UNCHANGED <<faults, copies>>
      /\ cache[code] \in Hash
  BY DEF Serial, IInv, WorksOn, GetCount, TypeOK
<1>2. /\ UNCHANGED <<urls, req, data, hits, received, ownerOf, offered, syncVars>>
      /\ cache' = [cache EXCEPT ![code].count = IF @ = Nil THEN 1 ELSE @ + 1]
      /\ visits' = [visits EXCEPT ![code] = @ + 1]
      /\ pc' = [pc EXCEPT ![c] = "idle"]
  BY <1>1 DEF GetCount, IncrementCounter, Serial, Answer, ReplyLost
<1>3. status' = [status EXCEPT ![c] = "ok"]
  BY <1>1 DEF GetCount, Answer, ReplyLost, TypeOK
<1>4. /\ KeyExists(code) /\ data[c].url = cache[code].url
      /\ ownerOf[code] = req[c].user
  BY <1>1, Worker DEF Serial, RequestOK, Looked, Copied, HitSteps, Authorised, PastCheck
<1>5. cache[code].count = visits[code] /\ visits[code] # Nil
  BY <1>1, <1>4, WorkersHash, NilIsFresh DEF Serial, TypeOK
<1>6. /\ cache'[code].owner = cache[code].owner /\ cache'[code].url = cache[code].url
      /\ cache'[code].count = visits[code] + 1
  BY <1>1, <1>2, <1>5 DEF TypeOK, Hash
<1>7. Calls(c, code)
  BY <1>1, <1>2, <1>3
  DEF TypeOK, Calls, Local, OthersAlone, LeftAlone, StoreAlone, syncVars
<1> QED
  BY <1>1, <1>2, <1>3, <1>4, <1>6, <1>7 DEF TypeOK, GetCountEffect, Ends

GetSelectEffect(c, code) ==
  /\ Calls(c, code) /\ ~KeyExists(code)
  /\ cache'[code] = cache[code] /\ urls'[code] = urls[code]
  /\ \/ /\ HasRow(code) /\ urls[code].owner = req[c].user /\ Goes(c, "get_fill")
        /\ data'[c] = [urls[code] EXCEPT !.count = @ + 1]
        /\ visits'[code] = visits[code] + 1
     \/ /\ HasRow(code) /\ urls[code].owner # req[c].user /\ Ends(c, "forbidden")
        /\ visits'[code] = visits[code]
     \/ /\ ~HasRow(code) /\ Ends(c, "notfound")
        /\ visits'[code] = visits[code]

LEMMA GetSelectDoes ==
  ASSUME NEW c \in Clients, NEW code \in Codes, Serial(c, code), GetSelect(c)
  PROVE  GetSelectEffect(c, code)
<1>1. TypeOK /\ req[c].code = code /\ pc[c] = "get_select" /\ UNCHANGED <<faults, copies>>
  BY DEF Serial, IInv, WorksOn, GetSelect
<1>2. /\ UNCHANGED <<cache, urls, req, hits, received, ownerOf, offered, syncVars>>
      /\ status[c] = Nil
  BY <1>1, Worker DEF GetSelect, Serial, storeVars
<1>3. ~KeyExists(code)
  BY <1>1, Worker DEF Serial, RequestOK, Looked, MissSteps
<1>4. \/ /\ HasRow(code) /\ urls[code].owner = req[c].user
         /\ data' = [data EXCEPT ![c] = [urls[code] EXCEPT !.count = @ + 1]]
         /\ visits' = [visits EXCEPT ![code] = @ + 1]
         /\ pc' = [pc EXCEPT ![c] = "get_fill"] /\ status' = status
      \/ /\ HasRow(code) /\ urls[code].owner # req[c].user
         /\ pc' = [pc EXCEPT ![c] = "idle"] /\ status' = [status EXCEPT ![c] = "forbidden"]
         /\ visits' = visits /\ data' = data
      \/ /\ ~HasRow(code)
         /\ pc' = [pc EXCEPT ![c] = "idle"] /\ status' = [status EXCEPT ![c] = "notfound"]
         /\ visits' = visits /\ data' = data
  BY <1>1 DEF GetSelect, RepositoryGet, HasRow, Goto, Answer
<1>5. Calls(c, code)
  BY <1>1, <1>2, <1>4
  DEF TypeOK, Calls, Local, OthersAlone, LeftAlone, StoreAlone, syncVars
<1> QED
  BY <1>1, <1>2, <1>3, <1>4, <1>5 DEF TypeOK, GetSelectEffect, Goes, Ends

(***************************************************************************)
(* SaveUrl of newData, by a GET, a stats request or a PUT.                 *)
(***************************************************************************)
SaveEffect(c, code) ==
  /\ Calls(c, code) /\ Ends(c, "ok")
  /\ HasRow(code) /\ ownerOf[code] = req[c].user
  /\ data'[c] = data[c]
  /\ data[c].url = urls[code].url /\ data[c].count = visits[code]
  /\ cache'[code].owner = req[c].user
  /\ cache'[code].url = urls[code].url
  /\ cache'[code].count = visits[code]
  /\ urls'[code] = urls[code] /\ visits'[code] = visits[code]

LEMMA SaveDoes ==
  ASSUME NEW c \in Clients, NEW code \in Codes, Serial(c, code), Fill(c) \/ PutSave(c)
  PROVE  SaveEffect(c, code)
<1>1. TypeOK /\ req[c].code = code /\ pc[c] \in SaveSteps /\ UNCHANGED <<faults, copies>>
  BY DEF Serial, IInv, WorksOn, Fill, PutSave, SaveSteps, FillSteps
<1>2. /\ UNCHANGED <<urls, req, data, hits, received, historyVars, syncVars>>
      /\ cache' = [cache EXCEPT ![code] = [owner   |-> data[c].owner,
                                           url     |-> data[c].url,
                                           count   |-> data[c].count,
                                           stamped |-> TRUE]]
      /\ pc' = [pc EXCEPT ![c] = "idle"]
  BY <1>1 DEF Fill, PutSave, SaveUrl, Serial, Answer, ReplyLost
<1>3. status' = [status EXCEPT ![c] = "ok"]
  BY <1>1 DEF Fill, PutSave, Answer, ReplyLost, TypeOK
<1>4. /\ HasRow(code) /\ data[c].url = urls[code].url /\ data[c].count = visits[code]
      /\ ownerOf[code] = req[c].user
  BY <1>1, Worker DEF Serial, RequestOK, Copied, Authorised, PastCheck
<1>5. data[c].owner = ownerOf[code]
  BY <1>1, InFlight DEF Serial, HoldsData, RowOK, Past, SaveSteps, FillSteps
<1>6. Calls(c, code)
  BY <1>1, <1>2, <1>3
  DEF TypeOK, Calls, Local, OthersAlone, LeftAlone, StoreAlone, syncVars, historyVars
<1> QED
  BY <1>1, <1>2, <1>3, <1>4, <1>5, <1>6 DEF TypeOK, SaveEffect, Ends, historyVars

(***************************************************************************)
(* ServiceGetStats.                                                        *)
(***************************************************************************)
StatsLookupEffect(c, code) ==
  /\ Calls(c, code) /\ SameStores(code)
  /\ \/ /\ KeyExists(code) /\ ownerOf[code] = req[c].user /\ Ends(c, "ok")
        /\ data'[c].url = cache[code].url /\ data'[c].count = cache[code].count
     \/ ~KeyExists(code) /\ Goes(c, "stats_select")
     \/ KeyExists(code) /\ ownerOf[code] # req[c].user /\ Ends(c, "forbidden")

LEMMA StatsLookupDoes ==
  ASSUME NEW c \in Clients, NEW code \in Codes, Serial(c, code), StatsLookup(c)
  PROVE  StatsLookupEffect(c, code)
<1>1. TypeOK /\ req[c].code = code
  BY DEF Serial, IInv, WorksOn
<1>2. /\ UNCHANGED <<storeVars, req, hits, received, historyVars, syncVars, faults, copies>>
      /\ status[c] = Nil
  BY Worker DEF StatsLookup, Serial
<1>3. KeyExists(code) => /\ cache[code].owner = ownerOf[code] /\ cache[code].owner # Nil
                         /\ cache[code].count # Nil /\ cache[code].stamped
  BY <1>1, WorkersHash, NilIsFresh DEF Serial, TypeOK
<1>4. \/ /\ KeyExists(code) /\ cache[code].owner = req[c].user
         /\ data' = [data EXCEPT ![c] = [owner |-> cache[code].owner,
                                         url   |-> cache[code].url,
                                         count |-> cache[code].count]]
         /\ pc' = [pc EXCEPT ![c] = "idle"] /\ status' = [status EXCEPT ![c] = "ok"]
      \/ /\ ~KeyExists(code) /\ data' = data
         /\ pc' = [pc EXCEPT ![c] = "stats_select"] /\ status' = status
      \/ /\ KeyExists(code) /\ cache[code].owner # req[c].user /\ data' = data
         /\ pc' = [pc EXCEPT ![c] = "idle"]
         /\ status' = [status EXCEPT ![c] = "forbidden"]
  BY <1>1, <1>3 DEF StatsLookup, GetUrlStats, Goto, Answer
<1>5. Calls(c, code) /\ SameStores(code)
  BY <1>1, <1>2, <1>4
  DEF TypeOK, Calls, Local, OthersAlone, LeftAlone, SameStores, StoreAlone,
      storeVars, historyVars, syncVars
<1> QED
  BY <1>1, <1>2, <1>3, <1>4, <1>5 DEF TypeOK, StatsLookupEffect, Goes, Ends

StatsSelectEffect(c, code) ==
  /\ Calls(c, code) /\ SameStores(code) /\ ~KeyExists(code)
  /\ \/ /\ HasRow(code) /\ urls[code].owner = req[c].user /\ Goes(c, "stats_fill")
        /\ data'[c] = urls[code]
     \/ HasRow(code) /\ urls[code].owner # req[c].user /\ Ends(c, "forbidden")
     \/ ~HasRow(code) /\ Ends(c, "notfound")

LEMMA StatsSelectDoes ==
  ASSUME NEW c \in Clients, NEW code \in Codes, Serial(c, code), StatsSelect(c)
  PROVE  StatsSelectEffect(c, code)
<1>1. TypeOK /\ req[c].code = code /\ pc[c] = "stats_select"
  BY DEF Serial, IInv, WorksOn, StatsSelect
<1>2. /\ UNCHANGED <<storeVars, req, hits, received, historyVars, syncVars, faults, copies>>
      /\ status[c] = Nil
  BY <1>1, Worker DEF StatsSelect, Serial
<1>3. ~KeyExists(code)
  BY <1>1, Worker DEF Serial, RequestOK, Looked, MissSteps
<1>4. \/ /\ HasRow(code) /\ urls[code].owner = req[c].user
         /\ data' = [data EXCEPT ![c] = urls[code]]
         /\ pc' = [pc EXCEPT ![c] = "stats_fill"] /\ status' = status
      \/ /\ HasRow(code) /\ urls[code].owner # req[c].user /\ data' = data
         /\ pc' = [pc EXCEPT ![c] = "idle"] /\ status' = [status EXCEPT ![c] = "forbidden"]
      \/ /\ ~HasRow(code) /\ data' = data
         /\ pc' = [pc EXCEPT ![c] = "idle"] /\ status' = [status EXCEPT ![c] = "notfound"]
  BY <1>1 DEF StatsSelect, RepositoryGetStats, HasRow, Goto, Answer
<1>5. Calls(c, code) /\ SameStores(code)
  BY <1>1, <1>2, <1>4
  DEF TypeOK, Calls, Local, OthersAlone, LeftAlone, SameStores, StoreAlone,
      storeVars, historyVars, syncVars
<1> QED
  BY <1>1, <1>2, <1>3, <1>4, <1>5 DEF TypeOK, StatsSelectEffect, Goes, Ends

(***************************************************************************)
(* The first command of a PUT or a DELETE.                                 *)
(***************************************************************************)
CheckEffect(c, code, hit, miss) ==
  /\ Calls(c, code) /\ SameStores(code) /\ hits'[c] = hits[c]
  /\ \/ KeyExists(code) /\ ownerOf[code] = req[c].user /\ Goes(c, hit)
     \/ ~KeyExists(code) /\ Goes(c, miss)
     \/ KeyExists(code) /\ ownerOf[code] # req[c].user /\ Ends(c, "forbidden")

LEMMA CheckDoes ==
  ASSUME NEW c \in Clients, NEW code \in Codes, Serial(c, code)
  PROVE  /\ PutCheck(c) => CheckEffect(c, code, "put_url", "put_update")
         /\ DelCheck(c) => CheckEffect(c, code, "del_key", "del_row")
<1> SUFFICES ASSUME NEW hit, NEW miss,
                    \/ PutCheck(c) /\ hit = "put_url" /\ miss = "put_update"
                    \/ DelCheck(c) /\ hit = "del_key" /\ miss = "del_row"
             PROVE  CheckEffect(c, code, hit, miss)
  OBVIOUS
<1>1. TypeOK /\ req[c].code = code
  BY DEF Serial, IInv, WorksOn
<1>2. /\ UNCHANGED <<storeVars, req, data, hits, received, historyVars, syncVars, faults, copies>>
      /\ status[c] = Nil
  BY Worker DEF PutCheck, DelCheck, Serial
<1>3. IF KeyExists(code)
      THEN cache[code].owner = ownerOf[code] /\ cache[code].owner # Nil
      ELSE cache[code].owner = Nil
  BY <1>1, WorkersHash, NilIsFresh DEF Serial, TypeOK, NoHash
<1>4. \/ /\ KeyExists(code) /\ cache[code].owner = req[c].user
         /\ pc' = [pc EXCEPT ![c] = hit] /\ status' = status
      \/ /\ ~KeyExists(code)
         /\ pc' = [pc EXCEPT ![c] = miss] /\ status' = status
      \/ /\ KeyExists(code) /\ cache[code].owner # req[c].user
         /\ pc' = [pc EXCEPT ![c] = "idle"]
         /\ status' = [status EXCEPT ![c] = "forbidden"]
  BY <1>1, <1>3 DEF PutCheck, DelCheck, CheckOwner, Goto, Answer
<1>5. Calls(c, code) /\ SameStores(code)
  BY <1>1, <1>2, <1>4
  DEF TypeOK, Calls, Local, OthersAlone, LeftAlone, SameStores, StoreAlone,
      storeVars, historyVars, syncVars
<1> QED
  BY <1>1, <1>2, <1>3, <1>4, <1>5 DEF TypeOK, CheckEffect, Goes, Ends

(***************************************************************************)
(* ServicePut.  Once it has hit, the hash stays, complete and its own.     *)
(***************************************************************************)
Hit(c, code) == KeyExists(code) /\ ownerOf[code] = req[c].user

PutUrlEffect(c, code) ==
  /\ Calls(c, code) /\ Goes(c, "put_stamp") /\ Hit(c, code)
  /\ hits'[c] = hits[c]
  /\ cache'[code].owner = cache[code].owner
  /\ cache'[code].url = req[c].url
  /\ cache'[code].count = cache[code].count
  /\ urls'[code] = urls[code] /\ visits'[code] = visits[code]

LEMMA PutUrlDoes ==
  ASSUME NEW c \in Clients, NEW code \in Codes, Serial(c, code), PutUrl(c)
  PROVE  PutUrlEffect(c, code)
<1>1. /\ TypeOK /\ req[c].code = code /\ pc[c] = "put_url" /\ UNCHANGED <<faults, copies>>
      /\ cache[code] \in Hash
  BY DEF Serial, IInv, WorksOn, PutUrl, TypeOK
<1>2. /\ UNCHANGED <<urls, req, data, hits, received, ownerOf, visits, syncVars>>
      /\ cache' = [cache EXCEPT ![code].url = req[c].url]
      /\ status[c] = Nil
  BY <1>1, Worker DEF PutUrl, SetUrl, Serial
<1>3. pc' = [pc EXCEPT ![c] = "put_stamp"] /\ status' = status
  BY <1>1 DEF PutUrl, Goto, ReplyLost, TypeOK
<1>4. Hit(c, code)
  BY <1>1, Worker DEF Serial, RequestOK, Looked, HitSteps, Authorised, PastCheck, Hit
<1>5. /\ cache'[code].owner = cache[code].owner
      /\ cache'[code].url = req[c].url
      /\ cache'[code].count = cache[code].count
  BY <1>1, <1>2 DEF TypeOK, Hash
<1>6. Calls(c, code)
  BY <1>1, <1>2, <1>3
  DEF TypeOK, Calls, Local, OthersAlone, LeftAlone, StoreAlone, syncVars
<1> QED
  BY <1>1, <1>2, <1>3, <1>4, <1>5, <1>6 DEF TypeOK, PutUrlEffect, Goes

PutStampEffect(c, code) ==
  /\ Calls(c, code) /\ Goes(c, "put_reread") /\ Hit(c, code)
  /\ hits'[c] = hits[c]
  /\ cache'[code].owner = cache[code].owner
  /\ cache'[code].url = cache[code].url
  /\ cache'[code].count = cache[code].count
  /\ urls'[code] = urls[code] /\ visits'[code] = visits[code]

LEMMA PutStampDoes ==
  ASSUME NEW c \in Clients, NEW code \in Codes, Serial(c, code), PutStamp(c)
  PROVE  PutStampEffect(c, code)
<1>1. /\ TypeOK /\ req[c].code = code /\ pc[c] = "put_stamp" /\ UNCHANGED <<faults, copies>>
      /\ cache[code] \in Hash
  BY DEF Serial, IInv, WorksOn, PutStamp, TypeOK
<1>2. /\ UNCHANGED <<urls, req, data, hits, received, historyVars, syncVars>>
      /\ cache' = [cache EXCEPT ![code].stamped = TRUE]
      /\ status[c] = Nil
  BY <1>1, Worker DEF PutStamp, SetUpdatedAt, Serial
<1>3. pc' = [pc EXCEPT ![c] = "put_reread"] /\ status' = status
  BY <1>1 DEF PutStamp, Goto, ReplyLost, TypeOK
<1>4. Hit(c, code)
  BY <1>1, Worker DEF Serial, RequestOK, Looked, HitSteps, Authorised, PastCheck, Hit
<1>5. /\ cache'[code].owner = cache[code].owner
      /\ cache'[code].url = cache[code].url
      /\ cache'[code].count = cache[code].count
  BY <1>1, <1>2 DEF TypeOK, Hash
<1>6. Calls(c, code)
  BY <1>1, <1>2, <1>3
  DEF TypeOK, Calls, Local, OthersAlone, LeftAlone, StoreAlone, syncVars, historyVars
<1> QED
  BY <1>1, <1>2, <1>3, <1>4, <1>5, <1>6 DEF TypeOK, PutStampEffect, Goes, historyVars

PutRereadEffect(c, code) ==
  /\ Calls(c, code) /\ SameStores(code) /\ Goes(c, "put_update") /\ Hit(c, code)
  /\ hits'[c] = cache[code].count

LEMMA PutRereadDoes ==
  ASSUME NEW c \in Clients, NEW code \in Codes, Serial(c, code), PutReread(c)
  PROVE  PutRereadEffect(c, code)
<1>1. TypeOK /\ req[c].code = code /\ pc[c] = "put_reread"
  BY DEF Serial, IInv, WorksOn, PutReread
<1>2. /\ UNCHANGED <<storeVars, req, data, received, historyVars, syncVars, faults, copies>>
      /\ status[c] = Nil
  BY <1>1, Worker DEF PutReread, Serial
<1>3. Hit(c, code)
  BY <1>1, Worker DEF Serial, RequestOK, Looked, HitSteps, Authorised, PastCheck, Hit
<1>4. /\ cache[code].owner = ownerOf[code] /\ cache[code].owner # Nil
      /\ cache[code].count # Nil /\ cache[code].stamped
  BY <1>1, <1>3, WorkersHash, NilIsFresh DEF Serial, TypeOK, Hit
<1>5. /\ hits' = [hits EXCEPT ![c] = cache[code].count]
      /\ pc' = [pc EXCEPT ![c] = "put_update"] /\ status' = status
  BY <1>1, <1>3, <1>4 DEF PutReread, GetUrlStats, Goto, Answer, Hit
<1>6. Calls(c, code) /\ SameStores(code)
  BY <1>1, <1>2, <1>5
  DEF TypeOK, Calls, Local, OthersAlone, LeftAlone, SameStores, StoreAlone,
      storeVars, historyVars, syncVars
<1> QED
  BY <1>1, <1>2, <1>3, <1>5, <1>6 DEF TypeOK, PutRereadEffect, Goes

PutUpdateEffect(c, code) ==
  /\ Calls(c, code) /\ hits'[c] = hits[c]
  /\ cache'[code] = cache[code] /\ visits'[code] = visits[code]
  /\ \/ /\ HasRow(code) /\ ownerOf[code] = req[c].user /\ Goes(c, "put_save")
        /\ urls'[code] # Nil
        /\ urls'[code].owner = urls[code].owner
        /\ urls'[code].url = req[c].url
        /\ urls'[code].count = urls[code].count
        /\ data'[c].url = req[c].url /\ data'[c].count = visits[code]
     \/ /\ ~OwnedRow(code, req[c].user) /\ hits[c] = Nil /\ Goes(c, "put_exists")
        /\ urls'[code] = urls[code]

LEMMA PutUpdateDoes ==
  ASSUME NEW c \in Clients, NEW code \in Codes, Serial(c, code), PutUpdate(c)
  PROVE  PutUpdateEffect(c, code)
<1> DEFINE row == [urls[code] EXCEPT !.url = req[c].url]
           info == [row EXCEPT !.count = IF hits[c] = Nil THEN @ ELSE hits[c]]
<1>1. TypeOK /\ req[c].code = code /\ pc[c] = "put_update" /\ UNCHANGED <<faults, copies>>
  BY DEF Serial, IInv, WorksOn, PutUpdate
<1>2. /\ UNCHANGED <<cache, req, hits, received, ownerOf, visits, syncVars>>
      /\ status[c] = Nil /\ req[c].user \in Users
  BY <1>1, Worker DEF PutUpdate, Serial
<1>3. /\ HasRow(code) =>
           /\ urls[code] \in URLInfo /\ urls[code].owner = ownerOf[code]
           /\ KeyExists(code) \/ urls[code].count = visits[code]
      /\ hits[c] = Nil => ~KeyExists(code)
      /\ hits[c] # Nil =>
           /\ hits[c] = visits[code] /\ HasRow(code)
           /\ cache[code].owner = ownerOf[code] /\ cache[code].owner = req[c].user
  BY <1>1, Worker, WorkersRow, WorkersHash
  DEF Serial, RequestOK, Putting, CountPending, Removing
<1>4. CASE OwnedRow(code, req[c].user)
  <2>1. /\ urls' = [urls EXCEPT ![code] = row]
        /\ data' = [data EXCEPT ![c] = info]
        /\ pc' = [pc EXCEPT ![c] = "put_save"] /\ status' = status
    <3>1. /\ UpdateRow(code, req[c].url)
          /\ data' = [data EXCEPT ![c] = [urls'[code] EXCEPT !.count =
                                            IF hits[c] = Nil THEN @ ELSE hits[c]]]
          /\ Goto(c, "put_save") \/ ReplyLost(c)
      BY <1>1, <1>4 DEF PutUpdate
    <3>2. urls' = [urls EXCEPT ![code] = row] /\ urls'[code] = row
      BY <1>1, <3>1, Zenon DEF UpdateRow, TypeOK
    <3>3. pc' = [pc EXCEPT ![c] = "put_save"] /\ status' = status
      BY <1>1, <3>1 DEF Goto, ReplyLost, TypeOK
    <3> QED
      BY <3>1, <3>2, <3>3
  <2>2. /\ HasRow(code) /\ ownerOf[code] = req[c].user /\ urls[code] \in URLInfo
        /\ hits[c] = Nil => urls[code].count = visits[code]
        /\ hits[c] # Nil => hits[c] = visits[code]
    BY <1>3, <1>4 DEF OwnedRow
  <2>3. /\ row.owner = urls[code].owner /\ row.url = req[c].url
        /\ row.count = urls[code].count
        /\ info.url = req[c].url /\ info.count = visits[code]
    BY <2>2 DEF URLInfo
  <2>4. urls'[code] = row /\ data'[c] = info /\ Goes(c, "put_save")
    BY <1>1, <1>2, <2>1 DEF TypeOK, Goes
  <2>5. row # Nil
    <3>1. req[c].url \in Urls
      BY <1>1, Worker DEF Serial, Serving, PutSteps
    <3>2. row \in URLInfo
      BY <2>2, <3>1 DEF URLInfo
    <3> QED
      BY <3>2, NilIsFresh
  <2>6. Calls(c, code)
    BY <1>1, <1>2, <2>1
    DEF TypeOK, Calls, Local, OthersAlone, LeftAlone, StoreAlone, syncVars
  <2> QED
    BY <1>2, <2>2, <2>3, <2>4, <2>5, <2>6 DEF PutUpdateEffect
<1>5. CASE ~OwnedRow(code, req[c].user)
  <2>1. /\ urls' = urls /\ data' = data
        /\ pc' = [pc EXCEPT ![c] = "put_exists"] /\ status' = status
    BY <1>1, <1>5 DEF PutUpdate, Goto
  <2>2. hits[c] = Nil
    BY <1>3, <1>5 DEF OwnedRow
  <2>3. Calls(c, code)
    BY <1>1, <1>2, <2>1
    DEF TypeOK, Calls, Local, OthersAlone, LeftAlone, StoreAlone, syncVars
  <2> QED
    BY <1>1, <1>2, <1>5, <2>1, <2>2, <2>3 DEF PutUpdateEffect, Goes, TypeOK
<1> QED
  BY <1>4, <1>5

(***************************************************************************)
(* existsByShortCode, for PUT and DELETE.                                  *)
(***************************************************************************)
ExistsEffect(c, code) ==
  /\ Calls(c, code) /\ SameStores(code)
  /\ \/ HasRow(code) /\ ownerOf[code] # req[c].user /\ Ends(c, "forbidden")
     \/ ~HasRow(code) /\ Ends(c, "notfound")

LEMMA ExistsDoes ==
  ASSUME NEW c \in Clients, NEW code \in Codes, Serial(c, code), Exists(c)
  PROVE  ExistsEffect(c, code)
<1>1. TypeOK /\ req[c].code = code /\ pc[c] \in {"put_exists", "del_exists"}
  BY DEF Serial, IInv, WorksOn, Exists
<1>2. UNCHANGED <<storeVars, req, data, hits, received, historyVars, syncVars, faults, copies>>
  BY DEF Exists, Serial
<1>3. HasRow(code) => ownerOf[code] # req[c].user
  BY <1>1, Worker, WorkersRow DEF Serial, RequestOK, Looked, OwnedRow
<1>4. /\ pc' = [pc EXCEPT ![c] = "idle"]
      /\ status' = [status EXCEPT ![c] = IF HasRow(code) THEN "forbidden" ELSE "notfound"]
  BY <1>1 DEF Exists, Answer
<1>5. Calls(c, code) /\ SameStores(code)
  BY <1>1, <1>2, <1>4
  DEF TypeOK, Calls, Local, OthersAlone, LeftAlone, SameStores, StoreAlone,
      storeVars, historyVars, syncVars
<1> QED
  BY <1>1, <1>3, <1>4, <1>5 DEF TypeOK, ExistsEffect, Ends

(***************************************************************************)
(* ServiceDelete.                                                          *)
(***************************************************************************)
DelKeyEffect(c, code) ==
  /\ Calls(c, code) /\ Goes(c, "del_row") /\ Hit(c, code)
  /\ cache'[code] = NoHash
  /\ urls'[code] = urls[code] /\ visits'[code] = visits[code]

LEMMA DelKeyDoes ==
  ASSUME NEW c \in Clients, NEW code \in Codes, Serial(c, code), DelKey(c)
  PROVE  DelKeyEffect(c, code)
<1>1. TypeOK /\ req[c].code = code /\ pc[c] = "del_key" /\ UNCHANGED <<faults, copies>>
  BY DEF Serial, IInv, WorksOn, DelKey
<1>2. /\ UNCHANGED <<urls, req, data, hits, received, historyVars, syncVars>>
      /\ cache' = [cache EXCEPT ![code] = NoHash]
      /\ status[c] = Nil
  BY <1>1, Worker DEF DelKey, DeleteKey, Serial
<1>3. pc' = [pc EXCEPT ![c] = "del_row"] /\ status' = status
  BY <1>1 DEF DelKey, Goto, ReplyLost, TypeOK
<1>4. Hit(c, code)
  BY <1>1, Worker DEF Serial, RequestOK, Looked, HitSteps, Authorised, PastCheck, Hit
<1>5. Calls(c, code)
  BY <1>1, <1>2, <1>3
  DEF TypeOK, Calls, Local, OthersAlone, LeftAlone, StoreAlone, syncVars, historyVars
<1> QED
  BY <1>1, <1>2, <1>3, <1>4, <1>5 DEF TypeOK, DelKeyEffect, Goes, historyVars

DelRowEffect(c, code) ==
  /\ Calls(c, code) /\ ~KeyExists(code)
  /\ cache'[code] = cache[code] /\ visits'[code] = visits[code]
  /\ \/ OwnedRow(code, req[c].user) /\ Ends(c, "ok") /\ urls'[code] = Nil
     \/ ~OwnedRow(code, req[c].user) /\ Goes(c, "del_exists") /\ urls'[code] = urls[code]

LEMMA DelRowDoes ==
  ASSUME NEW c \in Clients, NEW code \in Codes, Serial(c, code), DelRow(c)
  PROVE  DelRowEffect(c, code)
<1>1. TypeOK /\ req[c].code = code /\ pc[c] = "del_row" /\ UNCHANGED <<faults, copies>>
  BY DEF Serial, IInv, WorksOn, DelRow
<1>2. /\ UNCHANGED <<cache, req, data, hits, received, historyVars, syncVars>>
      /\ status[c] = Nil /\ ~KeyExists(code)
  BY <1>1, Worker DEF DelRow, Serial, RequestOK, Looked, MissSteps
<1>3. \/ /\ OwnedRow(code, req[c].user) /\ urls' = [urls EXCEPT ![code] = Nil]
         /\ pc' = [pc EXCEPT ![c] = "idle"] /\ status' = [status EXCEPT ![c] = "ok"]
      \/ /\ ~OwnedRow(code, req[c].user) /\ urls' = urls
         /\ pc' = [pc EXCEPT ![c] = "del_exists"] /\ status' = status
  BY <1>1 DEF DelRow, DeleteRow, Goto, Answer, ReplyLost, TypeOK
<1>4. Calls(c, code)
  BY <1>1, <1>2, <1>3
  DEF TypeOK, Calls, Local, OthersAlone, LeftAlone, StoreAlone, syncVars, historyVars
<1> QED
  BY <1>1, <1>2, <1>3, <1>4 DEF TypeOK, DelRowEffect, Goes, Ends, historyVars

(***************************************************************************)
(* ServicePost, and the arrival of a request.  NoOverlap keeps them off    *)
(* the codes others work on.                                               *)
(***************************************************************************)
InsertEffect(c, code) ==
  /\ Local(c, code) /\ batch' = batch /\ pc'[c] = "idle"
  /\ req'[c] = [req[c] EXCEPT !.code = code] /\ req'[c].code = code
  /\ \A d \in Clients \ {c} : ~WorksOn(d, code)
  /\ cache'[code] = cache[code] /\ visits'[code] = visits[code]
  /\ \/ /\ HasRow(code) /\ status'[c] = "error"
        /\ urls'[code] = urls[code] /\ ownerOf'[code] = ownerOf[code]
     \/ /\ ~HasRow(code) /\ ownerOf[code] = Nil /\ status'[c] = "ok"
        /\ urls'[code] = [owner |-> req[c].user, url |-> req[c].url, count |-> 0]
        /\ data'[c] = urls'[code] /\ ownerOf'[code] = req[c].user

LEMMA InsertDoes ==
  ASSUME IInv, SerialInv, NEW c \in Clients, Insert(c), NoOverlap,
         UNCHANGED <<syncVars, faults, copies>>
  PROVE  \E code \in Codes : InsertEffect(c, code)
<1>1. TypeOK /\ pc[c] = "insert" /\ req[c] \in Request
  BY InFlight DEF IInv, Insert
<1>2. UNCHANGED <<cache, hits, received, visits, syncVars, faults, copies>>
  BY DEF Insert
<1>3. PICK code \in Drawable :
        /\ req' = [req EXCEPT ![c].code = code]
        /\ \/ /\ InsertRejected(code)
              /\ Answer(c, "error")
              /\ UNCHANGED <<urls, data, ownerOf, offered>>
           \/ /\ ~InsertRejected(code)
              /\ InsertRow(code, req[c].user, req[c].url)
              /\ ownerOf' = [ownerOf EXCEPT ![code] = req[c].user]
              /\ offered' = [offered EXCEPT ![code] = @ \cup {req[c].url}]
              /\ data' = [data EXCEPT ![c] = urls'[code]]
              /\ Answer(c, "ok") \/ ReplyLost(c)
  BY DEF Insert
<1>4. /\ code \in Codes
      /\ ~HasRow(code) => ownerOf[code] = Nil
  BY DEF Drawable, Fresh
<1>5. pc' = [pc EXCEPT ![c] = "idle"]
  BY <1>3 DEF Answer, ReplyLost
<1>6. /\ req'[c] = [req[c] EXCEPT !.code = code]
      /\ \A d \in Clients \ {c} : req'[d] = req[d]
  BY <1>1, <1>3, Zenon DEF TypeOK
<1>7. req'[c].code = code
  BY <1>1, <1>6 DEF Request
<1>8. \A d \in Clients \ {c} : ~WorksOn(d, code)
  <2>1. pc'[c] # pc[c] /\ code # Nil
    BY <1>1, <1>4, <1>5, NilIsFresh DEF TypeOK
  <2> QED
    BY <1>7, <2>1 DEF NoOverlap, WorksOn
<1>9. CASE HasRow(code)
  <2>1. /\ UNCHANGED <<urls, data, ownerOf, offered>>
        /\ status' = [status EXCEPT ![c] = "error"]
    BY <1>3, <1>9 DEF InsertRejected, Answer
  <2>2. Local(c, code)
    BY <1>1, <1>2, <1>5, <1>6, <2>1
    DEF TypeOK, Local, OthersAlone, LeftAlone, StoreAlone, syncVars
  <2>3. InsertEffect(c, code)
    BY <1>1, <1>2, <1>5, <1>6, <1>7, <1>8, <1>9, <2>1, <2>2
    DEF InsertEffect, TypeOK, syncVars
  <2> QED
    BY <1>4, <2>3
<1>10. CASE ~HasRow(code)
  <2>1. /\ urls' = [urls EXCEPT ![code] =
                      [owner |-> req[c].user, url |-> req[c].url, count |-> 0]]
        /\ ownerOf' = [ownerOf EXCEPT ![code] = req[c].user]
        /\ data' = [data EXCEPT ![c] = urls'[code]]
    BY <1>3, <1>10 DEF InsertRejected, InsertRow
  <2>2. status' = [status EXCEPT ![c] = "ok"]
    BY <1>1, <1>3, <1>10 DEF InsertRejected, Answer, ReplyLost, TypeOK
  <2>3. Local(c, code)
    BY <1>1, <1>2, <1>5, <1>6, <2>1, <2>2
    DEF TypeOK, Local, OthersAlone, LeftAlone, StoreAlone, syncVars
  <2>4. /\ urls'[code] = [owner |-> req[c].user, url |-> req[c].url, count |-> 0]
        /\ data'[c] = urls'[code] /\ ownerOf'[code] = req[c].user /\ status'[c] = "ok"
        /\ pc'[c] = "idle" /\ cache'[code] = cache[code] /\ visits'[code] = visits[code]
        /\ batch' = batch
    BY <1>1, <1>2, <1>4, <1>5, <2>1, <2>2 DEF TypeOK, syncVars
  <2>5. InsertEffect(c, code)
    BY <1>4, <1>6, <1>7, <1>8, <1>10, <2>3, <2>4 DEF InsertEffect
  <2> QED
    BY <1>4, <2>5
<1> QED
  BY <1>9, <1>10

ReceiveEffect(c, op, user, code, url) ==
  /\ Local(c, code) /\ \A other \in Codes : StoreAlone(other)
  /\ pc'[c] = FirstStep[op] /\ status'[c] = Nil /\ hits'[c] = Nil
  /\ req'[c] = [op |-> op, user |-> user, code |-> code, url |-> url]
  /\ \A d \in Clients \ {c} : ~WorksOn(d, code)

LEMMA ReceiveDoes ==
  ASSUME IInv, SerialInv, NEW c \in Clients, Receive(c), NoOverlap,
         UNCHANGED <<syncVars, copies>>
  PROVE  /\ pc[c] = "idle"
         /\ \E op \in Ops, user \in Users, code \in Codes \cup {Nil}, url \in Urls \cup {Nil} :
              /\ code = Nil <=> op = "post"
              /\ url # Nil <=> op \in {"post", "put"}
              /\ ReceiveEffect(c, op, user, code, url)
<1>1. TypeOK /\ pc[c] = "idle"
  BY DEF IInv, Receive
<1>2. /\ UNCHANGED <<storeVars, faults, historyVars, syncVars, copies>>
      /\ data' = [data EXCEPT ![c] = Nil]
      /\ hits' = [hits EXCEPT ![c] = Nil]
      /\ status' = [status EXCEPT ![c] = Nil]
  BY DEF Receive
<1>3. PICK op \in Ops, user \in Users, some \in Codes, body \in Urls :
        /\ req' = [req EXCEPT ![c] =
                     [op   |-> op,
                      user |-> user,
                      code |-> IF op = "post" THEN Nil ELSE some,
                      url  |-> IF op \in {"post", "put"} THEN body ELSE Nil]]
        /\ pc' = [pc EXCEPT ![c] = FirstStep[op]]
  BY DEF Receive
<1> DEFINE code == IF op = "post" THEN Nil ELSE some
           url == IF op \in {"post", "put"} THEN body ELSE Nil
<1>4. /\ code \in Codes \cup {Nil} /\ url \in Urls \cup {Nil}
      /\ code = Nil <=> op = "post"
      /\ url # Nil <=> op \in {"post", "put"}
  BY NilIsFresh
<1> HIDE DEF code, url
<1>5. req' = [req EXCEPT ![c] = [op |-> op, user |-> user, code |-> code, url |-> url]]
  BY <1>3 DEF code, url
<1>6. Local(c, code) /\ \A other \in Codes : StoreAlone(other)
  BY <1>1, <1>2, <1>3, <1>5
  DEF TypeOK, Local, OthersAlone, LeftAlone, StoreAlone, storeVars, historyVars, syncVars
<1>7. /\ pc'[c] = FirstStep[op] /\ status'[c] = Nil /\ hits'[c] = Nil
      /\ req'[c] = [op |-> op, user |-> user, code |-> code, url |-> url]
  BY <1>1, <1>2, <1>3, <1>5 DEF TypeOK
<1>8. \A d \in Clients \ {c} : ~WorksOn(d, code)
  <2>1. pc'[c] # pc[c] /\ req'[c].code = code
    BY <1>1, <1>7 DEF FirstStep, Ops
  <2>2. ASSUME NEW d \in Clients, WorksOn(d, code)
        PROVE  code # Nil
    BY <2>2, NilIsFresh DEF WorksOn, IInv, ClientOK, Serving
  <2> QED
    BY <2>1, <2>2 DEF NoOverlap, WorksOn
<1>9. ReceiveEffect(c, op, user, code, url)
  BY <1>6, <1>7, <1>8 DEF ReceiveEffect
<1> QED
  BY <1>1, <1>4, <1>9

--------------------------------------------------------------------------------
(***************************************************************************)
(* SerialInv is inductive.  Most commands leave the link alone.            *)
(***************************************************************************)
LEMMA ReadOnlyStep ==
  ASSUME NEW c \in Clients, NEW code \in Codes, Serial(c, code),
         Calls(c, code), SameStores(code), ~UrlPending(c), ~CountPending(c),
         RequestOK(c)'
  PROVE  SerialInv'
<1>1. StoreAlone(code)
  BY DEF Calls, SameStores, StoreAlone
<1>2. LinkOK(code)'
  BY <1>1, LinkLasts DEF Serial
<1> QED
  BY <1>1, <1>2, WorkStep DEF Serial, Calls, StoreAlone

(***************************************************************************)
(* An answered request is right unless it was refused its own link.        *)
(***************************************************************************)
LEMMA EndedOK ==
  ASSUME NEW c \in Clients, NEW code \in Codes, Serial(c, code), Calls(c, code),
         NEW s \in Statuses, Ends(c, s),
         s = "forbidden" => ownerOf[code] \in Users \ {req[c].user}
  PROVE  RequestOK(c)'
<1>1. req'[c] = req[c] /\ req[c] # Nil /\ req[c].code = code /\ ownerOf' = ownerOf
  BY Worker, NilIsNoReply DEF Serial, Calls
<1> QED
  BY <1>1, NilIsFresh, NilIsNoReply
  DEF Ends, RequestOK, Looked, Copied, Putting, Told403, Replied, HitSteps, MissSteps,
      SaveSteps, FillSteps, PutSteps

LEMMA GetLookupSerial ==
  ASSUME NEW c \in Clients, NEW code \in Codes, Serial(c, code), GetLookup(c)
  PROVE  SerialInv'
<1>1. pc[c] = "get_lookup" /\ GetLookupEffect(c, code)
  BY GetLookupDoes DEF GetLookup
<1>2. req[c].code = code /\ (KeyExists(code) => ownerOf[code] \in Users)
  BY Worker, WorkersHash DEF Serial
<1>3. CASE pc'[c] = "idle"
  BY <1>1, <1>2, <1>3, EndedOK, ReadOnlyStep
  DEF GetLookupEffect, Goes, Ends, Statuses, UrlPending, CountPending, Removing
<1>4. CASE pc'[c] # "idle"
  <2>1. RequestOK(c)'
    BY <1>1, <1>2, <1>4, NilIsNoReply
    DEF GetLookupEffect, Calls, SameStores, Goes, Ends, RequestOK, Looked, Copied, Putting,
        Told403, Replied, HitSteps, MissSteps, SaveSteps, FillSteps, PutSteps, KeyExists,
        Statuses
  <2> QED
    BY <1>1, <2>1, ReadOnlyStep DEF GetLookupEffect, UrlPending, CountPending, Removing
<1> QED
  BY <1>3, <1>4

LEMMA GetCountSerial ==
  ASSUME NEW c \in Clients, NEW code \in Codes, Serial(c, code), GetCount(c)
  PROVE  SerialInv'
<1>1. pc[c] = "get_count" /\ GetCountEffect(c, code)
  BY GetCountDoes DEF GetCount
<1>2. /\ HasRow(code) /\ cache[code].owner # Nil /\ ownerOf[code] # Nil
      /\ cache[code].url = urls[code].url
      /\ \A count \in batch[code] : urls[code].count <= count
  BY <1>1, WorkersHash, WorkersRow, NilIsFresh DEF Serial, GetCountEffect, UrlPending
<1>3. LinkOK(code)'
  BY <1>1, <1>2
  DEF GetCountEffect, Calls, LinkOK, HashCurrent, RowCurrent, Unvisited, KeyExists, HasRow,
      NoHash
<1>4. RequestOK(c)'
  BY <1>1, EndedOK DEF GetCountEffect, Statuses
<1> QED
  BY <1>1, <1>3, <1>4, WorkStep DEF GetCountEffect, Serial, Calls

LEMMA GetSelectSerial ==
  ASSUME NEW c \in Clients, NEW code \in Codes, Serial(c, code), GetSelect(c)
  PROVE  SerialInv'
<1>1. pc[c] = "get_select" /\ GetSelectEffect(c, code)
  BY GetSelectDoes DEF GetSelect
<1>2. /\ req[c].code = code
      /\ HasRow(code) =>
           /\ urls[code] \in URLInfo
           /\ urls[code].owner = ownerOf[code] /\ ownerOf[code] \in Users
           /\ urls[code].count = visits[code]
           /\ \A count \in batch[code] : urls[code].count <= count /\ count <= visits[code]
  BY <1>1, Worker, WorkersRow DEF Serial, GetSelectEffect, CountPending, Removing
<1>3. CASE pc'[c] = "idle"
  BY <1>1, <1>2, <1>3, EndedOK, ReadOnlyStep
  DEF GetSelectEffect, SameStores, Goes, Ends, Statuses, UrlPending, CountPending, Removing
<1>4. CASE pc'[c] # "idle"
  <2>1. /\ HasRow(code) /\ Goes(c, "get_fill")
        /\ data'[c] = [urls[code] EXCEPT !.count = @ + 1]
        /\ visits'[code] = visits[code] + 1
    BY <1>1, <1>4 DEF GetSelectEffect, Ends
  <2>2. /\ data'[c].url = urls[code].url
        /\ data'[c].count = visits'[code] /\ visits'[code] = urls[code].count + 1
    BY <1>2, <2>1 DEF URLInfo
  <2>3. req'[c] = req[c] /\ ownerOf' = ownerOf /\ batch' = batch
    BY <1>1 DEF GetSelectEffect, Calls
  <2>4. LinkOK(code)'
    BY <1>1, <1>2, <2>1, <2>3, NilIsFresh
    DEF GetSelectEffect, Goes, LinkOK, HashCurrent, RowCurrent, Unvisited, KeyExists, HasRow,
        WorksOn, CountPending
  <2>5. RequestOK(c)'
    BY <1>1, <1>2, <2>1, <2>2, <2>3, NilIsNoReply
    DEF GetSelectEffect, Goes, RequestOK, Looked, Copied, Putting, Told403, Replied, HitSteps,
        MissSteps, SaveSteps, FillSteps, PutSteps, Statuses, KeyExists, HasRow
  <2> QED
    BY <1>1, <2>3, <2>4, <2>5, WorkStep DEF GetSelectEffect, Serial, Calls
<1> QED
  BY <1>3, <1>4

LEMMA SaveSerial ==
  ASSUME NEW c \in Clients, NEW code \in Codes, Serial(c, code), Fill(c) \/ PutSave(c)
  PROVE  SerialInv'
<1>1. SaveEffect(c, code)
  BY SaveDoes
<1>2. /\ req[c].user # Nil
      /\ \A count \in batch[code] : urls[code].count <= count
  BY <1>1, Worker, WorkersRow, NilIsFresh DEF Serial, SaveEffect
<1>3. LinkOK(code)'
  BY <1>1, <1>2
  DEF SaveEffect, Calls, LinkOK, HashCurrent, RowCurrent, Unvisited, KeyExists, HasRow, NoHash
<1>4. RequestOK(c)'
  BY <1>1, EndedOK DEF SaveEffect, Statuses
<1> QED
  BY <1>1, <1>3, <1>4, WorkStep DEF SaveEffect, Serial, Calls

LEMMA StatsSerial ==
  ASSUME NEW c \in Clients, NEW code \in Codes, Serial(c, code),
         StatsLookup(c) \/ StatsSelect(c)
  PROVE  SerialInv'
<1>1. /\ req[c].code = code
      /\ KeyExists(code) => ownerOf[code] \in Users
      /\ HasRow(code) => urls[code].owner = ownerOf[code] /\ ownerOf[code] \in Users
  BY Worker, WorkersHash, WorkersRow DEF Serial
<1>2. /\ pc[c] \in {"stats_lookup", "stats_select"}
      /\ Calls(c, code) /\ SameStores(code)
  BY StatsLookupDoes, StatsSelectDoes
  DEF StatsLookup, StatsSelect, StatsLookupEffect, StatsSelectEffect
<1>3. RequestOK(c)'
  <2>1. CASE Goes(c, "stats_select") /\ ~KeyExists(code)
    BY <1>1, <1>2, <2>1, NilIsNoReply
    DEF Calls, SameStores, Goes, RequestOK, Looked, Copied, Putting, Told403, Replied,
        HitSteps, MissSteps, SaveSteps, FillSteps, PutSteps, KeyExists, Statuses
  <2>2. CASE /\ Goes(c, "stats_fill") /\ ~KeyExists(code) /\ HasRow(code)
             /\ data'[c] = urls[code]
    <3>1. urls[code].count = visits[code]
      BY <1>2, <2>2, WorkersRow DEF Serial, CountPending, Removing
    <3> QED
      BY <1>1, <1>2, <2>2, <3>1, NilIsNoReply
      DEF Calls, SameStores, Goes, RequestOK, Looked, Copied, Putting, Told403, Replied,
          HitSteps, MissSteps, SaveSteps, FillSteps, PutSteps, KeyExists, HasRow, Statuses
  <2>3. CASE Ends(c, "ok") \/ Ends(c, "notfound")
    BY <1>2, <2>3, EndedOK DEF Statuses
  <2>4. CASE Ends(c, "forbidden") /\ ownerOf[code] \in Users \ {req[c].user}
    BY <1>2, <2>4, EndedOK DEF Statuses
  <2>5. CASE StatsLookup(c)
    BY <1>1, <2>1, <2>3, <2>4, <2>5, StatsLookupDoes DEF StatsLookupEffect
  <2>6. CASE StatsSelect(c)
    BY <1>1, <2>2, <2>3, <2>4, <2>6, StatsSelectDoes DEF StatsSelectEffect
  <2> QED
    BY <2>5, <2>6
<1> QED
  BY <1>2, <1>3, ReadOnlyStep DEF UrlPending, CountPending, Removing

LEMMA CheckSerial ==
  ASSUME NEW c \in Clients, NEW code \in Codes, Serial(c, code), PutCheck(c) \/ DelCheck(c)
  PROVE  SerialInv'
<1>1. /\ req[c].code = code /\ RequestOK(c)
      /\ KeyExists(code) => ownerOf[code] \in Users
  BY Worker, WorkersHash DEF Serial
<1>2. PICK hit, miss :
        /\ CheckEffect(c, code, hit, miss)
        /\ \/ pc[c] = "put_check" /\ hit = "put_url" /\ miss = "put_update"
           \/ pc[c] = "del_check" /\ hit = "del_key" /\ miss = "del_row"
  BY CheckDoes DEF PutCheck, DelCheck
<1>3. pc[c] = "put_check" => hits[c] = Nil
  BY <1>1 DEF RequestOK, Putting, PutSteps
<1>4. RequestOK(c)'
  <2>1. CASE Ends(c, "forbidden")
    BY <1>1, <1>2, <2>1, EndedOK, NilIsNoReply DEF CheckEffect, Goes, Ends, Statuses
  <2>2. CASE ~Ends(c, "forbidden")
    BY <1>1, <1>2, <1>3, <2>2, NilIsNoReply
    DEF CheckEffect, Calls, SameStores, Goes, RequestOK, Looked, Copied, Putting, Told403,
        Replied, HitSteps, MissSteps, SaveSteps, FillSteps, PutSteps, KeyExists, Statuses
  <2> QED
    BY <2>1, <2>2
<1> QED
  BY <1>2, <1>4, ReadOnlyStep DEF CheckEffect, UrlPending, CountPending, Removing

(***************************************************************************)
(* The two writes of UpdateUrl.                                            *)
(***************************************************************************)
LEMMA PutHashSerial ==
  ASSUME NEW c \in Clients, NEW code \in Codes, Serial(c, code), PutUrl(c) \/ PutStamp(c)
  PROVE  SerialInv'
<1> DEFINE next == IF pc[c] = "put_url" THEN "put_stamp" ELSE "put_reread"
<1>1. /\ pc[c] \in {"put_url", "put_stamp"}
      /\ Calls(c, code) /\ Goes(c, next) /\ Hit(c, code) /\ hits'[c] = hits[c]
      /\ cache'[code].owner = cache[code].owner /\ cache'[code].count = cache[code].count
      /\ cache'[code].url = IF pc[c] = "put_url" THEN req[c].url ELSE cache[code].url
      /\ urls'[code] = urls[code] /\ visits'[code] = visits[code]
  BY PutUrlDoes, PutStampDoes DEF PutUrl, PutStamp, PutUrlEffect, PutStampEffect
<1>2. /\ req[c].code = code
      /\ HasRow(code) /\ cache[code].owner # Nil /\ cache[code].count = visits[code]
      /\ ownerOf[code] # Nil
      /\ \A count \in batch[code] : urls[code].count <= count
  BY <1>1, Worker, WorkersHash, WorkersRow, NilIsFresh DEF Serial, Hit
<1>3. hits[c] = Nil /\ (pc[c] = "put_stamp" => cache[code].url = req[c].url)
  BY <1>1, <1>2, Worker DEF Serial, RequestOK, Putting, PutSteps
<1>4. LinkOK(code)'
  BY <1>1, <1>2
  DEF Calls, Goes, LinkOK, HashCurrent, RowCurrent, Unvisited, KeyExists, HasRow, NoHash,
      WorksOn, UrlPending
<1>5. RequestOK(c)'
  BY <1>1, <1>2, <1>3, NilIsNoReply
  DEF Calls, Goes, RequestOK, Looked, Copied, Putting, Told403, Replied, HitSteps, MissSteps,
      SaveSteps, FillSteps, PutSteps, KeyExists, NoHash, Statuses
<1> QED
  BY <1>1, <1>4, <1>5, WorkStep DEF Serial, Calls

LEMMA PutRereadSerial ==
  ASSUME NEW c \in Clients, NEW code \in Codes, Serial(c, code), PutReread(c)
  PROVE  SerialInv'
<1>1. pc[c] = "put_reread" /\ PutRereadEffect(c, code)
  BY PutRereadDoes DEF PutReread
<1>2. /\ req[c].code = code
      /\ HasRow(code) /\ cache[code].count = visits[code] /\ visits[code] \in Nat
      /\ cache[code].owner = ownerOf[code] /\ ownerOf[code] \in Users
      /\ \A count \in batch[code] : urls[code].count <= count
  BY <1>1, Worker, WorkersHash, WorkersRow DEF Serial, PutRereadEffect, Hit
<1>3. cache[code].url = req[c].url
  BY <1>1, <1>2, Worker DEF Serial, RequestOK, Putting
<1>4. LinkOK(code)'
  BY <1>1, <1>2, NilIsFresh
  DEF PutRereadEffect, Hit, Calls, SameStores, Goes, LinkOK, HashCurrent, RowCurrent,
      Unvisited, KeyExists, HasRow, WorksOn, UrlPending
<1>5. RequestOK(c)'
  BY <1>1, <1>2, <1>3, NilIsFresh, NilIsNoReply
  DEF PutRereadEffect, Hit, Calls, SameStores, Goes, RequestOK, Looked, Copied, Putting,
      Told403, Replied, HitSteps, MissSteps, SaveSteps, FillSteps, PutSteps, KeyExists,
      Statuses
<1> QED
  BY <1>1, <1>4, <1>5, WorkStep DEF Serial, PutRereadEffect, Calls

LEMMA PutUpdateSerial ==
  ASSUME NEW c \in Clients, NEW code \in Codes, Serial(c, code), PutUpdate(c)
  PROVE  SerialInv'
<1>1. /\ pc[c] = "put_update" /\ PutUpdateEffect(c, code)
      /\ req'[c] = req[c] /\ ownerOf' = ownerOf /\ batch' = batch
  BY PutUpdateDoes DEF PutUpdate, PutUpdateEffect, Calls
<1>2. /\ req[c].code = code /\ RequestOK(c) /\ LinkOK(code)
      /\ KeyExists(code) => cache[code].owner # Nil /\ cache[code].count = visits[code]
      /\ HasRow(code) =>
           /\ ownerOf[code] # Nil
           /\ \A count \in batch[code] : urls[code].count <= count
           /\ KeyExists(code) \/ urls[code].count = visits[code]
  BY <1>1, Worker, WorkersHash, WorkersRow, NilIsFresh
  DEF Serial, LinkOK, HashCurrent, CountPending, Removing
<1>3. /\ hits[c] = Nil => ~KeyExists(code)
      /\ hits[c] # Nil => KeyExists(code) /\ cache[code].url = req[c].url
  BY <1>1, <1>2 DEF RequestOK, Putting
<1>4. CASE Goes(c, "put_save")
  <2>1. /\ HasRow(code) /\ urls'[code] # Nil
        /\ urls'[code].url = req[c].url /\ urls'[code].count = urls[code].count
        /\ data'[c].url = req[c].url /\ data'[c].count = visits[code]
        /\ cache'[code] = cache[code] /\ visits'[code] = visits[code]
    BY <1>1, <1>4 DEF PutUpdateEffect, Goes
  <2>2. LinkOK(code)'
    BY <1>1, <1>2, <1>3, <2>1
    DEF LinkOK, HashCurrent, RowCurrent, Unvisited, KeyExists, HasRow
  <2>3. RequestOK(c)'
    BY <1>1, <1>2, <1>4, <2>1, NilIsNoReply
    DEF Goes, RequestOK, Looked, Copied, Putting, Told403, Replied, HitSteps, MissSteps,
        SaveSteps, FillSteps, PutSteps, HasRow, Statuses
  <2> QED
    BY <1>1, <2>2, <2>3, WorkStep DEF Serial, PutUpdateEffect, Calls
<1>5. CASE ~Goes(c, "put_save")
  <2>1. /\ ~OwnedRow(code, req[c].user) /\ Goes(c, "put_exists") /\ hits[c] = Nil
        /\ urls'[code] = urls[code]
        /\ cache'[code] = cache[code] /\ visits'[code] = visits[code]
    BY <1>1, <1>5 DEF PutUpdateEffect
  <2>2. LinkOK(code)'
    BY <1>1, <1>2, <1>3, <2>1
    DEF LinkOK, HashCurrent, RowCurrent, Unvisited, KeyExists, HasRow
  <2>3. RequestOK(c)'
    BY <1>1, <1>2, <2>1, NilIsNoReply
    DEF Goes, RequestOK, Looked, Copied, Putting, Told403, Replied, HitSteps, MissSteps,
        SaveSteps, FillSteps, PutSteps, OwnedRow, HasRow, Statuses
  <2> QED
    BY <1>1, <2>2, <2>3, WorkStep DEF Serial, PutUpdateEffect, Calls
<1> QED
  BY <1>4, <1>5

LEMMA ExistsSerial ==
  ASSUME NEW c \in Clients, NEW code \in Codes, Serial(c, code), Exists(c)
  PROVE  SerialInv'
<1>1. /\ ExistsEffect(c, code) /\ pc[c] \in {"put_exists", "del_exists"}
      /\ HasRow(code) => ownerOf[code] \in Users
  BY ExistsDoes, WorkersRow DEF Exists, Serial
<1>2. RequestOK(c)'
  BY <1>1, EndedOK DEF ExistsEffect, Statuses
<1> QED
  BY <1>1, <1>2, ReadOnlyStep DEF ExistsEffect, UrlPending, CountPending, Removing

LEMMA DelKeySerial ==
  ASSUME NEW c \in Clients, NEW code \in Codes, Serial(c, code), DelKey(c)
  PROVE  SerialInv'
<1>1. DelKeyEffect(c, code) /\ req'[c] = req[c]
  BY DelKeyDoes DEF DelKeyEffect, Calls
<1>2. /\ req[c].code = code
      /\ HasRow(code) /\ OwnedRow(code, req[c].user) /\ ownerOf[code] # Nil
      /\ \A count \in batch[code] : urls[code].count <= count
  BY <1>1, Worker, WorkersHash, WorkersRow, NilIsFresh DEF Serial, DelKeyEffect, Hit, OwnedRow
<1>3. LinkOK(code)'
  BY <1>1, <1>2
  DEF DelKeyEffect, Calls, Goes, LinkOK, HashCurrent, RowCurrent, Unvisited, KeyExists, HasRow,
      WorksOn, CountPending, Removing, OwnedRow
<1>4. RequestOK(c)'
  BY <1>1, <1>2, NilIsNoReply
  DEF DelKeyEffect, Goes, RequestOK, Looked, Copied, Putting, Told403, Replied, HitSteps,
      MissSteps, SaveSteps, FillSteps, PutSteps, KeyExists, Statuses
<1> QED
  BY <1>1, <1>3, <1>4, WorkStep DEF Serial, DelKeyEffect, Calls

LEMMA DelRowSerial ==
  ASSUME NEW c \in Clients, NEW code \in Codes, Serial(c, code), DelRow(c)
  PROVE  SerialInv'
<1>1. /\ pc[c] = "del_row" /\ DelRowEffect(c, code)
      /\ req'[c] = req[c] /\ ownerOf' = ownerOf /\ batch' = batch
  BY DelRowDoes DEF DelRow, DelRowEffect, Calls
<1>2. /\ req[c].code = code /\ LinkOK(code)
      /\ HasRow(code) =>
           /\ \A count \in batch[code] : urls[code].count <= count
           /\ \/ KeyExists(code) \/ urls[code].count = visits[code]
              \/ OwnedRow(code, req[c].user)
  BY <1>1, Worker, WorkersRow DEF Serial, CountPending, Removing
<1>3. CASE OwnedRow(code, req[c].user)
  <2>1. Ends(c, "ok") /\ urls'[code] = Nil
    BY <1>1, <1>3 DEF DelRowEffect
  <2>2. LinkOK(code)'
    BY <1>1, <1>2, <2>1
    DEF DelRowEffect, LinkOK, HashCurrent, RowCurrent, Unvisited, KeyExists, HasRow
  <2>3. RequestOK(c)'
    BY <1>1, <2>1, EndedOK DEF DelRowEffect, Statuses
  <2> QED
    BY <1>1, <2>2, <2>3, WorkStep DEF Serial, DelRowEffect, Calls
<1>4. CASE ~OwnedRow(code, req[c].user)
  <2>1. Goes(c, "del_exists") /\ urls'[code] = urls[code]
    BY <1>1, <1>4 DEF DelRowEffect
  <2>2. LinkOK(code)'
    BY <1>1, <1>2, <1>4, <2>1
    DEF DelRowEffect, LinkOK, HashCurrent, RowCurrent, Unvisited, KeyExists, HasRow
  <2>3. RequestOK(c)'
    BY <1>1, <1>2, <1>4, <2>1, NilIsNoReply
    DEF Goes, RequestOK, Looked, Copied, Putting, Told403, Replied, HitSteps, MissSteps,
        SaveSteps, FillSteps, PutSteps, OwnedRow, HasRow, Statuses
  <2> QED
    BY <1>1, <2>2, <2>3, WorkStep DEF Serial, DelRowEffect, Calls
<1> QED
  BY <1>3, <1>4

LEMMA InsertSerial ==
  ASSUME IInv, SerialInv, NEW c \in Clients, Insert(c), NoOverlap,
         UNCHANGED <<syncVars, faults, copies>>
  PROVE  SerialInv'
<1>1. PICK code \in Codes : InsertEffect(c, code)
  BY InsertDoes
<1>2. /\ pc[c] = "insert" /\ TypeOK /\ req[c].user \in Users /\ LinkOK(code)
      /\ KeyExists(code) => HasRow(code)
      /\ \A d \in Clients : ~WorksOn(d, code)
  BY <1>1, InFlight
  DEF Insert, IInv, SerialInv, LinkOK, HashCurrent, InsertEffect, WorksOn, Request
<1>3. LinkOK(code)'
  <2>1. CASE HasRow(code)
    BY <1>1, <1>2, <2>1
    DEF InsertEffect, LinkOK, HashCurrent, RowCurrent, Unvisited, KeyExists, HasRow
  <2>2. CASE ~HasRow(code)
    <3>1. /\ urls'[code] # Nil /\ urls'[code].count = 0 /\ visits'[code] = 0
          /\ ~KeyExists(code)' /\ batch'[code] \in SUBSET Nat
      <4>1. urls'[code] \in URLInfo
        <5>1. req[c].url \in Urls
          BY <1>2, InFlight DEF Serving
        <5> QED
          BY <1>1, <1>2, <2>2, <5>1 DEF InsertEffect, URLInfo
      <4> QED
        BY <1>1, <1>2, <2>2, <4>1, NilIsFresh
        DEF InsertEffect, LinkOK, Unvisited, KeyExists, TypeOK
    <3> QED
      BY <3>1 DEF LinkOK, HashCurrent, RowCurrent, Unvisited, HasRow
  <2> QED
    BY <2>1, <2>2
<1>4. RequestOK(c)'
  BY <1>1, <1>2, NilIsNoReply
  DEF InsertEffect, RequestOK, Looked, Copied, Putting, Told403, Replied, HitSteps,
      MissSteps, SaveSteps, FillSteps, PutSteps, Statuses
<1>5. \A other \in Codes : ~WorksOn(c, other)
  BY <1>2 DEF WorksOn
<1> QED
  BY <1>1, <1>2, <1>3, <1>4, <1>5, RequestStep DEF InsertEffect

LEMMA ReceiveSerial ==
  ASSUME IInv, SerialInv, NEW c \in Clients, Receive(c), NoOverlap,
         UNCHANGED <<syncVars, copies>>
  PROVE  SerialInv'
<1>1. pc[c] = "idle"
  BY ReceiveDoes
<1>2. PICK op \in Ops, user \in Users, code \in Codes \cup {Nil}, url \in Urls \cup {Nil} :
        /\ code = Nil <=> op = "post"
        /\ ReceiveEffect(c, op, user, code, url)
  BY ReceiveDoes
<1>3. /\ \A other \in Codes : ~WorksOn(c, other)
      /\ req'[c].code = code
  BY <1>1, <1>2 DEF WorksOn, ReceiveEffect
<1>4. ASSUME code \in Codes
      PROVE  LinkOK(code)'
  <2>1. \A d \in Clients : ~WorksOn(d, code)
    BY <1>2, <1>3, <1>4 DEF ReceiveEffect
  <2>2. StoreAlone(code)
    BY <1>2, <1>4 DEF ReceiveEffect
  <2> QED
    BY <2>1, <2>2, <1>4, OtherLink
<1>5. RequestOK(c)'
  BY <1>2, NilIsNoReply
  DEF ReceiveEffect, FirstStep, Ops, RequestOK, Looked, Copied, Putting, Told403, Replied,
      HitSteps, MissSteps, SaveSteps, FillSteps, PutSteps, Statuses
<1> QED
  BY <1>2, <1>3, <1>4, <1>5, RequestStep DEF ReceiveEffect, StoreAlone

(***************************************************************************)
(* The syncer.  What it reads is a counter no smaller than that of the     *)
(* row; what it writes is one it has read.                                 *)
(***************************************************************************)
BatchRead(code) ==
  /\ urls'[code] = urls[code]
  /\ batch'[code] \subseteq batch[code] \cup ({cache[code].count} \ {Nil})

RowWritten(code) ==
  /\ HasRow(code) /\ urls'[code] # Nil
  /\ urls'[code].owner = urls[code].owner /\ urls'[code].url = urls[code].url
  /\ urls'[code].count \in batch[code]
  /\ batch'[code] = {}

SyncEffect ==
  /\ UNCHANGED <<cache, requestVars, faults, historyVars, copies>>
  /\ \A code \in Codes : BatchRead(code) \/ RowWritten(code)

LEMMA SyncDoes ==
  ASSUME IInv, SyncStep, UNCHANGED <<requestVars, received, faults, historyVars, redisVars>>
  PROVE  SyncEffect
<1>1. TypeOK
  BY DEF IInv
<1>2. CASE SyncTick \/ SyncScan
  BY <1>2 DEF SyncTick, SyncScan, Scan, SyncEffect, BatchRead, redisVars
<1>3. CASE SyncRead
  <2>1. PICK code \in keys : ReadKey(code, {cache[code].count} \ {Nil})
    BY <1>3 DEF SyncRead
  <2>2. /\ batch' = [batch EXCEPT ![code] = @ \cup ({cache[code].count} \ {Nil})]
        /\ UNCHANGED <<cache, urls>>
    BY <2>1 DEF ReadKey
  <2> QED
    BY <1>1, <2>2 DEF SyncEffect, BatchRead, TypeOK, redisVars
<1>4. CASE SyncWrite
  <2>1. /\ urls' = urls \/ urls' \in SyncedRows
        /\ batch' = NoBatch /\ cache' = cache
    BY <1>4 DEF SyncWrite, EndPass
  <2>2. ASSUME NEW code \in Codes
        PROVE  BatchRead(code) \/ RowWritten(code)
    <3>1. batch'[code] = {}
      BY <2>1 DEF NoBatch
    <3>2. urls'[code] = urls[code] \/ urls'[code] \in Synced(code)
      BY <2>1 DEF SyncedRows
    <3> QED
      BY <1>1, <3>1, <3>2, SyncedRow, NilIsFresh DEF BatchRead, RowWritten, HasRow
  <2> QED
    BY <2>1, <2>2 DEF SyncEffect, redisVars
<1> QED
  BY <1>2, <1>3, <1>4 DEF SyncStep

LEMMA SyncSerial ==
  ASSUME IInv, SerialInv, SyncEffect
  PROVE  SerialInv'
<1>1. /\ pc' = pc /\ req' = req /\ data' = data /\ hits' = hits /\ status' = status
      /\ cache' = cache /\ visits' = visits /\ ownerOf' = ownerOf
      /\ UNCHANGED <<faults, copies>>
  BY DEF SyncEffect, requestVars, historyVars
<1>2. ASSUME NEW code \in Codes
      PROVE  /\ ~KeyExists(code) => cache[code].count = Nil
             /\ HasRow(code) =>
                  /\ cache[code].count # Nil => urls[code].count <= cache[code].count
                  /\ urls[code].count <= visits[code]
                  /\ \A count \in batch[code] :
                       count \in Nat /\ urls[code].count <= count /\ count <= visits[code]
                  /\ urls[code].count \in Nat
             /\ visits[code] \in Nat /\ LinkOK(code)
  <2>1. /\ urls[code] \in URLInfo \cup {Nil} /\ RowOK(urls[code], Past(code))
        /\ batch[code] \in SUBSET Nat /\ BatchOK(batch[code], Past(code))
        /\ visits[code] \in Nat /\ LinkOK(code) /\ Past(code).limit = visits[code]
    BY DEF IInv, TypeOK, StoresOK, SerialInv, Past
  <2>2. ~KeyExists(code) => cache[code].count = Nil
    BY DEF KeyExists, NoHash
  <2>3. HasRow(code) => urls[code].count \in Nat /\ urls[code].count <= visits[code]
    BY <2>1, NilIsFresh DEF HasRow, RowOK, Counted, URLInfo
  <2>4. \A count \in batch[code] : count \in Nat /\ count <= visits[code]
    BY <2>1, NilIsFresh DEF BatchOK, Counted
  <2>5. cache[code].count # Nil => cache[code].count = visits[code]
    BY <2>1, <2>2 DEF LinkOK, HashCurrent
  <2> QED
    BY <2>1, <2>2, <2>3, <2>4, <2>5 DEF LinkOK, RowCurrent
<1>3. ASSUME NEW code \in Codes
      PROVE  /\ HasRow(code)' <=> HasRow(code)
             /\ \A user : OwnedRow(code, user)' <=> OwnedRow(code, user)
             /\ HasRow(code) => urls'[code].url = urls[code].url
  BY DEF SyncEffect, BatchRead, RowWritten, HasRow, OwnedRow
<1>4. ASSUME NEW code \in Codes, HasRow(code), batch[code] \subseteq {urls[code].count},
             ~KeyExists(code)
      PROVE  urls'[code].count = urls[code].count /\ batch'[code] \subseteq {urls[code].count}
  BY <1>2, <1>4 DEF SyncEffect, BatchRead, RowWritten
<1>5. ASSUME NEW code \in Codes
      PROVE  LinkOK(code)'
  <2>1. LinkOK(code)
    BY <1>2
  <2>2. ASSUME NEW d \in Clients
        PROVE  CountPending(d) /\ WorksOn(d, code) => CountPending(d)'
    BY <1>1, <1>3 DEF CountPending, Removing, WorksOn
  <2>3. HashCurrent(code)'
    BY <1>1, <1>3, <2>1 DEF LinkOK, HashCurrent, KeyExists, WorksOn, UrlPending
  <2>4. ASSUME HasRow(code)'
        PROVE  /\ \A count \in batch'[code] : urls'[code].count <= count
               /\ \/ KeyExists(code)' \/ urls'[code].count = visits'[code]
                  \/ \E d \in Clients : WorksOn(d, code)' /\ CountPending(d)'
    <3>1. HasRow(code)
      BY <1>3, <2>4
    <3>2. \A count \in batch'[code] : urls'[code].count <= count
      BY <1>2, <3>1 DEF SyncEffect, BatchRead, RowWritten
    <3>3. CASE KeyExists(code)
      BY <1>1, <3>2, <3>3 DEF KeyExists
    <3>4. CASE urls[code].count = visits[code] /\ ~KeyExists(code)
      <4>1. batch[code] \subseteq {urls[code].count}
        BY <1>2, <3>1, <3>4
      <4> QED
        BY <1>1, <1>4, <3>1, <3>2, <3>4, <4>1
    <3>5. CASE \E d \in Clients : WorksOn(d, code) /\ CountPending(d)
      BY <1>1, <2>2, <3>2, <3>5 DEF WorksOn
    <3> QED
      BY <2>1, <3>1, <3>3, <3>4, <3>5 DEF LinkOK, RowCurrent
  <2> QED
    BY <1>1, <2>1, <2>3, <2>4 DEF LinkOK, RowCurrent, Unvisited
<1>6. ASSUME NEW c \in Clients
      PROVE  RequestOK(c)'
  <2>1. RequestOK(c) /\ Serving(c)
    BY DEF IInv, SerialInv, ClientOK
  <2>2. CASE pc[c] \in {"idle", "insert"}
    BY <1>1, <2>1, <2>2
    DEF RequestOK, Looked, Copied, Putting, Told403, Replied, HitSteps, MissSteps, SaveSteps,
        FillSteps, PutSteps
  <2>3. CASE pc[c] \notin {"idle", "insert"}
    <3>1. PICK code \in Codes : req[c].code = code
      BY <2>1, <2>3 DEF Serving
    <3>2. Looked(c)' /\ Putting(c)' /\ Told403(c)' /\ Replied(c)'
      BY <1>1, <1>3, <2>1, <3>1
      DEF RequestOK, Looked, Putting, Told403, Replied, KeyExists
    <3>3. pc[c] = "get_fill" =>
            /\ visits'[code] = urls'[code].count + 1
            /\ \A count \in batch'[code] : count <= urls'[code].count
      <4> SUFFICES ASSUME pc[c] = "get_fill"
                   PROVE  /\ visits'[code] = urls'[code].count + 1
                          /\ \A count \in batch'[code] : count <= urls'[code].count
        OBVIOUS
      <4>1. /\ HasRow(code) /\ ~KeyExists(code) /\ visits[code] = urls[code].count + 1
            /\ \A count \in batch[code] : count <= urls[code].count
        BY <2>1, <3>1 DEF RequestOK, Looked, Copied, MissSteps, SaveSteps, FillSteps
      <4>2. batch[code] \subseteq {urls[code].count} /\ urls[code].count \in Nat
        BY <1>2, <4>1
      <4> QED
        BY <1>1, <1>4, <4>1, <4>2
    <3>4. Copied(c)'
      BY <1>1, <1>3, <2>1, <3>1, <3>3 DEF RequestOK, Copied
    <3> QED
      BY <3>2, <3>4 DEF RequestOK
  <2> QED
    BY <2>2, <2>3
<1> QED
  BY <1>1, <1>5, <1>6 DEF SerialInv, Alone, WorksOn

--------------------------------------------------------------------------------
(***************************************************************************)
(* The steps that are left when nothing fails.                             *)
(***************************************************************************)
Command(c) ==
  \/ GetLookup(c) \/ GetCount(c) \/ GetSelect(c) \/ Fill(c)
  \/ StatsLookup(c) \/ StatsSelect(c)
  \/ PutCheck(c) \/ PutUrl(c) \/ PutStamp(c) \/ PutReread(c)
  \/ PutUpdate(c) \/ PutSave(c)
  \/ DelCheck(c) \/ DelKey(c) \/ DelRow(c)
  \/ Exists(c)

LEMMA CommandsWork ==
  ASSUME IInv, NEW c \in Clients, Command(c)
  PROVE  \E code \in Codes : WorksOn(c, code)
<1>1. pc[c] \notin {"idle", "insert"}
  BY DEF Command, GetLookup, GetCount, GetSelect, Fill, StatsLookup, StatsSelect, PutCheck,
     PutUrl, PutStamp, PutReread, PutUpdate, PutSave, DelCheck, DelKey, DelRow, Exists, FillSteps
<1>2. req[c].code \in Codes
  BY <1>1, InFlight
<1> QED
  BY <1>1, <1>2 DEF WorksOn

LEMMA SerialSteps ==
  ASSUME IInv, SerialInv, SerialNext
  PROVE  \/ \E c \in Clients, code \in Codes :
              Command(c) /\ WorksOn(c, code) /\ UNCHANGED <<syncVars, faults, copies>>
         \/ \E c \in Clients :
              Insert(c) /\ NoOverlap /\ UNCHANGED <<syncVars, faults, copies>>
         \/ \E c \in Clients : Receive(c) /\ NoOverlap /\ UNCHANGED <<syncVars, copies>>
         \/ SyncEffect
         \/ UNCHANGED <<serviceVars, syncVars, copies>>
<1>1. Next /\ NoOverlap /\ faults' = faults /\ faults \in Nat
  BY DEF SerialNext, IInv, TypeOK
<1>2. CASE ServiceNext /\ UNCHANGED <<syncVars, redisVars>>
  <2>1. ~Crash /\ \A c \in Clients : ~CommandFails(c)
    BY <1>1 DEF Crash, CommandFails
  <2>2. PICK c \in Clients : Receive(c) \/ Handle(c)
    BY <1>2, <2>1 DEF ServiceNext
  <2>3. Receive(c) \/ Insert(c) \/ Command(c)
    BY <2>2 DEF Handle, Command
  <2> QED
    BY <1>1, <1>2, <2>3, CommandsWork DEF redisVars
<1>3. CASE SyncStep /\ UNCHANGED <<requestVars, received, faults, historyVars, redisVars>>
  BY <1>3, SyncDoes
<1>4. CASE RedisSaves
  BY <1>4 DEF RedisSaves
<1>5. ~SyncFails /\ ~RedisRestarts /\ \A c \in Clients : ~WriteTimesOut(c)
  BY <1>1 DEF SyncFails, RedisRestarts, WriteTimesOut
<1>6. ~CopyArrives
  BY DEF CopyArrives, SerialInv
<1> QED
  BY <1>1, <1>2, <1>3, <1>4, <1>5, <1>6 DEF Next

LEMMA CommandSerial ==
  ASSUME NEW c \in Clients, NEW code \in Codes, Serial(c, code), Command(c)
  PROVE  SerialInv'
BY GetLookupSerial, GetCountSerial, GetSelectSerial, SaveSerial, StatsSerial, CheckSerial,
   PutHashSerial, PutRereadSerial, PutUpdateSerial, ExistsSerial, DelKeySerial, DelRowSerial
DEF Command

LEMMA SameSerial ==
  ASSUME SerialInv, UNCHANGED <<serviceVars, syncVars, copies>>
  PROVE  SerialInv'
BY DEF SerialInv, Alone, WorksOn, LinkOK, HashCurrent, RowCurrent, Unvisited, UrlPending,
   CountPending, Removing, OwnedRow, HasRow, KeyExists, RequestOK, Looked, Copied, Putting,
   Told403, Replied, serviceVars, storeVars, requestVars, historyVars, syncVars

LEMMA InitSerial == Init => SerialInv
<1> SUFFICES ASSUME Init
             PROVE  SerialInv
  OBVIOUS
<1>1. /\ faults = 0 /\ copies = {} /\ cache = NoHashes /\ urls = [code \in Codes |-> Nil]
      /\ visits = [code \in Codes |-> 0]
      /\ pc = [c \in Clients |-> "idle"] /\ req = [c \in Clients |-> Nil]
      /\ status = [c \in Clients |-> Nil]
  BY DEF Init, ServiceInit
<1>2. Alone
  BY <1>1 DEF Alone, WorksOn
<1>3. ASSUME NEW code \in Codes
      PROVE  LinkOK(code)
  BY <1>1 DEF LinkOK, HashCurrent, RowCurrent, Unvisited, KeyExists, HasRow, NoHashes
<1>4. ASSUME NEW c \in Clients
      PROVE  RequestOK(c)
  BY <1>1, NilIsNoReply
  DEF RequestOK, Looked, Copied, Putting, Told403, Replied, HitSteps, MissSteps, SaveSteps,
      FillSteps, PutSteps, Statuses
<1> QED
  BY <1>1, <1>2, <1>3, <1>4 DEF SerialInv

LEMMA NextSerial ==
  ASSUME IInv, SerialInv, [SerialNext]_vars
  PROVE  SerialInv'
<1>1. CASE SerialNext
  BY <1>1, SerialSteps, CommandSerial, InsertSerial, ReceiveSerial, SyncSerial, SameSerial
  DEF Serial
<1>2. CASE UNCHANGED vars
  BY <1>2, SameSerial DEF vars, redisVars
<1> QED
  BY <1>1, <1>2

(***************************************************************************)
(* Every behaviour of SerialSpec is one of the system.                     *)
(***************************************************************************)
LEMMA SerialIsSpec == SerialSpec => Spec
<1>1. [SerialNext]_vars => [Next]_vars
  BY DEF SerialNext
<1> QED
  BY <1>1, PTL DEF SerialSpec, Spec

(***************************************************************************)
(* As long as nothing fails and no two requests on a link overlap, hash,   *)
(* row and history are no further apart than the request in flight makes   *)
(* them.                                                                   *)
(***************************************************************************)
THEOREM SerialInductive == SerialSpec => [](IInv /\ SerialInv)
<1>1. Init => SerialInv
  BY InitSerial
<1>2. IInv /\ SerialInv /\ [SerialNext]_vars => SerialInv'
  BY NextSerial
<1> QED
  BY <1>1, <1>2, SerialIsSpec, Inductive, PTL DEF SerialSpec

(***************************************************************************)
(* No visit is lost: with no request in flight the stats of a live link    *)
(* report every visit counted, from the hash or, without one, from the     *)
(* row, whatever the syncer is doing.                                      *)
(***************************************************************************)
THEOREM VisitsAreKept == SerialSpec => []NoVisitLost
<1>1. ASSUME IInv, SerialInv, Quiet, NEW code \in Codes, HasRow(code)
      PROVE  ReportedCount(code) = visits[code]
  BY <1>1 DEF SerialInv, LinkOK, HashCurrent, RowCurrent, KeyExists, NoHash, ReportedCount,
     Quiet, WorksOn
<1>2. IInv /\ SerialInv => NoVisitLost
  BY <1>1 DEF NoVisitLost
<1> QED
  BY <1>2, SerialInductive, PTL

(***************************************************************************)
(* A deleted link leaves nothing behind in Redis: no fill and no PUT       *)
(* brings its hash back.                                                   *)
(***************************************************************************)
THEOREM DeletedIsForGood == SerialSpec => []DeletedIsGone
<1>1. SerialInv => DeletedIsGone
  BY DEF SerialInv, LinkOK, HashCurrent, DeletedIsGone
<1> QED
  BY <1>1, SerialInductive, PTL

(***************************************************************************)
(* With no request in flight a cached link redirects to the URL of its     *)
(* row, the one last PUT.                                                  *)
(***************************************************************************)
THEOREM RedirectsAreCurrent == SerialSpec => []RedirectIsCurrent
<1>1. SerialInv => RedirectIsCurrent
  BY DEF SerialInv, LinkOK, HashCurrent, RedirectIsCurrent, Quiet, WorksOn
<1> QED
  BY <1>1, SerialInductive, PTL

(***************************************************************************)
(* Nobody is refused as a stranger to a link of their own.                 *)
(***************************************************************************)
THEOREM ForbiddenAreForeign == SerialSpec => []ForbiddenIsForeign
<1>1. SerialInv => ForbiddenIsForeign
  BY DEF SerialInv, RequestOK, Told403, ForbiddenIsForeign
<1> QED
  BY <1>1, SerialInductive, PTL

--------------------------------------------------------------------------------
(***************************************************************************)
(* The counter of a row.                                                   *)
(***************************************************************************)
LEMMA CommandKeepsCounts ==
  ASSUME NEW c \in Clients, NEW code \in Codes, Serial(c, code), Command(c),
         NEW other \in Codes, HasRow(other), urls'[other] # Nil
  PROVE  urls'[other].count = urls[other].count
<1>1. CASE Fill(c) \/ PutSave(c)
  BY <1>1, SaveDoes DEF SaveEffect, Calls, Local, StoreAlone
<1>2. CASE PutUpdate(c)
  BY <1>2, PutUpdateDoes DEF PutUpdateEffect, Calls, Local, StoreAlone
<1>3. CASE DelRow(c)
  BY <1>3, DelRowDoes DEF DelRowEffect, Calls, Local, StoreAlone
<1>4. CASE ~(Fill(c) \/ PutSave(c) \/ PutUpdate(c) \/ DelRow(c))
  <2>1. urls' = urls
    BY <1>4
    DEF Command, GetLookup, GetCount, GetSelect, StatsLookup, StatsSelect, PutCheck, PutUrl,
        PutStamp, PutReread, DelCheck, DelKey, Exists, storeVars
  <2> QED
    BY <2>1
<1> QED
  BY <1>1, <1>2, <1>3, <1>4

LEMMA StepGrowsCounts ==
  ASSUME IInv, SerialInv, SerialNext,
         NEW code \in Codes, HasRow(code), HasRow(code)'
  PROVE  urls[code].count <= urls'[code].count
<1>1. urls[code].count \in Nat /\ urls'[code] # Nil
  BY NilIsFresh DEF IInv, TypeOK, HasRow, URLInfo
<1>2. ASSUME NEW c \in Clients, NEW k \in Codes, Command(c), WorksOn(c, k),
             UNCHANGED <<syncVars, faults, copies>>
      PROVE  urls[code].count <= urls'[code].count
  BY <1>1, <1>2, CommandKeepsCounts DEF Serial
<1>3. ASSUME NEW c \in Clients, Insert(c), NoOverlap, UNCHANGED <<syncVars, faults, copies>>
      PROVE  urls[code].count <= urls'[code].count
  <2>1. PICK k \in Codes : InsertEffect(c, k)
    BY <1>3, InsertDoes
  <2> QED
    BY <1>1, <2>1 DEF InsertEffect, Local, StoreAlone
<1>4. CASE urls' = urls
  BY <1>1, <1>4
<1>5. CASE SyncEffect
  <2>1. \A count \in batch[code] : urls[code].count <= count
    BY DEF SerialInv, LinkOK, RowCurrent
  <2> QED
    BY <1>1, <1>5, <2>1 DEF SyncEffect, BatchRead, RowWritten
<1>6. (\E c \in Clients : Receive(c)) \/ UNCHANGED <<serviceVars, syncVars, copies>> => urls' = urls
  BY DEF Receive, serviceVars, storeVars
<1> QED
  BY <1>2, <1>3, <1>4, <1>5, <1>6, SerialSteps

(***************************************************************************)
(* The syncer never takes the counter of a row back, although it writes    *)
(* what it has read some time before, and no handler touches one.          *)
(***************************************************************************)
THEOREM RowCountsGrow == SerialSpec => RowCountGrows
<1>1. IInv /\ SerialInv /\ [SerialNext]_vars =>
        [\A code \in Codes :
           HasRow(code) /\ HasRow(code)' => urls[code].count <= urls'[code].count]_vars
  BY StepGrowsCounts
<1> QED
  BY <1>1, SerialInductive, PTL DEF SerialSpec, RowCountGrows

================================================================================
