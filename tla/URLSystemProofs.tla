---------------------------- MODULE URLSystemProofs ----------------------------
(***************************************************************************)
(* Proofs about URLSystem, for every set of users, codes, URLs and clients *)
(* and every bound: IInv is inductive, and what follows from it.           *)
(***************************************************************************)
EXTENDS URLInvariant, TLAPS

(***************************************************************************)
(* The past of a code only grows: its owner stays, and so does everything  *)
(* that was offered or counted.                                            *)
(***************************************************************************)
Grows(past, next) ==
  /\ past.owner # Nil => next.owner = past.owner
  /\ past.offers \subseteq next.offers
  /\ past.limit \in Nat /\ next.limit \in Nat /\ past.limit <= next.limit

NextPast(code) ==
  [owner |-> ownerOf'[code], offers |-> offered'[code], limit |-> visits'[code]]

HistoryGrows == \A code \in Codes : Grows(Past(code), NextPast(code))

(***************************************************************************)
(* What was right to hold under a code stays right as its past grows.      *)
(***************************************************************************)
LEMMA HashLasts ==
  ASSUME NEW past, NEW next, Grows(past, next),
         NEW hash \in Hash, HashOK(hash, past)
  PROVE  HashOK(hash, next)
BY NilIsFresh DEF Grows, HashOK, HashAgrees, Counted, Hash

LEMMA RowLasts ==
  ASSUME NEW past, NEW next, Grows(past, next),
         NEW row \in URLInfo \cup {Nil}, RowOK(row, past)
  PROVE  RowOK(row, next)
BY NilIsFresh DEF Grows, RowOK, Counted, URLInfo

LEMMA CountLasts ==
  ASSUME NEW past, NEW next, Grows(past, next),
         NEW count \in Nat \cup {Nil}, Counted(count, past)
  PROVE  Counted(count, next)
BY NilIsFresh DEF Grows, Counted

LEMMA BatchLasts ==
  ASSUME NEW past, NEW next, Grows(past, next),
         NEW counts \in SUBSET Nat, BatchOK(counts, past)
  PROVE  BatchOK(counts, next)
BY CountLasts DEF BatchOK

(***************************************************************************)
(* The stores, were they left alone by a step that lets the past grow.     *)
(***************************************************************************)
LEMMA StoresLast ==
  ASSUME TypeOK, StoresOK, HistoryGrows, NEW code \in Codes
  PROVE  /\ HashOK(cache[code], NextPast(code))
         /\ HashOK(snapshot[code], NextPast(code))
         /\ RowOK(urls[code], NextPast(code))
         /\ BatchOK(batch[code], NextPast(code))
<1>1. Grows(Past(code), NextPast(code))
  BY DEF HistoryGrows
<1>2. /\ cache[code] \in Hash /\ snapshot[code] \in Hash
      /\ urls[code] \in URLInfo \cup {Nil}
      /\ batch[code] \in SUBSET Nat
  BY DEF TypeOK
<1>3. /\ HashOK(cache[code], Past(code))
      /\ HashOK(snapshot[code], Past(code))
      /\ RowOK(urls[code], Past(code))
      /\ BatchOK(batch[code], Past(code))
  BY DEF StoresOK
<1> QED
  BY <1>1, <1>2, <1>3, HashLasts, RowLasts, BatchLasts

(***************************************************************************)
(* So does a copy on its way, while what else has changed is of no matter. *)
(***************************************************************************)
LEMMA CopyLasts ==
  ASSUME TypeOK, HistoryGrows, NEW copy \in Copy, CopyOK(copy)
  PROVE  CopyOK(copy)'
<1>1. /\ copy.code \in Codes /\ copy.user \in Users
      /\ Grows(Past(copy.code), NextPast(copy.code))
  BY DEF Copy, HistoryGrows
<1>2. ownerOf'[copy.code] = ownerOf[copy.code] /\ offered[copy.code] \subseteq offered'[copy.code]
  BY <1>1, NilIsFresh DEF CopyOK, Grows, Past, NextPast
<1>3. copy.step \in SaveSteps => RowOK(copy.value, NextPast(copy.code))
  BY <1>1, RowLasts DEF CopyOK
<1> QED
  BY <1>2, <1>3 DEF CopyOK, Past, NextPast

(***************************************************************************)
(* Few steps touch the history: this is what they must do for it to grow.  *)
(***************************************************************************)
HistoryTyped ==
  /\ ownerOf' \in [Codes -> Users \cup {Nil}]
  /\ offered' \in [Codes -> SUBSET Urls]
  /\ visits' \in [Codes -> Nat]
  /\ faults' \in Nat

LEMMA HistoryKept ==
  ASSUME TypeOK, HistoryTyped,
         \A code \in Codes : ownerOf[code] # Nil => ownerOf'[code] = ownerOf[code],
         \A code \in Codes : offered[code] \subseteq offered'[code],
         \A code \in Codes : visits[code] <= visits'[code]
  PROVE  HistoryGrows
<1> SUFFICES ASSUME NEW code \in Codes
             PROVE  Grows(Past(code), NextPast(code))
  BY DEF HistoryGrows
<1>1. visits[code] \in Nat /\ visits'[code] \in Nat
  BY DEF TypeOK, HistoryTyped
<1> QED
  BY <1>1 DEF Grows, Past, NextPast

(***************************************************************************)
(* A client that a step leaves alone stays as it was, provided no row      *)
(* comes back: the row of a deleted link has an owner in its history.      *)
(***************************************************************************)
RowsStayAway ==
  \A code \in Codes : ownerOf[code] # Nil /\ ~HasRow(code) => ~HasRow(code)'

LeftAlone(c) ==
  /\ pc'[c] = pc[c] /\ req'[c] = req[c] /\ data'[c] = data[c]
  /\ hits'[c] = hits[c] /\ status'[c] = status[c]

LEMMA ClientLasts ==
  ASSUME NEW c \in Clients, TypeOK, ClientOK(c),
         HistoryGrows, RowsStayAway, LeftAlone(c)
  PROVE  ClientOK(c)'
<1>1. /\ pc[c] \in Steps /\ status[c] \in Statuses \cup {Nil}
      /\ req[c] \in Request \cup {Nil}
      /\ data[c] \in URLInfo \cup {Nil}
      /\ hits[c] \in Nat \cup {Nil}
  BY DEF TypeOK
<1>2. ASSUME NEW code \in Codes
      PROVE  Grows(Past(code), NextPast(code))
  BY DEF HistoryGrows
<1>3. Serving(c)'
  BY DEF ClientOK, Serving, LeftAlone
<1>4. pc[c] \notin {"idle", "insert"} =>
        /\ req[c] \in Request /\ req[c].code \in Codes
        /\ Grows(Past(req[c].code), NextPast(req[c].code))
  BY <1>1, <1>2 DEF ClientOK, Serving
<1>5. Authorised(c)'
  BY <1>4, NilIsFresh DEF ClientOK, Authorised, PastCheck, SaveSteps, FillSteps,
     LeftAlone, Grows, Past, NextPast, Request
<1>6. HoldsData(c)'
  <2>1. pc[c] \in SaveSteps => RowOK(data[c], NextPast(req[c].code))
    BY <1>1, <1>4, RowLasts DEF ClientOK, HoldsData, SaveSteps, FillSteps
  <2>2. pc[c] = "get_count" => data[c].url \in offered'[req[c].code]
    BY <1>4 DEF ClientOK, HoldsData, Grows, Past, NextPast
  <2>3. pc[c] \in PutSteps => Counted(hits[c], NextPast(req[c].code))
    BY <1>1, <1>4, CountLasts DEF ClientOK, HoldsData, PutSteps
  <2> QED
    BY <2>1, <2>2, <2>3 DEF ClientOK, HoldsData, LeftAlone, Past, NextPast
<1>7. Answered(c)'
  <2> SUFFICES ASSUME status[c] = "ok"
               PROVE  Answered(c)'
    BY DEF LeftAlone, Answered
  <2>1. /\ req[c] \in Request /\ req[c].code \in Codes
        /\ req[c].user = ownerOf[req[c].code]
        /\ ownerOf[req[c].code] # Nil
    BY <1>1, NilIsFresh DEF ClientOK, Answered, Request
  <2>2. Grows(Past(req[c].code), NextPast(req[c].code))
    BY <2>1, <1>2
  <2>3. ownerOf'[req[c].code] = ownerOf[req[c].code]
    BY <2>1, <2>2 DEF Grows, Past, NextPast
  <2>4. offered[req[c].code] \subseteq offered'[req[c].code]
    BY <2>2 DEF Grows, Past, NextPast
  <2>5. req[c].op = "delete" => urls'[req[c].code] = Nil
    BY <2>1 DEF ClientOK, Answered, RowsStayAway, HasRow
  <2> QED
    BY <2>1, <2>3, <2>4, <2>5 DEF ClientOK, Answered, LeftAlone, HasRow
<1> QED
  BY <1>3, <1>5, <1>6, <1>7 DEF ClientOK

--------------------------------------------------------------------------------
(***************************************************************************)
(* What is left to show of a step of client c: that it is well typed, that *)
(* it lets the past grow and brings back no row, that what it writes fits  *)
(* the past of its code, that c itself stays as it should be, and that it  *)
(* does not delete what another has deleted.                               *)
(***************************************************************************)
StoresFit ==
  \A code \in Codes :
    /\ cache'[code] = cache[code] \/ HashOK(cache'[code], NextPast(code))
    /\ snapshot'[code] = snapshot[code] \/ HashOK(snapshot'[code], NextPast(code))
    /\ urls'[code] = urls[code] \/ RowOK(urls'[code], NextPast(code))
    /\ batch'[code] = batch[code] \/ BatchOK(batch'[code], NextPast(code))

LEMMA StoresKept ==
  ASSUME TypeOK, StoresOK, HistoryGrows, StoresFit
  PROVE  StoresOK'
<1> SUFFICES ASSUME NEW code \in Codes
             PROVE  /\ HashOK(cache'[code], NextPast(code))
                    /\ HashOK(snapshot'[code], NextPast(code))
                    /\ RowOK(urls'[code], NextPast(code))
                    /\ BatchOK(batch'[code], NextPast(code))
  BY DEF StoresOK, Past, NextPast
<1> QED
  BY StoresLast DEF StoresFit

OthersAlone(c) == \A d \in Clients \ {c} : LeftAlone(d)

LEMMA ClientStep ==
  ASSUME IInv, NEW c \in Clients,
         TypeOK', HistoryGrows, RowsStayAway, StoresFit, OthersAlone(c),
         ClientOK(c)', \A copy \in copies' \ copies : CopyOK(copy)',
         status'[c] = "ok" /\ req'[c].op = "delete" =>
           \A d \in Clients \ {c} : HasDeleted(d) => req[d].code # req'[c].code
  PROVE  IInv'
<1>1. StoresOK'
  BY StoresKept DEF IInv
<1>2. ASSUME NEW d \in Clients
      PROVE  ClientOK(d)'
  <2>1. CASE d = c
    BY <2>1
  <2>2. CASE d # c
    BY <2>2, ClientLasts DEF IInv, OthersAlone
  <2> QED
    BY <2>1, <2>2
<1>3. DeletedOnce'
  BY DEF IInv, DeletedOnce, HasDeleted, OthersAlone, LeftAlone
<1>4. \A copy \in copies' : CopyOK(copy)'
  BY CopyLasts DEF IInv, TypeOK
<1> QED
  BY <1>1, <1>2, <1>3, <1>4 DEF IInv

(***************************************************************************)
(* What is known of a request in flight.                                   *)
(***************************************************************************)
LEMMA InFlight ==
  ASSUME IInv, NEW c \in Clients, pc[c] # "idle"
  PROVE  /\ req[c] \in Request
         /\ status[c] = Nil
         /\ Serving(c) /\ Authorised(c) /\ HoldsData(c)
         /\ pc[c] # "insert" => /\ req[c].code \in Codes
                                /\ HashOK(cache[req[c].code], Past(req[c].code))
                                /\ RowOK(urls[req[c].code], Past(req[c].code))
                                /\ cache[req[c].code] \in Hash
                                /\ urls[req[c].code] \in URLInfo \cup {Nil}
BY DEF IInv, ClientOK, Serving, TypeOK, StoresOK

(***************************************************************************)
(* Most steps leave the history alone.                                     *)
(***************************************************************************)
LEMMA SameHistory ==
  ASSUME TypeOK, UNCHANGED historyVars, faults' \in {faults, faults + 1}
  PROVE  HistoryGrows /\ HistoryTyped
<1>1. TypeOK => /\ faults \in Nat /\ offered \in [Codes -> SUBSET Urls]
                /\ visits \in [Codes -> Nat]
                /\ ownerOf \in [Codes -> Users \cup {Nil}]
  BY DEF TypeOK
<1> QED
  BY <1>1 DEF HistoryTyped, HistoryGrows, Grows, Past, NextPast, historyVars

(***************************************************************************)
(* The commands to Redis that write: what they leave in a hash fits the    *)
(* past of its code, if what they write does.                              *)
(***************************************************************************)
CacheFits ==
  /\ cache' \in [Codes -> Hash]
  /\ \A code \in Codes :
       cache'[code] = cache[code] \/ HashOK(cache'[code], NextPast(code))

LEMMA SaveUrlFits ==
  ASSUME cache \in [Codes -> Hash], NEW code \in Codes, NEW info \in URLInfo,
         RowOK(info, NextPast(code)), SaveUrl(code, info)
  PROVE  CacheFits
BY NilIsFresh DEF SaveUrl, CacheFits, HashOK, HashAgrees, Counted, RowOK, Hash, URLInfo

LEMMA SetUrlFits ==
  ASSUME cache \in [Codes -> Hash], NEW code \in Codes, NEW url \in Urls,
         HashOK(cache[code], NextPast(code)), url \in NextPast(code).offers,
         SetUrl(code, url)
  PROVE  CacheFits
BY NilIsFresh DEF SetUrl, CacheFits, HashOK, HashAgrees, Counted, Hash

LEMMA SetUpdatedAtFits ==
  ASSUME cache \in [Codes -> Hash], NEW code \in Codes,
         HashOK(cache[code], NextPast(code)), SetUpdatedAt(code)
  PROVE  CacheFits
BY NilIsFresh DEF SetUpdatedAt, CacheFits, HashOK, HashAgrees, Counted, Hash

LEMMA IncrementCounterFits ==
  ASSUME cache \in [Codes -> Hash], NEW code \in Codes, NEW past,
         HashOK(cache[code], NextPast(code)), Counted(cache[code].count, past),
         past.limit \in Nat, NextPast(code).limit \in Nat,
         past.limit + 1 <= NextPast(code).limit,
         IncrementCounter(code)
  PROVE  CacheFits
BY NilIsFresh DEF IncrementCounter, CacheFits, HashOK, HashAgrees, Counted, Hash

LEMMA DeleteKeyFits ==
  ASSUME cache \in [Codes -> Hash], NEW code \in Codes, DeleteKey(code)
  PROVE  CacheFits
BY NilIsFresh DEF DeleteKey, CacheFits, HashOK, HashAgrees, Counted, Hash, NoHash

--------------------------------------------------------------------------------
(***************************************************************************)
(* How a step may leave its own client: on the way, or answered.           *)
(***************************************************************************)
LEMMA GoesOn ==
  ASSUME IInv, NEW c \in Clients, pc[c] # "idle", req'[c] = req[c], status'[c] = status[c],
         \/ pc[c] \in GetSteps /\ pc'[c] \in GetSteps
         \/ pc[c] \in PutSteps /\ pc'[c] \in PutSteps
         \/ pc[c] \in DelSteps /\ pc'[c] \in DelSteps
         \/ pc[c] \in StatsSteps /\ pc'[c] \in StatsSteps
  PROVE  Serving(c)' /\ Answered(c)'
<1>1. Serving(c) /\ status[c] = Nil
  BY InFlight
<1>2. Serving(c)'
  BY <1>1 DEF Serving, GetSteps, PutSteps, DelSteps, StatsSteps
<1>3. Answered(c)'
  BY <1>1, NilIsNoReply DEF Answered, Statuses
<1> QED
  BY <1>2, <1>3

LEMMA Refused ==
  ASSUME NEW c \in Clients, pc'[c] = "idle", status'[c] # "ok"
  PROVE  ClientOK(c)'
BY DEF ClientOK, Serving, Authorised, HoldsData, Answered, PastCheck, SaveSteps, FillSteps,
   PutSteps

LEMMA Satisfied ==
  ASSUME NEW c \in Clients, pc'[c] = "idle", Answered(c)'
  PROVE  ClientOK(c)'
BY DEF ClientOK, Serving, Authorised, HoldsData, PastCheck, SaveSteps, FillSteps, PutSteps

(***************************************************************************)
(* A step of a client that writes at most to the cache.                    *)
(***************************************************************************)
RequestsTyped ==
  /\ pc' \in [Clients -> Steps]
  /\ req' \in [Clients -> Request \cup {Nil}]
  /\ data' \in [Clients -> URLInfo \cup {Nil}]
  /\ hits' \in [Clients -> Nat \cup {Nil}]
  /\ status' \in [Clients -> Statuses \cup {Nil}]
  /\ received' \in Nat

LEMMA CacheStep ==
  ASSUME IInv, NEW c \in Clients, UNCHANGED <<urls, syncVars, snapshot, copies>>, CacheFits,
         HistoryGrows, HistoryTyped, RequestsTyped, OthersAlone(c), ClientOK(c)',
         ~ (status'[c] = "ok" /\ req'[c].op = "delete")
  PROVE  IInv'
<1>1. TypeOK'
  BY DEF IInv, TypeOK, CacheFits, HistoryTyped, RequestsTyped, syncVars
<1>2. StoresFit /\ RowsStayAway
  BY DEF CacheFits, StoresFit, RowsStayAway, HasRow, syncVars
<1> QED
  BY <1>1, <1>2, ClientStep

LEMMA ReadStep ==
  ASSUME IInv, NEW c \in Clients,
         UNCHANGED <<storeVars, historyVars, syncVars, snapshot, copies>>,
         faults' \in {faults, faults + 1},
         RequestsTyped, OthersAlone(c), ClientOK(c)',
         ~ (status'[c] = "ok" /\ req'[c].op = "delete")
  PROVE  IInv'
<1>1. CacheFits
  BY DEF IInv, TypeOK, CacheFits, storeVars
<1>2. HistoryGrows /\ HistoryTyped
  BY SameHistory DEF IInv
<1> QED
  BY <1>1, <1>2, CacheStep DEF storeVars

(***************************************************************************)
(* ServiceGet.                                                             *)
(***************************************************************************)
LEMMA GetLookupKeeps ==
  ASSUME IInv, NEW c \in Clients, GetLookup(c), UNCHANGED <<syncVars, snapshot, copies>>
  PROVE  IInv'
<1> DEFINE code == req[c].code
           info == [owner |-> cache[code].owner, url |-> cache[code].url,
                    count |-> cache[code].count]
<1>1. pc[c] = "get_lookup" /\ TypeOK
  BY DEF GetLookup, IInv
<1>2. /\ code \in Codes /\ req[c].op = "get" /\ req[c].user \in Users
      /\ status[c] = Nil
      /\ cache[code] \in Hash /\ HashOK(cache[code], Past(code))
  BY <1>1, InFlight DEF Serving, GetSteps, Request
<1>3. /\ UNCHANGED <<storeVars, req, hits, received, historyVars, syncVars, snapshot, copies>>
      /\ faults' = faults
  BY DEF GetLookup, Goto, Answer
<1>4. \/ /\ cache[code].owner = req[c].user
         /\ data' = [data EXCEPT ![c] = info]
         /\ pc' = [pc EXCEPT ![c] = "get_count"] /\ status' = status
      \/ /\ data' = data
         /\ pc' = [pc EXCEPT ![c] = "get_select"] /\ status' = status
      \/ /\ data' = data
         /\ pc' = [pc EXCEPT ![c] = "idle"]
         /\ status' = [status EXCEPT ![c] = "forbidden"]
  BY DEF GetLookup, GetUrl, Goto, Answer
<1>5. cache[code].owner = req[c].user =>
        /\ info \in URLInfo
        /\ info.url \in offered[code]
        /\ req[c].user = ownerOf[code]
  BY <1>2, NilIsFresh DEF HashOK, HashAgrees, Past, Hash, URLInfo
<1>6. RequestsTyped /\ OthersAlone(c)
  BY <1>1, <1>3, <1>4, <1>5
  DEF TypeOK, RequestsTyped, OthersAlone, LeftAlone, Steps, GetSteps, Statuses
<1>7. ClientOK(c)'
  <2>1. CASE pc'[c] = "get_count"
    <3>1. /\ req'[c] = req[c] /\ data'[c] = info /\ status'[c] = status[c]
          /\ info \in URLInfo /\ info.url \in offered'[code]
          /\ req[c].user = ownerOf'[code]
      BY <1>1, <1>3, <1>4, <1>5, <2>1 DEF TypeOK, historyVars
    <3>2. Serving(c)' /\ Answered(c)'
      BY <1>1, <2>1, <3>1, GoesOn DEF GetSteps
    <3> QED
      BY <2>1, <3>1, <3>2, NilIsFresh
      DEF ClientOK, Authorised, HoldsData, SaveSteps, FillSteps, PutSteps
  <2>2. CASE pc'[c] = "get_select"
    <3>1. req'[c] = req[c] /\ status'[c] = status[c]
      BY <1>1, <1>3, <1>4, <2>2 DEF TypeOK
    <3>2. Serving(c)' /\ Answered(c)'
      BY <1>1, <2>2, <3>1, GoesOn DEF GetSteps
    <3> QED
      BY <2>2, <3>2 DEF ClientOK, Authorised, HoldsData, PastCheck, SaveSteps, FillSteps, PutSteps
  <2>3. CASE pc'[c] = "idle" /\ status'[c] = "forbidden"
    BY <2>3, Refused
  <2> QED
    BY <1>1, <1>4, <2>1, <2>2, <2>3 DEF TypeOK
<1> QED
  BY <1>2, <1>3, <1>6, <1>7, ReadStep

LEMMA GetCountKeeps ==
  ASSUME IInv, NEW c \in Clients, GetCount(c), UNCHANGED <<syncVars, snapshot, copies>>
  PROVE  IInv'
<1> DEFINE code == req[c].code
<1>1. pc[c] = "get_count" /\ TypeOK /\ StoresOK
  BY DEF GetCount, IInv
<1>2. /\ code \in Codes /\ req[c] # Nil /\ req[c].op = "get"
      /\ req[c].user = ownerOf[code]
      /\ data[c] # Nil /\ data[c].url \in offered[code]
      /\ cache \in [Codes -> Hash] /\ HashOK(cache[code], Past(code))
  BY <1>1, InFlight DEF TypeOK, Serving, Authorised, HoldsData, GetSteps, PastCheck
<1>3. /\ UNCHANGED <<urls, req, data, hits, received, ownerOf, offered, syncVars, snapshot, copies>>
      /\ visits' = [visits EXCEPT ![code] = @ + 1]
      /\ IncrementCounter(code)
  BY DEF GetCount
<1>4. /\ pc' = [pc EXCEPT ![c] = "idle"]
      /\ \/ status' = [status EXCEPT ![c] = "ok"] /\ faults' = faults
         \/ status' = [status EXCEPT ![c] = "error"] /\ faults' = faults + 1
  BY DEF GetCount, Answer, ReplyLost
<1>5. HistoryTyped
  BY <1>1, <1>2, <1>3, <1>4 DEF TypeOK, HistoryTyped
<1>6. HistoryGrows
  BY <1>1, <1>2, <1>3, <1>4, <1>5, HistoryKept DEF TypeOK
<1>7. CacheFits
  <2>1. HashOK(cache[code], NextPast(code))
    BY <1>1, <1>2, <1>6, StoresLast
  <2>2. /\ Past(code).limit \in Nat /\ NextPast(code).limit \in Nat
        /\ Past(code).limit + 1 <= NextPast(code).limit
    BY <1>1, <1>2, <1>3, <1>4 DEF TypeOK, Past, NextPast
  <2>3. Counted(cache[code].count, Past(code))
    BY <1>2 DEF HashOK
  <2> QED
    BY <1>2, <1>3, <2>1, <2>2, <2>3, IncrementCounterFits
<1>8. RequestsTyped /\ OthersAlone(c)
  BY <1>1, <1>3, <1>4 DEF TypeOK, RequestsTyped, OthersAlone, LeftAlone, Steps, Statuses
<1>9. ClientOK(c)'
  <2>1. pc'[c] = "idle" /\ req'[c] = req[c] /\ data'[c] = data[c]
    BY <1>1, <1>3, <1>4 DEF TypeOK
  <2>2. Answered(c)'
    BY <1>2, <1>3, <2>1 DEF Answered
  <2> QED
    BY <2>1, <2>2, Satisfied
<1> QED
  BY <1>2, <1>3, <1>5, <1>6, <1>7, <1>8, <1>9, CacheStep

LEMMA GetSelectKeeps ==
  ASSUME IInv, NEW c \in Clients, GetSelect(c), UNCHANGED <<syncVars, snapshot, copies>>
  PROVE  IInv'
<1> DEFINE code == req[c].code
           info == [urls[code] EXCEPT !.count = @ + 1]
<1>1. pc[c] = "get_select" /\ TypeOK /\ StoresOK
  BY DEF GetSelect, IInv
<1>2. /\ code \in Codes /\ req[c].op = "get" /\ req[c].user \in Users
      /\ urls[code] \in URLInfo \cup {Nil} /\ RowOK(urls[code], Past(code))
  BY <1>1, InFlight DEF Serving, GetSteps, Request
<1>3. UNCHANGED <<storeVars, req, hits, received, faults, ownerOf, offered, syncVars,
                  snapshot, copies>>
  BY DEF GetSelect, Goto, Answer
<1>4. \/ /\ urls[code] # Nil /\ urls[code].owner = req[c].user
         /\ data' = [data EXCEPT ![c] = info]
         /\ visits' = [visits EXCEPT ![code] = @ + 1]
         /\ pc' = [pc EXCEPT ![c] = "get_fill"] /\ status' = status
      \/ /\ data' = data /\ visits' = visits
         /\ pc' = [pc EXCEPT ![c] = "idle"]
         /\ \/ status' = [status EXCEPT ![c] = "forbidden"]
            \/ status' = [status EXCEPT ![c] = "notfound"]
  BY DEF GetSelect, RepositoryGet, Goto, Answer
<1>5. HistoryTyped
  BY <1>1, <1>2, <1>3, <1>4 DEF TypeOK, HistoryTyped
<1>6. HistoryGrows
  BY <1>1, <1>2, <1>3, <1>4, <1>5, HistoryKept DEF TypeOK
<1>7. CacheFits
  BY <1>1, <1>3 DEF TypeOK, CacheFits, storeVars
<1>8. urls[code] # Nil => info \in URLInfo
  BY <1>2 DEF URLInfo
<1>9. RequestsTyped /\ OthersAlone(c)
  BY <1>1, <1>3, <1>4, <1>8
  DEF TypeOK, RequestsTyped, OthersAlone, LeftAlone, Steps, GetSteps, Statuses
<1>10. ClientOK(c)'
  <2>1. CASE pc'[c] = "get_fill"
    <3>1. /\ urls[code] # Nil /\ urls[code].owner = req[c].user
          /\ visits' = [visits EXCEPT ![code] = @ + 1]
          /\ data'[c] = info /\ req'[c] = req[c] /\ status'[c] = status[c]
      BY <1>1, <1>3, <1>4, <2>1 DEF TypeOK
    <3>2. Serving(c)' /\ Answered(c)'
      BY <1>1, <2>1, <3>1, GoesOn DEF GetSteps
    <3>3. RowOK(info, NextPast(code)) /\ req[c].user = ownerOf'[code]
      <4>1. /\ visits[code] \in Nat /\ faults \in Nat
            /\ visits'[code] = visits[code] + 1 /\ faults' = faults
            /\ ownerOf' = ownerOf /\ offered' = offered
        BY <1>1, <1>2, <1>3, <3>1 DEF TypeOK
      <4>2. /\ urls[code].owner = ownerOf[code] /\ urls[code].url \in offered[code]
            /\ urls[code].count <= visits[code]
        BY <1>2, <3>1, NilIsFresh DEF RowOK, Counted, Past, URLInfo
      <4>3. /\ info.owner = urls[code].owner /\ info.url = urls[code].url
            /\ info.count = urls[code].count + 1 /\ urls[code].count \in Nat
        BY <1>2, <3>1 DEF URLInfo
      <4> QED
        BY <3>1, <4>1, <4>2, <4>3 DEF RowOK, Counted, NextPast
    <3>4. RowOK(data'[c], Past(req[c].code)')
      BY <3>1, <3>3 DEF Past, NextPast
    <3> QED
      BY <1>8, <2>1, <3>1, <3>2, <3>3, <3>4, NilIsFresh
      DEF ClientOK, Authorised, HoldsData, PutSteps
  <2>2. CASE pc'[c] = "idle" /\ status'[c] # "ok"
    BY <2>2, Refused
  <2> QED
    BY <1>1, <1>4, <2>1, <2>2 DEF TypeOK
<1> QED
  BY <1>2, <1>3, <1>5, <1>6, <1>7, <1>9, <1>10, CacheStep DEF storeVars

(***************************************************************************)
(* SaveUrl of newData ends a GET or a stats request that missed the cache, *)
(* and every PUT.                                                          *)
(***************************************************************************)
LEMMA SaveKeeps ==
  ASSUME IInv, NEW c \in Clients, Fill(c) \/ PutSave(c), UNCHANGED <<syncVars, snapshot, copies>>
  PROVE  IInv'
<1> DEFINE code == req[c].code
<1>1. pc[c] \in SaveSteps /\ pc[c] # "idle" /\ TypeOK /\ StoresOK
  BY DEF Fill, PutSave, SaveSteps, FillSteps, IInv
<1>2. /\ code \in Codes /\ req[c] # Nil /\ req[c].op # "delete"
      /\ req[c].user = ownerOf[code]
      /\ data[c] \in URLInfo /\ data[c] # Nil /\ RowOK(data[c], Past(code))
  BY <1>1, InFlight
  DEF TypeOK, Serving, Authorised, HoldsData, SaveSteps, FillSteps, GetSteps, PutSteps,
      StatsSteps, PastCheck
<1>3. /\ UNCHANGED <<urls, req, data, hits, received, historyVars, syncVars, snapshot, copies>>
      /\ SaveUrl(code, data[c])
      /\ pc' = [pc EXCEPT ![c] = "idle"]
      /\ \/ status' = [status EXCEPT ![c] = "ok"] /\ faults' = faults
         \/ status' = [status EXCEPT ![c] = "error"] /\ faults' = faults + 1
  BY DEF Fill, PutSave, Answer, ReplyLost
<1>4. HistoryGrows /\ HistoryTyped
  BY <1>1, <1>3, SameHistory
<1>5. CacheFits
  <2>1. Grows(Past(code), NextPast(code))
    BY <1>2, <1>4 DEF HistoryGrows
  <2>2. RowOK(data[c], NextPast(code))
    BY <1>2, <2>1, RowLasts
  <2> QED
    BY <1>1, <1>2, <1>3, <2>2, SaveUrlFits DEF TypeOK
<1>6. RequestsTyped /\ OthersAlone(c)
  BY <1>1, <1>3 DEF TypeOK, RequestsTyped, OthersAlone, LeftAlone, Steps, Statuses
<1>7. ClientOK(c)'
  <2>1. /\ pc'[c] = "idle" /\ req'[c] = req[c] /\ data'[c] = data[c]
        /\ ownerOf' = ownerOf /\ offered' = offered
    BY <1>1, <1>3 DEF TypeOK, historyVars
  <2>2. data[c].url \in offered[code]
    BY <1>2 DEF RowOK, Past
  <2>3. Answered(c)'
    BY <1>2, <2>1, <2>2 DEF Answered
  <2> QED
    BY <2>1, <2>3, Satisfied
<1> QED
  BY <1>2, <1>3, <1>4, <1>5, <1>6, <1>7, CacheStep

(***************************************************************************)
(* ServiceGetStats.                                                        *)
(***************************************************************************)
LEMMA StatsLookupKeeps ==
  ASSUME IInv, NEW c \in Clients, StatsLookup(c), UNCHANGED <<syncVars, snapshot, copies>>
  PROVE  IInv'
<1> DEFINE code == req[c].code
           info == [owner |-> cache[code].owner, url |-> cache[code].url,
                    count |-> cache[code].count]
<1>1. pc[c] = "stats_lookup" /\ TypeOK
  BY DEF StatsLookup, IInv
<1>2. /\ code \in Codes /\ req[c] # Nil /\ req[c].op = "stats" /\ req[c].user \in Users
      /\ cache[code] \in Hash /\ HashOK(cache[code], Past(code))
  BY <1>1, InFlight DEF Serving, StatsSteps, Request
<1>3. /\ UNCHANGED <<storeVars, req, hits, received, historyVars, syncVars, snapshot, copies>>
      /\ faults' = faults
  BY DEF StatsLookup, Goto, Answer
<1>4. \/ /\ cache[code].owner = req[c].user
         /\ data' = [data EXCEPT ![c] = info]
         /\ pc' = [pc EXCEPT ![c] = "idle"]
         /\ status' = [status EXCEPT ![c] = "ok"]
      \/ /\ data' = data
         /\ pc' = [pc EXCEPT ![c] = "stats_select"] /\ status' = status
      \/ /\ data' = data
         /\ pc' = [pc EXCEPT ![c] = "idle"]
         /\ \/ status' = [status EXCEPT ![c] = "forbidden"]
            \/ status' = [status EXCEPT ![c] = "error"]
  BY DEF StatsLookup, GetUrlStats, Goto, Answer
<1>5. cache[code].owner = req[c].user =>
        /\ info \in URLInfo
        /\ info.url \in offered[code]
        /\ req[c].user = ownerOf[code]
  BY <1>2, NilIsFresh DEF HashOK, HashAgrees, Past, Hash, URLInfo
<1>6. RequestsTyped /\ OthersAlone(c)
  BY <1>1, <1>3, <1>4, <1>5
  DEF TypeOK, RequestsTyped, OthersAlone, LeftAlone, Steps, StatsSteps, Statuses
<1>7. ClientOK(c)'
  <2>1. CASE pc'[c] = "stats_select"
    <3>1. req'[c] = req[c] /\ status'[c] = status[c]
      BY <1>1, <1>3, <1>4, <2>1 DEF TypeOK
    <3>2. Serving(c)' /\ Answered(c)'
      BY <1>1, <2>1, <3>1, GoesOn DEF StatsSteps
    <3> QED
      BY <2>1, <3>2 DEF ClientOK, Authorised, HoldsData, PastCheck, SaveSteps, FillSteps, PutSteps
  <2>2. CASE pc'[c] = "idle" /\ status'[c] = "ok"
    <3>1. /\ req'[c] = req[c] /\ data'[c] = info
          /\ info \in URLInfo /\ info.url \in offered'[code]
          /\ req[c].user = ownerOf'[code]
      BY <1>1, <1>3, <1>4, <1>5, <2>2 DEF TypeOK, historyVars
    <3>2. Answered(c)'
      BY <1>2, <3>1, NilIsFresh DEF Answered
    <3> QED
      BY <2>2, <3>2, Satisfied
  <2>3. CASE pc'[c] = "idle" /\ status'[c] # "ok"
    BY <2>3, Refused
  <2> QED
    BY <1>1, <1>4, <2>1, <2>2, <2>3 DEF TypeOK
<1> QED
  BY <1>2, <1>3, <1>6, <1>7, ReadStep

LEMMA StatsSelectKeeps ==
  ASSUME IInv, NEW c \in Clients, StatsSelect(c), UNCHANGED <<syncVars, snapshot, copies>>
  PROVE  IInv'
<1> DEFINE code == req[c].code
<1>1. pc[c] = "stats_select" /\ TypeOK
  BY DEF StatsSelect, IInv
<1>2. /\ code \in Codes /\ req[c] # Nil /\ req[c].op = "stats" /\ req[c].user \in Users
      /\ urls[code] \in URLInfo \cup {Nil} /\ RowOK(urls[code], Past(code))
  BY <1>1, InFlight DEF Serving, StatsSteps, Request
<1>3. /\ UNCHANGED <<storeVars, req, hits, received, historyVars, syncVars, snapshot, copies>>
      /\ faults' = faults
  BY DEF StatsSelect, Goto, Answer
<1>4. \/ /\ urls[code] # Nil /\ urls[code].owner = req[c].user
         /\ data' = [data EXCEPT ![c] = urls[code]]
         /\ pc' = [pc EXCEPT ![c] = "stats_fill"] /\ status' = status
      \/ /\ data' = data
         /\ pc' = [pc EXCEPT ![c] = "idle"]
         /\ \/ status' = [status EXCEPT ![c] = "forbidden"]
            \/ status' = [status EXCEPT ![c] = "notfound"]
  BY DEF StatsSelect, RepositoryGetStats, Goto, Answer
<1>5. RequestsTyped /\ OthersAlone(c)
  BY <1>1, <1>2, <1>3, <1>4
  DEF TypeOK, RequestsTyped, OthersAlone, LeftAlone, Steps, StatsSteps, Statuses
<1>6. ClientOK(c)'
  <2>1. CASE pc'[c] = "stats_fill"
    <3>1. /\ urls[code] # Nil /\ urls[code].owner = req[c].user
          /\ data'[c] = urls[code] /\ req'[c] = req[c] /\ status'[c] = status[c]
          /\ Past(code) = Past(req[c].code)' /\ ownerOf' = ownerOf
      BY <1>1, <1>3, <1>4, <2>1 DEF TypeOK, Past, historyVars
    <3>2. Serving(c)' /\ Answered(c)'
      BY <1>1, <2>1, <3>1, GoesOn DEF StatsSteps
    <3>3. RowOK(data'[c], Past(req[c].code)') /\ req[c].user = ownerOf[code]
      BY <1>2, <3>1 DEF RowOK, Past
    <3> QED
      BY <2>1, <3>1, <3>2, <3>3 DEF ClientOK, Authorised, HoldsData, PutSteps
  <2>2. CASE pc'[c] = "idle" /\ status'[c] # "ok"
    BY <2>2, Refused
  <2> QED
    BY <1>1, <1>4, <2>1, <2>2 DEF TypeOK
<1> QED
  BY <1>2, <1>3, <1>5, <1>6, ReadStep

(***************************************************************************)
(* The first command of a PUT or a DELETE only reads.                      *)
(***************************************************************************)
LEMMA CheckKeeps ==
  ASSUME IInv, NEW c \in Clients, PutCheck(c) \/ DelCheck(c),
         UNCHANGED <<syncVars, snapshot, copies>>
  PROVE  IInv'
<1> DEFINE code == req[c].code
<1>1. pc[c] \in {"put_check", "del_check"} /\ TypeOK
  BY DEF PutCheck, DelCheck, IInv
<1>2. /\ code \in Codes /\ req[c].user \in Users
      /\ cache[code] \in Hash /\ HashOK(cache[code], Past(code))
      /\ pc[c] \in PutSteps => Counted(hits[c], Past(code))
  BY <1>1, InFlight DEF Request, HoldsData
<1>3. /\ UNCHANGED <<storeVars, req, data, hits, received, historyVars, syncVars, snapshot, copies>>
      /\ faults' = faults
  BY DEF PutCheck, DelCheck, Goto, Answer
<1>4. \/ /\ cache[code].owner = req[c].user /\ status' = status
         /\ \/ pc[c] = "put_check" /\ pc' = [pc EXCEPT ![c] = "put_url"]
            \/ pc[c] = "del_check" /\ pc' = [pc EXCEPT ![c] = "del_key"]
      \/ /\ status' = status
         /\ \/ pc[c] = "put_check" /\ pc' = [pc EXCEPT ![c] = "put_update"]
            \/ pc[c] = "del_check" /\ pc' = [pc EXCEPT ![c] = "del_row"]
      \/ /\ status' = [status EXCEPT ![c] = "forbidden"]
         /\ pc' = [pc EXCEPT ![c] = "idle"]
  BY DEF PutCheck, DelCheck, CheckOwner, Goto, Answer
<1>5. cache[code].owner = req[c].user => req[c].user = ownerOf[code]
  BY <1>2, NilIsFresh DEF HashOK, HashAgrees, Past
<1>6. RequestsTyped /\ OthersAlone(c)
  BY <1>1, <1>3, <1>4
  DEF TypeOK, RequestsTyped, OthersAlone, LeftAlone, Steps, PutSteps, DelSteps, Statuses
<1>7. ClientOK(c)' /\ status'[c] # "ok"
  <2>1. CASE pc'[c] # "idle"
    <3>1. /\ req'[c] = req[c] /\ hits'[c] = hits[c] /\ status'[c] = status[c]
          /\ Past(code) = Past(req[c].code)' /\ ownerOf' = ownerOf
          /\ \/ pc[c] = "put_check" /\ pc'[c] \in {"put_url", "put_update"}
             \/ pc[c] = "del_check" /\ pc'[c] \in {"del_key", "del_row"}
          /\ pc'[c] \in {"put_url", "del_key"} => req[c].user = ownerOf[code]
      BY <1>1, <1>3, <1>4, <1>5, <2>1 DEF TypeOK, Past, historyVars
    <3>2. Serving(c)' /\ Answered(c)'
      BY <1>1, <3>1, GoesOn DEF PutSteps, DelSteps
    <3>3. Authorised(c)' /\ HoldsData(c)'
      BY <1>2, <3>1 DEF Authorised, HoldsData, PastCheck, SaveSteps, FillSteps, PutSteps
    <3>4. status[c] = Nil
      BY <1>1, InFlight
    <3> QED
      BY <3>1, <3>2, <3>3, <3>4, NilIsNoReply DEF ClientOK, Statuses
  <2>2. CASE pc'[c] = "idle"
    <3>1. status'[c] # "ok"
      BY <1>1, <1>4, <2>2 DEF TypeOK
    <3> QED
      BY <2>2, <3>1, Refused
  <2> QED
    BY <2>1, <2>2
<1> QED
  BY <1>3, <1>6, <1>7, ReadStep

(***************************************************************************)
(* ServicePut.                                                             *)
(***************************************************************************)
LEMMA PutUrlKeeps ==
  ASSUME IInv, NEW c \in Clients, PutUrl(c), UNCHANGED <<syncVars, snapshot, copies>>
  PROVE  IInv'
<1> DEFINE code == req[c].code
<1>1. pc[c] = "put_url" /\ TypeOK /\ StoresOK
  BY DEF PutUrl, IInv
<1>2. /\ code \in Codes /\ req[c].op = "put" /\ req[c].url \in Urls
      /\ req[c].user = ownerOf[code]
      /\ hits[c] \in Nat \cup {Nil} /\ Counted(hits[c], Past(code))
  BY <1>1, InFlight DEF TypeOK, Serving, Authorised, HoldsData, PutSteps, PastCheck
<1>3. /\ UNCHANGED <<urls, req, data, hits, received, ownerOf, visits, syncVars, snapshot, copies>>
      /\ offered' = [offered EXCEPT ![code] = @ \cup {req[c].url}]
      /\ SetUrl(code, req[c].url)
      /\ \/ /\ pc' = [pc EXCEPT ![c] = "put_stamp"]
            /\ status' = status /\ faults' = faults
         \/ /\ pc' = [pc EXCEPT ![c] = "idle"]
            /\ status' = [status EXCEPT ![c] = "error"] /\ faults' = faults + 1
  BY DEF PutUrl, Goto, ReplyLost
<1>4. HistoryTyped
  BY <1>1, <1>2, <1>3 DEF TypeOK, HistoryTyped
<1>5. HistoryGrows
  BY <1>1, <1>2, <1>3, <1>4, HistoryKept DEF TypeOK
<1>6. CacheFits
  <2>1. HashOK(cache[code], NextPast(code))
    BY <1>1, <1>2, <1>5, StoresLast
  <2>2. req[c].url \in NextPast(code).offers
    BY <1>1, <1>2, <1>3 DEF TypeOK, NextPast
  <2> QED
    BY <1>1, <1>2, <1>3, <2>1, <2>2, SetUrlFits DEF TypeOK
<1>7. RequestsTyped /\ OthersAlone(c)
  BY <1>1, <1>3 DEF TypeOK, RequestsTyped, OthersAlone, LeftAlone, Steps, PutSteps, Statuses
<1>8. ClientOK(c)'
  <2>1. CASE pc'[c] = "put_stamp"
    <3>1. /\ req'[c] = req[c] /\ hits'[c] = hits[c] /\ status'[c] = status[c]
          /\ NextPast(code) = Past(req[c].code)' /\ ownerOf' = ownerOf
      BY <1>1, <1>3, <2>1 DEF TypeOK, Past, NextPast
    <3>2. Serving(c)' /\ Answered(c)'
      BY <1>1, <2>1, <3>1, GoesOn DEF PutSteps
    <3>3. Counted(hits[c], NextPast(code))
      BY <1>2, <1>5, CountLasts DEF HistoryGrows
    <3> QED
      BY <1>2, <2>1, <3>1, <3>2, <3>3
      DEF ClientOK, Authorised, HoldsData, SaveSteps, FillSteps, PutSteps
  <2>2. CASE pc'[c] = "idle" /\ status'[c] = "error"
    BY <2>2, Refused
  <2> QED
    BY <1>1, <1>3, <2>1, <2>2 DEF TypeOK
<1> QED
  BY <1>2, <1>3, <1>4, <1>5, <1>6, <1>7, <1>8, CacheStep

LEMMA PutStampKeeps ==
  ASSUME IInv, NEW c \in Clients, PutStamp(c), UNCHANGED <<syncVars, snapshot, copies>>
  PROVE  IInv'
<1> DEFINE code == req[c].code
<1>1. pc[c] = "put_stamp" /\ TypeOK /\ StoresOK
  BY DEF PutStamp, IInv
<1>2. /\ code \in Codes /\ req[c].op = "put" /\ req[c].user = ownerOf[code]
      /\ hits[c] \in Nat \cup {Nil} /\ Counted(hits[c], Past(code))
  BY <1>1, InFlight DEF TypeOK, Serving, Authorised, HoldsData, PutSteps, PastCheck
<1>3. /\ UNCHANGED <<urls, req, data, hits, received, historyVars, syncVars, snapshot, copies>>
      /\ SetUpdatedAt(code)
      /\ \/ /\ pc' = [pc EXCEPT ![c] = "put_reread"]
            /\ status' = status /\ faults' = faults
         \/ /\ pc' = [pc EXCEPT ![c] = "idle"]
            /\ status' = [status EXCEPT ![c] = "error"] /\ faults' = faults + 1
  BY DEF PutStamp, Goto, ReplyLost
<1>4. HistoryGrows /\ HistoryTyped
  BY <1>1, <1>3, SameHistory
<1>5. CacheFits
  <2>1. HashOK(cache[code], NextPast(code))
    BY <1>1, <1>2, <1>4, StoresLast
  <2> QED
    BY <1>1, <1>2, <1>3, <2>1, SetUpdatedAtFits DEF TypeOK
<1>6. RequestsTyped /\ OthersAlone(c)
  BY <1>1, <1>3 DEF TypeOK, RequestsTyped, OthersAlone, LeftAlone, Steps, PutSteps, Statuses
<1>7. ClientOK(c)'
  <2>1. CASE pc'[c] = "put_reread"
    <3>1. /\ req'[c] = req[c] /\ hits'[c] = hits[c] /\ status'[c] = status[c]
          /\ Past(code) = Past(req[c].code)' /\ ownerOf' = ownerOf
      BY <1>1, <1>3, <2>1 DEF TypeOK, Past, historyVars
    <3>2. Serving(c)' /\ Answered(c)'
      BY <1>1, <2>1, <3>1, GoesOn DEF PutSteps
    <3> QED
      BY <1>2, <2>1, <3>1, <3>2
      DEF ClientOK, Authorised, HoldsData, SaveSteps, FillSteps, PutSteps
  <2>2. CASE pc'[c] = "idle" /\ status'[c] = "error"
    BY <2>2, Refused
  <2> QED
    BY <1>1, <1>3, <2>1, <2>2 DEF TypeOK
<1> QED
  BY <1>2, <1>3, <1>4, <1>5, <1>6, <1>7, CacheStep

LEMMA PutRereadKeeps ==
  ASSUME IInv, NEW c \in Clients, PutReread(c), UNCHANGED <<syncVars, snapshot, copies>>
  PROVE  IInv'
<1> DEFINE code == req[c].code
<1>1. pc[c] = "put_reread" /\ TypeOK
  BY DEF PutReread, IInv
<1>2. /\ code \in Codes /\ req[c].op = "put"
      /\ cache[code] \in Hash /\ HashOK(cache[code], Past(code))
      /\ Counted(hits[c], Past(code))
  BY <1>1, InFlight DEF Serving, HoldsData, PutSteps
<1>3. /\ UNCHANGED <<storeVars, req, data, received, historyVars, syncVars, snapshot, copies>>
      /\ faults' = faults
  BY DEF PutReread, Goto, Answer
<1>4. \/ /\ hits' = [hits EXCEPT ![c] = cache[code].count] \/ hits' = hits
         /\ pc' = [pc EXCEPT ![c] = "put_update"] /\ status' = status
      \/ /\ hits' = hits
         /\ pc' = [pc EXCEPT ![c] = "idle"]
         /\ \/ status' = [status EXCEPT ![c] = "forbidden"]
            \/ status' = [status EXCEPT ![c] = "error"]
  BY DEF PutReread, Goto, Answer
<1>5. RequestsTyped /\ OthersAlone(c)
  BY <1>1, <1>2, <1>3, <1>4
  DEF TypeOK, RequestsTyped, OthersAlone, LeftAlone, Steps, PutSteps, Statuses, Hash
<1>6. ClientOK(c)'
  <2>1. CASE pc'[c] = "put_update"
    <3>1. /\ req'[c] = req[c] /\ status'[c] = status[c]
          /\ hits'[c] = hits[c] \/ hits'[c] = cache[code].count
          /\ Past(code) = Past(req[c].code)'
      BY <1>1, <1>3, <1>4, <2>1 DEF TypeOK, Past, historyVars
    <3>2. Serving(c)' /\ Answered(c)'
      BY <1>1, <2>1, <3>1, GoesOn DEF PutSteps
    <3>3. Counted(hits'[c], Past(code))
      BY <1>2, <3>1 DEF HashOK
    <3> QED
      BY <2>1, <3>1, <3>2, <3>3
      DEF ClientOK, Authorised, HoldsData, PastCheck, SaveSteps, FillSteps
  <2>2. CASE pc'[c] = "idle" /\ status'[c] # "ok"
    BY <2>2, Refused
  <2> QED
    BY <1>1, <1>4, <2>1, <2>2 DEF TypeOK
<1> QED
  BY <1>2, <1>3, <1>5, <1>6, ReadStep

LEMMA PutUpdateKeeps ==
  ASSUME IInv, NEW c \in Clients, PutUpdate(c), UNCHANGED <<syncVars, snapshot, copies>>
  PROVE  IInv'
<1> DEFINE code == req[c].code
           row == [urls[code] EXCEPT !.url = req[c].url]
           info == [row EXCEPT !.count = IF hits[c] = Nil THEN @ ELSE hits[c]]
<1>1. pc[c] = "put_update" /\ TypeOK /\ StoresOK
  BY DEF PutUpdate, IInv
<1>2. /\ code \in Codes /\ req[c].op = "put" /\ req[c].url \in Urls
      /\ req[c].user \in Users
      /\ urls[code] \in URLInfo \cup {Nil} /\ RowOK(urls[code], Past(code))
      /\ hits[c] \in Nat \cup {Nil} /\ Counted(hits[c], Past(code))
  BY <1>1, InFlight DEF TypeOK, Serving, HoldsData, PutSteps, Request
<1>3. UNCHANGED <<cache, req, hits, received, ownerOf, visits, syncVars, snapshot, copies>>
  BY DEF PutUpdate
<1>4. CASE ~OwnedRow(code, req[c].user)
  <2>1. /\ UNCHANGED <<urls, data, status, offered, faults>>
        /\ pc' = [pc EXCEPT ![c] = "put_exists"]
    BY <1>4 DEF PutUpdate, Goto
  <2>2. RequestsTyped /\ OthersAlone(c)
    BY <1>1, <1>3, <2>1
    DEF TypeOK, RequestsTyped, OthersAlone, LeftAlone, Steps, PutSteps
  <2>3. ClientOK(c)'
    <3>1. /\ pc'[c] = "put_exists" /\ Past(code) = Past(req[c].code)'
          /\ req'[c] = req[c] /\ hits'[c] = hits[c] /\ status'[c] = status[c]
      BY <1>1, <1>3, <2>1 DEF TypeOK, Past
    <3>2. Serving(c)' /\ Answered(c)'
      BY <1>1, <3>1, GoesOn DEF PutSteps
    <3> QED
      BY <1>2, <3>1, <3>2
      DEF ClientOK, Authorised, HoldsData, PastCheck, SaveSteps, FillSteps
  <2> QED
    BY <1>2, <1>3, <2>1, <2>2, <2>3, ReadStep DEF storeVars, historyVars
<1>5. CASE OwnedRow(code, req[c].user)
  <2>1. /\ urls[code] \in URLInfo /\ urls[code].owner = req[c].user
        /\ urls[code].owner = ownerOf[code]
        /\ row \in URLInfo /\ info \in URLInfo
    BY <1>2, <1>5 DEF OwnedRow, HasRow, RowOK, Past, URLInfo
  <2>2. /\ urls' = [urls EXCEPT ![code] = row]
        /\ offered' = [offered EXCEPT ![code] = @ \cup {req[c].url}]
        /\ \/ /\ pc' = [pc EXCEPT ![c] = "put_save"]
              /\ status' = status /\ faults' = faults
           \/ /\ pc' = [pc EXCEPT ![c] = "idle"]
              /\ status' = [status EXCEPT ![c] = "error"] /\ faults' = faults + 1
    BY <1>5 DEF PutUpdate, UpdateRow, Goto, ReplyLost
  <2>3. data' = [data EXCEPT ![c] = info]
    <3>1. urls'[code] = row
      BY <1>1, <1>2, <2>2 DEF TypeOK
    <3> QED
      BY <1>5, <3>1 DEF PutUpdate
  <2>4. HistoryTyped
    BY <1>1, <1>2, <1>3, <2>2 DEF TypeOK, HistoryTyped
  <2>5. HistoryGrows
    BY <1>1, <1>2, <1>3, <2>2, <2>4, HistoryKept DEF TypeOK
  <2>6. RowOK(row, NextPast(code)) /\ RowOK(info, NextPast(code))
    <3>1. Grows(Past(code), NextPast(code))
      BY <1>2, <2>5 DEF HistoryGrows
    <3>2. /\ Counted(urls[code].count, NextPast(code))
          /\ Counted(hits[c], NextPast(code))
      <4>1. Counted(urls[code].count, Past(code)) /\ urls[code].count \in Nat
        BY <1>2, <2>1, NilIsFresh DEF RowOK, URLInfo
      <4> QED
        BY <1>2, <3>1, <4>1, CountLasts
    <3>3. /\ NextPast(code).owner = ownerOf[code]
          /\ req[c].url \in NextPast(code).offers
      BY <1>1, <1>2, <1>3, <2>2 DEF TypeOK, NextPast
    <3>4. /\ row.owner = ownerOf[code] /\ row.url = req[c].url
          /\ row.count = urls[code].count
          /\ info.owner = ownerOf[code] /\ info.url = req[c].url
          /\ info.count = urls[code].count \/ info.count = hits[c]
      BY <2>1 DEF URLInfo
    <3> QED
      BY <3>2, <3>3, <3>4 DEF RowOK
  <2>7. TypeOK'
    BY <1>1, <1>2, <1>3, <2>1, <2>2, <2>3, <2>4
    DEF TypeOK, HistoryTyped, syncVars, Steps, PutSteps, Statuses
  <2>8. RowsStayAway
    BY <1>1, <1>2, <2>1, <2>2, NilIsFresh DEF TypeOK, RowsStayAway, HasRow
  <2>9. StoresFit
    BY <1>1, <1>3, <2>2, <2>6 DEF TypeOK, StoresFit, syncVars
  <2>10. OthersAlone(c)
    BY <1>1, <1>3, <2>2, <2>3 DEF TypeOK, OthersAlone, LeftAlone
  <2>11. ClientOK(c)'
    <3>1. CASE pc'[c] = "put_save"
      <4>1. /\ req'[c] = req[c] /\ data'[c] = info /\ hits'[c] = hits[c]
            /\ status'[c] = status[c]
            /\ NextPast(code) = Past(req[c].code)' /\ ownerOf' = ownerOf
        BY <1>1, <1>3, <2>2, <2>3, <3>1 DEF TypeOK, Past, NextPast
      <4>2. Serving(c)' /\ Answered(c)'
        BY <1>1, <3>1, <4>1, GoesOn DEF PutSteps
      <4>3. Counted(hits[c], NextPast(code))
        BY <1>2, <2>5, CountLasts DEF HistoryGrows
      <4> QED
        BY <2>1, <2>6, <3>1, <4>1, <4>2, <4>3, NilIsFresh
        DEF ClientOK, Authorised, HoldsData
    <3>2. CASE pc'[c] = "idle" /\ status'[c] = "error"
      BY <3>2, Refused
    <3> QED
      BY <1>1, <2>2, <3>1, <3>2 DEF TypeOK
  <2> QED
    BY <1>2, <1>3, <2>5, <2>7, <2>8, <2>9, <2>10, <2>11, ClientStep
<1> QED
  BY <1>4, <1>5

(***************************************************************************)
(* existsByShortCode, for PUT and DELETE.                                  *)
(***************************************************************************)
LEMMA ExistsKeeps ==
  ASSUME IInv, NEW c \in Clients, Exists(c), UNCHANGED <<syncVars, snapshot, copies>>
  PROVE  IInv'
<1>1. TypeOK
  BY DEF IInv
<1>2. /\ UNCHANGED <<storeVars, req, data, hits, received, historyVars, syncVars, snapshot, copies>>
      /\ faults' = faults
      /\ pc' = [pc EXCEPT ![c] = "idle"]
      /\ \/ status' = [status EXCEPT ![c] = "forbidden"]
         \/ status' = [status EXCEPT ![c] = "notfound"]
  BY DEF Exists, Answer
<1>3. RequestsTyped /\ OthersAlone(c)
  BY <1>1, <1>2 DEF TypeOK, RequestsTyped, OthersAlone, LeftAlone, Steps, Statuses
<1>4. ClientOK(c)' /\ status'[c] # "ok"
  BY <1>1, <1>2, Refused DEF TypeOK
<1> QED
  BY <1>2, <1>3, <1>4, ReadStep

(***************************************************************************)
(* ServiceDelete.                                                          *)
(***************************************************************************)
LEMMA DelKeyKeeps ==
  ASSUME IInv, NEW c \in Clients, DelKey(c), UNCHANGED <<syncVars, snapshot, copies>>
  PROVE  IInv'
<1> DEFINE code == req[c].code
<1>1. pc[c] = "del_key" /\ TypeOK
  BY DEF DelKey, IInv
<1>2. code \in Codes /\ status[c] = Nil
  BY <1>1, InFlight
<1>3. /\ UNCHANGED <<urls, req, data, hits, received, historyVars, syncVars, snapshot, copies>>
      /\ DeleteKey(code)
      /\ \/ /\ pc' = [pc EXCEPT ![c] = "del_row"]
            /\ status' = status /\ faults' = faults
         \/ /\ pc' = [pc EXCEPT ![c] = "idle"]
            /\ status' = [status EXCEPT ![c] = "error"] /\ faults' = faults + 1
  BY DEF DelKey, Goto, ReplyLost
<1>4. HistoryGrows /\ HistoryTyped
  BY <1>1, <1>3, SameHistory
<1>5. CacheFits
  BY <1>1, <1>2, <1>3, DeleteKeyFits DEF TypeOK
<1>6. RequestsTyped /\ OthersAlone(c)
  BY <1>1, <1>3 DEF TypeOK, RequestsTyped, OthersAlone, LeftAlone, Steps, DelSteps, Statuses
<1>7. ClientOK(c)' /\ status'[c] # "ok"
  <2>1. CASE pc'[c] = "del_row"
    <3>1. req'[c] = req[c] /\ status'[c] = status[c]
      BY <1>1, <1>3, <2>1 DEF TypeOK
    <3>2. Serving(c)' /\ Answered(c)'
      BY <1>1, <2>1, <3>1, GoesOn DEF DelSteps
    <3> QED
      BY <1>2, <2>1, <3>1, <3>2, NilIsNoReply
      DEF ClientOK, Authorised, HoldsData, PastCheck, SaveSteps, FillSteps, PutSteps, Statuses
  <2>2. CASE pc'[c] = "idle" /\ status'[c] = "error"
    BY <2>2, Refused
  <2> QED
    BY <1>1, <1>3, <2>1, <2>2 DEF TypeOK
<1> QED
  BY <1>3, <1>4, <1>5, <1>6, <1>7, CacheStep

LEMMA DelRowKeeps ==
  ASSUME IInv, NEW c \in Clients, DelRow(c), UNCHANGED <<syncVars, snapshot, copies>>
  PROVE  IInv'
<1> DEFINE code == req[c].code
<1>1. pc[c] = "del_row" /\ TypeOK
  BY DEF DelRow, IInv
<1>2. /\ code \in Codes /\ status[c] = Nil /\ req[c] # Nil
      /\ req[c].op = "delete" /\ req[c].user \in Users
      /\ urls[code] \in URLInfo \cup {Nil} /\ RowOK(urls[code], Past(code))
  BY <1>1, InFlight DEF Serving, DelSteps, Request
<1>3. UNCHANGED <<cache, req, data, hits, received, historyVars, syncVars, snapshot, copies>>
  BY DEF DelRow
<1>4. CASE ~OwnedRow(code, req[c].user)
  <2>1. /\ UNCHANGED <<urls, status, faults>>
        /\ pc' = [pc EXCEPT ![c] = "del_exists"]
    BY <1>4 DEF DelRow, Goto
  <2>2. RequestsTyped /\ OthersAlone(c)
    BY <1>1, <1>3, <2>1
    DEF TypeOK, RequestsTyped, OthersAlone, LeftAlone, Steps, DelSteps
  <2>3. /\ pc'[c] = "del_exists" /\ req'[c] = req[c] /\ status'[c] = status[c]
    BY <1>1, <1>3, <2>1 DEF TypeOK
  <2>4. Serving(c)' /\ Answered(c)'
    BY <1>1, <2>3, GoesOn DEF DelSteps
  <2>5. ClientOK(c)'
    BY <2>3, <2>4
    DEF ClientOK, Authorised, HoldsData, PastCheck, SaveSteps, FillSteps, PutSteps
  <2> QED
    BY <1>2, <1>3, <2>1, <2>2, <2>3, <2>5, NilIsNoReply, ReadStep DEF storeVars, Statuses
<1>5. CASE OwnedRow(code, req[c].user)
  <2>1. /\ urls[code] # Nil /\ req[c].user = ownerOf[code]
    BY <1>2, <1>5 DEF OwnedRow, HasRow, RowOK, Past
  <2>2. /\ urls' = [urls EXCEPT ![code] = Nil]
        /\ pc' = [pc EXCEPT ![c] = "idle"]
        /\ \/ status' = [status EXCEPT ![c] = "ok"] /\ faults' = faults
           \/ status' = [status EXCEPT ![c] = "error"] /\ faults' = faults + 1
    BY <1>5 DEF DelRow, DeleteRow, Answer, ReplyLost
  <2>3. HistoryGrows /\ HistoryTyped
    BY <1>1, <1>3, <2>2, SameHistory
  <2>4. TypeOK'
    BY <1>1, <1>3, <2>2, <2>3
    DEF TypeOK, HistoryTyped, syncVars, Steps, Statuses
  <2>5. RowsStayAway
    BY <1>1, <2>2 DEF TypeOK, RowsStayAway, HasRow
  <2>6. StoresFit
    BY <1>1, <1>3, <2>2 DEF TypeOK, StoresFit, RowOK, syncVars
  <2>7. OthersAlone(c)
    BY <1>1, <1>3, <2>2 DEF TypeOK, OthersAlone, LeftAlone
  <2>8. ClientOK(c)'
    <3>1. /\ pc'[c] = "idle" /\ req'[c] = req[c] /\ ownerOf' = ownerOf
          /\ urls'[code] = Nil
      BY <1>1, <1>2, <1>3, <2>2 DEF TypeOK, historyVars
    <3>2. Answered(c)'
      BY <1>2, <2>1, <3>1 DEF Answered, HasRow
    <3> QED
      BY <3>1, <3>2, Satisfied
  <2>9. ASSUME NEW d \in Clients \ {c}, HasDeleted(d)
        PROVE  req[d].code # req'[c].code
    <3>1. ~HasRow(req[d].code)
      BY <2>9 DEF IInv, ClientOK, Answered, HasDeleted
    <3> QED
      BY <1>3, <2>1, <3>1 DEF HasRow
  <2> QED
    BY <2>3, <2>4, <2>5, <2>6, <2>7, <2>8, <2>9, ClientStep
<1> QED
  BY <1>4, <1>5

(***************************************************************************)
(* ServicePost, and the arrival of a request.                              *)
(***************************************************************************)
LEMMA InsertKeeps ==
  ASSUME IInv, NEW c \in Clients, Insert(c), UNCHANGED <<syncVars, snapshot, copies>>
  PROVE  IInv'
<1>1. pc[c] = "insert" /\ TypeOK /\ StoresOK
  BY DEF Insert, IInv
<1>2. /\ req[c] \in Request /\ req[c] # Nil /\ req[c].op = "post"
      /\ req[c].url \in Urls /\ req[c].user \in Users
  BY <1>1, InFlight DEF Serving, Request
<1>3. UNCHANGED <<cache, hits, received, visits, syncVars, snapshot, copies>>
  BY DEF Insert
<1>4. PICK code \in Drawable :
        /\ req' = [req EXCEPT ![c].code = code]
        /\ \/ /\ InsertRejected(code)
              /\ Answer(c, "error")
              /\ UNCHANGED <<urls, data, ownerOf, offered>>
           \/ /\ ~InsertRejected(code)
              /\ InsertRow(code, req[c].user, req[c].url)
              /\ ownerOf' = [ownerOf EXCEPT ![code] = req[c].user]
              /\ offered' = [offered EXCEPT ![code] = @ \cup {req[c].url}]
              /\ data' = [data EXCEPT ![c] = urls'[code]]
              /\ Answer(c, "ok") \/ ReplyLost(c)
  BY DEF Insert
<1>5. /\ code \in Codes /\ req' \in [Clients -> Request \cup {Nil}]
      /\ req'[c] \in Request /\ req'[c].code = code /\ req'[c].op = "post"
      /\ req'[c].user = req[c].user
      /\ \A d \in Clients \ {c} : req'[d] = req[d]
  BY <1>1, <1>2, <1>4 DEF Drawable, TypeOK, Request
<1>6. CASE InsertRejected(code)
  <2>1. /\ UNCHANGED <<urls, data, ownerOf, offered, faults>>
        /\ pc' = [pc EXCEPT ![c] = "idle"]
        /\ status' = [status EXCEPT ![c] = "error"]
    BY <1>4, <1>6 DEF Answer
  <2>2. RequestsTyped /\ OthersAlone(c)
    BY <1>1, <1>3, <1>5, <2>1
    DEF TypeOK, RequestsTyped, OthersAlone, LeftAlone, Steps, Statuses
  <2>3. ClientOK(c)' /\ status'[c] # "ok"
    BY <1>1, <2>1, Refused DEF TypeOK
  <2> QED
    BY <1>3, <2>1, <2>2, <2>3, ReadStep DEF storeVars, historyVars
<1>7. CASE ~InsertRejected(code)
  <2> DEFINE row == [owner |-> req[c].user, url |-> req[c].url, count |-> 0]
  <2>1. ownerOf[code] = Nil /\ row \in URLInfo
    BY <1>2, <1>4, <1>7 DEF Drawable, Fresh, InsertRejected, URLInfo
  <2>2. /\ urls' = [urls EXCEPT ![code] = row]
        /\ ownerOf' = [ownerOf EXCEPT ![code] = req[c].user]
        /\ offered' = [offered EXCEPT ![code] = @ \cup {req[c].url}]
        /\ pc' = [pc EXCEPT ![c] = "idle"]
        /\ \/ status' = [status EXCEPT ![c] = "ok"] /\ faults' = faults
           \/ status' = [status EXCEPT ![c] = "error"] /\ faults' = faults + 1
    BY <1>4, <1>7 DEF InsertRow, Answer, ReplyLost
  <2>3. data' = [data EXCEPT ![c] = row]
    <3>1. urls'[code] = row
      BY <1>1, <1>5, <2>2 DEF TypeOK
    <3> QED
      BY <1>4, <1>7, <3>1
  <2>4. HistoryTyped
    BY <1>1, <1>2, <1>3, <1>5, <2>2 DEF TypeOK, HistoryTyped
  <2>5. HistoryGrows
    BY <1>1, <1>2, <1>3, <1>5, <2>1, <2>2, <2>4, HistoryKept DEF TypeOK
  <2>6. /\ ownerOf'[code] = req[c].user /\ req[c].url \in offered'[code]
        /\ NextPast(code).limit \in Nat
    BY <1>1, <1>2, <1>5, <2>2, <2>5 DEF TypeOK, HistoryGrows, Grows, NextPast
  <2>7. RowOK(row, NextPast(code))
    BY <2>6 DEF RowOK, Counted, NextPast
  <2>8. TypeOK'
    BY <1>1, <1>3, <1>5, <2>1, <2>2, <2>3, <2>4
    DEF TypeOK, HistoryTyped, syncVars, Steps, Statuses
  <2>9. RowsStayAway
    BY <1>1, <2>1, <2>2 DEF TypeOK, RowsStayAway, HasRow
  <2>10. StoresFit
    BY <1>1, <1>3, <2>2, <2>7 DEF TypeOK, StoresFit, syncVars
  <2>11. OthersAlone(c)
    BY <1>1, <1>3, <1>5, <2>2, <2>3 DEF TypeOK, OthersAlone, LeftAlone
  <2>12. ClientOK(c)'
    <3>1. pc'[c] = "idle" /\ data'[c] = row /\ row # Nil /\ req'[c] # Nil
      BY <1>1, <1>5, <2>1, <2>2, <2>3, NilIsFresh, NilIsNoReply DEF TypeOK
    <3>2. Answered(c)'
      BY <1>5, <2>6, <3>1 DEF Answered
    <3> QED
      BY <3>1, <3>2, Satisfied
  <2> QED
    BY <1>5, <2>5, <2>8, <2>9, <2>10, <2>11, <2>12, ClientStep
<1> QED
  BY <1>6, <1>7

LEMMA ReceiveKeeps ==
  ASSUME IInv, NEW c \in Clients, Receive(c), UNCHANGED <<syncVars, snapshot, copies>>
  PROVE  IInv'
<1>1. pc[c] = "idle" /\ TypeOK
  BY DEF Receive, IInv
<1>2. PICK op \in Ops, user \in Users, code \in Codes, url \in Urls :
        /\ req' = [req EXCEPT ![c] =
                     [op   |-> op,
                      user |-> user,
                      code |-> IF op = "post" THEN Nil ELSE code,
                      url  |-> IF op \in {"post", "put"} THEN url ELSE Nil]]
        /\ pc' = [pc EXCEPT ![c] = FirstStep[op]]
  BY DEF Receive
<1>3. /\ UNCHANGED <<storeVars, faults, historyVars, syncVars, snapshot, copies>>
      /\ received' = received + 1
      /\ data' = [data EXCEPT ![c] = Nil]
      /\ hits' = [hits EXCEPT ![c] = Nil]
      /\ status' = [status EXCEPT ![c] = Nil]
  BY DEF Receive
<1>4. /\ req'[c] \in Request /\ req'[c].op = op
      /\ op # "post" => req'[c].code \in Codes
      /\ op \in {"post", "put"} => req'[c].url \in Urls
      /\ pc'[c] = FirstStep[op] /\ hits'[c] = Nil /\ status'[c] = Nil
  BY <1>1, <1>2, <1>3 DEF TypeOK, Request
<1>5. \/ op = "post" /\ FirstStep[op] = "insert"
      \/ op = "get" /\ FirstStep[op] = "get_lookup"
      \/ op = "put" /\ FirstStep[op] = "put_check"
      \/ op = "delete" /\ FirstStep[op] = "del_check"
      \/ op = "stats" /\ FirstStep[op] = "stats_lookup"
  BY DEF FirstStep, Ops
<1>6. RequestsTyped /\ OthersAlone(c)
  BY <1>1, <1>2, <1>3, <1>4, <1>5
  DEF TypeOK, RequestsTyped, OthersAlone, LeftAlone, Steps, GetSteps, PutSteps, DelSteps,
      StatsSteps
<1>7. ClientOK(c)'
  <2>1. Serving(c)'
    BY <1>4, <1>5, NilIsNoReply DEF Serving, GetSteps, PutSteps, DelSteps, StatsSteps
  <2>2. Authorised(c)' /\ HoldsData(c)' /\ Answered(c)'
    BY <1>4, <1>5, NilIsNoReply
    DEF Authorised, HoldsData, Answered, Counted, PastCheck, SaveSteps, FillSteps, PutSteps,
        Statuses
  <2> QED
    BY <2>1, <2>2 DEF ClientOK
<1> QED
  BY <1>3, <1>4, <1>6, <1>7, NilIsNoReply, ReadStep DEF Statuses

--------------------------------------------------------------------------------
(***************************************************************************)
(* Failures of a request.                                                  *)
(***************************************************************************)
LEMMA CommandFailsKeeps ==
  ASSUME IInv, NEW c \in Clients, CommandFails(c), UNCHANGED <<syncVars, snapshot, copies>>
  PROVE  IInv'
<1>1. TypeOK
  BY DEF IInv
<1>2. /\ UNCHANGED <<storeVars, req, data, hits, received, historyVars, syncVars, snapshot, copies>>
      /\ faults' = faults + 1
      /\ pc' = [pc EXCEPT ![c] = "idle"]
      /\ status' = [status EXCEPT ![c] = "error"]
  BY DEF CommandFails
<1>3. RequestsTyped /\ OthersAlone(c)
  BY <1>1, <1>2 DEF TypeOK, RequestsTyped, OthersAlone, LeftAlone, Steps, Statuses
<1>4. ClientOK(c)' /\ status'[c] # "ok"
  BY <1>1, <1>2, Refused DEF TypeOK
<1> QED
  BY <1>2, <1>3, <1>4, ReadStep

(***************************************************************************)
(* A step that is no request's: it answers none, though it may end them.   *)
(***************************************************************************)
LEMMA SystemStep ==
  ASSUME IInv, TypeOK', HistoryGrows, RowsStayAway, StoresFit,
         \A copy \in copies' \ copies : CopyOK(copy)',
         \A c \in Clients : LeftAlone(c) \/ (pc'[c] = "idle" /\ status'[c] # "ok")
  PROVE  IInv'
<1>1. StoresOK'
  BY StoresKept DEF IInv
<1>2. ASSUME NEW c \in Clients
      PROVE  ClientOK(c)'
  BY ClientLasts, Refused DEF IInv
<1>3. DeletedOnce'
  BY DEF IInv, DeletedOnce, HasDeleted, LeftAlone
<1>4. \A copy \in copies' : CopyOK(copy)'
  BY CopyLasts DEF IInv, TypeOK
<1> QED
  BY <1>1, <1>2, <1>3, <1>4 DEF IInv

(***************************************************************************)
(* A write that times out: the copy it leaves fits, as the handler's own   *)
(* command does.                                                           *)
(***************************************************************************)
LEMMA WriteTimesOutKeeps ==
  ASSUME IInv, NEW c \in Clients, WriteTimesOut(c)
  PROVE  IInv'
<1> DEFINE code == req[c].code
<1>0. PICK copy : copy = [step  |-> pc[c], code |-> code, user |-> req[c].user,
                          value |-> Value(c), id |-> faults]
  OBVIOUS
<1>1. TypeOK /\ pc[c] \in WriteSteps /\ pc[c] \notin {"idle", "insert"}
  BY DEF WriteTimesOut, IInv, WriteSteps, SaveSteps, FillSteps
<1>2. /\ code \in Codes /\ req[c] \in Request /\ req[c].user \in Users
      /\ Serving(c) /\ Authorised(c) /\ HoldsData(c)
  BY <1>1, InFlight DEF Request
<1>3. /\ UNCHANGED <<storeVars, req, data, hits, received, ownerOf, visits, syncVars, snapshot>>
      /\ faults' = faults + 1
      /\ copies' = copies \cup {copy}
      /\ offered' = IF pc[c] = "put_url"
                    THEN [offered EXCEPT ![code] = @ \cup {req[c].url}]
                    ELSE offered
      /\ \/ UNCHANGED <<pc, status>>
         \/ /\ pc' = [pc EXCEPT ![c] = "idle"]
            /\ status' = [status EXCEPT ![c] = "error"]
  BY <1>0 DEF WriteTimesOut
<1>4. pc[c] = "put_url" => req[c].url \in Urls
  BY <1>2 DEF Serving, PutSteps
<1>5. HistoryTyped
  BY <1>1, <1>2, <1>3, <1>4 DEF TypeOK, HistoryTyped
<1>6. HistoryGrows
  BY <1>1, <1>2, <1>3, <1>5, HistoryKept DEF TypeOK
<1>7. /\ pc[c] \in SaveSteps => Value(c) = data[c] /\ data[c] \in URLInfo
      /\ pc[c] = "put_url" => Value(c) = req[c].url
      /\ pc[c] \notin SaveSteps \cup {"put_url"} => Value(c) = Nil
  BY <1>1, <1>2 DEF Value, WriteSteps, SaveSteps, FillSteps, HoldsData, TypeOK
<1>8. copy \in Copy
  BY <1>0, <1>1, <1>2, <1>4, <1>7 DEF Copy, TypeOK
<1>9. CopyOK(copy)'
  <2>1. req[c].user = ownerOf'[code]
    BY <1>1, <1>2, <1>3 DEF Authorised, PastCheck, WriteSteps
  <2>2. pc[c] \in SaveSteps => RowOK(data[c], NextPast(code))
    BY <1>1, <1>2, <1>6, RowLasts DEF HoldsData, HistoryGrows, TypeOK
  <2>3. pc[c] = "put_url" => req[c].url \in offered'[code]
    BY <1>1, <1>2, <1>3 DEF TypeOK
  <2>4. /\ copy.user = ownerOf'[copy.code]
        /\ copy.step \in SaveSteps =>
             copy.value \in URLInfo /\ RowOK(copy.value, NextPast(copy.code))
        /\ copy.step = "put_url" => copy.value \in offered'[copy.code]
    BY <1>0, <1>7, <2>1, <2>2, <2>3
  <2> QED
    BY <2>4 DEF CopyOK, Past, NextPast, RowOK, Counted
<1>10. TypeOK'
  BY <1>1, <1>3, <1>5, <1>8
  DEF TypeOK, HistoryTyped, storeVars, syncVars, Steps, Statuses
<1>11. StoresFit /\ RowsStayAway
  BY <1>3 DEF StoresFit, RowsStayAway, HasRow, storeVars, syncVars
<1>12. \A d \in Clients : LeftAlone(d) \/ (pc'[d] = "idle" /\ status'[d] # "ok")
  BY <1>1, <1>3 DEF TypeOK, LeftAlone
<1>13. \A other \in copies' \ copies : CopyOK(other)'
  <2> SUFFICES ASSUME NEW other \in copies' \ copies PROVE CopyOK(other)'
    OBVIOUS
  <2>1. other = copy
    BY <1>3
  <2> QED
    BY <1>9, <2>1
<1> QED
  BY <1>6, <1>10, <1>11, <1>12, <1>13, SystemStep

(***************************************************************************)
(* A copy that is executed late.                                           *)
(***************************************************************************)
LEMMA CopyArrivesKeeps ==
  ASSUME IInv, CopyArrives
  PROVE  IInv'
<1>1. PICK copy \in copies : Arrives(copy)
  BY DEF CopyArrives
<1> DEFINE code == copy.code
<1>2. TypeOK /\ StoresOK /\ CopyOK(copy)
  BY DEF IInv
<1>3. /\ copy \in Copy /\ code \in Codes /\ copies' \subseteq copies
      /\ copies' \in SUBSET Copy
      /\ cache \in [Codes -> Hash] /\ visits \in [Codes -> Nat]
  BY <1>1, <1>2 DEF TypeOK, Copy, Arrives
<1>4. /\ UNCHANGED <<urls, requestVars, received, faults, ownerOf, offered, syncVars, snapshot>>
      /\ visits' = IF copy.step = "get_count"
                   THEN [visits EXCEPT ![code] = @ + 1]
                   ELSE visits
      /\ Execute(copy)
  BY <1>1 DEF Arrives
<1>5. HistoryTyped
  BY <1>2, <1>3, <1>4 DEF TypeOK, HistoryTyped
<1>6. HistoryGrows
  BY <1>2, <1>3, <1>4, <1>5, HistoryKept
<1>7. HashOK(cache[code], NextPast(code)) /\ Grows(Past(code), NextPast(code))
  BY <1>2, <1>3, <1>6, StoresLast DEF HistoryGrows
<1>8. CacheFits
  <2>1. CASE copy.step = "get_count" /\ IncrementCounter(code)
    <3>1. Counted(cache[code].count, Past(code))
      BY <1>2, <1>3 DEF StoresOK, HashOK
    <3>2. /\ Past(code).limit \in Nat /\ NextPast(code).limit \in Nat
          /\ Past(code).limit + 1 <= NextPast(code).limit
      BY <1>3, <1>4, <2>1 DEF Past, NextPast
    <3> QED
      BY <1>3, <1>7, <2>1, <3>1, <3>2, IncrementCounterFits
  <2>2. CASE copy.step \in SaveSteps /\ SaveUrl(code, copy.value)
    <3>1. copy.value \in URLInfo /\ RowOK(copy.value, NextPast(code))
      BY <1>2, <1>7, <2>2, RowLasts DEF CopyOK
    <3> QED
      BY <1>3, <2>2, <3>1, SaveUrlFits
  <2>3. CASE copy.step = "put_url" /\ SetUrl(code, copy.value)
    <3>1. copy.value \in NextPast(code).offers /\ copy.value \in Urls
      BY <1>2, <1>3, <1>4, <2>3 DEF CopyOK, NextPast, TypeOK
    <3> QED
      BY <1>3, <1>7, <2>3, <3>1, SetUrlFits
  <2>4. CASE SetUpdatedAt(code)
    BY <1>3, <1>7, <2>4, SetUpdatedAtFits
  <2>5. CASE DeleteKey(code)
    BY <1>3, <2>5, DeleteKeyFits
  <2> QED
    BY <1>4, <2>1, <2>2, <2>3, <2>4, <2>5 DEF Execute
<1>9. TypeOK'
  BY <1>2, <1>3, <1>4, <1>5, <1>8 DEF TypeOK, CacheFits, HistoryTyped, requestVars, syncVars
<1>10. StoresFit /\ RowsStayAway /\ \A c \in Clients : LeftAlone(c)
  BY <1>4, <1>8
  DEF StoresFit, CacheFits, RowsStayAway, HasRow, LeftAlone, requestVars, syncVars
<1> QED
  BY <1>3, <1>6, <1>9, <1>10, SystemStep

LEMMA CrashKeeps ==
  ASSUME IInv, Crash, UNCHANGED <<syncVars, snapshot, copies>>
  PROVE  IInv'
<1>1. TypeOK
  BY DEF IInv
<1>2. /\ UNCHANGED <<storeVars, req, data, hits, received, historyVars, syncVars, snapshot, copies>>
      /\ faults' = faults + 1
      /\ pc' = [c \in Clients |-> "idle"]
      /\ status' = [c \in Clients |-> IF pc[c] = "idle" THEN status[c] ELSE "error"]
  BY DEF Crash
<1>3. HistoryGrows /\ HistoryTyped
  BY <1>1, <1>2, SameHistory
<1>4. TypeOK'
  BY <1>1, <1>2, <1>3
  DEF TypeOK, HistoryTyped, storeVars, syncVars, Steps, Statuses
<1>5. StoresFit /\ RowsStayAway
  BY <1>2 DEF StoresFit, RowsStayAway, HasRow, storeVars, syncVars
<1>6. \A c \in Clients : LeftAlone(c) \/ (pc'[c] = "idle" /\ status'[c] # "ok")
  BY <1>1, <1>2 DEF TypeOK, LeftAlone
<1> QED
  BY <1>3, <1>4, <1>5, <1>6, SystemStep

--------------------------------------------------------------------------------
(***************************************************************************)
(* The syncer.  Only its last step touches a store: a row takes a counter  *)
(* of the batch and keeps the rest.                                        *)
(***************************************************************************)
SyncTyped ==
  /\ pass' \in Passes
  /\ keys' \in SUBSET Codes
  /\ owed' \in SUBSET Codes
  /\ batch' \in [Codes -> SUBSET Nat]

LEMMA SyncedRow ==
  ASSUME TypeOK, NEW code \in Codes, NEW row \in Synced(code)
  PROVE  \/ row = urls[code]
         \/ /\ urls[code] \in URLInfo /\ row \in URLInfo
            /\ row.owner = urls[code].owner /\ row.url = urls[code].url
            /\ row.count \in batch[code]
<1>1. urls[code] \in URLInfo \cup {Nil} /\ batch[code] \in SUBSET Nat
  BY DEF TypeOK
<1>2. CASE HasRow(code) /\ batch[code] # {}
  <2>1. PICK count \in batch[code] : row = [urls[code] EXCEPT !.count = count]
    BY <1>2 DEF Synced
  <2> QED
    BY <1>1, <1>2, <2>1 DEF HasRow, URLInfo
<1>3. CASE ~(HasRow(code) /\ batch[code] # {})
  BY <1>3 DEF Synced
<1> QED
  BY <1>2, <1>3

LEMMA SyncerStep ==
  ASSUME IInv, UNCHANGED <<cache, requestVars, received, historyVars, snapshot, copies>>,
         faults' \in {faults, faults + 1}, SyncTyped,
         \A code \in Codes : batch'[code] \subseteq batch[code] \cup ({cache[code].count} \ {Nil}),
         urls' = urls \/ urls' \in SyncedRows
  PROVE  IInv'
<1>1. TypeOK /\ StoresOK
  BY DEF IInv
<1>2. HistoryGrows /\ HistoryTyped
  BY <1>1, SameHistory
<1>3. ASSUME NEW code \in Codes
      PROVE  /\ urls'[code] \in URLInfo \cup {Nil}
             /\ urls'[code] = Nil <=> urls[code] = Nil
             /\ RowOK(urls'[code], NextPast(code))
  <2>1. /\ urls[code] \in URLInfo \cup {Nil}
        /\ RowOK(urls[code], NextPast(code)) /\ BatchOK(batch[code], NextPast(code))
    BY <1>1, <1>2, <1>3, StoresLast DEF TypeOK
  <2>2. \/ urls'[code] = urls[code]
        \/ /\ urls[code] \in URLInfo /\ urls'[code] \in URLInfo
           /\ urls'[code].owner = urls[code].owner /\ urls'[code].url = urls[code].url
           /\ urls'[code].count \in batch[code]
    BY <1>1, <1>3, SyncedRow DEF SyncedRows
  <2> QED
    BY <2>1, <2>2, NilIsFresh DEF RowOK, BatchOK, URLInfo
<1>4. urls' \in [Codes -> URLInfo \cup {Nil}]
  <2>1. urls' = [code \in Codes |-> urls'[code]]
    BY <1>1 DEF TypeOK, SyncedRows
  <2> QED
    BY <1>3, <2>1
<1>5. TypeOK'
  BY <1>1, <1>2, <1>4 DEF TypeOK, HistoryTyped, SyncTyped, requestVars
<1>6. RowsStayAway
  BY <1>3 DEF RowsStayAway, HasRow
<1>7. StoresFit
  <2>1. ASSUME NEW code \in Codes
        PROVE  BatchOK(batch'[code], NextPast(code))
    <3>1. HashOK(cache[code], NextPast(code)) /\ BatchOK(batch[code], NextPast(code))
      BY <1>1, <1>2, StoresLast
    <3> QED
      BY <3>1 DEF HashOK, BatchOK
  <2> QED
    BY <1>3, <2>1 DEF StoresFit
<1> QED
  BY <1>2, <1>5, <1>6, <1>7, SystemStep DEF LeftAlone, requestVars

(***************************************************************************)
(* A page of SCAN, or an HGET, changes no store.                           *)
(***************************************************************************)
LEMMA ScanTyped ==
  ASSUME TypeOK, NEW expected \in SUBSET Codes, Scan(expected)
  PROVE  SyncTyped /\ UNCHANGED <<cache, urls, batch>>
<1>1. keys' \in SUBSET Codes /\ owed' \in SUBSET Codes
  BY DEF Scan, Cached
<1>2. pass' \in Passes
  BY DEF Scan, Passes, Finish
<1>3. UNCHANGED <<cache, urls, batch>>
  BY DEF Scan
<1> QED
  BY <1>1, <1>2, <1>3 DEF SyncTyped, TypeOK

LEMMA ReadKeyTyped ==
  ASSUME TypeOK, NEW code \in Codes, NEW counts \in SUBSET Nat, ReadKey(code, counts)
  PROVE  /\ SyncTyped /\ UNCHANGED <<cache, urls>>
         /\ \A k \in Codes : batch'[k] = IF k = code THEN batch[k] \cup counts ELSE batch[k]
<1>1. batch \in [Codes -> SUBSET Nat] /\ keys \in SUBSET Codes /\ owed \in SUBSET Codes
      /\ pass \in Passes
  BY DEF TypeOK
<1>2. /\ \A k \in Codes : batch'[k] = IF k = code THEN batch[k] \cup counts ELSE batch[k]
      /\ batch' \in [Codes -> SUBSET Nat]
  BY <1>1 DEF ReadKey
<1>3. keys' \in SUBSET Codes /\ owed' = owed /\ UNCHANGED <<cache, urls>>
  BY <1>1 DEF ReadKey
<1>4. pass' \in Passes
  BY <1>1 DEF ReadKey, Passes, Finish
<1> QED
  BY <1>1, <1>2, <1>3, <1>4 DEF SyncTyped

LEMMA SyncKeeps ==
  ASSUME IInv, SyncStep, UNCHANGED <<requestVars, received, faults, historyVars, snapshot, copies>>
  PROVE  IInv'
<1>1. TypeOK
  BY DEF IInv
<1>2. CASE SyncTick \/ SyncScan
  <2>1. PICK expected \in SUBSET Codes : Scan(expected)
    BY <1>1, <1>2 DEF SyncTick, SyncScan, Cached, TypeOK
  <2> QED
    BY <1>1, <2>1, ScanTyped, SyncerStep
<1>3. CASE SyncRead
  <2>1. PICK code \in keys : ReadKey(code, {cache[code].count} \ {Nil})
    BY <1>3 DEF SyncRead
  <2>2. code \in Codes /\ {cache[code].count} \ {Nil} \in SUBSET Nat
    BY <1>1, <2>1 DEF TypeOK, Hash
  <2> QED
    BY <1>1, <2>1, <2>2, ReadKeyTyped, SyncerStep
<1>4. CASE SyncWrite
  <2>1. SyncTyped /\ \A k \in Codes : batch'[k] = {}
    BY <1>4 DEF SyncWrite, EndPass, NoBatch, SyncTyped, Passes
  <2> QED
    BY <1>4, <2>1, SyncerStep DEF SyncWrite
<1> QED
  BY <1>2, <1>3, <1>4 DEF SyncStep

LEMMA SyncFailsKeeps ==
  ASSUME IInv, SyncFails
  PROVE  IInv'
<1>1. TypeOK /\ faults' = faults + 1
      /\ UNCHANGED <<requestVars, received, historyVars, snapshot, copies>>
  BY DEF IInv, SyncFails, redisVars
<1>2. CASE SyncSkips
  <2>1. PICK code \in keys : ReadKey(code, {})
    BY <1>2 DEF SyncSkips
  <2>2. code \in Codes
    BY <1>1, <2>1 DEF TypeOK
  <2> QED
    BY <1>1, <2>1, <2>2, ReadKeyTyped, SyncerStep
<1>3. CASE SyncAborts
  <2>1. SyncTyped /\ \A k \in Codes : batch'[k] = {}
    BY <1>3 DEF SyncAborts, EndPass, NoBatch, SyncTyped, Passes
  <2> QED
    BY <1>1, <1>3, <2>1, SyncerStep DEF SyncAborts
<1> QED
  BY <1>2, <1>3 DEF SyncFails

(***************************************************************************)
(* Redis saves its data, and comes back with what it saved or with none.   *)
(***************************************************************************)
LEMMA RedisKeeps ==
  ASSUME IInv, RedisSaves \/ RedisRestarts
  PROVE  IInv'
<1>1. TypeOK /\ StoresOK
  BY DEF IInv
<1>2. /\ UNCHANGED <<urls, requestVars, received, historyVars, syncVars>>
      /\ faults' \in {faults, faults + 1}
      /\ cache' \in {cache, snapshot, NoHashes} /\ snapshot' \in {cache, snapshot}
      /\ copies' \subseteq copies
  BY DEF RedisSaves, RedisRestarts, serviceVars, storeVars
<1>3. HistoryGrows /\ HistoryTyped
  BY <1>1, <1>2, SameHistory
<1>4. NoHashes \in [Codes -> Hash] /\ \A code \in Codes : NoHashes[code] = NoHash
  BY DEF NoHashes, NoHash, Hash
<1>5. TypeOK'
  BY <1>1, <1>2, <1>3, <1>4 DEF TypeOK, HistoryTyped, requestVars, syncVars
<1>6. ASSUME NEW code \in Codes
      PROVE  /\ HashOK(cache[code], NextPast(code))
             /\ HashOK(snapshot[code], NextPast(code))
             /\ HashOK(NoHash, NextPast(code))
  BY <1>1, <1>3, StoresLast DEF HashOK, HashAgrees, Counted, NoHash
<1>7. StoresFit
  BY <1>2, <1>4, <1>6 DEF StoresFit, syncVars
<1>8. RowsStayAway /\ \A c \in Clients : LeftAlone(c)
  BY <1>2 DEF RowsStayAway, HasRow, LeftAlone, requestVars
<1>9. \A copy \in copies' \ copies : CopyOK(copy)'
  BY <1>2
<1> QED
  BY <1>3, <1>5, <1>7, <1>8, <1>9, SystemStep

--------------------------------------------------------------------------------
(***************************************************************************)
(* IInv is inductive.                                                      *)
(***************************************************************************)
LEMMA InitIInv == Init => IInv
<1> SUFFICES ASSUME Init PROVE IInv
  OBVIOUS
<1>1. TypeOK
  BY DEF Init, ServiceInit, SyncInit, TypeOK, NoHashes, NoHash, Hash, NoBatch, Passes, Steps
<1>2. StoresOK
  BY NilIsFresh
  DEF Init, ServiceInit, SyncInit, StoresOK, HashOK, HashAgrees, RowOK, BatchOK, Counted,
      NoHashes, NoHash, NoBatch
<1>3. \A c \in Clients : ClientOK(c) /\ ~HasDeleted(c)
  BY NilIsNoReply
  DEF Init, ServiceInit, ClientOK, Serving, Authorised, HoldsData, Answered, HasDeleted,
      PastCheck, SaveSteps, FillSteps, PutSteps, Statuses
<1> QED
  BY <1>1, <1>2, <1>3 DEF IInv, Init, DeletedOnce

LEMMA NextIInv == IInv /\ [Next]_vars => IInv'
<1> SUFFICES ASSUME IInv, [Next]_vars PROVE IInv'
  OBVIOUS
<1> USE DEF redisVars
<1>1. CASE ServiceNext /\ UNCHANGED <<syncVars, redisVars>>
  <2>1. ASSUME NEW c \in Clients, Receive(c)
        PROVE  IInv'
    BY <1>1, <2>1, ReceiveKeeps
  <2>2. ASSUME NEW c \in Clients, Handle(c)
        PROVE  IInv'
    BY <1>1, <2>2, InsertKeeps, GetLookupKeeps, GetCountKeeps, GetSelectKeeps, SaveKeeps,
       StatsLookupKeeps, StatsSelectKeeps, CheckKeeps, PutUrlKeeps, PutStampKeeps,
       PutRereadKeeps, PutUpdateKeeps, DelKeyKeeps, DelRowKeeps, ExistsKeeps
    DEF Handle
  <2>3. ASSUME NEW c \in Clients, CommandFails(c)
        PROVE  IInv'
    BY <1>1, <2>3, CommandFailsKeeps
  <2>4. CASE Crash
    BY <1>1, <2>4, CrashKeeps
  <2> QED
    BY <1>1, <2>1, <2>2, <2>3, <2>4 DEF ServiceNext
<1>2. CASE SyncStep /\ UNCHANGED <<requestVars, received, faults, historyVars, redisVars>>
  BY <1>2, SyncKeeps
<1>3. CASE SyncFails
  BY <1>3, SyncFailsKeeps
<1>4. CASE RedisSaves \/ RedisRestarts
  BY <1>4, RedisKeeps
<1>5. CASE CopyArrives \/ \E c \in Clients : WriteTimesOut(c)
  BY <1>5, CopyArrivesKeeps, WriteTimesOutKeeps
<1>6. CASE UNCHANGED vars
  BY <1>6
  DEF vars, serviceVars, storeVars, requestVars, historyVars, syncVars, IInv, TypeOK,
      StoresOK, HashOK, HashAgrees, RowOK, Counted, Past, HasRow, ClientOK, CopyOK,
      Serving, Authorised, HoldsData, Answered, DeletedOnce, HasDeleted
<1> QED
  BY <1>1, <1>2, <1>3, <1>4, <1>5, <1>6 DEF Next

(***************************************************************************)
(* In every reachable state a handler past its check is the owner's, what  *)
(* it holds fits the past of its code, and so does every store.            *)
(***************************************************************************)
THEOREM Inductive == Spec => []IInv
<1>1. Init => IInv
  BY InitIInv
<1>2. IInv /\ [Next]_vars => IInv'
  BY NextIInv
<1> QED
  BY <1>1, <1>2, PTL DEF Spec

(***************************************************************************)
(* Hashes, rows, requests and counters are what the code takes them for.   *)
(***************************************************************************)
THEOREM TypeCorrect == Spec => []TypeOK
<1>1. IInv => TypeOK
  BY DEF IInv
<1> QED
  BY <1>1, Inductive, PTL

(***************************************************************************)
(* No store, no batch of the syncer and no snapshot ever holds more visits *)
(* of a link than were counted, whatever overlaps and whatever fails: only *)
(* a HINCRBY that Redis executes twice counts one twice.                   *)
(***************************************************************************)
THEOREM CountsAreBounded == Spec => []CountsBounded
<1>1. ASSUME IInv, NEW code \in Codes
      PROVE  /\ Counted(cache[code].count, Past(code))
             /\ Counted(snapshot[code].count, Past(code))
             /\ HasRow(code) => urls[code].count <= Past(code).limit
             /\ \A count \in batch[code] : count <= Past(code).limit
  <2>1. batch[code] \in SUBSET Nat
    BY <1>1 DEF IInv, TypeOK
  <2>2. \A count \in batch[code] : count <= Past(code).limit
    BY <1>1, <2>1, NilIsFresh DEF IInv, StoresOK, BatchOK, Counted
  <2> QED
    BY <1>1, <2>2, NilIsFresh DEF IInv, TypeOK, StoresOK, HashOK, RowOK, Counted, HasRow, URLInfo
<1>2. IInv => CountsBounded
  BY <1>1 DEF CountsBounded, Counted, Past
<1> QED
  BY <1>2, Inductive, PTL

(***************************************************************************)
(* The owner in Redis, on whose word alone requests are let through, is    *)
(* always the user who created the link.                                   *)
(***************************************************************************)
THEOREM OwnersAlwaysAgree == Spec => []OwnersAgree
<1>1. IInv => OwnersAgree
  BY DEF IInv, StoresOK, HashOK, RowOK, Past, OwnersAgree, HasRow
<1> QED
  BY <1>1, Inductive, PTL

(***************************************************************************)
(* No interleaving and no failure answers a user with success on somebody  *)
(* else's link, or with a URL its owner never gave.                        *)
(***************************************************************************)
THEOREM OnlyOwnersSucceed == Spec => []SuccessIsTheOwners
<1>1. IInv => SuccessIsTheOwners
  BY DEF IInv, ClientOK, Answered, SuccessIsTheOwners
<1> QED
  BY <1>1, Inductive, PTL

(***************************************************************************)
(* However many DELETEs of a link overlap, one at most is told that it was *)
(* the one that deleted it.                                                *)
(***************************************************************************)
THEOREM DeletedAtMostOnce == Spec => []DeletedOnce
<1>1. IInv => DeletedOnce
  BY DEF IInv
<1> QED
  BY <1>1, Inductive, PTL

--------------------------------------------------------------------------------
(***************************************************************************)
(* Who may change a link.  A step that only reads, or writes no more than  *)
(* a counter, keeps every link.                                            *)
(***************************************************************************)
LEMMA StoresAloneKeepLinks ==
  ASSUME UNCHANGED storeVars, NEW code \in Codes
  PROVE  LinkKept(code)
BY DEF storeVars, LinkKept

(***************************************************************************)
(* The commands to Redis that change more than a counter are issued past   *)
(* the check of the owner.                                                 *)
(***************************************************************************)
LEMMA CommandOwned ==
  ASSUME IInv, NEW c \in Clients, pc[c] \in PastCheck, req' = req, ownerOf' = ownerOf,
         urls' = urls, pc'[c] # pc[c],
         \/ SaveUrl(req[c].code, data[c]) \/ SetUrl(req[c].code, req[c].url)
         \/ SetUpdatedAt(req[c].code) \/ IncrementCounter(req[c].code)
         \/ DeleteKey(req[c].code),
         NEW code \in Codes
  PROVE  OwnerActs(code) \/ LinkKept(code)
<1>1. /\ req[c].user = ownerOf[req[c].code] /\ req[c].code \in Codes
      /\ cache \in [Codes -> Hash]
  BY InFlight DEF Authorised, PastCheck, SaveSteps, FillSteps, IInv, TypeOK
<1>2. CASE code = req[c].code
  BY <1>1, <1>2 DEF OwnerActs
<1>3. CASE code # req[c].code
  <2>1. cache'[code] = cache[code]
    BY <1>1, <1>3 DEF SaveUrl, SetUrl, SetUpdatedAt, IncrementCounter, DeleteKey
  <2> QED
    BY <2>1 DEF LinkKept
<1> QED
  BY <1>2, <1>3

LEMMA HandleOwned ==
  ASSUME IInv, NEW c \in Clients, Handle(c), NEW code \in Codes
  PROVE  OwnerActs(code) \/ LinkKept(code)
<1>1. TypeOK
  BY DEF IInv
<1>2. CASE \/ GetLookup(c) \/ GetSelect(c) \/ StatsLookup(c) \/ StatsSelect(c)
           \/ PutCheck(c) \/ PutReread(c) \/ DelCheck(c) \/ Exists(c)
  <2>1. UNCHANGED storeVars
    BY <1>2 DEF GetLookup, GetSelect, StatsLookup, StatsSelect, PutCheck, PutReread, DelCheck,
       Exists
  <2> QED
    BY <2>1, StoresAloneKeepLinks
<1>3. CASE \/ GetCount(c) \/ Fill(c) \/ PutUrl(c) \/ PutStamp(c) \/ PutSave(c) \/ DelKey(c)
  <2>1. /\ pc[c] \in PastCheck /\ req' = req /\ ownerOf' = ownerOf /\ urls' = urls
        /\ \/ SaveUrl(req[c].code, data[c]) \/ SetUrl(req[c].code, req[c].url)
           \/ SetUpdatedAt(req[c].code) \/ IncrementCounter(req[c].code)
           \/ DeleteKey(req[c].code)
    BY <1>3 DEF GetCount, Fill, PutUrl, PutStamp, PutSave, DelKey, PastCheck, SaveSteps,
       FillSteps, historyVars
  <2>2. pc'[c] # pc[c]
    BY <1>1, <1>3
    DEF GetCount, Fill, PutUrl, PutStamp, PutSave, DelKey, Goto, Answer, ReplyLost, FillSteps,
        TypeOK
  <2> QED
    BY <2>1, <2>2, CommandOwned
<1>4. CASE PutUpdate(c) \/ DelRow(c)
  <2>1. /\ cache' = cache /\ req' = req /\ ownerOf' = ownerOf
        /\ pc[c] \in {"put_update", "del_row"} /\ pc'[c] # pc[c]
    BY <1>1, <1>4
    DEF PutUpdate, DelRow, Goto, Answer, ReplyLost, TypeOK, historyVars
  <2>2. req[c].code \in Codes /\ RowOK(urls[req[c].code], Past(req[c].code))
    BY <2>1, InFlight
  <2>3. CASE ~OwnedRow(req[c].code, req[c].user)
    BY <1>4, <2>1, <2>3 DEF PutUpdate, DelRow, LinkKept
  <2>4. CASE code = req[c].code /\ OwnedRow(code, req[c].user)
    BY <2>1, <2>2, <2>4 DEF OwnerActs, OwnedRow, HasRow, RowOK, Past
  <2>5. CASE code # req[c].code /\ OwnedRow(req[c].code, req[c].user)
    <3>1. urls'[code] = urls[code]
      BY <1>1, <1>4, <2>5 DEF PutUpdate, DelRow, UpdateRow, DeleteRow, TypeOK
    <3> QED
      BY <2>1, <3>1 DEF LinkKept
  <2> QED
    BY <2>3, <2>4, <2>5
<1>5. CASE Insert(c)
  <2>1. /\ pc[c] = "insert" /\ cache' = cache /\ req[c] \in Request
    BY <1>5, InFlight DEF Insert
  <2>2. PICK k \in Drawable :
          /\ req' = [req EXCEPT ![c].code = k]
          /\ \/ urls' = urls
             \/ /\ InsertRow(k, req[c].user, req[c].url)
                /\ ownerOf' = [ownerOf EXCEPT ![k] = req[c].user]
                /\ pc' = [pc EXCEPT ![c] = "idle"]
    BY <1>5 DEF Insert, Answer, ReplyLost
  <2>3. CASE code = k /\ urls' # urls
    <3>1. req'[c].code = k /\ req'[c].user = req[c].user
      BY <1>1, <2>1, <2>2 DEF TypeOK, Request
    <3>2. ownerOf'[k] = req[c].user /\ pc'[c] # pc[c]
      BY <1>1, <2>1, <2>2, <2>3 DEF TypeOK
    <3> QED
      BY <2>3, <3>1, <3>2 DEF OwnerActs
  <2>4. CASE code # k \/ urls' = urls
    <3>1. urls'[code] = urls[code]
      BY <1>1, <2>2, <2>4 DEF InsertRow, TypeOK
    <3> QED
      BY <2>1, <3>1 DEF LinkKept
  <2> QED
    BY <2>3, <2>4
<1> QED
  BY <1>2, <1>3, <1>4, <1>5 DEF Handle

LEMMA StepOwned ==
  ASSUME IInv, Next, NEW code \in Codes
  PROVE  OwnerActs(code) \/ LinkKept(code)
<1>1. TypeOK
  BY DEF IInv
<1>2. CASE \E c \in Clients : Handle(c)
  BY <1>2, HandleOwned
<1>3. CASE CopyArrives
  <2>1. PICK copy \in copies : Arrives(copy)
    BY <1>3 DEF CopyArrives
  <2>2. copy.user = ownerOf[copy.code] /\ copy.code \in Codes /\ cache \in [Codes -> Hash]
    BY <1>1, <2>1 DEF IInv, CopyOK, TypeOK, Copy
  <2>3. CASE code = copy.code
    BY <2>1, <2>2, <2>3 DEF OwnerActs
  <2>4. CASE code # copy.code
    BY <2>1, <2>2, <2>4
    DEF Arrives, Execute, SaveUrl, SetUrl, SetUpdatedAt, IncrementCounter, DeleteKey, LinkKept
  <2> QED
    BY <2>3, <2>4
<1>4. CASE Crash \/ \E c \in Clients : Receive(c) \/ CommandFails(c) \/ WriteTimesOut(c)
  <2>1. UNCHANGED storeVars
    BY <1>4 DEF Crash, Receive, CommandFails, WriteTimesOut
  <2> QED
    BY <2>1, StoresAloneKeepLinks
<1>5. CASE SyncStep \/ SyncFails
  <2>1. cache' = cache /\ (urls' = urls \/ urls' \in SyncedRows)
    <3>1. SyncTick \/ SyncScan \/ SyncRead \/ SyncSkips \/ SyncAborts => UNCHANGED <<cache, urls>>
      BY DEF SyncTick, SyncScan, Scan, SyncRead, SyncSkips, ReadKey, SyncAborts
    <3>2. SyncWrite => cache' = cache /\ (urls' = urls \/ urls' \in SyncedRows)
      BY DEF SyncWrite
    <3> QED
      BY <1>5, <3>1, <3>2 DEF SyncStep, SyncFails
  <2>2. LinkOfRow(urls'[code]) = LinkOfRow(urls[code])
    <3>1. \/ urls'[code] = urls[code]
          \/ /\ urls[code] \in URLInfo /\ urls'[code] \in URLInfo
             /\ urls'[code].owner = urls[code].owner
             /\ urls'[code].url = urls[code].url
      BY <1>1, <2>1, SyncedRow DEF SyncedRows
    <3> QED
      BY <3>1, NilIsFresh DEF LinkOfRow
  <2> QED
    BY <2>1, <2>2 DEF LinkKept
<1>6. CASE RedisSaves \/ RedisRestarts
  BY <1>6 DEF RedisSaves, RedisRestarts, LinkKept, serviceVars, storeVars
<1> QED
  BY <1>2, <1>3, <1>4, <1>5, <1>6 DEF Next, ServiceNext

(***************************************************************************)
(* A row comes, goes or changes its link, and a hash its URL, only in a    *)
(* step of a request of the link's owner, unless Redis has just restarted: *)
(* no fill, retry, late write or pass of the syncer does it in anybody else's name.    *)
(***************************************************************************)
THEOREM LinksAreTheirOwners == Spec => OnlyOwnersChangeLinks
<1>1. IInv /\ [Next]_vars =>
        [\A code \in Codes : OwnerActs(code) \/ LinkKept(code)]_vars
  BY StepOwned
<1> QED
  BY <1>1, Inductive, PTL DEF Spec, OnlyOwnersChangeLinks

================================================================================
