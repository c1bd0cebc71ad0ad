--------------------------- MODULE ServesLinksProofs ---------------------------
(***************************************************************************)
(* The proof that SerialLinks implements LinkService: under the mapping of *)
(* SerialLinks every step of the service, of its stores and of the syncer  *)
(* is one of LinkService, or changes nothing that its users see.           *)
(***************************************************************************)
EXTENDS SerialLinksProofs

(***************************************************************************)
(* What users see of a link and of a request that a step leaves alone does *)
(* not change.                                                             *)
(***************************************************************************)
LEMMA OthersSame ==
  ASSUME IInv, NEW c \in Clients, NEW code \in Codes \cup {Nil}, Local(c, code),
         \A d \in Clients \ {c} : ~WorksOn(d, code),
         \A other \in Codes \ {code} : ~WorksOn(c, other),
         pc'[c] \in {"idle", "insert"} \/ req'[c].code = code
  PROVE  /\ \A other \in Codes \ {code} : Link(other)' = Link(other)
         /\ \A d \in Clients \ {c} : AskedBy(d)' = AskedBy(d) /\ ReplyTo(d)' = ReplyTo(d)
<1>1. ASSUME NEW other \in Codes \ {code}
      PROVE  Link(other)' = Link(other)
  <2>1. cache'[other] = cache[other] /\ urls'[other] = urls[other]
    BY DEF Local, StoreAlone
  <2>2. ASSUME NEW d \in Clients
        PROVE  (Removing(d) /\ req[d].code = other)' <=> Removing(d) /\ req[d].code = other
    BY <2>1 DEF Local, OthersAlone, LeftAlone, WorksOn, Removing, OwnedRow, HasRow
  <2> QED
    BY <2>1, <2>2 DEF Link, HasRow
<1>2. ASSUME NEW d \in Clients \ {c}
      PROVE  AskedBy(d)' = AskedBy(d) /\ ReplyTo(d)' = ReplyTo(d)
  <2>1. LeftAlone(d) /\ Serving(d)
    BY DEF Local, OthersAlone, IInv, ClientOK
  <2>2. pc[d] \notin {"idle", "insert"} => req[d].code \in Codes \ {code}
    BY <2>1 DEF Serving, WorksOn
  <2>3. Changed(d)' <=> Changed(d)
    BY <2>1 DEF LeftAlone, Changed
  <2>4. Changed(d) => Link(req[d].code)' = Link(req[d].code)
    BY <1>1, <2>1, <2>2 DEF LeftAlone, Changed
  <2>5. Removing(d)' <=> Removing(d)
    BY <2>1, <2>2 DEF LeftAlone, Removing, OwnedRow, HasRow, Local, StoreAlone
  <2> QED
    BY <2>1, <2>3, <2>4, <2>5 DEF LeftAlone, AskedBy, ReplyTo, Told
<1> QED
  BY <1>1, <1>2

(***************************************************************************)
(* The state of LinkService under the mapping, and a step that changes one *)
(* link and one reply of it.                                               *)
(***************************************************************************)
Seen(c, code, link, reply) ==
  /\ Links' = [Links EXCEPT ![code] = link]
  /\ Replies' = [Replies EXCEPT ![c] = reply]
  /\ Asked' = Asked

LEMMA Mapped ==
  ASSUME NEW c \in Clients, NEW code \in Codes
  PROVE  Links[code] = Link(code) /\ Asked[c] = AskedBy(c) /\ Replies[c] = ReplyTo(c)
BY DEF Links, Asked, Replies

LEMMA StepSeen ==
  ASSUME NEW c \in Clients, NEW code \in Codes,
         \A other \in Codes \ {code} : Link(other)' = Link(other),
         \A d \in Clients \ {c} : AskedBy(d)' = AskedBy(d) /\ ReplyTo(d)' = ReplyTo(d),
         AskedBy(c)' = AskedBy(c)
  PROVE  Seen(c, code, Link(code)', ReplyTo(c)')
<1>1. Links' = [Links EXCEPT ![code] = Link(code)']
  BY DEF Links
<1>2. Replies' = [Replies EXCEPT ![c] = ReplyTo(c)']
  BY DEF Replies
<1>3. Asked' = Asked
  BY DEF Asked
<1> QED
  BY <1>1, <1>2, <1>3 DEF Seen

(***************************************************************************)
(* What each step of LinkService takes.                                    *)
(***************************************************************************)
Waits(c, op, code) == /\ Asked[c] # Nil /\ Replies[c] = Nil
                      /\ Asked[c].op = op /\ Asked[c].code = code

LEMMA Stutters ==
  ASSUME NEW c \in Clients, NEW code \in Codes,
         Seen(c, code, Links[code], Replies[c])
  PROVE  UNCHANGED Abstract!vars
BY DEF Seen, Abstract!vars, Links, Replies

LEMMA Creates ==
  ASSUME NEW c \in Clients, NEW code \in Codes, Waits(c, "post", Nil),
         \/ /\ Links[code] = Nil
            /\ Seen(c, code, [owner |-> Asked[c].user, url |-> Asked[c].url, count |-> 0],
                    [status |-> "ok", url |-> Asked[c].url, count |-> 0])
         \/ /\ Links[code] # Nil
            /\ Seen(c, code, Links[code], [status |-> "error", url |-> Nil, count |-> Nil])
  PROVE  Abstract!Create(c)
<1>1. [Links EXCEPT ![code] = Links[code]] = Links
  BY DEF Links
<1> QED
  BY <1>1 DEF Waits, Seen, Abstract!Create, Abstract!Pending, Abstract!Finish, Abstract!Outcome

LEMMA Refuses ==
  ASSUME NEW c \in Clients, NEW code \in Codes, NEW op, op # "post", Waits(c, op, code),
         \/ /\ Links[code] = Nil
            /\ Seen(c, code, Links[code], [status |-> "notfound", url |-> Nil, count |-> Nil])
         \/ /\ Links[code] # Nil /\ Links[code].owner # Asked[c].user
            /\ Seen(c, code, Links[code], [status |-> "forbidden", url |-> Nil, count |-> Nil])
  PROVE  Abstract!Refuse(c)
<1>1. [Links EXCEPT ![code] = Links[code]] = Links
  BY DEF Links
<1> QED
  BY <1>1 DEF Waits, Seen, Abstract!Refuse, Abstract!Pending, Abstract!Finish, Abstract!Outcome

Owns(c, code) == Links[code] # Nil /\ Links[code].owner = Asked[c].user

LEMMA Visits ==
  ASSUME NEW c \in Clients, NEW code \in Codes, Waits(c, "get", code), Owns(c, code),
         Seen(c, code, [Links[code] EXCEPT !.count = @ + 1],
              [status |-> "ok", url |-> Links[code].url, count |-> Nil])
  PROVE  Abstract!Visit(c)
BY DEF Waits, Owns, Seen, Abstract!Visit, Abstract!Grant, Abstract!Pending, Abstract!Finish,
   Abstract!Outcome

LEMMA Reports ==
  ASSUME NEW c \in Clients, NEW code \in Codes, Waits(c, "stats", code), Owns(c, code),
         Seen(c, code, Links[code],
              [status |-> "ok", url |-> Links[code].url, count |-> Links[code].count])
  PROVE  Abstract!Report(c)
<1>1. [Links EXCEPT ![code] = Links[code]] = Links
  BY DEF Links
<1> QED
  BY <1>1 DEF Waits, Owns, Seen, Abstract!Report, Abstract!Grant, Abstract!Pending,
     Abstract!Finish, Abstract!Outcome

LEMMA Changes ==
  ASSUME NEW c \in Clients, NEW code \in Codes, Waits(c, "put", code), Owns(c, code),
         Seen(c, code, [Links[code] EXCEPT !.url = Asked[c].url],
              [status |-> "ok", url |-> Asked[c].url, count |-> Links[code].count])
  PROVE  Abstract!Change(c)
BY DEF Waits, Owns, Seen, Abstract!Change, Abstract!Grant, Abstract!Pending, Abstract!Finish,
   Abstract!Outcome

LEMMA Removes ==
  ASSUME NEW c \in Clients, NEW code \in Codes, Waits(c, "delete", code), Owns(c, code),
         Seen(c, code, Nil, [status |-> "ok", url |-> Nil, count |-> Nil])
  PROVE  Abstract!Remove(c)
BY DEF Waits, Owns, Seen, Abstract!Remove, Abstract!Grant, Abstract!Pending, Abstract!Finish,
   Abstract!Outcome

--------------------------------------------------------------------------------
(***************************************************************************)
(* A request at work and its link: what users see before a step ...        *)
(***************************************************************************)
Info(owner, url, count) == [owner |-> owner, url |-> url, count |-> count]

LEMMA InfoIs ==
  ASSUME NEW info \in URLInfo
  PROVE  info = Info(info.owner, info.url, info.count)
BY DEF URLInfo, Info

LEMMA LinkNow ==
  ASSUME NEW c \in Clients, NEW code \in Codes, Serial(c, code)
  PROVE  /\ ~HasRow(code) \/ Removing(c) => Link(code) = Nil
         /\ HasRow(code) /\ ~Removing(c) =>
              /\ KeyExists(code) => Link(code) = Info(ownerOf[code], cache[code].url, visits[code])
              /\ ~KeyExists(code) =>
                   Link(code) = Info(ownerOf[code], urls[code].url, urls[code].count)
         /\ Link(code) = Nil <=> ~HasRow(code) \/ Removing(c)
<1>1. (\E d \in Clients : Removing(d) /\ req[d].code = code) <=> Removing(c)
  BY DEF Serial, SerialInv, Alone, WorksOn, Removing
<1>2. HasRow(code) => urls[code] = Info(ownerOf[code], urls[code].url, urls[code].count)
  BY WorkersRow, InfoIs DEF Serial
<1>3. /\ KeyExists(code) => /\ cache[code].owner = ownerOf[code] /\ cache[code].owner # Nil
                            /\ cache[code].count = visits[code]
      /\ ~KeyExists(code) => cache[code].owner = Nil
  BY WorkersHash, NilIsFresh DEF Serial, NoHash
<1>4. HasRow(code) /\ ~Removing(c) =>
        /\ KeyExists(code) => Link(code) = Info(ownerOf[code], cache[code].url, visits[code])
        /\ ~KeyExists(code) => Link(code) = urls[code]
  BY <1>1, <1>3 DEF Link, Info
<1>5. ~HasRow(code) \/ Removing(c) => Link(code) = Nil
  BY <1>1 DEF Link
<1>6. HasRow(code) /\ ~Removing(c) => Link(code) # Nil
  <2>1. HasRow(code) /\ KeyExists(code) =>
          Info(ownerOf[code], cache[code].url, visits[code]) \in URLInfo
    BY Worker, WorkersHash DEF Serial, Info, URLInfo
  <2> QED
    BY <1>4, <2>1, NilIsFresh DEF HasRow
<1> QED
  BY <1>2, <1>4, <1>5, <1>6

LEMMA ReplyNow ==
  ASSUME NEW c \in Clients, NEW code \in Codes, Serial(c, code)
  PROVE  /\ Changed(c) => ReplyTo(c) = [status |-> "ok", url |-> req[c].url,
                                        count |-> Link(code).count]
         /\ Removing(c) => ReplyTo(c) = [status |-> "ok", url |-> Nil, count |-> Nil]
         /\ ~Changed(c) /\ ~Removing(c) => ReplyTo(c) = Nil
<1>1. status[c] = Nil /\ req[c].code = code
  BY Worker DEF Serial
<1> QED
  BY <1>1 DEF ReplyTo, Changed, Removing

LEMMA AskedNow ==
  ASSUME NEW c \in Clients, NEW code \in Codes, Serial(c, code)
  PROVE  AskedBy(c) = req[c] /\ req[c] # Nil /\ req[c].code = code /\ req[c].op # "post"
<1>1. req[c] # Nil /\ req[c].op # "post" /\ req[c].code = code
  BY DEF Serial, IInv, ClientOK, Serving, WorksOn, Steps, GetSteps, PutSteps, DelSteps,
     StatsSteps, TypeOK
<1> QED
  BY <1>1 DEF AskedBy

(***************************************************************************)
(* ... and after it.                                                       *)
(***************************************************************************)
LEMMA LinkNext ==
  ASSUME NEW c \in Clients, NEW code \in Codes, Serial(c, code), Calls(c, code), IInv'
  PROVE  LET gone == \/ urls'[code] = Nil
                     \/ pc'[c] = "del_row" /\ urls'[code].owner = req[c].user
         IN  /\ gone => Link(code)' = Nil
             /\ ~gone =>
                  /\ cache'[code].owner # Nil =>
                       Link(code)' =
                         Info(cache'[code].owner, cache'[code].url, cache'[code].count)
                  /\ cache'[code].owner = Nil =>
                       Link(code)' =
                         Info(urls'[code].owner, urls'[code].url, urls'[code].count)
<1>1. /\ req'[c] = req[c] /\ req[c].code = code
      /\ \A d \in Clients \ {c} : ~WorksOn(d, code) /\ LeftAlone(d)
  BY DEF Serial, SerialInv, Alone, WorksOn, Calls, Local, OthersAlone
<1>2. (\E d \in Clients : Removing(d)' /\ req'[d].code = code)
        <=> pc'[c] = "del_row" /\ urls'[code] # Nil /\ urls'[code].owner = req[c].user
  BY <1>1 DEF LeftAlone, WorksOn, Removing, OwnedRow, HasRow
<1>3. urls'[code] # Nil =>
        urls'[code] = Info(urls'[code].owner, urls'[code].url, urls'[code].count)
  BY InfoIs DEF IInv, TypeOK
<1> QED
  BY <1>2, <1>3 DEF Link, HasRow, Info

LEMMA ReplyGoes ==
  ASSUME NEW c \in Clients, NEW code \in Codes, Serial(c, code), Calls(c, code),
         status'[c] = Nil
  PROVE  ReplyTo(c)' =
           IF \/ pc'[c] \in {"put_stamp", "put_reread", "put_save"}
              \/ pc'[c] = "put_update" /\ hits'[c] # Nil
           THEN [status |-> "ok", url |-> req[c].url, count |-> Link(code)'.count]
           ELSE IF pc'[c] = "del_row" /\ urls'[code] # Nil /\ urls'[code].owner = req[c].user
           THEN [status |-> "ok", url |-> Nil, count |-> Nil]
           ELSE Nil
<1>1. req'[c] = req[c] /\ req[c].code = code
  BY DEF Serial, WorksOn, Calls
<1> QED
  BY <1>1 DEF ReplyTo, Changed, Removing, OwnedRow, HasRow

LEMMA ReplyEnds ==
  ASSUME NEW c \in Clients, NEW code \in Codes, Serial(c, code), Calls(c, code),
         NEW s \in Statuses, Ends(c, s)
  PROVE  ReplyTo(c)' =
           [status |-> s,
            url    |-> IF s = "ok" /\ req[c].op # "delete" THEN data'[c].url ELSE Nil,
            count  |-> IF s = "ok" /\ req[c].op \notin {"get", "delete"}
                       THEN data'[c].count ELSE Nil]
<1>1. req'[c] = req[c] /\ s # Nil
  BY NilIsNoReply DEF Calls
<1> QED
  BY <1>1 DEF Ends, ReplyTo, Told, Changed, Removing

LEMMA CommandSeen ==
  ASSUME NEW c \in Clients, NEW code \in Codes, Serial(c, code), Calls(c, code)
  PROVE  /\ Seen(c, code, Link(code)', ReplyTo(c)')
         /\ Links[code] = Link(code) /\ Replies[c] = ReplyTo(c)
         /\ Asked[c] = req[c] /\ req[c] # Nil /\ req[c].code = code /\ req[c].op # "post"
<1>1. /\ \A d \in Clients \ {c} : ~WorksOn(d, code)
      /\ \A other \in Codes \ {code} : ~WorksOn(c, other)
      /\ req'[c] = req[c] /\ req'[c].code = code /\ Local(c, code) /\ IInv
  BY DEF Serial, SerialInv, Alone, WorksOn, Calls
<1>2. /\ \A other \in Codes \ {code} : Link(other)' = Link(other)
      /\ \A d \in Clients \ {c} : AskedBy(d)' = AskedBy(d) /\ ReplyTo(d)' = ReplyTo(d)
  BY <1>1, OthersSame
<1>3. AskedBy(c)' = AskedBy(c)
  BY <1>1 DEF AskedBy
<1> QED
  BY <1>2, <1>3, StepSeen, Mapped, AskedNow

--------------------------------------------------------------------------------
(***************************************************************************)
(* Every command is a step of LinkService or none at all.                  *)
(***************************************************************************)
Served == Abstract!Next \/ UNCHANGED Abstract!vars

LEMMA Serves ==
  ASSUME NEW c \in Clients,
         \/ Abstract!Ask(c) \/ Abstract!Create(c) \/ Abstract!Refuse(c) \/ Abstract!Visit(c)
         \/ Abstract!Report(c) \/ Abstract!Change(c) \/ Abstract!Remove(c)
  PROVE  Served
BY DEF Served, Abstract!Next

Undisturbed(code) == cache'[code] = cache[code] /\ urls'[code] = urls[code]

LEMMA LinkSame ==
  ASSUME NEW c \in Clients, NEW code \in Codes, Serial(c, code), Calls(c, code),
         Undisturbed(code), Removing(c)' <=> Removing(c)
  PROVE  Link(code)' = Link(code)
<1>1. /\ req'[c] = req[c] /\ req[c].code = code
      /\ \A d \in Clients \ {c} : ~WorksOn(d, code) /\ LeftAlone(d)
  BY DEF Serial, SerialInv, Alone, WorksOn, Calls, Local, OthersAlone
<1>2. ASSUME NEW d \in Clients
      PROVE  (Removing(d) /\ req[d].code = code)' <=> Removing(d) /\ req[d].code = code
  BY <1>1 DEF LeftAlone, WorksOn, Removing
<1> QED
  BY <1>2 DEF Link, HasRow, Undisturbed

(***************************************************************************)
(* A command that changes neither store, and after which the request has   *)
(* still got nothing done.                                                 *)
(***************************************************************************)
LEMMA Silent ==
  ASSUME NEW c \in Clients, NEW code \in Codes, Serial(c, code), Calls(c, code),
         Undisturbed(code), status'[c] = Nil,
         ~Changed(c), ~Removing(c), ~Changed(c)', ~Removing(c)'
  PROVE  Served
<1>1. Link(code)' = Link(code)
  BY LinkSame
<1>2. ReplyTo(c) = Nil /\ ReplyTo(c)' = Nil
  BY ReplyNow DEF ReplyTo
<1> QED
  BY <1>1, <1>2, CommandSeen, Stutters DEF Served

(***************************************************************************)
(* A request is refused.                                                   *)
(***************************************************************************)
LEMMA RefusalServed ==
  ASSUME NEW c \in Clients, NEW code \in Codes, Serial(c, code), Calls(c, code),
         Undisturbed(code), ~Changed(c),
         \/ HasRow(code) /\ ownerOf[code] # req[c].user /\ Ends(c, "forbidden")
         \/ ~HasRow(code) /\ Ends(c, "notfound")
  PROVE  Served
<1>1. ~Removing(c) /\ ~Removing(c)'
  BY WorkersRow DEF Serial, WorksOn, Removing, OwnedRow, Ends
<1>2. Link(code)' = Link(code) /\ ReplyTo(c) = Nil
  BY <1>1, LinkSame, ReplyNow
<1>3. /\ HasRow(code) => Link(code) # Nil /\ Link(code).owner = ownerOf[code]
      /\ ~HasRow(code) => Link(code) = Nil
  BY <1>1, LinkNow DEF Info
<1>4. /\ Seen(c, code, Links[code], ReplyTo(c)') /\ Links[code] = Link(code)
      /\ Waits(c, req[c].op, code) /\ req[c].op # "post" /\ Asked[c] = req[c]
  BY <1>2, CommandSeen DEF Waits
<1>5. CASE HasRow(code) /\ ownerOf[code] # req[c].user /\ Ends(c, "forbidden")
  <2>1. ReplyTo(c)' = [status |-> "forbidden", url |-> Nil, count |-> Nil]
    BY <1>5, ReplyEnds DEF Statuses
  <2> QED
    BY <1>3, <1>4, <1>5, <2>1, Refuses, Serves
<1>6. CASE ~HasRow(code) /\ Ends(c, "notfound")
  <2>1. ReplyTo(c)' = [status |-> "notfound", url |-> Nil, count |-> Nil]
    BY <1>6, ReplyEnds DEF Statuses
  <2> QED
    BY <1>3, <1>4, <1>6, <2>1, Refuses, Serves
<1> QED
  BY <1>5, <1>6

(***************************************************************************)
(* GET: counting the visit in the hash, or filling the cache with a copy   *)
(* that counts it.                                                         *)
(***************************************************************************)
LEMMA GetLookupServed ==
  ASSUME NEW c \in Clients, NEW code \in Codes, Serial(c, code), GetLookup(c)
  PROVE  Served
<1>1. pc[c] = "get_lookup" /\ GetLookupEffect(c, code)
  BY GetLookupDoes DEF GetLookup
<1>2. ~Changed(c) /\ ~Removing(c) /\ Calls(c, code) /\ Undisturbed(code)
  BY <1>1 DEF Changed, Removing, GetLookupEffect, SameStores, Undisturbed
<1>3. CASE Goes(c, "get_count") \/ Goes(c, "get_select")
  BY <1>2, <1>3, Silent DEF Goes, Changed, Removing
<1>4. CASE KeyExists(code) /\ ownerOf[code] # req[c].user /\ Ends(c, "forbidden")
  BY <1>2, <1>4, WorkersHash, RefusalServed DEF Serial
<1> QED
  BY <1>1, <1>3, <1>4 DEF GetLookupEffect

LEMMA GetSelectServed ==
  ASSUME NEW c \in Clients, NEW code \in Codes, Serial(c, code), GetSelect(c)
  PROVE  Served
<1>1. pc[c] = "get_select" /\ GetSelectEffect(c, code)
  BY GetSelectDoes DEF GetSelect
<1>2. ~Changed(c) /\ ~Removing(c) /\ Calls(c, code) /\ Undisturbed(code)
  BY <1>1 DEF Changed, Removing, GetSelectEffect, Undisturbed
<1>3. CASE Goes(c, "get_fill")
  BY <1>2, <1>3, Silent DEF Goes, Changed, Removing
<1>4. CASE HasRow(code) /\ urls[code].owner # req[c].user /\ Ends(c, "forbidden")
  BY <1>2, <1>4, WorkersRow, RefusalServed DEF Serial
<1>5. CASE ~HasRow(code) /\ Ends(c, "notfound")
  BY <1>2, <1>5, RefusalServed
<1> QED
  BY <1>1, <1>3, <1>4, <1>5 DEF GetSelectEffect

(***************************************************************************)
(* The step with which a GET is answered.                                  *)
(***************************************************************************)
LEMMA Visited ==
  ASSUME NEW c \in Clients, NEW code \in Codes, Serial(c, code), Calls(c, code),
         IInv', pc[c] \in GetSteps, Ends(c, "ok"),
         HasRow(code), ownerOf[code] = req[c].user, urls'[code] = urls[code],
         NEW url, NEW count,
         Link(code) = Info(req[c].user, url, count), data'[c].url = url,
         cache'[code].owner = req[c].user, cache'[code].url = url,
         cache'[code].count = count + 1
  PROVE  Served
<1>1. ~Changed(c) /\ ~Removing(c) /\ req[c].op = "get" /\ req[c].user # Nil
  BY Worker, NilIsFresh DEF Serial, Serving, WorksOn, GetSteps, Changed, Removing
<1>2. ReplyTo(c) = Nil /\ Link(code) # Nil
  BY <1>1, ReplyNow, LinkNow
<1>3. Link(code)' = [Link(code) EXCEPT !.count = @ + 1]
  <2>1. Link(code)' = Info(req[c].user, url, count + 1)
    BY <1>1, LinkNext DEF Ends, HasRow
  <2> QED
    BY <2>1 DEF Info
<1>4. ReplyTo(c)' = [status |-> "ok", url |-> url, count |-> Nil]
  BY <1>1, ReplyEnds DEF Statuses
<1>5. Link(code).url = url /\ Link(code).owner = req[c].user
  BY DEF Info
<1> QED
  BY <1>1, <1>2, <1>3, <1>4, <1>5, CommandSeen, Visits, Serves DEF Waits, Owns

LEMMA GetCountServed ==
  ASSUME NEW c \in Clients, NEW code \in Codes, Serial(c, code), IInv', GetCount(c)
  PROVE  Served
<1>1. pc[c] = "get_count" /\ GetCountEffect(c, code)
  BY GetCountDoes DEF GetCount
<1>2. /\ HasRow(code) /\ KeyExists(code) /\ ownerOf[code] = req[c].user
      /\ cache[code].owner = req[c].user
  BY <1>1, WorkersHash DEF Serial, GetCountEffect
<1>3. Link(code) = Info(req[c].user, cache[code].url, visits[code])
  BY <1>1, <1>2, LinkNow DEF Removing
<1> QED
  BY <1>1, <1>2, <1>3, Visited DEF GetCountEffect, GetSteps

LEMMA GetFillServed ==
  ASSUME NEW c \in Clients, NEW code \in Codes, Serial(c, code), IInv', Fill(c),
         pc[c] = "get_fill"
  PROVE  Served
<1>1. SaveEffect(c, code)
  BY SaveDoes
<1>2. /\ HasRow(code) /\ ownerOf[code] = req[c].user
      /\ ~KeyExists(code) /\ visits[code] = urls[code].count + 1
  BY <1>1, Worker DEF Serial, SaveEffect, RequestOK, Looked, Copied, MissSteps
<1>3. Link(code) = Info(req[c].user, urls[code].url, urls[code].count)
  BY <1>2, LinkNow DEF Removing
<1> QED
  BY <1>1, <1>2, <1>3, Visited DEF SaveEffect, GetSteps

(***************************************************************************)
(* Stats, from the hash or from the copy that fills the cache.             *)
(***************************************************************************)
LEMMA Reported ==
  ASSUME NEW c \in Clients, NEW code \in Codes, Serial(c, code), Calls(c, code),
         pc[c] \in StatsSteps, Ends(c, "ok"), HasRow(code),
         NEW url, NEW count,
         Link(code) = Info(req[c].user, url, count), Link(code)' = Link(code),
         data'[c].url = url, data'[c].count = count
  PROVE  Served
<1>1. ~Changed(c) /\ ~Removing(c) /\ req[c].op = "stats"
  BY Worker DEF Serial, Serving, WorksOn, StatsSteps, Changed, Removing
<1>2. ReplyTo(c) = Nil /\ Link(code) # Nil
  BY <1>1, ReplyNow, LinkNow
<1>3. ReplyTo(c)' = [status |-> "ok", url |-> url, count |-> count]
  BY <1>1, ReplyEnds DEF Statuses
<1>4. /\ Link(code).url = url /\ Link(code).count = count
      /\ Link(code).owner = req[c].user
  BY DEF Info
<1> QED
  BY <1>1, <1>2, <1>3, <1>4, CommandSeen, Reports, Serves DEF Waits, Owns

LEMMA StatsLookupServed ==
  ASSUME NEW c \in Clients, NEW code \in Codes, Serial(c, code), StatsLookup(c)
  PROVE  Served
<1>1. pc[c] = "stats_lookup" /\ StatsLookupEffect(c, code)
  BY StatsLookupDoes DEF StatsLookup
<1>2. ~Changed(c) /\ ~Removing(c) /\ Calls(c, code) /\ Undisturbed(code)
  BY <1>1 DEF Changed, Removing, StatsLookupEffect, SameStores, Undisturbed
<1>3. CASE /\ KeyExists(code) /\ ownerOf[code] = req[c].user /\ Ends(c, "ok")
           /\ data'[c].url = cache[code].url /\ data'[c].count = cache[code].count
  <2>1. HasRow(code) /\ cache[code].count = visits[code]
    BY <1>3, WorkersHash DEF Serial
  <2>2. Link(code) = Info(req[c].user, cache[code].url, visits[code])
    BY <1>2, <1>3, <2>1, LinkNow
  <2>3. Link(code)' = Link(code)
    BY <1>2, <1>3, LinkSame DEF Removing, Ends
  <2> QED
    BY <1>1, <1>2, <1>3, <2>1, <2>2, <2>3, Reported DEF StatsSteps
<1>4. CASE Goes(c, "stats_select")
  BY <1>2, <1>4, Silent DEF Goes, Changed, Removing
<1>5. CASE KeyExists(code) /\ ownerOf[code] # req[c].user /\ Ends(c, "forbidden")
  BY <1>2, <1>5, WorkersHash, RefusalServed DEF Serial
<1> QED
  BY <1>1, <1>3, <1>4, <1>5 DEF StatsLookupEffect

LEMMA StatsSelectServed ==
  ASSUME NEW c \in Clients, NEW code \in Codes, Serial(c, code), StatsSelect(c)
  PROVE  Served
<1>1. pc[c] = "stats_select" /\ StatsSelectEffect(c, code)
  BY StatsSelectDoes DEF StatsSelect
<1>2. ~Changed(c) /\ ~Removing(c) /\ Calls(c, code) /\ Undisturbed(code)
  BY <1>1 DEF Changed, Removing, StatsSelectEffect, SameStores, Undisturbed
<1>3. CASE Goes(c, "stats_fill")
  BY <1>2, <1>3, Silent DEF Goes, Changed, Removing
<1>4. CASE HasRow(code) /\ urls[code].owner # req[c].user /\ Ends(c, "forbidden")
  BY <1>2, <1>4, WorkersRow, RefusalServed DEF Serial
<1>5. CASE ~HasRow(code) /\ Ends(c, "notfound")
  BY <1>2, <1>5, RefusalServed
<1> QED
  BY <1>1, <1>3, <1>4, <1>5 DEF StatsSelectEffect

(***************************************************************************)
(* SaveUrl writes to the cache what users see already, but for a visit a   *)
(* GET has still to count.                                                 *)
(***************************************************************************)
LEMMA Saved ==
  ASSUME NEW c \in Clients, NEW code \in Codes, Serial(c, code), IInv',
         SaveEffect(c, code), pc[c] \in SaveSteps \ {"get_fill"}
  PROVE  /\ Link(code) = Info(req[c].user, urls[code].url, visits[code])
         /\ Link(code)' = Link(code)
<1>1. /\ HasRow(code) /\ urls'[code] # Nil /\ ownerOf[code] = req[c].user
      /\ req[c].user # Nil /\ Calls(c, code) /\ pc'[c] = "idle"
  BY Worker, NilIsFresh DEF Serial, SaveEffect, HasRow, Ends
<1>2. ~Removing(c) /\ ~UrlPending(c) /\ ~CountPending(c)
  <2>1. pc[c] # "del_row" /\ ~UrlPending(c)
    BY DEF SaveSteps, FillSteps, UrlPending
  <2> QED
    BY <2>1 DEF Removing, CountPending
<1>3. /\ KeyExists(code) => cache[code].url = urls[code].url
      /\ ~KeyExists(code) => urls[code].count = visits[code]
  BY <1>1, <1>2, WorkersHash, WorkersRow DEF Serial
<1>4. Link(code) = Info(req[c].user, urls[code].url, visits[code])
  BY <1>1, <1>2, <1>3, LinkNow
<1>5. Link(code)' = Info(req[c].user, urls[code].url, visits[code])
  BY <1>1, LinkNext DEF SaveEffect
<1> QED
  BY <1>4, <1>5

LEMMA StatsFillServed ==
  ASSUME NEW c \in Clients, NEW code \in Codes, Serial(c, code), IInv', Fill(c),
         pc[c] = "stats_fill"
  PROVE  Served
<1>1. SaveEffect(c, code)
  BY SaveDoes
<1>2. /\ Link(code) = Info(req[c].user, urls[code].url, visits[code])
      /\ Link(code)' = Link(code)
  BY <1>1, Saved DEF SaveSteps, FillSteps
<1> QED
  BY <1>1, <1>2, Reported DEF SaveEffect, StatsSteps

--------------------------------------------------------------------------------
(***************************************************************************)
(* PUT takes effect with its write of the hash or, without one, with that  *)
(* of the row; what it does next only makes the other store follow.        *)
(***************************************************************************)
LEMMA Following ==
  ASSUME NEW c \in Clients, NEW code \in Codes, Serial(c, code), Calls(c, code),
         Changed(c), Changed(c)', status'[c] = Nil, Link(code)' = Link(code)
  PROVE  Served
<1>1. req'[c] = req[c] /\ req[c].code = code
  BY DEF Serial, WorksOn, Calls
<1>2. ReplyTo(c) = [status |-> "ok", url |-> req[c].url, count |-> Link(code).count]
  BY ReplyNow
<1>3. ReplyTo(c)' = [status |-> "ok", url |-> req[c].url, count |-> Link(code)'.count]
  BY <1>1, ReplyGoes DEF Changed
<1> QED
  BY <1>2, <1>3, CommandSeen, Stutters DEF Served

LEMMA ChangeServed ==
  ASSUME NEW c \in Clients, NEW code \in Codes, Serial(c, code), Calls(c, code),
         pc[c] \in PutSteps, ~Changed(c), Changed(c)', status'[c] = Nil,
         HasRow(code), NEW url, NEW count,
         Link(code) = Info(req[c].user, url, count),
         Link(code)' = Info(req[c].user, req[c].url, count)
  PROVE  Served
<1>1. ~Removing(c) /\ req[c].op = "put"
  BY Worker DEF Serial, Serving, WorksOn, PutSteps, Removing
<1>2. ReplyTo(c) = Nil /\ Link(code) # Nil
  BY <1>1, ReplyNow, LinkNow
<1>3. req'[c] = req[c] /\ req[c].code = code
  BY DEF Serial, WorksOn, Calls
<1>4. ReplyTo(c)' = [status |-> "ok", url |-> req[c].url, count |-> count]
  <2>1. ReplyTo(c)' = [status |-> "ok", url |-> req[c].url, count |-> Link(code)'.count]
    BY <1>3, ReplyGoes DEF Changed
  <2> QED
    BY <2>1 DEF Info
<1>5. /\ Link(code)' = [Link(code) EXCEPT !.url = req[c].url]
      /\ Link(code).count = count /\ Link(code).owner = req[c].user
  BY DEF Info
<1> QED
  BY <1>1, <1>2, <1>4, <1>5, CommandSeen, Changes, Serves DEF Waits, Owns

LEMMA PutCheckServed ==
  ASSUME NEW c \in Clients, NEW code \in Codes, Serial(c, code), PutCheck(c)
  PROVE  Served
<1>1. pc[c] = "put_check" /\ CheckEffect(c, code, "put_url", "put_update")
  BY CheckDoes DEF PutCheck
<1>2. ~Changed(c) /\ ~Removing(c) /\ Calls(c, code) /\ Undisturbed(code)
  BY <1>1 DEF Changed, Removing, CheckEffect, SameStores, Undisturbed
<1>3. hits'[c] = Nil
  BY <1>1, Worker DEF Serial, RequestOK, Putting, PutSteps, CheckEffect
<1>4. CASE Goes(c, "put_url") \/ Goes(c, "put_update")
  BY <1>2, <1>3, <1>4, Silent DEF Goes, Changed, Removing
<1>5. CASE KeyExists(code) /\ ownerOf[code] # req[c].user /\ Ends(c, "forbidden")
  BY <1>2, <1>5, WorkersHash, RefusalServed DEF Serial
<1> QED
  BY <1>1, <1>4, <1>5 DEF CheckEffect

LEMMA PutHashServed ==
  ASSUME NEW c \in Clients, NEW code \in Codes, Serial(c, code), IInv',
         PutUrl(c) \/ PutStamp(c)
  PROVE  Served
<1>1. \/ pc[c] = "put_url" /\ PutUrlEffect(c, code)
      \/ pc[c] = "put_stamp" /\ PutStampEffect(c, code)
  BY PutUrlDoes, PutStampDoes DEF PutUrl, PutStamp
<1>2. Calls(c, code) /\ Hit(c, code) /\ urls'[code] = urls[code]
  BY <1>1 DEF PutUrlEffect, PutStampEffect
<1>3. /\ HasRow(code) /\ req[c].user # Nil
      /\ cache[code].owner = req[c].user /\ cache[code].count = visits[code]
  BY <1>2, Worker, WorkersHash, NilIsFresh DEF Serial, Hit
<1>4. Link(code) = Info(req[c].user, cache[code].url, visits[code])
  BY <1>1, <1>2, <1>3, LinkNow DEF Hit, Removing
<1>5. Link(code)' = Info(req[c].user, cache'[code].url, visits[code])
  <2>1. /\ pc'[c] # "del_row" /\ urls'[code] # Nil /\ cache'[code].owner = req[c].user
        /\ cache'[code].count = visits[code]
    BY <1>1, <1>3 DEF PutUrlEffect, PutStampEffect, Goes, HasRow
  <2> QED
    BY <1>2, <1>3, <2>1, LinkNext
<1>6. CASE pc[c] = "put_url" /\ PutUrlEffect(c, code)
  <2>1. /\ ~Changed(c) /\ Changed(c)' /\ status'[c] = Nil
        /\ pc[c] \in PutSteps /\ cache'[code].url = req[c].url
    BY <1>6 DEF PutUrlEffect, Goes, Changed, PutSteps
  <2> QED
    BY <1>2, <1>3, <1>4, <1>5, <2>1, ChangeServed
<1>7. CASE pc[c] = "put_stamp" /\ PutStampEffect(c, code)
  <2>1. /\ Changed(c) /\ Changed(c)' /\ status'[c] = Nil
        /\ cache'[code].url = cache[code].url
    BY <1>7 DEF PutStampEffect, Goes, Changed
  <2> QED
    BY <1>2, <1>4, <1>5, <2>1, Following
<1> QED
  BY <1>1, <1>6, <1>7

LEMMA PutRereadServed ==
  ASSUME NEW c \in Clients, NEW code \in Codes, Serial(c, code), PutReread(c)
  PROVE  Served
<1>1. pc[c] = "put_reread" /\ PutRereadEffect(c, code)
  BY PutRereadDoes DEF PutReread
<1>2. hits'[c] # Nil
  BY <1>1, Worker, WorkersHash, NilIsFresh DEF Serial, PutRereadEffect, Hit
<1>3. /\ Changed(c) /\ Changed(c)' /\ status'[c] = Nil /\ Calls(c, code)
      /\ Undisturbed(code) /\ ~Removing(c) /\ ~Removing(c)'
  BY <1>1, <1>2
  DEF PutRereadEffect, Goes, Changed, Removing, Undisturbed, SameStores
<1> QED
  BY <1>3, LinkSame, Following

LEMMA PutUpdateServed ==
  ASSUME NEW c \in Clients, NEW code \in Codes, Serial(c, code), IInv', PutUpdate(c)
  PROVE  Served
<1>1. pc[c] = "put_update" /\ PutUpdateEffect(c, code)
  BY PutUpdateDoes DEF PutUpdate
<1>2. /\ Calls(c, code) /\ cache'[code] = cache[code] /\ hits'[c] = hits[c]
      /\ ~Removing(c) /\ req[c].user # Nil
      /\ hits[c] = Nil => ~KeyExists(code)
      /\ hits[c] # Nil => KeyExists(code)
  BY <1>1, Worker, NilIsFresh
  DEF Serial, PutUpdateEffect, RequestOK, Putting, Removing
<1>3. CASE /\ HasRow(code) /\ ownerOf[code] = req[c].user /\ Goes(c, "put_save")
           /\ urls'[code] # Nil
           /\ urls'[code].owner = urls[code].owner
           /\ urls'[code].url = req[c].url
           /\ urls'[code].count = urls[code].count
  <2>1. Changed(c)' /\ status'[c] = Nil /\ pc'[c] = "put_save"
    BY <1>3 DEF Goes, Changed
  <2>2. CASE hits[c] = Nil
    <3>1. cache[code].owner = Nil /\ urls[code].owner = req[c].user
      BY <1>2, <1>3, <2>2, WorkersHash, WorkersRow DEF Serial, NoHash
    <3>2. Link(code) = Info(req[c].user, urls[code].url, urls[code].count)
      BY <1>2, <1>3, <2>2, LinkNow
    <3>3. Link(code)' = Info(req[c].user, req[c].url, urls[code].count)
      BY <1>2, <1>3, <2>1, <3>1, LinkNext
    <3>4. ~Changed(c) /\ pc[c] \in PutSteps
      BY <1>1, <2>2 DEF Changed, PutSteps
    <3> QED
      BY <1>2, <1>3, <2>1, <3>2, <3>3, <3>4, ChangeServed
  <2>3. CASE hits[c] # Nil
    <3>1. /\ cache[code].owner = req[c].user /\ cache[code].count = visits[code]
      BY <1>2, <1>3, <2>3, WorkersHash DEF Serial
    <3>2. Link(code) = Info(req[c].user, cache[code].url, visits[code])
      BY <1>2, <1>3, <2>3, LinkNow
    <3>3. Link(code)' = Info(req[c].user, cache[code].url, visits[code])
      BY <1>2, <1>3, <2>1, <3>1, LinkNext
    <3>4. Changed(c)
      BY <1>1, <2>3 DEF Changed
    <3> QED
      BY <1>2, <2>1, <3>2, <3>3, <3>4, Following
  <2> QED
    BY <2>2, <2>3
<1>4. CASE hits[c] = Nil /\ Goes(c, "put_exists") /\ urls'[code] = urls[code]
  BY <1>1, <1>2, <1>4, Silent DEF Goes, Changed, Removing, Undisturbed
<1> QED
  BY <1>1, <1>3, <1>4 DEF PutUpdateEffect

LEMMA PutSaveServed ==
  ASSUME NEW c \in Clients, NEW code \in Codes, Serial(c, code), IInv', PutSave(c)
  PROVE  Served
<1>1. pc[c] = "put_save" /\ SaveEffect(c, code)
  BY SaveDoes DEF PutSave
<1>2. /\ Link(code) = Info(req[c].user, urls[code].url, visits[code])
      /\ Link(code)' = Link(code)
  BY <1>1, Saved DEF SaveSteps, FillSteps
<1>3. req[c].op = "put" /\ data[c].url = req[c].url
  BY <1>1, Worker DEF Serial, Serving, RequestOK, Copied, PutSteps
<1>4. ReplyTo(c) = [status |-> "ok", url |-> req[c].url, count |-> visits[code]]
  BY <1>1, <1>2, ReplyNow DEF Changed, Info
<1>5. ReplyTo(c)' = [status |-> "ok", url |-> req[c].url, count |-> visits[code]]
  BY <1>1, <1>3, ReplyEnds DEF SaveEffect, Statuses
<1> QED
  BY <1>1, <1>2, <1>4, <1>5, CommandSeen, Stutters DEF Served, SaveEffect

LEMMA ExistsServed ==
  ASSUME NEW c \in Clients, NEW code \in Codes, Serial(c, code), Exists(c)
  PROVE  Served
<1>1. pc[c] \in {"put_exists", "del_exists"} /\ ExistsEffect(c, code)
  BY ExistsDoes DEF Exists
<1> QED
  BY <1>1, RefusalServed DEF ExistsEffect, Changed, Undisturbed, SameStores

--------------------------------------------------------------------------------
(***************************************************************************)
(* DELETE takes effect when it can no longer be refused: when it has       *)
(* removed the hash or, without one, has seen that there is none.          *)
(***************************************************************************)
LEMMA RemovalServed ==
  ASSUME NEW c \in Clients, NEW code \in Codes, Serial(c, code), Calls(c, code), IInv',
         pc[c] \in {"del_check", "del_key"}, Goes(c, "del_row"),
         HasRow(code), ownerOf[code] = req[c].user, urls'[code] = urls[code]
  PROVE  Served
<1>1. ~Changed(c) /\ ~Removing(c) /\ req[c].op = "delete"
  BY Worker DEF Serial, Serving, WorksOn, DelSteps, Changed, Removing
<1>2. /\ ReplyTo(c) = Nil /\ Link(code) # Nil
      /\ Link(code).owner = req[c].user
  BY <1>1, ReplyNow, LinkNow DEF Info
<1>3. urls'[code] # Nil /\ urls'[code].owner = req[c].user
  BY WorkersRow DEF Serial, HasRow
<1>4. Link(code)' = Nil
  BY <1>3, LinkNext DEF Goes
<1>5. ReplyTo(c)' = [status |-> "ok", url |-> Nil, count |-> Nil]
  BY <1>3, ReplyGoes DEF Goes
<1> QED
  BY <1>1, <1>2, <1>4, <1>5, CommandSeen, Removes, Serves DEF Waits, Owns

LEMMA DelCheckServed ==
  ASSUME NEW c \in Clients, NEW code \in Codes, Serial(c, code), IInv', DelCheck(c)
  PROVE  Served
<1>1. pc[c] = "del_check" /\ CheckEffect(c, code, "del_key", "del_row")
  BY CheckDoes DEF DelCheck
<1>2. ~Changed(c) /\ ~Removing(c) /\ Calls(c, code) /\ Undisturbed(code)
  BY <1>1 DEF Changed, Removing, CheckEffect, SameStores, Undisturbed
<1>3. CASE Goes(c, "del_key")
  BY <1>2, <1>3, Silent DEF Goes, Changed, Removing
<1>4. CASE Goes(c, "del_row") /\ OwnedRow(code, req[c].user)
  <2>1. HasRow(code) /\ ownerOf[code] = req[c].user
    BY <1>4, WorkersRow DEF Serial, OwnedRow
  <2> QED
    BY <1>1, <1>2, <1>4, <2>1, RemovalServed DEF Undisturbed
<1>5. CASE Goes(c, "del_row") /\ ~OwnedRow(code, req[c].user)
  <2>1. ~Changed(c)' /\ ~Removing(c)' /\ status'[c] = Nil
    BY <1>2, <1>5 DEF Goes, Changed, Removing, OwnedRow, HasRow, Undisturbed, Calls,
       Serial, WorksOn
  <2> QED
    BY <1>2, <2>1, Silent
<1>6. CASE KeyExists(code) /\ ownerOf[code] # req[c].user /\ Ends(c, "forbidden")
  BY <1>2, <1>6, WorkersHash, RefusalServed DEF Serial
<1> QED
  BY <1>1, <1>3, <1>4, <1>5, <1>6 DEF CheckEffect

LEMMA DelKeyServed ==
  ASSUME NEW c \in Clients, NEW code \in Codes, Serial(c, code), IInv', DelKey(c)
  PROVE  Served
<1>1. pc[c] = "del_key" /\ DelKeyEffect(c, code)
  BY DelKeyDoes DEF DelKey
<1>2. HasRow(code) /\ ownerOf[code] = req[c].user
  BY <1>1, WorkersHash DEF Serial, DelKeyEffect, Hit
<1> QED
  BY <1>1, <1>2, RemovalServed DEF DelKeyEffect

LEMMA DelRowServed ==
  ASSUME NEW c \in Clients, NEW code \in Codes, Serial(c, code), IInv', DelRow(c)
  PROVE  Served
<1>1. pc[c] = "del_row" /\ DelRowEffect(c, code)
  BY DelRowDoes DEF DelRow
<1>2. req[c].code = code /\ Calls(c, code) /\ ~Changed(c)
  BY <1>1 DEF Serial, WorksOn, DelRowEffect, Changed
<1>3. CASE OwnedRow(code, req[c].user) /\ Ends(c, "ok") /\ urls'[code] = Nil
  <2>1. Removing(c) /\ req[c].op = "delete"
    BY <1>1, <1>2, <1>3, Worker DEF Serial, Serving, DelSteps, Removing
  <2>2. /\ Link(code) = Nil
        /\ ReplyTo(c) = [status |-> "ok", url |-> Nil, count |-> Nil]
    BY <2>1, LinkNow, ReplyNow
  <2>3. Link(code)' = Nil
    BY <1>2, <1>3, LinkNext
  <2>4. ReplyTo(c)' = [status |-> "ok", url |-> Nil, count |-> Nil]
    BY <1>2, <1>3, <2>1, ReplyEnds DEF Statuses
  <2> QED
    BY <1>2, <2>2, <2>3, <2>4, CommandSeen, Stutters DEF Served
<1>4. CASE ~OwnedRow(code, req[c].user) /\ Goes(c, "del_exists") /\ urls'[code] = urls[code]
  <2>1. ~Removing(c) /\ ~Removing(c)' /\ ~Changed(c)' /\ status'[c] = Nil
    BY <1>2, <1>4 DEF Removing, Changed, Goes
  <2> QED
    BY <1>1, <1>2, <1>4, <2>1, Silent DEF DelRowEffect, Undisturbed
<1> QED
  BY <1>1, <1>3, <1>4 DEF DelRowEffect

LEMMA CommandServed ==
  ASSUME NEW c \in Clients, NEW code \in Codes, Serial(c, code), IInv', Command(c)
  PROVE  Served
<1>1. Fill(c) => pc[c] \in {"get_fill", "stats_fill"}
  BY DEF Fill, FillSteps
<1> QED
  BY <1>1, GetLookupServed, GetCountServed, GetSelectServed, GetFillServed, StatsFillServed,
     StatsLookupServed, StatsSelectServed, PutCheckServed, PutHashServed, PutRereadServed,
     PutUpdateServed, PutSaveServed, ExistsServed, DelCheckServed, DelKeyServed, DelRowServed
  DEF Command

--------------------------------------------------------------------------------
(***************************************************************************)
(* POST takes effect with its INSERT.                                      *)
(***************************************************************************)
LEMMA LinkIdle ==
  ASSUME IInv, SerialInv, NEW code \in Codes, \A d \in Clients : ~WorksOn(d, code)
  PROVE  /\ HasRow(code) => Link(code) # Nil
         /\ ~HasRow(code) => Link(code) = Nil /\ cache[code].owner = Nil
<1>1. ~HasRow(code) => cache[code].owner = Nil
  BY DEF SerialInv, LinkOK, HashCurrent, KeyExists, NoHash
<1>2. ~\E d \in Clients : Removing(d) /\ req[d].code = code
  BY DEF WorksOn, Removing
<1>3. cache[code].owner # Nil =>
        [owner |-> cache[code].owner, url |-> cache[code].url, count |-> cache[code].count]
          \in URLInfo
  <2>1. /\ cache[code] \in Hash /\ HashOK(cache[code], Past(code))
        /\ cache[code].owner # Nil => cache[code].count # Nil
    BY DEF IInv, TypeOK, StoresOK, HashOK, HashAgrees
  <2> QED
    BY <2>1 DEF Hash, HashOK, HashAgrees, URLInfo
<1> QED
  BY <1>1, <1>2, <1>3, NilIsFresh DEF Link, HasRow

LEMMA StatusIsNoNil == \A s \in {"ok", "notfound", "forbidden", "error"} : s # Nil
BY NilIsNoReply DEF Statuses

LEMMA InsertServed ==
  ASSUME IInv, SerialInv, NEW c \in Clients, Insert(c), NoOverlap,
         UNCHANGED <<syncVars, faults, copies>>
  PROVE  Served
<1>1. PICK code \in Codes : InsertEffect(c, code)
  BY InsertDoes
<1>2. /\ pc[c] = "insert" /\ pc'[c] = "idle" /\ req[c] \in Request /\ req[c] # Nil
      /\ status[c] = Nil /\ req[c].op = "post" /\ req[c].code = Nil
  BY <1>1, InFlight, NilIsNoReply
  DEF Insert, Serving, InsertEffect, SerialInv, RequestOK, Replied
<1>3. /\ Local(c, code) /\ \A d \in Clients : ~WorksOn(d, code)
      /\ \A other \in Codes \ {code} : ~WorksOn(c, other)
      /\ req'[c] = [req[c] EXCEPT !.code = code]
      /\ cache'[code] = cache[code]
  BY <1>1, <1>2 DEF InsertEffect, WorksOn
<1>4. /\ req'[c] # Nil /\ req'[c].op = "post"
      /\ [req'[c] EXCEPT !.code = Nil] = req[c] /\ [req[c] EXCEPT !.code = Nil] = req[c]
  <2>1. req'[c] \in Request
    BY <1>2, <1>3 DEF Request
  <2> QED
    BY <1>2, <1>3, <2>1, NilIsNoReply DEF Request
<1>5. AskedBy(c) = req[c] /\ AskedBy(c)' = AskedBy(c)
  BY <1>2, <1>4 DEF AskedBy
<1>6. Seen(c, code, Link(code)', ReplyTo(c)')
  BY <1>2, <1>3, <1>5, OthersSame, StepSeen
<1>7. ReplyTo(c) = Nil
  BY <1>2 DEF ReplyTo, Changed, Removing
<1>8. Waits(c, "post", Nil) /\ Asked[c] = req[c] /\ Links[code] = Link(code)
  BY <1>2, <1>5, <1>7, Mapped DEF Waits
<1>9. ASSUME NEW d \in Clients
      PROVE  ~(Removing(d) /\ req[d].code = code) /\ ~(Removing(d) /\ req[d].code = code)'
  BY <1>1, <1>3 DEF Removing, WorksOn, InsertEffect, Local, OthersAlone, LeftAlone
<1>10. CASE HasRow(code) /\ status'[c] = "error" /\ urls'[code] = urls[code]
  <2>1. Link(code)' = Link(code)
    BY <1>3, <1>9, <1>10 DEF Link, HasRow
  <2>2. ReplyTo(c)' = [status |-> "error", url |-> Nil, count |-> Nil]
    BY <1>2, <1>10, StatusIsNoNil DEF ReplyTo, Told, Changed, Removing
  <2> QED
    BY <1>3, <1>6, <1>8, <1>10, <2>1, <2>2, LinkIdle, Creates, Serves
<1>11. CASE /\ ~HasRow(code) /\ status'[c] = "ok"
            /\ urls'[code] = [owner |-> req[c].user, url |-> req[c].url, count |-> 0]
            /\ data'[c] = urls'[code]
  <2>1. Link(code) = Nil /\ cache'[code].owner = Nil
    BY <1>3, <1>11, LinkIdle
  <2>2. urls'[code] # Nil
    BY <1>2, <1>11, NilIsFresh, InFlight DEF Request, URLInfo, Serving
  <2>3. Link(code)' = [owner |-> req[c].user, url |-> req[c].url, count |-> 0]
    BY <1>9, <1>11, <2>1, <2>2 DEF Link, HasRow
  <2>4. ReplyTo(c)' = [status |-> "ok", url |-> req[c].url, count |-> 0]
    <3>1. data'[c].url = req[c].url /\ data'[c].count = 0
      BY <1>11
    <3> QED
      BY <1>2, <1>4, <1>11, <3>1, StatusIsNoNil DEF ReplyTo, Told, Changed, Removing
  <2> QED
    BY <1>6, <1>8, <2>1, <2>3, <2>4, Creates, Serves
<1> QED
  BY <1>1, <1>10, <1>11 DEF InsertEffect

(***************************************************************************)
(* The arrival of a request.                                               *)
(***************************************************************************)
LEMMA AnsweredBefore ==
  ASSUME IInv, SerialInv, NEW c \in Clients, pc[c] = "idle"
  PROVE  AskedBy(c) = Nil \/ ReplyTo(c) # Nil
<1>1. req[c] = Nil \/ status[c] # Nil
  BY DEF SerialInv, RequestOK, Replied
<1>2. ASSUME status[c] # Nil
      PROVE  Told(c) \in Outcomes
  <2>1. status[c] \in Statuses /\ data[c] \in URLInfo \cup {Nil} /\ Answered(c)
    BY <1>2 DEF IInv, TypeOK, ClientOK
  <2>2. status[c] = "ok" /\ req[c].op # "delete" => data[c] \in URLInfo
    BY <2>1 DEF Answered
  <2> QED
    BY <2>1, <2>2 DEF Told, Outcomes, URLInfo
<1>3. status[c] # Nil => ReplyTo(c) # Nil
  <2>1. status[c] # Nil => ReplyTo(c) = Told(c)
    BY DEF ReplyTo, Changed, Removing
  <2> QED
    BY <1>2, <2>1, NilIsNoOutcome
<1> QED
  BY <1>1, <1>3 DEF AskedBy

LEMMA ReceiveServed ==
  ASSUME IInv, SerialInv, NEW c \in Clients, Receive(c), NoOverlap,
         UNCHANGED <<syncVars, copies>>
  PROVE  Served
<1>1. pc[c] = "idle"
  BY DEF Receive
<1>2. PICK op \in Ops, user \in Users, code \in Codes \cup {Nil}, url \in Urls \cup {Nil} :
        /\ code = Nil <=> op = "post"
        /\ url # Nil <=> op \in {"post", "put"}
        /\ ReceiveEffect(c, op, user, code, url)
  BY ReceiveDoes
<1> DEFINE request == [op |-> op, user |-> user, code |-> code, url |-> url]
<1>3. /\ Local(c, code) /\ \A other \in Codes : StoreAlone(other)
      /\ req'[c] = request /\ status'[c] = Nil
      /\ \A d \in Clients \ {c} : ~WorksOn(d, code)
      /\ \A other \in Codes : ~WorksOn(c, other)
  BY <1>1, <1>2 DEF ReceiveEffect, WorksOn
<1>4. pc'[c] \in {"insert", "get_lookup", "put_check", "del_check", "stats_lookup"}
  BY <1>2 DEF ReceiveEffect, FirstStep, Ops
<1>5. \A d \in Clients \ {c} : AskedBy(d)' = AskedBy(d) /\ ReplyTo(d)' = ReplyTo(d)
  BY <1>3, OthersSame
<1>6. ReplyTo(c)' = Nil
  BY <1>3, <1>4 DEF ReplyTo, Changed, Removing
<1>7. request \in Abstract!Request
  BY <1>2 DEF Abstract!Request, Ops
<1>8. AskedBy(c)' = request
  BY <1>2, <1>3 DEF AskedBy
<1>9. ASSUME NEW other \in Codes
      PROVE  Link(other)' = Link(other)
  <2>1. ASSUME NEW d \in Clients
        PROVE  (Removing(d) /\ req[d].code = other)' <=> Removing(d) /\ req[d].code = other
    BY <1>1, <1>3, <1>4
    DEF Local, OthersAlone, LeftAlone, StoreAlone, Removing, OwnedRow, HasRow
  <2> QED
    BY <1>3, <2>1 DEF Link, HasRow, StoreAlone
<1> HIDE DEF request
<1>10. Links' = Links
  BY <1>9 DEF Links
<1>11. /\ Asked' = [Asked EXCEPT ![c] = request]
       /\ Replies' = [Replies EXCEPT ![c] = Nil]
  BY <1>5, <1>6, <1>8 DEF Asked, Replies
<1>12. Asked[c] = Nil \/ Replies[c] # Nil
  BY <1>1, AnsweredBefore DEF Asked, Replies
<1>13. Abstract!Ask(c)
  BY <1>7, <1>10, <1>11, <1>12 DEF Abstract!Ask
<1> QED
  BY <1>13, Serves

--------------------------------------------------------------------------------
(***************************************************************************)
(* Nobody notices the syncer: it writes to a row without a hash only the   *)
(* counter that is there already.                                          *)
(***************************************************************************)
LEMMA SyncKeepsUncached ==
  ASSUME IInv, SerialInv, SyncEffect, NEW code \in Codes,
         HasRow(code), ~KeyExists(code),
         ~\E d \in Clients : Removing(d) /\ req[d].code = code
  PROVE  urls'[code].count = urls[code].count
<1>1. /\ urls[code] \in URLInfo /\ batch[code] \in SUBSET Nat /\ visits[code] \in Nat
      /\ BatchOK(batch[code], Past(code)) /\ Past(code).limit = visits[code]
      /\ LinkOK(code)
  BY DEF IInv, TypeOK, StoresOK, SerialInv, HasRow, Past
<1>2. \A count \in batch[code] :
        count \in Nat /\ urls[code].count <= count /\ count <= visits[code]
  BY <1>1, NilIsFresh DEF LinkOK, RowCurrent, BatchOK, Counted
<1>3. \A count \in batch[code] : count = urls[code].count
  <2>1. CASE urls[code].count = visits[code]
    BY <1>1, <1>2, <2>1 DEF URLInfo
  <2>2. CASE \E d \in Clients : WorksOn(d, code) /\ pc[d] = "get_fill"
    <3>1. \A count \in batch[code] : count <= urls[code].count
      BY <2>2 DEF SerialInv, RequestOK, Copied, WorksOn
    <3> QED
      BY <1>1, <1>2, <3>1 DEF URLInfo
  <2> QED
    BY <1>1, <2>1, <2>2 DEF LinkOK, RowCurrent, CountPending, WorksOn
<1> QED
  BY <1>3 DEF SyncEffect, BatchRead, RowWritten

LEMMA SyncServed ==
  ASSUME IInv, SerialInv, IInv', SyncEffect
  PROVE  Served
<1>1. /\ cache' = cache /\ pc' = pc /\ req' = req /\ data' = data /\ hits' = hits
      /\ status' = status
  BY DEF SyncEffect, requestVars
<1>2. ASSUME NEW code \in Codes
      PROVE  /\ HasRow(code)' <=> HasRow(code)
             /\ HasRow(code) => /\ urls'[code].owner = urls[code].owner
                                /\ urls'[code].url = urls[code].url
             /\ \A user : OwnedRow(code, user)' <=> OwnedRow(code, user)
  BY DEF SyncEffect, BatchRead, RowWritten, HasRow, OwnedRow
<1>3. ASSUME NEW d \in Clients
      PROVE  Removing(d)' <=> Removing(d)
  <2>1. pc[d] = "del_row" => req[d].code \in Codes
    BY InFlight
  <2> QED
    BY <1>1, <1>2, <2>1 DEF Removing
<1>4. ASSUME NEW code \in Codes
      PROVE  Link(code)' = Link(code)
  <2>1. (\E d \in Clients : Removing(d)' /\ req'[d].code = code)
          <=> (\E d \in Clients : Removing(d) /\ req[d].code = code)
    BY <1>1, <1>3
  <2>2. CASE ~HasRow(code) \/ \E d \in Clients : Removing(d) /\ req[d].code = code
    BY <1>2, <2>1, <2>2 DEF Link
  <2>3. CASE cache[code].owner # Nil
    BY <1>1, <1>2, <2>1, <2>3 DEF Link
  <2>4. CASE /\ HasRow(code) /\ cache[code].owner = Nil
             /\ ~\E d \in Clients : Removing(d) /\ req[d].code = code
    <3>1. ~KeyExists(code)
      BY <2>4 DEF SerialInv, LinkOK, HashCurrent
    <3>2. urls'[code].count = urls[code].count
      BY <2>4, <3>1, SyncKeepsUncached
    <3>3. /\ urls[code] = Info(urls[code].owner, urls[code].url, urls[code].count)
          /\ urls'[code] = Info(urls'[code].owner, urls'[code].url, urls'[code].count)
      BY <1>2, <2>4, InfoIs DEF IInv, TypeOK, HasRow
    <3>4. urls'[code] = urls[code]
      BY <1>2, <2>4, <3>2, <3>3
    <3> QED
      BY <1>1, <1>2, <2>1, <2>4, <3>4 DEF Link
  <2> QED
    BY <2>2, <2>3, <2>4
<1>5. ASSUME NEW d \in Clients
      PROVE  ReplyTo(d)' = ReplyTo(d) /\ AskedBy(d)' = AskedBy(d)
  <2>1. Changed(d)' <=> Changed(d)
    BY <1>1 DEF Changed
  <2>2. Changed(d) => req[d].code \in Codes
    BY InFlight DEF Changed
  <2>3. Changed(d) => Link(req[d].code)' = Link(req[d].code)
    BY <1>1, <1>4, <2>2
  <2> QED
    BY <1>1, <1>3, <2>1, <2>3 DEF ReplyTo, Told, AskedBy
<1>6. Links' = Links /\ Replies' = Replies /\ Asked' = Asked
  BY <1>4, <1>5 DEF Links, Replies, Asked
<1> QED
  BY <1>6 DEF Served, Abstract!vars

LEMMA SameServed ==
  ASSUME UNCHANGED <<serviceVars, syncVars, copies>>
  PROVE  Served
<1>1. Links' = Links /\ Replies' = Replies /\ Asked' = Asked
  BY DEF Links, Replies, Asked, Link, ReplyTo, AskedBy, Told, Changed, Removing, OwnedRow,
     HasRow, serviceVars, storeVars, requestVars
<1> QED
  BY <1>1 DEF Served, Abstract!vars

--------------------------------------------------------------------------------
LEMMA NextServed ==
  ASSUME IInv, SerialInv, IInv', [SerialNext]_vars
  PROVE  Served
<1>1. CASE SerialNext
  BY <1>1, SerialSteps, CommandServed, InsertServed, ReceiveServed, SyncServed, SameServed
  DEF Serial
<1>2. CASE UNCHANGED vars
  BY <1>2, SameServed DEF vars, redisVars
<1> QED
  BY <1>1, <1>2

LEMMA InitServed ==
  ASSUME Init
  PROVE  Abstract!Init
<1>1. /\ urls = [code \in Codes |-> Nil] /\ req = [c \in Clients |-> Nil]
      /\ status = [c \in Clients |-> Nil] /\ pc = [c \in Clients |-> "idle"]
  BY DEF Init, ServiceInit
<1>2. Links = [code \in Codes |-> Nil]
  <2>1. ASSUME NEW code \in Codes
        PROVE  Link(code) = Nil
    BY <1>1 DEF Link, HasRow
  <2> QED
    BY <2>1 DEF Links
<1>3. Asked = [c \in Clients |-> Nil] /\ Replies = [c \in Clients |-> Nil]
  <2>1. ASSUME NEW c \in Clients
        PROVE  AskedBy(c) = Nil /\ ReplyTo(c) = Nil
    BY <1>1 DEF AskedBy, ReplyTo, Changed, Removing
  <2> QED
    BY <2>1 DEF Asked, Replies
<1> QED
  BY <1>2, <1>3 DEF Abstract!Init

(***************************************************************************)
(* As long as nothing fails and no two requests on a link overlap, users   *)
(* cannot tell the service from one table of links that serves every       *)
(* request in a single step: the hash, the row, the copies handlers carry  *)
(* between them and the syncer stay out of sight.                          *)
(***************************************************************************)
THEOREM LinksAreServed == SerialSpec => ServesLinks
<1>1. Init => Abstract!Init
  BY InitServed
<1>2. IInv /\ SerialInv /\ IInv' /\ [SerialNext]_vars => [Abstract!Next]_(Abstract!vars)
  BY NextServed DEF Served
<1> QED
  BY <1>1, <1>2, SerialInductive, PTL DEF SerialSpec, ServesLinks, Abstract!Spec

================================================================================
