------------------------------- MODULE URLSystem -------------------------------
(***************************************************************************)
(* The deployed system of docker-compose.yaml, as far as links go: the     *)
(* HTTP service, the syncer, Postgres and Redis, which keeps its data in   *)
(* memory and comes back from a restart with its last snapshot.            *)
(***************************************************************************)
EXTENDS URLService, Syncer

VARIABLES
  snapshot,     \* the cache as Redis last saved it to disk
  copies        \* writes on connections that were given up, yet to be executed

redisVars == <<snapshot, copies>>
vars == <<serviceVars, syncVars, redisVars>>

Init ==
  /\ ServiceInit
  /\ SyncInit
  /\ snapshot = NoHashes
  /\ copies = {}

(***************************************************************************)
(* A handler whose write to Redis gets no reply in time closes the         *)
(* connection.  go-redis sends the command again on another one            *)
(* (MaxRetries is left at its default) or gives up; Redis executes the     *)
(* copy on the closed connection when it gets to it, before the other or   *)
(* long after it, or never.  A copy is the command with what it writes,    *)
(* and the user in whose request it was sent.                              *)
(***************************************************************************)
WriteSteps == SaveSteps \cup {"get_count", "put_url", "put_stamp", "del_key"}

Copy == [step : WriteSteps, code : Codes, user : Users,
         value : URLInfo \cup Urls \cup {Nil}, id : Nat]

Value(c) ==
  CASE pc[c] \in SaveSteps -> data[c]
    [] pc[c] = "put_url"   -> req[c].url
    [] pc[c] \in WriteSteps \ (SaveSteps \cup {"put_url"}) -> Nil

WriteTimesOut(c) ==
  /\ pc[c] \in WriteSteps
  /\ faults < MaxFaults
  /\ faults' = faults + 1
  /\ copies' = copies \cup {[step  |-> pc[c], code |-> req[c].code, user |-> req[c].user,
                             value |-> Value(c), id |-> faults]}
  /\ \/ UNCHANGED <<pc, status>>
     \/ /\ pc' = [pc EXCEPT ![c] = "idle"]
        /\ status' = [status EXCEPT ![c] = "error"]
  /\ offered' = IF pc[c] = "put_url"
                THEN [offered EXCEPT ![req[c].code] = @ \cup {req[c].url}]
                ELSE offered
  /\ UNCHANGED <<storeVars, req, data, hits, received, ownerOf, visits, syncVars, snapshot>>

Execute(copy) ==
  \/ copy.step = "get_count" /\ IncrementCounter(copy.code)
  \/ copy.step \in SaveSteps /\ SaveUrl(copy.code, copy.value)
  \/ copy.step = "put_url" /\ SetUrl(copy.code, copy.value)
  \/ copy.step = "put_stamp" /\ SetUpdatedAt(copy.code)
  \/ copy.step = "del_key" /\ DeleteKey(copy.code)

Arrives(copy) ==
  /\ copies' = copies \ {copy}
  /\ Execute(copy)
  /\ visits' = IF copy.step = "get_count"
               THEN [visits EXCEPT ![copy.code] = @ + 1]
               ELSE visits
  /\ UNCHANGED <<urls, requestVars, received, faults, ownerOf, offered, syncVars, snapshot>>

CopyArrives == \E copy \in copies : Arrives(copy)

(***************************************************************************)
(* Redis saves in the background when it sees fit; a restart brings back   *)
(* what it saved last, or nothing if its container was made anew, and cuts *)
(* the connections to the old process.  (A save is of interest only if a   *)
(* restart can follow.)                                                    *)
(***************************************************************************)
RedisSaves ==
  /\ faults < MaxFaults
  /\ snapshot' = cache
  /\ UNCHANGED <<serviceVars, syncVars, copies>>

RedisRestarts ==
  /\ faults < MaxFaults
  /\ faults' = faults + 1
  /\ cache' = snapshot \/ cache' = NoHashes
  /\ copies' = {}
  /\ UNCHANGED <<urls, requestVars, received, historyVars, syncVars, snapshot>>

SyncFails ==
  /\ faults < MaxFaults
  /\ faults' = faults + 1
  /\ SyncSkips \/ SyncAborts
  /\ UNCHANGED <<requestVars, received, historyVars, redisVars>>

Next ==
  \/ ServiceNext /\ UNCHANGED <<syncVars, redisVars>>
  \/ SyncStep /\ UNCHANGED <<requestVars, received, faults, historyVars, redisVars>>
  \/ \E c \in Clients : WriteTimesOut(c)
  \/ CopyArrives
  \/ SyncFails
  \/ RedisSaves
  \/ RedisRestarts

Spec == Init /\ [][Next]_vars

--------------------------------------------------------------------------------
TypeOK ==
  /\ cache \in [Codes -> Hash]
  /\ urls \in [Codes -> URLInfo \cup {Nil}]
  /\ pc \in [Clients -> Steps]
  /\ req \in [Clients -> Request \cup {Nil}]
  /\ data \in [Clients -> URLInfo \cup {Nil}]
  /\ hits \in [Clients -> Nat \cup {Nil}]
  /\ status \in [Clients -> Statuses \cup {Nil}]
  /\ received \in Nat
  /\ faults \in Nat
  /\ ownerOf \in [Codes -> Users \cup {Nil}]
  /\ offered \in [Codes -> SUBSET Urls]
  /\ visits \in [Codes -> Nat]
  /\ pass \in Passes
  /\ keys \in SUBSET Codes
  /\ owed \in SUBSET Codes
  /\ batch \in [Codes -> SUBSET Nat]
  /\ snapshot \in [Codes -> Hash]
  /\ copies \in SUBSET Copy

--------------------------------------------------------------------------------
(***************************************************************************)
(* What holds whatever interleaves and whatever fails.                     *)
(***************************************************************************)

(***************************************************************************)
(* Wherever a counter is copied to - the hash, its saved snapshot, the     *)
(* row, the syncer's batch, a handler's newData - it never exceeds the     *)
(* visits counted for that link (a HINCRBY Redis executes twice counts     *)
(* twice): fills, PUTs, late copies of them and passes of the syncer may   *)
(* lose visits to one another, they never invent any.                      *)
(***************************************************************************)
CountsBounded ==
  \A code \in Codes :
    /\ \A hash \in {cache[code], snapshot[code]} :
         hash.count # Nil => hash.count <= visits[code]
    /\ HasRow(code) => urls[code].count <= visits[code]
    /\ \A count \in batch[code] : count <= visits[code]

(***************************************************************************)
(* The owner a hash names - on whose word GetUrl, GetUrlStats, UpdateUrl   *)
(* and DeleteUrl let a user through without asking Postgres - is the user  *)
(* whose POST created the link; so is the owner of its row.  And such a    *)
(* hash has all its fields, so what follows the check cannot fail to       *)
(* parse them: the partial hashes that HINCRBY and HSET leave when they    *)
(* hit a deleted key never name an owner.                                  *)
(***************************************************************************)
HashAgrees(hash, owner) ==
  hash.owner # Nil => /\ hash.owner = owner
                      /\ hash.url # Nil /\ hash.count # Nil /\ hash.stamped

OwnersAgree ==
  \A code \in Codes :
    /\ HashAgrees(cache[code], ownerOf[code])
    /\ HashAgrees(snapshot[code], ownerOf[code])
    /\ HasRow(code) => urls[code].owner = ownerOf[code]

(***************************************************************************)
(* A request answered with success was the owner's, and the URL it was     *)
(* answered with (the redirect of a GET, the body of the others) is one    *)
(* the owner asked to store under this very code - possibly an old one, or *)
(* one whose PUT failed, but never another link's.                         *)
(***************************************************************************)
SuccessIsTheOwners ==
  \A c \in Clients :
    status[c] = "ok" =>
      /\ req[c].user = ownerOf[req[c].code]
      /\ req[c].op # "delete" => data[c].url \in offered[req[c].code]

(***************************************************************************)
(* Of all the DELETEs of a link, overlapping or not, at most one succeeds: *)
(* the row decides, not the hash.                                          *)
(***************************************************************************)
HasDeleted(c) == status[c] = "ok" /\ req[c].op = "delete"

DeletedOnce ==
  \A c, d \in Clients :
    c # d /\ HasDeleted(c) /\ HasDeleted(d) => req[c].code # req[d].code

(***************************************************************************)
(* The row of a link comes, goes and changes its URL or owner, and its     *)
(* hash changes its URL, only in a step of a request of the link's owner;  *)
(* the syncer writes counters alone.  The step may be the late execution   *)
(* of such a request's write; a restart of Redis may put a saved hash      *)
(* back.                                                                   *)
(***************************************************************************)
LinkOfRow(row) == IF row = Nil THEN Nil ELSE [owner |-> row.owner, url |-> row.url]

OwnerActs(code) ==
  \/ \E c \in Clients : /\ pc'[c] # pc[c]
                        /\ req'[c].code = code
                        /\ req'[c].user = ownerOf'[code]
  \/ \E copy \in copies : /\ Arrives(copy)
                          /\ copy.code = code
                          /\ copy.user = ownerOf[code]

LinkKept(code) ==
  /\ LinkOfRow(urls'[code]) = LinkOfRow(urls[code])
  /\ cache'[code].url = cache[code].url \/ RedisRestarts

OnlyOwnersChangeLinks ==
  [][\A code \in Codes : OwnerActs(code) \/ LinkKept(code)]_vars

--------------------------------------------------------------------------------
(***************************************************************************)
(* What the requests on a link owe its owner as long as no two of them     *)
(* overlap and nothing fails (SerialLinks!SerialSpec).  The syncer runs    *)
(* all the while.                                                          *)
(***************************************************************************)
Quiet == \A c \in Clients : pc[c] = "idle"

(***************************************************************************)
(* With no request in flight, GET /shorten/<code>/stats of a live link     *)
(* reports every visit that was ever counted.                              *)
(***************************************************************************)
ReportedCount(code) ==
  IF cache[code].owner # Nil THEN cache[code].count ELSE urls[code].count

NoVisitLost ==
  Quiet => \A code \in Codes : HasRow(code) => ReportedCount(code) = visits[code]

(***************************************************************************)
(* With no request in flight, nothing is left in Redis of a link that was  *)
(* deleted, so that a GET answers 404.                                     *)
(***************************************************************************)
DeletedIsGone ==
  Quiet => \A code \in Codes : ~HasRow(code) => ~KeyExists(code)

(***************************************************************************)
(* With no request in flight, a cached link redirects to the URL of its    *)
(* row: the last PUT that was acknowledged has taken effect.               *)
(***************************************************************************)
RedirectIsCurrent ==
  Quiet => \A code \in Codes :
             HasRow(code) /\ KeyExists(code) => cache[code].url = urls[code].url

(***************************************************************************)
(* Nobody is told not to own a link that is their own.                     *)
(***************************************************************************)
ForbiddenIsForeign ==
  \A c \in Clients : status[c] = "forbidden" => req[c].user # ownerOf[req[c].code]

(***************************************************************************)
(* The counter of a row never decreases.                                   *)
(***************************************************************************)
RowCountGrows ==
  [][\A code \in Codes :
       HasRow(code) /\ HasRow(code)' => urls[code].count <= urls'[code].count]_vars

--------------------------------------------------------------------------------
(***************************************************************************)
(* Progress.  A handler keeps running (its goroutine is scheduled, and     *)
(* every command returns or fails within the timeouts of the stores'       *)
(* clients), and so does the loop of the syncer, whose ticker never stops. *)
(* Nobody has to send requests, nothing has to fail, and no copy of a      *)
(* command on a closed connection has to be executed.                      *)
(***************************************************************************)
Fairness ==
  /\ \A c \in Clients :
       WF_vars(Handle(c) /\ UNCHANGED <<syncVars, redisVars>>)
  /\ WF_vars(SyncStep /\ UNCHANGED <<requestVars, received, faults, historyVars, redisVars>>)

FairSpec == Spec /\ Fairness

(***************************************************************************)
(* Once requests stop coming, every counter in Redis that fits the column  *)
(* reaches the row of its link, and stays there.                           *)
(***************************************************************************)
CounterWritten(code) ==
  HasRow(code) /\ cache[code].count # Nil /\ cache[code].count <= MaxInt
    => urls[code].count = cache[code].count

CountersReachPostgres ==
  <>[]Quiet => <>[](\A code \in Codes : CounterWritten(code))

================================================================================
