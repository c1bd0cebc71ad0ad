------------------------------- MODULE RedisURLs -------------------------------
(***************************************************************************)
(* internal/redisrepo/redis_url_repository.go: the hashes "short:<code>"   *)
(* of Redis, one per short code, and what each method of                   *)
(* RedisURLRepository reads from them or does to them.  Every operator     *)
(* below is ONE Redis command: Redis runs a command atomically, and the    *)
(* methods made of several commands (UpdateUrl, DeleteUrl) are several     *)
(* steps of URLService.                                                    *)
(*                                                                         *)
(* A hash exists as soon as one field of it is set: HINCRBY and a          *)
(* single-field HSET create a hash that SaveUrl never wrote.  No command   *)
(* sets a time to live, so a hash stays until DEL removes it.              *)
(***************************************************************************)
EXTENDS URLModels

VARIABLE cache      \* cache[code]: the hash at key "short:<code>"

(***************************************************************************)
(* owner stands for the fields only SaveUrl writes (owner_id, id,          *)
(* created_at); stamped says that updated_at is present.                   *)
(***************************************************************************)
Hash == [owner   : Users \cup {Nil},
         url     : Urls \cup {Nil},
         count   : Nat \cup {Nil},
         stamped : BOOLEAN]

NoHash == [owner |-> Nil, url |-> Nil, count |-> Nil, stamped |-> FALSE]

NoHashes == [code \in Codes |-> NoHash]

KeyExists(code) == cache[code] # NoHash

(***************************************************************************)
(* Mutants, here and in the other modules: what a definition would be with *)
(* a plausible bug in the code.  Nothing uses them; each breaks a property *)
(* when it takes the place of the definition it is named after.            *)
(***************************************************************************)
GetUrlUnchecked(code, user) == IF KeyExists(code) THEN "ok" ELSE "notfound"

GetUrlStatsUnchecked(code, user) ==
  IF ~KeyExists(code) THEN "notfound"
  ELSE IF \E field \in {"owner", "url", "count"} : cache[code][field] = Nil THEN "error"
  ELSE "ok"

CheckOwnerTrusting(code, user) ==
  IF cache[code].owner \in {Nil, user} THEN "ok" ELSE "forbidden"

CheckOwnerStrict(code, user) ==
  IF cache[code].owner = user THEN "ok" ELSE "forbidden"

SaveUrlUnstamped(code, info) ==
  cache' = [cache EXCEPT ![code] = [owner   |-> info.owner,
                                    url     |-> info.url,
                                    count   |-> info.count,
                                    stamped |-> FALSE]]

(***************************************************************************)
(* The errors of the reading methods: "ok" stands for a nil error,         *)
(* "notfound" and "forbidden" for ErrNotFound and ErrForbidden, "error"    *)
(* for any other error.  A missing owner_id reads as "", which Atoi        *)
(* rejects: GetUrl calls that forbidden, GetUrlStats returns Atoi's error, *)
(* as it does for any other field it cannot parse.                         *)
(***************************************************************************)
GetUrl(code, user) ==
  IF ~KeyExists(code) THEN "notfound"
  ELSE IF cache[code].owner # user THEN "forbidden"
  ELSE "ok"

GetUrlStats(code, user) ==
  IF ~KeyExists(code) THEN "notfound"
  ELSE IF cache[code].owner = Nil THEN "error"
  ELSE IF cache[code].owner # user THEN "forbidden"
  ELSE IF cache[code].count = Nil \/ ~cache[code].stamped THEN "error"
  ELSE "ok"

(***************************************************************************)
(* HGET owner_id, the first command of UpdateUrl and of DeleteUrl: here a  *)
(* hash without the field is redis.Nil, as good as no hash at all.         *)
(***************************************************************************)
CheckOwner(code, user) ==
  IF cache[code].owner = Nil THEN "notfound"
  ELSE IF cache[code].owner # user THEN "forbidden"
  ELSE "ok"

(***************************************************************************)
(* The writing commands.                                                   *)
(***************************************************************************)
SaveUrl(code, info) ==
  cache' = [cache EXCEPT ![code] = [owner   |-> info.owner,
                                    url     |-> info.url,
                                    count   |-> info.count,
                                    stamped |-> TRUE]]

SetUrl(code, url) == cache' = [cache EXCEPT ![code].url = url]

SetUpdatedAt(code) == cache' = [cache EXCEPT ![code].stamped = TRUE]

IncrementCounter(code) ==
  cache' = [cache EXCEPT ![code].count = IF @ = Nil THEN 1 ELSE @ + 1]

DeleteKey(code) == cache' = [cache EXCEPT ![code] = NoHash]

================================================================================
