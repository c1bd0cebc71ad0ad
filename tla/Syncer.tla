-------------------------------- MODULE Syncer ---------------------------------
(***************************************************************************)
(* cmd/syncer: the separate process that copies the visit counters from    *)
(* Redis to Postgres every 30 seconds (internal/syncer).  It shares        *)
(* nothing with the HTTP service but the two stores.                       *)
(*                                                                         *)
(* A pass asks SCAN for the keys, page by page, sends one HGET for each    *)
(* key of a page before it asks for the next, and ends with one UPDATE of  *)
(* all rows at once.                                                       *)
(***************************************************************************)
EXTENDS RedisURLs, PostgresURLs

CONSTANT MaxInt     \* largest counter the column accesscount INT can hold

ASSUME MaxIntIsNat == MaxInt \in Nat

VARIABLES
  pass,     \* what the pass does next (Passes)
  keys,     \* codes of the page at hand that are not read yet
  owed,     \* codes that SCAN has yet to return
  batch     \* batch[code]: the counters read for that code

syncVars == <<pass, keys, owed, batch>>

(***************************************************************************)
(* "read" while the keys of a page are read and SCAN has more to come,     *)
(* "scan" when the next page is due, "last" with the keys of the last one. *)
(***************************************************************************)
Passes == {"idle", "scan", "read", "last", "write"}

NoBatch == [code \in Codes |-> {}]

SyncInit ==
  /\ pass = "idle"
  /\ keys = {}
  /\ owed = {}
  /\ batch = NoBatch

EndPass ==
  /\ pass' = "idle"
  /\ keys' = {}
  /\ owed' = {}
  /\ batch' = NoBatch

(***************************************************************************)
(* With no counter read at all the pass ends before the UPDATE.            *)
(***************************************************************************)
Finish(counts) == IF counts = NoBatch THEN "idle" ELSE "write"

Cached == {code \in Codes : KeyExists(code)}

(***************************************************************************)
(* Mutant: the pass does not follow the cursor of SCAN.                    *)
(***************************************************************************)
ScanOnePage(expected) ==
  /\ \E page \in SUBSET Cached :
       /\ page \cap expected # {} \/ Cached = {}
       /\ keys' = page
       /\ pass' = IF page = {} THEN Finish(batch) ELSE "last"
  /\ owed' = {}
  /\ UNCHANGED <<cache, urls, batch>>

(***************************************************************************)
(* A page of SCAN.  SCAN returns every key that is there from its first    *)
(* page to its last (expected), at least once: a key may come again while  *)
(* Redis resizes its table, and one that was added meanwhile may come or   *)
(* not.  That every page but the last has a key that was due bounds them.  *)
(***************************************************************************)
Scan(expected) ==
  /\ \E page \in SUBSET Cached :
       /\ keys' = page
       /\ owed' = (expected \cap Cached) \ page
       /\ \/ page \cap expected # {} /\ pass' = "read"
          \/ owed' = {} /\ pass' = IF page = {} THEN Finish(batch) ELSE "last"
  /\ UNCHANGED <<cache, urls, batch>>

SyncTick == pass = "idle" /\ Scan(Cached)

SyncScan == pass = "scan" /\ Scan(owed)

(***************************************************************************)
(* HGET access_count: a key that is gone by now, or has no counter, is     *)
(* skipped, and so is one whose HGET fails (SyncSkips).                    *)
(***************************************************************************)
ReadKey(code, counts) ==
  /\ batch' = [batch EXCEPT ![code] = @ \cup counts]
  /\ keys' = keys \ {code}
  /\ pass' = IF keys' # {} THEN pass
             ELSE IF pass = "read" THEN "scan"
             ELSE Finish(batch')
  /\ UNCHANGED <<cache, urls, owed>>

SyncRead ==
  /\ pass \in {"read", "last"}
  /\ \E code \in keys : ReadKey(code, {cache[code].count} \ {Nil})

SyncSkips ==
  /\ pass \in {"read", "last"}
  /\ \E code \in keys : ReadKey(code, {})

(***************************************************************************)
(* The counters go to Postgres as an int[]: one that does not fit fails    *)
(* the statement, and with it the update of every other row.  For a code   *)
(* that is in it twice, UPDATE ... FROM takes either counter.              *)
(***************************************************************************)
BatchFits == \A code \in Codes : \A count \in batch[code] : count <= MaxInt

Synced(code) ==
  IF HasRow(code) /\ batch[code] # {}
  THEN {[urls[code] EXCEPT !.count = count] : count \in batch[code]}
  ELSE {urls[code]}

SyncedRows ==
  {rows \in [Codes -> UNION {Synced(code) : code \in Codes}] :
     \A code \in Codes : rows[code] \in Synced(code)}

SyncWrite ==
  /\ pass = "write"
  /\ urls' \in IF BatchFits THEN SyncedRows ELSE {urls}
  /\ EndPass
  /\ UNCHANGED cache

(***************************************************************************)
(* The pass ends early: its SCAN or its UPDATE failed, or the process was  *)
(* killed and started again.  The next tick starts afresh.                 *)
(***************************************************************************)
SyncAborts ==
  /\ pass # "idle"
  /\ EndPass
  /\ UNCHANGED <<cache, urls>>

SyncStep == SyncTick \/ SyncScan \/ SyncRead \/ SyncWrite

================================================================================
