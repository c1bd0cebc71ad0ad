----------------------------- MODULE PostgresURLs ------------------------------
(***************************************************************************)
(* internal/repository/url_repository.go: the table urls of Postgres, at   *)
(* most one row per short code (UNIQUE), and the statements of             *)
(* URLRepository.  Each statement runs in a transaction of its own.        *)
(***************************************************************************)
EXTENDS URLModels

VARIABLE urls       \* urls[code]: the row with that short code, or Nil

HasRow(code) == urls[code] # Nil

(***************************************************************************)
(* Mutant: a WHERE clause without the owner (RedisURLs tells what mutants  *)
(* are).                                                                   *)
(***************************************************************************)
OwnedRowByCode(code, user) == HasRow(code)

(***************************************************************************)
(* WHERE shortcode = $code AND ownerid = $user.                            *)
(***************************************************************************)
OwnedRow(code, user) == HasRow(code) /\ urls[code].owner = user

(***************************************************************************)
(* SELECT: the row, or that there is none (ErrNotFound).  RepositoryGet    *)
(* and RepositoryGetStats send the same statement.                         *)
(***************************************************************************)
RepositoryGet(code) == urls[code]

RepositoryGetStats(code) == urls[code]

(***************************************************************************)
(* INSERT; the caller has found the code free.  A taken code violates      *)
(* UNIQUE (InsertRejected).                                                *)
(***************************************************************************)
InsertRejected(code) == HasRow(code)

InsertRow(code, user, url) ==
  urls' = [urls EXCEPT ![code] = [owner |-> user, url |-> url, count |-> 0]]

UpdateRow(code, url) == urls' = [urls EXCEPT ![code].url = url]

DeleteRow(code) == urls' = [urls EXCEPT ![code] = Nil]

================================================================================
