------------------------------- MODULE URLModels -------------------------------
(***************************************************************************)
(* The vocabulary shared by the modules about links: who the users are,    *)
(* which short codes and long URLs there are, and the record that travels  *)
(* between the service, Redis and Postgres (internal/models URLInfo).      *)
(***************************************************************************)
EXTENDS Naturals

CONSTANTS
  Users,    \* registered users: the clientID of a valid access token
  Codes,    \* short codes GenerateShortCode may draw
  Urls,     \* long URLs, with the scheme the service has made sure of
  Nil       \* absence: no field, no row, no value yet

(***************************************************************************)
(* URLInfo without the fields nothing tells apart: Id and CreatedAt are    *)
(* written once, with OwnerID, and never change; of UpdatedAt only its     *)
(* presence in a Redis hash matters (RedisURLs).                           *)
(***************************************************************************)
URLInfo == [owner : Users, url : Urls, count : Nat]

ASSUME NilIsFresh == Nil \notin Users \cup Codes \cup Urls \cup Nat \cup URLInfo

================================================================================
