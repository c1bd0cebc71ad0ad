------------------------------ MODULE MCURLSystem ------------------------------
(***************************************************************************)
(* Instances of URLSystem and SerialLinks for TLC.                         *)
(***************************************************************************)
EXTENDS SerialInvariant, TLC

(***************************************************************************)
(* Which goroutine serves a request, who the users are and what the URLs   *)
(* are makes no difference to a safety property.                           *)
(***************************************************************************)
Symmetry == Permutations(Users) \cup Permutations(Urls) \cup Permutations(Clients)

================================================================================
