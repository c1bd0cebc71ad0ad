---------------------------- MODULE MCUserSessions -----------------------------
(***************************************************************************)
(* Instances of UserSessions for TLC.                                      *)
(***************************************************************************)
EXTENDS SessionInvariant, TLC

Symmetry ==
  Permutations(Users) \cup Permutations(Passwords) \cup Permutations(Tokens)
    \cup Permutations(Clients)

================================================================================
