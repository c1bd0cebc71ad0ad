---------------------------- MODULE MCHTTPServer ----------------------------
(***************************************************************************)
(* The instance of HTTPServer for TLC.                                     *)
(***************************************************************************)
EXTENDS ServerInvariant

(***************************************************************************)
(* A private route and a public one, both with a body and each with a      *)
(* store of its own; the route without a store; a body without a route.    *)
(***************************************************************************)
SomeRequests ==
  {Route["post"], Route["refresh"], Route["metrics"],
   [method |-> "PUT", path |-> "/shorten/:shortcode/..."]}

OneConnectionEach == [store \in Stores |-> 1]

================================================================================
