------------------------------ MODULE HTTPRoutes ------------------------------
(***************************************************************************)
(* The tables of the HTTP service that have to agree with each other and   *)
(* stand in different files: which handler the router gives a request to   *)
(* (internal/app/router.go), which body JSONValidationMiddleware parses    *)
(* for it (internal/middleware), which body the handler asserts it has     *)
(* been given, and how it answers (internal/handler).                      *)
(***************************************************************************)
EXTENDS Integers, Sequences

Methods == {"GET", "POST", "PUT", "DELETE"}

(***************************************************************************)
(* Paths by their shape.  The last line has two that only begin like a     *)
(* route, and any other.  (A path that differs from a route by a slash at  *)
(* the end is left out: gin redirects it before any middleware runs.)      *)
(***************************************************************************)
Paths == {"/register", "/login", "/refresh", "/metrics",
          "/shorten", "/shorten/:shortcode", "/shorten/:shortcode/stats",
          "/shorten/:shortcode/...", "/refresh...", "/..."}

Request == [method : Methods, path : Paths]

Route == [
  register |-> [method |-> "POST",   path |-> "/register"],
  login    |-> [method |-> "POST",   path |-> "/login"],
  refresh  |-> [method |-> "POST",   path |-> "/refresh"],
  metrics  |-> [method |-> "GET",    path |-> "/metrics"],
  post     |-> [method |-> "POST",   path |-> "/shorten"],
  get      |-> [method |-> "GET",    path |-> "/shorten/:shortcode"],
  put      |-> [method |-> "PUT",    path |-> "/shorten/:shortcode"],
  delete   |-> [method |-> "DELETE", path |-> "/shorten/:shortcode"],
  stats    |-> [method |-> "GET",    path |-> "/shorten/:shortcode/stats"]]

Handlers == DOMAIN Route

Private == {"post", "get", "put", "delete", "stats"}

Routed(request) == \E h \in Handlers : Route[h] = request

Handler(request) == CHOOSE h \in Handlers : Route[h] = request

(***************************************************************************)
(* The type of the variable the middleware parses the body into.  It looks *)
(* at the method and the path itself, at some paths only for a prefix; the *)
(* router has no say in it.                                                *)
(***************************************************************************)
BelowShorten == {"/shorten/:shortcode", "/shorten/:shortcode/stats",
                 "/shorten/:shortcode/..."}

(***************************************************************************)
(* Mutant (RedisURLs tells what they are): below /shorten the path alone   *)
(* decides, and POST falls into the case of PUT.                           *)
(***************************************************************************)
JSONValidationByPath(request) ==
  CASE request.path \in BelowShorten \cup {"/shorten"} -> "HandlerPutRequest"
    [] request.method = "POST" /\ request.path = "/register" -> "HandlerRegisterRequest"
    [] request.method = "POST" /\ request.path = "/login" -> "HandlerLoginRequest"
    [] request.method = "POST" /\ request.path \in {"/refresh", "/refresh..."}
         -> "HandlerRefreshRequest"
    [] OTHER -> "none"

JSONValidation(request) ==
  CASE request.method = "POST" /\ request.path = "/shorten" -> "HandlerPostRequest"
    [] request.method = "PUT" /\ request.path \in BelowShorten -> "HandlerPutRequest"
    [] request.method = "POST" /\ request.path = "/register" -> "HandlerRegisterRequest"
    [] request.method = "POST" /\ request.path = "/login" -> "HandlerLoginRequest"
    [] request.method = "POST" /\ request.path \in {"/refresh", "/refresh..."}
         -> "HandlerRefreshRequest"
    [] OTHER -> "none"

(***************************************************************************)
(* The type a handler asserts its jsonBody to have; it panics on another.  *)
(***************************************************************************)
Asserted == [
  register |-> "HandlerRegisterRequest",
  login    |-> "HandlerLoginRequest",
  refresh  |-> "HandlerRefreshRequest",
  post     |-> "HandlerPostRequest",
  put      |-> "HandlerPutRequest"]

--------------------------------------------------------------------------------
(***************************************************************************)
(* The calls to the repositories a handler makes, in order, by the store   *)
(* they go to, until one fails or says that the request is to be refused.  *)
(***************************************************************************)
Stores == {"redis", "postgres"}

ThroughCache == <<"redis", "postgres", "redis">>

Calls(h) ==
  CASE h \in {"register", "login"} -> {<<"postgres", "redis">>}
    [] h = "refresh" -> {<<"redis", "redis">>}
    [] h = "post"    -> {<<"postgres">>}
    [] h = "get"     -> {<<"redis", "redis">>, ThroughCache}
    [] h = "put"     -> {ThroughCache}
    [] h = "delete"  -> {<<"redis", "postgres">>}
    [] h = "stats"   -> {<<"redis">>, ThroughCache}
    [] h = "metrics" -> {<<>>}

(***************************************************************************)
(* The errors a handler's service may answer with before its first call:   *)
(* a token that is not valid, a password bcrypt does not take.             *)
(***************************************************************************)
EarlyErrors(h) ==
  CASE h = "refresh"  -> {"ErrInvalidToken"}
    [] h = "register" -> {"internal"}
    [] h \in Handlers \ {"refresh", "register"} -> {}

(***************************************************************************)
(* Those it may answer with once a store has replied, and ErrorHandler,    *)
(* which makes a status of an error.  Internal are a token Redis does not  *)
(* have, and a hash without an owner where GetUrlStats reads it.           *)
(***************************************************************************)
Errors(h) ==
  CASE h = "register" -> {"ErrEmailExists"}
    [] h = "login"    -> {"ErrInvalidCredentials"}
    [] h = "refresh"  -> {"ErrInvalidToken", "internal"}
    [] h \in {"get", "delete"} -> {"ErrNotFound", "ErrForbidden"}
    [] h \in {"put", "stats"}  -> {"ErrNotFound", "ErrForbidden", "internal"}
    [] h \in {"post", "metrics"} -> {}

ErrorHandler(err) ==
  CASE err = "ErrNotFound"    -> 404
    [] err = "ErrEmailExists" -> 409
    [] err \in {"ErrInvalidCredentials", "ErrInvalidToken"} -> 401
    [] err = "ErrForbidden"   -> 403
    [] err = "internal"       -> 500

Success == [register |-> 201, login |-> 200, refresh |-> 201, metrics |-> 200,
            post |-> 200, get |-> 302, put |-> 200, delete |-> 204, stats |-> 200]

(***************************************************************************)
(* All that is remembered of a status here is its first digit.             *)
(***************************************************************************)
Class(code) == code \div 100

Classes == 2..5

================================================================================
