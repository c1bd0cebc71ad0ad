------------------------------ MODULE HTTPServer ------------------------------
(***************************************************************************)
(* The process of cmd/app around the handlers: how Run (internal/app) sets *)
(* it up and takes it down, and how net/http, gin and the middleware carry *)
(* a request to its handler and its answer back.  What a handler does to   *)
(* the stores is URLService and UserSessions; here it is a sequence of     *)
(* calls to them, each of which holds one connection of a pool.            *)
(*                                                                         *)
(* A step of a request runs up to where it has to wait for somebody.       *)
(* Every timeout is a timer that counts down with Tick; what waits for     *)
(* nothing takes no time.                                                  *)
(***************************************************************************)
EXTENDS HTTPRoutes, FiniteSets

CONSTANTS
  Clients,          \* connections that may be open at the same time
  Requests,         \* what comes over them
  PoolSize,         \* PoolSize[store]: connections to a store
  ReadTimeout,      \* net/http: from the headers to the end of the body, at most
  WriteTimeout,     \* net/http: from the headers to the end of the answer
  HandlerTimeout,   \* the context of a handler
  ShutdownTimeout,  \* the context of Shutdown
  MaxConnections,   \* bound: connections accepted in a behaviour
  MaxFaults         \* bound: failures of the process and of its start

ASSUME RequestsAreRequests == Requests \subseteq Request

ASSUME PoolsAreThere == PoolSize \in [Stores -> Nat \ {0}]

ASSUME TimeoutsFit ==
  /\ {ReadTimeout, WriteTimeout, HandlerTimeout, ShutdownTimeout} \subseteq Nat \ {0}
  /\ ReadTimeout + HandlerTimeout <= WriteTimeout
  /\ HandlerTimeout <= ShutdownTimeout

ASSUME ClientsAreFinite == IsFiniteSet(Clients)

VARIABLES
  phase,        \* how far Run has come
  listener,     \* "none", "starting", "open", "failed", "closed"
  stopped,      \* the container has been stopped: SIGTERM, and no restart
  grace,        \* timer: the context of Shutdown
  stage,        \* stage[c]: how far the request on connection c has come
  req,          \* req[c]: method and path
  jsonBody,     \* jsonBody[c]: the type of the value under that key of the context
  clientID,     \* clientID[c]: whether that key of the context is set
  calls,        \* calls[c]: the calls to the stores the handler still has to make
  holds,        \* holds[c]: the store it holds a connection of, or "none"
  timer,        \* timer[c]: ReadTimeout, later the context of the handler
  write,        \* write[c]: timer: WriteTimeout
  status,       \* status[c]: class of the status, 0 before there is one
  total,        \* http_requests_total, by class
  accepted, faults,
  received,     \* history: answers that reached their client since the start
  early,        \* history: connections whose handler began before Shutdown
  late          \* history: connections whose handler ended with its context

processVars == <<phase, listener, stopped, grace>>
contextVars == <<req, jsonBody, clientID>>
handlerVars == <<calls, holds>>
timerVars   == <<timer, write>>
clientVars  == <<stage, contextVars, handlerVars, timerVars, status, early, late>>
metricVars  == <<total, received>>
boundVars   == <<accepted, faults>>
vars == <<processVars, clientVars, metricVars, boundVars>>

StartPhases == {"load", "postgres", "redis", "serve", "notify"}
EndPhases   == {"close_redis", "close_postgres", "drain"}
Phases      == StartPhases \cup {"wait", "shutdown"} \cup EndPhases \cup {"exited"}

Listeners == {"none", "starting", "open", "failed", "closed"}

Stages == {"free", "connected", "body", "handler", "flush"}

NoRequest == [method |-> "none", path |-> "none"]

NoCounts == [class \in Classes |-> 0]

Init ==
  /\ phase = "load"
  /\ listener = "none"
  /\ stopped = FALSE
  /\ grace = 0
  /\ stage    = [c \in Clients |-> "free"]
  /\ req      = [c \in Clients |-> NoRequest]
  /\ jsonBody = [c \in Clients |-> "none"]
  /\ clientID = [c \in Clients |-> FALSE]
  /\ calls    = [c \in Clients |-> <<>>]
  /\ holds    = [c \in Clients |-> "none"]
  /\ timer    = [c \in Clients |-> 0]
  /\ write    = [c \in Clients |-> 0]
  /\ status   = [c \in Clients |-> 0]
  /\ total    = NoCounts
  /\ received = NoCounts
  /\ accepted = 0 /\ faults = 0
  /\ early = {} /\ late = {}

--------------------------------------------------------------------------------
(***************************************************************************)
(* Mutants: metrics inside validation instead of around it, a server       *)
(* without ReadTimeout, a handler that takes longer than Shutdown, a       *)
(* command that does not end with its context, a Shutdown that does not    *)
(* wait, a container that is not restarted.                                *)
(***************************************************************************)
AbortUncounted(c, code) ==
  /\ stage' = [stage EXCEPT ![c] = "flush"]
  /\ timer' = [timer EXCEPT ![c] = 0]
  /\ status' = [status EXCEPT ![c] = Class(code)]
  /\ total' = IF stage[c] = "handler" THEN [total EXCEPT ![Class(code)] = @ + 1] ELSE total

ReadNeverExpires(c) == FALSE /\ stage[c] = "body"

HandlerDeadlineLater == HandlerTimeout + 1

CommandToPostgresHangs(c) == holds[c] = "redis"

ShutdownWaitsForNone == phase = "shutdown"

RestartNever == FALSE /\ phase = "exited"

(***************************************************************************)
(* A connection, from accept on.                                           *)
(***************************************************************************)
Connect(c) ==
  /\ listener = "open"
  /\ stage[c] = "free"
  /\ accepted < MaxConnections
  /\ accepted' = accepted + 1
  /\ stage' = [stage EXCEPT ![c] = "connected"]
  /\ UNCHANGED <<processVars, contextVars, handlerVars, timerVars, status, early, late,
                 metricVars, faults>>

HangUp(c) ==
  /\ stage[c] = "connected"
  /\ stage' = [stage EXCEPT ![c] = "free"]
  /\ UNCHANGED <<processVars, contextVars, handlerVars, timerVars, status, early, late,
                 metricVars, boundVars>>

(***************************************************************************)
(* A middleware aborts with a status, or the handler answers with one.     *)
(* Either way c.Next() of PrometheusMiddleware returns, and it counts.     *)
(***************************************************************************)
Increment(counter, class) == [counter EXCEPT ![class] = @ + 1]

Abort(c, code) ==
  /\ stage' = [stage EXCEPT ![c] = "flush"]
  /\ timer' = [timer EXCEPT ![c] = 0]
  /\ status' = [status EXCEPT ![c] = Class(code)]
  /\ total' = Increment(total, Class(code))

(***************************************************************************)
(* The chain after validation: 404 for what has no route, for the private  *)
(* routes AuthorizationMiddleware, and the handler.                        *)
(***************************************************************************)
Running == phase \in StartPhases \cup {"wait"}

HandlerDeadline == HandlerTimeout

Begin(c, h) ==
  /\ stage' = [stage EXCEPT ![c] = "handler"]
  /\ \E sequence \in Calls(h) : calls' = [calls EXCEPT ![c] = sequence]
  /\ timer' = [timer EXCEPT ![c] = HandlerDeadline]
  /\ early' = IF Running THEN early \cup {c} ELSE early
  /\ UNCHANGED <<status, total>>

Chain(c, request) ==
  \/ /\ ~Routed(request)
     /\ Abort(c, 404)
     /\ UNCHANGED <<clientID, calls, early>>
  \/ /\ Routed(request) /\ Handler(request) \in Private
     /\ Abort(c, 401)
     /\ UNCHANGED <<clientID, calls, early>>
  \/ /\ Routed(request) /\ Handler(request) \in Private
     /\ clientID' = [clientID EXCEPT ![c] = TRUE]
     /\ Begin(c, Handler(request))
  \/ /\ Routed(request) /\ Handler(request) \notin Private
     /\ Begin(c, Handler(request))
     /\ UNCHANGED clientID

(***************************************************************************)
(* The headers are in.  RequestIdMiddleware and LoggerMiddleware keep      *)
(* nothing; JSONValidationMiddleware waits for the body if it wants one.   *)
(***************************************************************************)
Arrive(c) ==
  /\ stage[c] = "connected"
  /\ \E request \in Requests :
       /\ req' = [req EXCEPT ![c] = request]
       /\ \/ JSONValidation(request) = "none" /\ Chain(c, request)
          \/ /\ JSONValidation(request) # "none"
             /\ stage' = [stage EXCEPT ![c] = "body"]
             /\ timer' = [timer EXCEPT ![c] = ReadTimeout]
             /\ UNCHANGED <<clientID, calls, early, status, total>>
  /\ write' = [write EXCEPT ![c] = WriteTimeout]
  /\ UNCHANGED <<processVars, jsonBody, holds, late, received, boundVars>>

(***************************************************************************)
(* ShouldBindJSON: the body comes, and is what is asked for or not, or it  *)
(* does not come in time.                                                  *)
(***************************************************************************)
ReadBody(c) ==
  /\ stage[c] = "body"
  /\ jsonBody' = [jsonBody EXCEPT ![c] = JSONValidation(req[c])]
  /\ Chain(c, req[c])
  /\ UNCHANGED <<processVars, req, holds, write, late, received, boundVars>>

BadBody(c) ==
  /\ stage[c] = "body"
  /\ Abort(c, 400)
  /\ UNCHANGED <<processVars, contextVars, handlerVars, write, early, late, received, boundVars>>

ReadExpired(c) == stage[c] = "body" /\ timer[c] = 0

ReadExpires(c) == ReadExpired(c) /\ BadBody(c)

--------------------------------------------------------------------------------
(***************************************************************************)
(* The handler.  Redis and Postgres are closed one after the other.        *)
(***************************************************************************)
Closed == [redis |-> {"close_postgres", "drain"}, postgres |-> {"drain"}]

Open(store) == phase \notin Closed[store]

HasConnection(store) ==
  Cardinality({c \in Clients : holds[c] = store}) < PoolSize[store]

Respond(c, code) ==
  /\ Abort(c, code)
  /\ calls' = [calls EXCEPT ![c] = <<>>]
  /\ holds' = [holds EXCEPT ![c] = "none"]
  /\ late' = IF timer[c] = 0 THEN late \cup {c} ELSE late

Ready(c) ==
  /\ stage[c] = "handler" /\ holds[c] = "none" /\ calls[c] # <<>>
  /\ timer[c] > 0
  /\ Open(Head(calls[c])) /\ HasConnection(Head(calls[c]))

Call(c) ==
  /\ Ready(c)
  /\ holds' = [holds EXCEPT ![c] = Head(calls[c])]
  /\ calls' = [calls EXCEPT ![c] = Tail(calls[c])]
  /\ UNCHANGED <<processVars, stage, contextVars, timerVars, status, early, late,
                 metricVars, boundVars>>

Reply(c) ==
  /\ holds[c] # "none" /\ Open(holds[c])
  /\ \/ /\ holds' = [holds EXCEPT ![c] = "none"]
        /\ UNCHANGED <<stage, calls, status, late>>
        /\ UNCHANGED <<timer, total>>
     \/ \E err \in Errors(Handler(req[c])) : Respond(c, ErrorHandler(err))
  /\ UNCHANGED <<processVars, contextVars, write, early, received, boundVars>>

(***************************************************************************)
(* ServiceRefresh validates the token and ServiceRegister hashes the       *)
(* password before the first call.                                         *)
(***************************************************************************)
Reject(c) ==
  /\ stage[c] = "handler" /\ holds[c] = "none"
  /\ calls[c] \in Calls(Handler(req[c]))
  /\ \E err \in EarlyErrors(Handler(req[c])) : Respond(c, ErrorHandler(err))
  /\ UNCHANGED <<processVars, contextVars, write, early, received, boundVars>>

Return(c) ==
  /\ stage[c] = "handler" /\ holds[c] = "none" /\ calls[c] = <<>>
  /\ Respond(c, Success[Handler(req[c])])
  /\ UNCHANGED <<processVars, contextVars, write, early, received, boundVars>>

(***************************************************************************)
(* A command fails: the store says so, its connection breaks or is closed. *)
(***************************************************************************)
CommandFails(c) ==
  /\ holds[c] # "none"
  /\ Respond(c, ErrorHandler("internal"))
  /\ UNCHANGED <<processVars, contextVars, write, early, received, boundVars>>

(***************************************************************************)
(* It cannot go on for ever: a command to Postgres ends with the context,  *)
(* one to Redis only with the client's own timeouts, which are shorter but *)
(* begin anew with every attempt.                                          *)
(***************************************************************************)
CommandExpired(c) == holds[c] = "redis" \/ timer[c] = 0

CommandExpires(c) == CommandExpired(c) /\ CommandFails(c)

(***************************************************************************)
(* There is no connection for the next call: the store is closed or the    *)
(* context has ended, or the pool of Redis has been empty for too long.    *)
(***************************************************************************)
NoConnection(c) ==
  /\ stage[c] = "handler" /\ holds[c] = "none" /\ calls[c] # <<>>
  /\ \/ timer[c] = 0
     \/ ~Open(Head(calls[c]))
     \/ Head(calls[c]) = "redis" /\ ~HasConnection("redis")
  /\ Respond(c, ErrorHandler("internal"))
  /\ UNCHANGED <<processVars, contextVars, write, early, received, boundVars>>

(***************************************************************************)
(* The client closes its connection: net/http cancels the context of the   *)
(* request, and the answer has nowhere to go.                              *)
(***************************************************************************)
Disconnect(c) ==
  /\ stage[c] = "handler" /\ timer[c] > 0
  /\ timer' = [timer EXCEPT ![c] = 0]
  /\ write' = [write EXCEPT ![c] = 0]
  /\ UNCHANGED <<processVars, stage, contextVars, handlerVars, status, early, late,
                 metricVars, boundVars>>

--------------------------------------------------------------------------------
(***************************************************************************)
(* net/http sends what has been written, unless it is too late, and is     *)
(* done with the request.  (The answer of /metrics overflows net/http's    *)
(* buffers and may be on its way before it is counted: received leaves it  *)
(* out.)                                                                   *)
(***************************************************************************)
Delivered(c) == write[c] > 0

Flush(c) ==
  /\ stage[c] = "flush"
  /\ received' = IF Delivered(c) /\ req[c] # Route["metrics"]
                 THEN Increment(received, status[c]) ELSE received
  /\ stage'    = [stage EXCEPT ![c] = "free"]
  /\ req'      = [req EXCEPT ![c] = NoRequest]
  /\ jsonBody' = [jsonBody EXCEPT ![c] = "none"]
  /\ clientID' = [clientID EXCEPT ![c] = FALSE]
  /\ write'    = [write EXCEPT ![c] = 0]
  /\ status'   = [status EXCEPT ![c] = 0]
  /\ early' = early \ {c} /\ late' = late \ {c}
  /\ UNCHANGED <<processVars, handlerVars, timer, total, boundVars>>

--------------------------------------------------------------------------------
(***************************************************************************)
(* Run: the configuration with its three secrets, the connections to the   *)
(* stores, each tried with a Ping, the goroutine of ListenAndServe, and    *)
(* from NotifyContext on the wait for a signal.                            *)
(***************************************************************************)
StartStep ==
  /\ phase \in StartPhases
  /\ phase' = [load |-> "postgres", postgres |-> "redis", redis |-> "serve",
               serve |-> "notify", notify |-> "wait"][phase]
  /\ listener' = IF phase = "serve" THEN "starting" ELSE listener
  /\ UNCHANGED <<stopped, grace, clientVars, metricVars, boundVars>>

Listen ==
  /\ listener = "starting"
  /\ listener' = "open"
  /\ UNCHANGED <<phase, stopped, grace, clientVars, metricVars, boundVars>>

(***************************************************************************)
(* ListenAndServe fails: an error is logged, and that is all.              *)
(***************************************************************************)
ListenFails ==
  /\ listener = "starting"
  /\ faults < MaxFaults
  /\ faults' = faults + 1
  /\ listener' = "failed"
  /\ UNCHANGED <<phase, stopped, grace, clientVars, metricVars, accepted>>

(***************************************************************************)
(* The end of the process cuts whatever it was doing.                      *)
(***************************************************************************)
Die ==
  /\ phase' = "exited"
  /\ listener' = "none"
  /\ grace' = 0
  /\ stage'    = [c \in Clients |-> "free"]
  /\ req'      = [c \in Clients |-> NoRequest]
  /\ jsonBody' = [c \in Clients |-> "none"]
  /\ clientID' = [c \in Clients |-> FALSE]
  /\ calls'    = [c \in Clients |-> <<>>]
  /\ holds'    = [c \in Clients |-> "none"]
  /\ timer'    = [c \in Clients |-> 0]
  /\ write'    = [c \in Clients |-> 0]
  /\ status'   = [c \in Clients |-> 0]
  /\ early' = {} /\ late' = {}
  /\ UNCHANGED <<metricVars, accepted>>

(***************************************************************************)
(* log.Fatalf and logger.Fatal while Run starts; later, a crash.           *)
(***************************************************************************)
Fails ==
  /\ phase # "exited"
  /\ faults < MaxFaults
  /\ faults' = faults + 1
  /\ Die
  /\ UNCHANGED stopped

(***************************************************************************)
(* docker stop.  Before NotifyContext the signal ends the process.         *)
(***************************************************************************)
Stop ==
  /\ ~stopped
  /\ stopped' = TRUE
  /\ IF phase \in StartPhases
     THEN Die
     ELSE UNCHANGED <<phase, listener, grace, clientVars, metricVars, accepted>>
  /\ UNCHANGED faults

Shutdown ==
  /\ phase = "wait" /\ stopped
  /\ phase' = "shutdown"
  /\ listener' = "closed"
  /\ grace' = ShutdownTimeout
  /\ UNCHANGED <<stopped, clientVars, metricVars, boundVars>>

Drained == \A c \in Clients : stage[c] = "free"

ShutdownEnds == phase = "shutdown" /\ (Drained \/ grace = 0)

ShutdownReturns ==
  /\ ShutdownEnds
  /\ phase' = "close_redis"
  /\ UNCHANGED <<listener, stopped, grace, clientVars, metricVars, boundVars>>

(***************************************************************************)
(* The deferred calls, in reverse order: rdb.Close, then pgPool.Close,     *)
(* which waits for the connections in use.                                 *)
(***************************************************************************)
Close ==
  /\ phase \in {"close_redis", "close_postgres"}
  /\ phase' = IF phase = "close_redis" THEN "close_postgres" ELSE "drain"
  /\ UNCHANGED <<listener, stopped, grace, clientVars, metricVars, boundVars>>

Exit ==
  /\ phase = "drain"
  /\ \A c \in Clients : holds[c] # "postgres"
  /\ Die
  /\ UNCHANGED <<stopped, faults>>

(***************************************************************************)
(* restart: unless-stopped.                                                *)
(***************************************************************************)
Restarts == phase = "exited" /\ ~stopped

Restart ==
  /\ Restarts
  /\ phase' = "load"
  /\ total' = NoCounts /\ received' = NoCounts
  /\ UNCHANGED <<listener, stopped, grace, clientVars, boundVars>>

--------------------------------------------------------------------------------
(***************************************************************************)
(* Time goes on when everybody waits: for the client; for the body, while  *)
(* there is time; for a store, or for a connection to it, while the        *)
(* context lasts - for Redis, which does not look at the context, longer.  *)
(***************************************************************************)
Waits(c) ==
  \/ stage[c] \in {"free", "connected"}
  \/ stage[c] = "body" /\ timer[c] > 0
  \/ /\ stage[c] = "handler"
     /\ \/ holds[c] = "redis"
        \/ timer[c] > 0 /\ (holds[c] = "postgres" \/ (calls[c] # <<>> /\ ~Ready(c)))

Less(n) == IF n = 0 THEN 0 ELSE n - 1

Tick ==
  /\ \A c \in Clients : Waits(c)
  /\ phase = "shutdown" => grace > 0
  /\ timer' = [c \in Clients |-> Less(timer[c])]
  /\ write' = [c \in Clients |-> Less(write[c])]
  /\ grace' = Less(grace)
  /\ UNCHANGED <<phase, listener, stopped, stage, contextVars, handlerVars, status,
                 early, late, metricVars, boundVars>>

(***************************************************************************)
(* What runs by itself once it can: the goroutine of a connection, and     *)
(* that of Run with the container around it.                               *)
(***************************************************************************)
Serve(c) ==
  \/ ReadExpires(c) \/ Call(c) \/ Return(c) \/ CommandExpires(c) \/ NoConnection(c)
  \/ Flush(c)

Run == StartStep \/ Shutdown \/ ShutdownReturns \/ Close \/ Exit \/ Restart

Next ==
  \/ \E c \in Clients : \/ Connect(c) \/ HangUp(c) \/ Arrive(c) \/ Disconnect(c)
                        \/ ReadBody(c) \/ BadBody(c)
                        \/ Call(c) \/ Reply(c) \/ Reject(c) \/ Return(c)
                        \/ CommandFails(c) \/ NoConnection(c) \/ Flush(c)
  \/ Run \/ Listen \/ ListenFails \/ Fails \/ Stop \/ Tick

Fairness ==
  /\ WF_vars(Run) /\ WF_vars(Listen) /\ WF_vars(Tick)
  /\ \A c \in Clients : WF_vars(Serve(c))

Spec == Init /\ [][Next]_vars /\ Fairness

--------------------------------------------------------------------------------
TypeOK ==
  /\ phase \in Phases
  /\ listener \in Listeners
  /\ stopped \in BOOLEAN
  /\ grace \in 0..ShutdownTimeout
  /\ stage \in [Clients -> Stages]
  /\ req \in [Clients -> Requests \cup {NoRequest}]
  /\ jsonBody \in [Clients -> {"none"} \cup {Asserted[h] : h \in DOMAIN Asserted}]
  /\ clientID \in [Clients -> BOOLEAN]
  /\ calls \in [Clients -> Seq(Stores)]
  /\ holds \in [Clients -> Stores \cup {"none"}]
  /\ timer \in [Clients -> 0..ReadTimeout \cup 0..HandlerTimeout]
  /\ write \in [Clients -> 0..WriteTimeout]
  /\ status \in [Clients -> Classes \cup {0}]
  /\ total \in [Classes -> Nat]
  /\ received \in [Classes -> Nat]
  /\ accepted \in Nat /\ faults \in Nat
  /\ early \in SUBSET Clients
  /\ late \in SUBSET Clients

(***************************************************************************)
(* No handler panics: whatever request it is given, the two middleware     *)
(* have left it what it takes without looking - a body of its own type     *)
(* and, behind a private route, the user.                                  *)
(***************************************************************************)
NoPanic ==
  \A c \in Clients :
    stage[c] = "handler" =>
      LET h == Handler(req[c])
      IN  /\ Routed(req[c])
          /\ h \in DOMAIN Asserted => jsonBody[c] = Asserted[h]
          /\ h \in Private => clientID[c]

(***************************************************************************)
(* The metrics miss no answer a client has seen, nor the status it had:    *)
(* not those a middleware gave before any handler, not those to paths      *)
(* without a route.                                                        *)
(***************************************************************************)
AnswersAreCounted == \A class \in Classes : received[class] <= total[class]

(***************************************************************************)
(* An answer is ready too late for WriteTimeout only if its handler was    *)
(* still at work when its context ended: however slowly the body came, the *)
(* handler has its whole time.                                             *)
(***************************************************************************)
LostIsLate ==
  \A c \in Clients : stage[c] = "flush" /\ ~Delivered(c) => c \in late

(***************************************************************************)
(* Once the stores are being closed, no handler that began before Shutdown *)
(* has any of its own time left: none is cut short.                        *)
(***************************************************************************)
ClosedIsOverdue ==
  phase \in EndPhases =>
    \A c \in early : stage[c] = "handler" => timer[c] = 0

--------------------------------------------------------------------------------
(***************************************************************************)
(* Whoever stops the service sees it end, whatever its clients and the     *)
(* stores do.                                                              *)
(***************************************************************************)
Stops == stopped ~> phase = "exited"

(***************************************************************************)
(* No request stays in the process for ever: whether its body comes or     *)
(* not, its store answers or not, or there is no connection for it.        *)
(***************************************************************************)
Answered ==
  \A c \in Clients : stage[c] \notin {"free", "connected"} ~> stage[c] = "free"

(***************************************************************************)
(* A service nobody stops comes up and stays up, or comes up again - but   *)
(* for one case: after ListenAndServe has failed it neither serves nor     *)
(* ends.                                                                   *)
(***************************************************************************)
Serves == []<>(listener = "open" \/ stopped \/ listener = "failed")

================================================================================
