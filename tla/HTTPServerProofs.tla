-------------------------- MODULE HTTPServerProofs --------------------------
(***************************************************************************)
(* What HTTPServer guarantees for every set of connections and requests,   *)
(* and all timeouts that fit into each other (TimeoutsFit). The argument   *)
(* is the invariant ServerInv: an answer is counted before it is sent, and *)
(* every timer lies within the timer that would cut it short.              *)
(***************************************************************************)
EXTENDS ServerInvariant, FiniteSetTheorems, TLAPS

(***************************************************************************)
(* The tables of HTTPRoutes: their domains, and the types of what is in    *)
(* them.                                                                   *)
(***************************************************************************)
LEMMA HandlersAre ==
  /\ Handlers = {"register", "login", "refresh", "metrics",
                 "post", "get", "put", "delete", "stats"}
  /\ DOMAIN Asserted = {"register", "login", "refresh", "post", "put"}
BY DEF Handlers, Route, Asserted

(***************************************************************************)
(* The router gives a request only to the handler of its route.            *)
(***************************************************************************)
LEMMA RouteOfHandler ==
  ASSUME NEW request, Routed(request)
  PROVE  /\ Handler(request) \in Handlers
         /\ Route[Handler(request)] = request
BY DEF Routed, Handler

(***************************************************************************)
(* The three tables about bodies agree: JSONValidationMiddleware parses,   *)
(* for the route of every handler that takes a body, the type that handler *)
(* asserts.                                                                *)
(***************************************************************************)
LEMMA ValidationAgrees ==
  ASSUME NEW h \in DOMAIN Asserted
  PROVE  h \in Handlers /\ JSONValidation(Route[h]) = Asserted[h] /\ Asserted[h] # "none"
<1>1. CASE h = "register"
  BY <1>1, HandlersAre DEF JSONValidation, Asserted, Route, BelowShorten
<1>2. CASE h = "login"
  BY <1>2, HandlersAre DEF JSONValidation, Asserted, Route, BelowShorten
<1>3. CASE h = "refresh"
  BY <1>3, HandlersAre DEF JSONValidation, Asserted, Route, BelowShorten
<1>4. CASE h = "post"
  BY <1>4, HandlersAre DEF JSONValidation, Asserted, Route, BelowShorten
<1>5. CASE h = "put"
  BY <1>5, HandlersAre DEF JSONValidation, Asserted, Route, BelowShorten
<1>. QED  BY <1>1, <1>2, <1>3, <1>4, <1>5, HandlersAre

(***************************************************************************)
(* The types a jsonBody may have.                                          *)
(***************************************************************************)
Types == {"none"} \cup {Asserted[h] : h \in DOMAIN Asserted}

(***************************************************************************)
(* The types of the other tables.                                          *)
(***************************************************************************)
LEMMA ValidationType == ASSUME NEW request PROVE JSONValidation(request) \in Types
BY HandlersAre DEF JSONValidation, Asserted, Types

LEMMA CallsType ==
  ASSUME NEW h \in Handlers, NEW sequence \in Calls(h)
  PROVE  sequence \in Seq(Stores)
<1>1. /\ <<>> \in Seq(Stores) /\ <<"redis">> \in Seq(Stores) /\ <<"postgres">> \in Seq(Stores)
      /\ <<"postgres", "redis">> \in Seq(Stores) /\ <<"redis", "postgres">> \in Seq(Stores)
      /\ <<"redis", "redis">> \in Seq(Stores) /\ ThroughCache \in Seq(Stores)
  BY DEF Stores, ThroughCache
<1>2. Calls(h) \subseteq {<<>>, <<"redis">>, <<"postgres">>, <<"postgres", "redis">>,
                          <<"redis", "postgres">>, <<"redis", "redis">>, ThroughCache}
  BY HandlersAre DEF Calls
<1>. QED  BY <1>1, <1>2

LEMMA ClassType ==
  /\ Class(400) \in Classes /\ Class(401) \in Classes /\ Class(404) \in Classes
  /\ Class(ErrorHandler("internal")) \in Classes
  /\ \A h \in Handlers : Class(Success[h]) \in Classes
  /\ \A h \in Handlers : \A err \in EarlyErrors(h) \cup Errors(h) :
        Class(ErrorHandler(err)) \in Classes
<1>1. Class(400) \in Classes /\ Class(401) \in Classes /\ Class(404) \in Classes
  BY DEF Class, Classes
<1>2. \A err \in {"ErrNotFound", "ErrEmailExists", "ErrInvalidCredentials", "ErrInvalidToken",
                  "ErrForbidden", "internal"} :
        ErrorHandler(err) \in {404, 409, 401, 403, 500}
  BY DEF ErrorHandler
<1>3. \A code \in {200, 201, 204, 302, 404, 409, 401, 403, 500} : Class(code) \in Classes
  BY DEF Class, Classes
<1>4. \A h \in Handlers : Success[h] \in {200, 201, 204, 302}
  BY HandlersAre DEF Success
<1>5. \A h \in Handlers :
        EarlyErrors(h) \cup Errors(h) \subseteq
          {"ErrNotFound", "ErrEmailExists", "ErrInvalidCredentials", "ErrInvalidToken",
           "ErrForbidden", "internal"}
  BY HandlersAre DEF EarlyErrors, Errors
<1>. QED  BY <1>1, <1>2, <1>3, <1>4, <1>5


--------------------------------------------------------------------------------
(***************************************************************************)
(* The answers being sent are as many as there are connections at most,    *)
(* and an answer joins them in the step that counts it.                    *)
(***************************************************************************)
LEMMA SendingIsFinite == ASSUME NEW class PROVE IsFiniteSet(Sending(class))
<1>1. Sending(class) \subseteq Clients
  BY DEF Sending
<1>. QED  BY <1>1, ClientsAreFinite, FS_Subset

LEMMA NoNewAnswer ==
  ASSUME TypeOK, CountsCover, UNCHANGED <<status, total, received>>,
         \A d \in Clients : stage'[d] = "flush" <=> stage[d] = "flush"
  PROVE  CountsCover'
<1>1. \A class \in Classes : Sending(class)' = Sending(class)
  BY DEF Sending
<1>. QED  BY <1>1 DEF CountsCover

LEMMA AnswerCounted ==
  ASSUME TypeOK, CountsCover, NEW c \in Clients, NEW class \in Classes,
         stage[c] # "flush",
         stage' = [stage EXCEPT ![c] = "flush"],
         status' = [status EXCEPT ![c] = class],
         total' = Increment(total, class),
         received' = received
  PROVE  CountsCover'
<1>. SUFFICES ASSUME NEW k \in Classes
              PROVE  received[k] + Cardinality(Sending(k)') <= total'[k]
  BY DEF CountsCover
<1>1. received[k] \in Nat /\ total[k] \in Nat
  BY DEF TypeOK
<1>2. received[k] + Cardinality(Sending(k)) <= total[k]
  BY DEF CountsCover
<1>3. IsFiniteSet(Sending(k)) /\ Cardinality(Sending(k)) \in Nat
  BY SendingIsFinite, FS_CardinalityType
<1>4. CASE k = class
  <2>1. Sending(k)' = Sending(k) \cup {c}
    BY <1>4 DEF Sending, TypeOK
  <2>2. Cardinality(Sending(k)') = Cardinality(Sending(k)) + 1
    <3>1. c \notin Sending(k)
      BY DEF Sending
    <3>. QED  BY <2>1, <3>1, <1>3, FS_AddElement
  <2>3. total'[k] = total[k] + 1
    BY <1>4 DEF Increment, TypeOK
  <2>. QED  BY <1>1, <1>2, <1>3, <2>2, <2>3
<1>5. CASE k # class
  <2>1. Sending(k)' = Sending(k)
    BY <1>5 DEF Sending, TypeOK
  <2>2. total'[k] = total[k]
    BY <1>5 DEF Increment, TypeOK
  <2>. QED  BY <1>2, <2>1, <2>2
<1>. QED  BY <1>4, <1>5

(***************************************************************************)
(* How a request goes on from a middleware: it is aborted with a status,   *)
(* or handed to its handler.                                               *)
(***************************************************************************)
LEMMA AbortKeeps ==
  ASSUME ServerInv, NEW c \in Clients, NEW code, Class(code) \in Classes,
         NEW r \in Requests, NEW w \in 1..WriteTimeout, NEW b \in Types,
         stage[c] \in {"connected", "body"}, phase # "exited",
         Abort(c, code),
         req' = [req EXCEPT ![c] = r], write' = [write EXCEPT ![c] = w],
         jsonBody' = [jsonBody EXCEPT ![c] = b],
         UNCHANGED <<processVars, clientID, calls, holds, early, late, received,
                     boundVars>>
  PROVE  ServerInv'
<1>. USE TimeoutsFit DEF ServerInv, Abort, processVars, boundVars
<1>1. TypeOK'
  <2>1. /\ stage' \in [Clients -> Stages] /\ req' \in [Clients -> Requests \cup {NoRequest}]
        /\ timer' \in [Clients -> 0..ReadTimeout \cup 0..HandlerTimeout]
        /\ write' \in [Clients -> 0..WriteTimeout]
        /\ status' \in [Clients -> Classes \cup {0}]
    BY DEF TypeOK, Stages
  <2>2. total' \in [Classes -> Nat]
    BY DEF TypeOK, Increment
  <2>3. jsonBody' \in [Clients -> Types]
    BY DEF TypeOK, Types
  <2>. QED  BY <2>1, <2>2, <2>3 DEF TypeOK, Types
<1>2. StagesOK'
  <2>1. Class(code) # 0
    BY DEF Classes
  <2>2. \A d \in Clients :
          /\ stage'[d] \in {"body", "handler"} => req'[d] \in Requests
          /\ stage'[d] = "flush" <=> status'[d] # 0
          /\ holds'[d] # "none" => stage'[d] = "handler"
          /\ d \in early' => stage'[d] \in {"handler", "flush"}
    BY <2>1 DEF StagesOK, TypeOK
  <2>. QED  BY <2>2 DEF StagesOK
<1>3. ContextOK'
  BY DEF ContextOK, TypeOK
<1>4. WriteCovers'
  BY DEF WriteCovers, TypeOK
<1>5. GraceCovers'
  BY DEF GraceCovers, StagesOK, TypeOK
<1>6. CountsCover'
  BY AnswerCounted
<1>. QED  BY <1>1, <1>2, <1>3, <1>4, <1>5, <1>6

LEMMA BeginKeeps ==
  ASSUME ServerInv, NEW c \in Clients,
         NEW r \in Requests, NEW w \in HandlerTimeout..WriteTimeout,
         NEW b \in Types, NEW id \in BOOLEAN,
         stage[c] \in {"connected", "body"}, phase # "exited",
         Routed(r), Begin(c, Handler(r)),
         JSONValidation(r) # "none" => b = JSONValidation(r),
         Handler(r) \in Private => id,
         req' = [req EXCEPT ![c] = r], write' = [write EXCEPT ![c] = w],
         jsonBody' = [jsonBody EXCEPT ![c] = b], clientID' = [clientID EXCEPT ![c] = id],
         UNCHANGED <<processVars, holds, late, received, boundVars>>
  PROVE  ServerInv'
<1>. USE TimeoutsFit DEF ServerInv, Begin, processVars, boundVars
<1>1. TypeOK'
  BY RouteOfHandler, CallsType DEF TypeOK, Stages, HandlerDeadline, Types
<1>2. StagesOK'
  BY DEF StagesOK, TypeOK, Classes
<1>3. ContextOK'
  BY DEF ContextOK, TypeOK
<1>4. WriteCovers'
  BY DEF WriteCovers, TypeOK, HandlerDeadline
<1>5. GraceCovers'
  <2>1. \A d \in Clients \ {c} : stage'[d] = stage[d] /\ timer'[d] = timer[d]
    BY DEF TypeOK
  <2>2. c \in early' => phase \notin {"shutdown"} \cup EndPhases
    BY DEF Running, EndPhases, StartPhases, StagesOK
  <2>3. timer'[c] = HandlerTimeout
    BY DEF TypeOK, HandlerDeadline
  <2>4. \A d \in early' : d = c \/ d \in early \ {c}
    OBVIOUS
  <2>. QED  BY <2>1, <2>2, <2>3, <2>4 DEF GraceCovers, TypeOK
<1>6. CountsCover'
  BY NoNewAnswer DEF TypeOK
<1>. QED  BY <1>1, <1>2, <1>3, <1>4, <1>5, <1>6

LEMMA ChainKeeps ==
  ASSUME ServerInv, NEW c \in Clients,
         NEW r \in Requests, NEW w \in HandlerTimeout..WriteTimeout,
         NEW b \in Types,
         stage[c] \in {"connected", "body"}, phase # "exited",
         Chain(c, r),
         JSONValidation(r) # "none" => b = JSONValidation(r),
         req' = [req EXCEPT ![c] = r], write' = [write EXCEPT ![c] = w],
         jsonBody' = [jsonBody EXCEPT ![c] = b],
         UNCHANGED <<processVars, holds, late, received, boundVars>>
  PROVE  ServerInv'
<1>. w \in 1..WriteTimeout /\ clientID[c] \in BOOLEAN
  BY TimeoutsFit DEF ServerInv, TypeOK
<1>1. CASE ~Routed(r) /\ Abort(c, 404) /\ UNCHANGED <<clientID, calls, early>>
  BY <1>1, AbortKeeps, ClassType
<1>2. CASE Abort(c, 401) /\ UNCHANGED <<clientID, calls, early>>
  BY <1>2, AbortKeeps, ClassType
<1>3. CASE /\ Routed(r)
           /\ clientID' = [clientID EXCEPT ![c] = TRUE]
           /\ Begin(c, Handler(r))
  BY <1>3, BeginKeeps
<1>4. CASE /\ Routed(r) /\ Handler(r) \notin Private
           /\ Begin(c, Handler(r))
           /\ UNCHANGED clientID
  <2>1. clientID' = [clientID EXCEPT ![c] = clientID[c]]
    BY <1>4 DEF ServerInv, TypeOK
  <2>. QED  BY <1>4, <2>1, BeginKeeps
<1>. QED  BY <1>1, <1>2, <1>3, <1>4 DEF Chain

(***************************************************************************)
(* How a handler ends: with a status, without a connection, late or not.   *)
(***************************************************************************)
LEMMA AnswerKeeps ==
  ASSUME ServerInv, NEW c \in Clients, NEW code, Class(code) \in Classes,
         stage[c] = "handler", Respond(c, code),
         UNCHANGED <<processVars, contextVars, write, early, received, boundVars>>
  PROVE  ServerInv'
<1>. USE TimeoutsFit DEF ServerInv, Abort, Respond, processVars, contextVars, boundVars
<1>1. TypeOK'
  BY DEF TypeOK, Stages, Increment
<1>2. StagesOK'
  <2>1. Class(code) # 0
    BY DEF Classes
  <2>2. phase # "exited"
    BY DEF StagesOK
  <2>3. \A d \in Clients :
          /\ stage'[d] \in {"body", "handler"} => req'[d] \in Requests
          /\ stage'[d] = "flush" <=> status'[d] # 0
          /\ holds'[d] # "none" => stage'[d] = "handler"
          /\ d \in early' => stage'[d] \in {"handler", "flush"}
    BY <2>1 DEF StagesOK, TypeOK
  <2>. QED  BY <2>2, <2>3 DEF StagesOK
<1>3. ContextOK'
  BY DEF ContextOK, TypeOK
<1>4. WriteCovers'
  <2>1. \A d \in Clients \ {c} :
          stage'[d] = stage[d] /\ timer'[d] = timer[d] /\ write'[d] = write[d]
    BY DEF TypeOK
  <2>2. late \subseteq late'
    OBVIOUS
  <2>3. stage'[c] = "flush" /\ write'[c] = write[c] /\ timer[c] <= write[c]
    BY DEF WriteCovers, TypeOK
  <2>4. timer[c] = 0 => c \in late'
    OBVIOUS
  <2>5. timer[c] \in Nat /\ write[c] \in Nat
    BY DEF TypeOK
  <2>. QED  BY <2>1, <2>2, <2>3, <2>4, <2>5 DEF WriteCovers
<1>5. GraceCovers'
  BY DEF GraceCovers, StagesOK, TypeOK
<1>6. CountsCover'
  BY AnswerCounted
<1>. QED  BY <1>1, <1>2, <1>3, <1>4, <1>5, <1>6

--------------------------------------------------------------------------------
(***************************************************************************)
(* The actions of a connection, one by one.                                *)
(***************************************************************************)
LEMMA ArriveKeeps ==
  ASSUME ServerInv, NEW c \in Clients, Arrive(c)
  PROVE  ServerInv'
<1>. USE TimeoutsFit
<1>1. PICK r \in Requests :
        /\ req' = [req EXCEPT ![c] = r]
        /\ \/ JSONValidation(r) = "none" /\ Chain(c, r)
           \/ /\ JSONValidation(r) # "none"
              /\ stage' = [stage EXCEPT ![c] = "body"]
              /\ timer' = [timer EXCEPT ![c] = ReadTimeout]
              /\ UNCHANGED <<clientID, calls, early, status, total>>
  BY DEF Arrive
<1>2. /\ stage[c] = "connected"
      /\ write' = [write EXCEPT ![c] = WriteTimeout]
      /\ UNCHANGED <<processVars, jsonBody, holds, late, received, boundVars>>
  BY DEF Arrive
<1>3. phase # "exited"
  BY <1>2 DEF ServerInv, StagesOK
<1>4. CASE JSONValidation(r) = "none" /\ Chain(c, r)
  <2>1. jsonBody' = [jsonBody EXCEPT ![c] = jsonBody[c]] /\ jsonBody[c] \in Types
    BY <1>2 DEF ServerInv, TypeOK, Types
  <2>2. WriteTimeout \in HandlerTimeout..WriteTimeout
    OBVIOUS
  <2>. QED  BY <1>1, <1>2, <1>3, <1>4, <2>1, <2>2, ChainKeeps
<1>5. CASE /\ JSONValidation(r) # "none"
           /\ stage' = [stage EXCEPT ![c] = "body"]
           /\ timer' = [timer EXCEPT ![c] = ReadTimeout]
           /\ UNCHANGED <<clientID, calls, early, status, total>>
  <2>. USE <1>1, <1>2, <1>3, <1>5 DEF ServerInv, processVars, boundVars
  <2>1. TypeOK'
    BY DEF TypeOK, Stages
  <2>2. StagesOK'
    BY DEF StagesOK, TypeOK
  <2>3. ContextOK'
    BY DEF ContextOK, TypeOK
  <2>4. WriteCovers'
    BY DEF WriteCovers, TypeOK
  <2>5. GraceCovers'
    BY DEF GraceCovers, StagesOK, TypeOK
  <2>6. CountsCover'
    BY NoNewAnswer DEF TypeOK
  <2>. QED  BY <2>1, <2>2, <2>3, <2>4, <2>5, <2>6
<1>. QED  BY <1>1, <1>4, <1>5

LEMMA BodyKeeps ==
  ASSUME ServerInv, NEW c \in Clients, ReadBody(c) \/ BadBody(c)
  PROVE  ServerInv'
<1>. USE TimeoutsFit DEF ServerInv
<1>1. stage[c] = "body" /\ phase # "exited" /\ req[c] \in Requests
  BY DEF ReadBody, BadBody, StagesOK
<1>2. write[c] \in HandlerTimeout..WriteTimeout
  <2>1. timer[c] + HandlerTimeout <= write[c]
    BY <1>1 DEF WriteCovers
  <2>2. write[c] \in 0..WriteTimeout /\ timer[c] \in Nat
    BY DEF TypeOK
  <2>. QED  BY <2>1, <2>2
<1>3. write = [write EXCEPT ![c] = write[c]] /\ req = [req EXCEPT ![c] = req[c]]
  BY DEF TypeOK
<1>4. CASE ReadBody(c)
  BY <1>1, <1>2, <1>3, <1>4, ValidationType, ChainKeeps DEF ReadBody
<1>5. CASE BadBody(c)
  <2>1. jsonBody = [jsonBody EXCEPT ![c] = jsonBody[c]] /\ jsonBody[c] \in Types
    BY DEF TypeOK, Types
  <2>2. write[c] \in 1..WriteTimeout
    BY <1>2
  <2>. QED  BY <1>1, <1>3, <1>5, <2>1, <2>2, ClassType, AbortKeeps DEF BadBody, contextVars, handlerVars
<1>. QED  BY <1>4, <1>5

LEMMA RespondingKeeps ==
  ASSUME ServerInv, NEW c \in Clients,
         Reject(c) \/ Return(c) \/ CommandFails(c) \/ NoConnection(c)
  PROVE  ServerInv'
<1>. USE DEF ServerInv
<1>1. stage[c] = "handler"
  BY DEF Reject, Return, CommandFails, NoConnection, StagesOK
<1>2. Handler(req[c]) \in Handlers
  BY <1>1, RouteOfHandler DEF ContextOK
<1>. QED  BY <1>1, <1>2, ClassType, AnswerKeeps
          DEF Reject, Return, CommandFails, NoConnection

LEMMA ReplyKeeps ==
  ASSUME ServerInv, NEW c \in Clients, Reply(c)
  PROVE  ServerInv'
<1>. USE DEF ServerInv
<1>1. stage[c] = "handler"
  BY DEF Reply, StagesOK
<1>2. CASE \E err \in Errors(Handler(req[c])) : Respond(c, ErrorHandler(err))
  <2>1. Handler(req[c]) \in Handlers
    BY <1>1, RouteOfHandler DEF ContextOK
  <2>. QED  BY <1>1, <1>2, <2>1, ClassType, AnswerKeeps DEF Reply
<1>3. CASE /\ holds' = [holds EXCEPT ![c] = "none"]
           /\ UNCHANGED <<stage, calls, status, late, timer, total>>
  <2>. USE <1>3 DEF Reply, processVars, contextVars, boundVars
  <2>1. TypeOK'
    BY DEF TypeOK
  <2>2. StagesOK'
    BY DEF StagesOK, TypeOK
  <2>3. ContextOK' /\ WriteCovers' /\ GraceCovers'
    BY DEF ContextOK, WriteCovers, GraceCovers
  <2>4. CountsCover'
    BY NoNewAnswer
  <2>. QED  BY <2>1, <2>2, <2>3, <2>4
<1>. QED  BY <1>2, <1>3 DEF Reply

LEMMA ConnectionKeeps ==
  ASSUME ServerInv, NEW c \in Clients, Connect(c) \/ HangUp(c)
  PROVE  ServerInv'
<1>. USE DEF ServerInv, Connect, HangUp, processVars, contextVars, handlerVars, timerVars,
         metricVars, boundVars
<1>1. TypeOK'
  <2>1. stage' \in [Clients -> Stages]
    BY DEF TypeOK, Stages
  <2>2. accepted' \in Nat
    BY DEF TypeOK
  <2>3. UNCHANGED <<processVars, contextVars, handlerVars, timerVars, status, early, late,
                    metricVars, faults>>
    OBVIOUS
  <2>. QED  BY <2>1, <2>2, <2>3 DEF TypeOK
<1>2. StagesOK'
  BY DEF StagesOK, TypeOK
<1>3. ContextOK' /\ WriteCovers'
  BY DEF ContextOK, WriteCovers, TypeOK
<1>4. GraceCovers'
  BY DEF GraceCovers, StagesOK, TypeOK
<1>5. CountsCover'
  BY NoNewAnswer DEF TypeOK
<1>. QED  BY <1>1, <1>2, <1>3, <1>4, <1>5

LEMMA CallKeeps ==
  ASSUME ServerInv, NEW c \in Clients, Call(c)
  PROVE  ServerInv'
<1>. USE DEF ServerInv, Call, processVars, contextVars, timerVars, metricVars, boundVars
<1>1. TypeOK'
  <2>1. calls[c] \in Seq(Stores) /\ calls[c] # <<>>
    BY DEF TypeOK, Ready
  <2>2. Head(calls[c]) \in Stores /\ Tail(calls[c]) \in Seq(Stores)
    BY <2>1
  <2>. QED  BY <2>2 DEF TypeOK
<1>2. StagesOK'
  BY DEF StagesOK, TypeOK, Ready
<1>3. ContextOK' /\ WriteCovers' /\ GraceCovers'
  BY DEF ContextOK, WriteCovers, GraceCovers
<1>4. CountsCover'
  BY NoNewAnswer
<1>. QED  BY <1>1, <1>2, <1>3, <1>4

LEMMA DisconnectKeeps ==
  ASSUME ServerInv, NEW c \in Clients, Disconnect(c)
  PROVE  ServerInv'
<1>. USE TimeoutsFit DEF ServerInv, Disconnect, processVars, contextVars, handlerVars, metricVars, boundVars
<1>1. TypeOK'
  BY DEF TypeOK
<1>2. StagesOK' /\ ContextOK'
  BY DEF StagesOK, ContextOK
<1>3. WriteCovers'
  BY DEF WriteCovers, TypeOK
<1>4. GraceCovers'
  BY DEF GraceCovers, TypeOK
<1>5. CountsCover'
  BY NoNewAnswer
<1>. QED  BY <1>1, <1>2, <1>3, <1>4, <1>5

LEMMA FlushKeeps ==
  ASSUME ServerInv, NEW c \in Clients, Flush(c)
  PROVE  ServerInv'
<1>. USE DEF ServerInv, Flush, processVars, handlerVars, boundVars
<1>1. status[c] \in Classes
  BY DEF StagesOK, TypeOK
<1>2. TypeOK'
  <2>1. received' \in [Classes -> Nat]
    BY <1>1 DEF TypeOK, Increment
  <2>2. stage' \in [Clients -> Stages] /\ req' \in [Clients -> Requests \cup {NoRequest}]
    BY DEF TypeOK, Stages
  <2>3. jsonBody' \in [Clients -> Types] /\ clientID' \in [Clients -> BOOLEAN]
    BY DEF TypeOK, Types
  <2>4. write' \in [Clients -> 0..WriteTimeout] /\ status' \in [Clients -> Classes \cup {0}]
    BY TimeoutsFit DEF TypeOK
  <2>. QED  BY <2>1, <2>2, <2>3, <2>4 DEF TypeOK, Types
<1>3. StagesOK'
  BY DEF StagesOK, TypeOK
<1>4. ContextOK'
  BY DEF ContextOK, TypeOK
<1>5. WriteCovers'
  BY DEF WriteCovers, TypeOK
<1>6. GraceCovers'
  BY DEF GraceCovers, TypeOK
<1>7. CountsCover'
  <2>. SUFFICES ASSUME NEW k \in Classes
                PROVE  received'[k] + Cardinality(Sending(k)') <= total[k]
    BY DEF CountsCover
  <2>1. received[k] \in Nat /\ total[k] \in Nat
    BY DEF TypeOK
  <2>2. received[k] + Cardinality(Sending(k)) <= total[k]
    BY DEF CountsCover
  <2>3. IsFiniteSet(Sending(k)) /\ Cardinality(Sending(k)) \in Nat
    BY SendingIsFinite, FS_CardinalityType
  <2>4. CASE k = status[c]
    <3>1. Sending(k)' = Sending(k) \ {c} /\ c \in Sending(k)
      BY <2>4, <1>1 DEF Sending, TypeOK
    <3>2. Cardinality(Sending(k)') = Cardinality(Sending(k)) - 1
      BY <3>1, <2>3, FS_RemoveElement
    <3>3. received'[k] <= received[k] + 1 /\ received'[k] \in Nat
      BY <2>4, <1>2 DEF Increment, TypeOK
    <3>. QED  BY <2>1, <2>2, <2>3, <3>2, <3>3
  <2>5. CASE k # status[c]
    <3>1. Sending(k)' = Sending(k)
      BY <2>5 DEF Sending, TypeOK
    <3>2. received'[k] = received[k]
      BY <2>5 DEF Increment, TypeOK
    <3>. QED  BY <2>2, <3>1, <3>2
  <2>. QED  BY <2>4, <2>5
<1>. QED  BY <1>2, <1>3, <1>4, <1>5, <1>6, <1>7

--------------------------------------------------------------------------------
(***************************************************************************)
(* The steps of Run, and the end of the process.                           *)
(***************************************************************************)
LEMMA RunKeeps ==
  ASSUME ServerInv,
         StartStep \/ Listen \/ ListenFails \/ Shutdown \/ ShutdownReturns \/ Close
  PROVE  ServerInv'
<1>. USE TimeoutsFit DEF ServerInv, clientVars, contextVars, handlerVars, timerVars, metricVars, boundVars
<1>1. UNCHANGED <<clientVars, metricVars>> /\ accepted' = accepted /\ stopped' = stopped
  BY DEF StartStep, Listen, ListenFails, Shutdown, ShutdownReturns, Close
<1>2. phase # "exited" /\ phase' # "exited"
  BY DEF StartStep, Listen, ListenFails, Shutdown, ShutdownReturns, Close, StagesOK,
         StartPhases, ShutdownEnds
<1>3. TypeOK'
  <2>1. phase' \in Phases /\ listener' \in Listeners /\ grace' \in 0..ShutdownTimeout
    BY DEF StartStep, Listen, ListenFails, Shutdown, ShutdownReturns, Close, TypeOK,
           Phases, StartPhases, EndPhases, Listeners
  <2>2. faults' \in Nat
    BY DEF StartStep, Listen, ListenFails, Shutdown, ShutdownReturns, Close, TypeOK
  <2>. QED  BY <1>1, <2>1, <2>2 DEF TypeOK
<1>4. StagesOK' /\ ContextOK' /\ WriteCovers'
  BY <1>1, <1>2 DEF StagesOK, ContextOK, WriteCovers
<1>5. GraceCovers'
  <2>1. CASE StartStep \/ Listen \/ ListenFails
    <3>1. phase' \notin {"shutdown"} \cup EndPhases \/ (phase' = phase /\ grace' = grace)
      BY <2>1 DEF StartStep, Listen, ListenFails, StartPhases, EndPhases
    <3>. QED  BY <1>1, <3>1 DEF GraceCovers
  <2>2. CASE Shutdown
    <3>1. \A c \in early : timer[c] \in Nat
      BY DEF TypeOK
    <3>. QED  BY <1>1, <2>2, <3>1 DEF Shutdown, GraceCovers, EndPhases
  <2>3. CASE ShutdownReturns
    <3>1. phase = "shutdown" /\ (Drained \/ grace = 0) /\ phase' = "close_redis"
      BY <2>3 DEF ShutdownReturns, ShutdownEnds
    <3>2. \A c \in early : c \in Clients /\ timer[c] \in Nat
      BY DEF TypeOK
    <3>3. \A c \in early : stage[c] = "handler" => timer[c] = 0
      BY <3>1, <3>2 DEF Drained, GraceCovers
    <3>. QED  BY <1>1, <3>1, <3>2, <3>3 DEF GraceCovers
  <2>4. CASE Close
    BY <1>1, <2>4 DEF Close, GraceCovers, EndPhases
  <2>. QED  BY <2>1, <2>2, <2>3, <2>4
<1>6. CountsCover'
  BY <1>1, NoNewAnswer
<1>. QED  BY <1>3, <1>4, <1>5, <1>6

LEMMA DieKeeps ==
  ASSUME ServerInv, Die, stopped' \in BOOLEAN, faults' \in Nat
  PROVE  ServerInv'
<1>. USE DEF ServerInv, Die, metricVars
<1>1. TypeOK'
  <2>1. /\ phase' \in Phases /\ listener' \in Listeners /\ grace' \in 0..ShutdownTimeout
        /\ stage' \in [Clients -> Stages]
    BY TimeoutsFit DEF Phases, Listeners, Stages
  <2>2. /\ jsonBody' \in [Clients -> Types] /\ clientID' \in [Clients -> BOOLEAN]
        /\ calls' \in [Clients -> Seq(Stores)]
    BY DEF Types
  <2>3. /\ timer' \in [Clients -> 0..ReadTimeout \cup 0..HandlerTimeout]
        /\ write' \in [Clients -> 0..WriteTimeout]
    BY TimeoutsFit
  <2>. QED  BY <2>1, <2>2, <2>3 DEF TypeOK, Types
<1>2. StagesOK'
  BY DEF StagesOK
<1>3. ContextOK' /\ WriteCovers' /\ GraceCovers'
  BY DEF ContextOK, WriteCovers, GraceCovers
<1>4. CountsCover'
  <2>. SUFFICES ASSUME NEW k \in Classes
                PROVE  received[k] + Cardinality(Sending(k)') <= total[k]
    BY DEF CountsCover
  <2>1. Sending(k)' = {}
    BY DEF Sending
  <2>2. Cardinality(Sending(k)') = 0
    BY <2>1, FS_EmptySet
  <2>3. received[k] + Cardinality(Sending(k)) <= total[k]
    BY DEF CountsCover
  <2>4. received[k] \in Nat /\ total[k] \in Nat /\ Cardinality(Sending(k)) \in Nat
    BY SendingIsFinite, FS_CardinalityType DEF TypeOK
  <2>. QED  BY <2>2, <2>3, <2>4
<1>. QED  BY <1>1, <1>2, <1>3, <1>4

LEMMA RestartKeeps ==
  ASSUME ServerInv, Restart
  PROVE  ServerInv'
<1>. USE DEF ServerInv, Restart, Restarts, clientVars, contextVars, handlerVars, timerVars, boundVars
<1>1. TypeOK'
  BY DEF TypeOK, Phases, StartPhases, NoCounts
<1>2. StagesOK' /\ ContextOK' /\ WriteCovers'
  BY DEF StagesOK, ContextOK, WriteCovers
<1>3. GraceCovers'
  BY DEF GraceCovers, EndPhases
<1>4. CountsCover'
  <2>. SUFFICES ASSUME NEW k \in Classes
                PROVE  0 + Cardinality(Sending(k)') <= 0
    BY DEF CountsCover, NoCounts
  <2>1. Sending(k)' = {}
    BY DEF Sending, StagesOK
  <2>. QED  BY <2>1, FS_EmptySet
<1>. QED  BY <1>1, <1>2, <1>3, <1>4

(***************************************************************************)
(* Time takes the same from every timer: those that lie within each other  *)
(* still do.                                                               *)
(***************************************************************************)
LEMMA TickKeeps ==
  ASSUME ServerInv, Tick
  PROVE  ServerInv'
<1>. USE TimeoutsFit DEF ServerInv, Tick, contextVars, handlerVars, metricVars, boundVars
<1>1. \A c \in Clients :
        /\ timer'[c] = Less(timer[c]) /\ timer[c] \in Nat
        /\ write'[c] = Less(write[c]) /\ write[c] \in Nat
  BY DEF TypeOK
<1>2. TypeOK'
  <2>1. \A c \in Clients :
          /\ Less(timer[c]) \in 0..ReadTimeout \cup 0..HandlerTimeout
          /\ Less(write[c]) \in 0..WriteTimeout
    <3>1. \A n \in Nat : \A m \in 0..n : Less(m) \in 0..n
      BY DEF Less
    <3>2. \A c \in Clients :
            /\ timer[c] \in 0..ReadTimeout \/ timer[c] \in 0..HandlerTimeout
            /\ write[c] \in 0..WriteTimeout
      BY DEF TypeOK
    <3>. QED  BY <3>1, <3>2
  <2>2. grace' \in 0..ShutdownTimeout
    BY DEF TypeOK, Less
  <2>3. /\ timer' \in [Clients -> 0..ReadTimeout \cup 0..HandlerTimeout]
        /\ write' \in [Clients -> 0..WriteTimeout]
    BY <2>1
  <2>. QED  BY <2>2, <2>3 DEF TypeOK
<1>3. StagesOK' /\ ContextOK'
  BY DEF StagesOK, ContextOK
<1>4. WriteCovers'
  <2>. SUFFICES ASSUME NEW c \in Clients
                PROVE  /\ stage[c] = "body" => timer'[c] + HandlerTimeout <= write'[c]
                       /\ stage[c] = "handler" => timer'[c] <= write'[c]
                       /\ stage[c] # "flush"
    BY DEF WriteCovers
  <2>1. Waits(c)
    OBVIOUS
  <2>2. CASE stage[c] = "body"
    BY <1>1, <2>1, <2>2 DEF WriteCovers, Waits, Less
  <2>3. CASE stage[c] = "handler"
    BY <1>1, <2>3 DEF WriteCovers, Less
  <2>. QED  BY <2>1, <2>2, <2>3 DEF Waits
<1>5. GraceCovers'
  <2>1. grace \in Nat /\ early \subseteq Clients
    BY DEF TypeOK
  <2>. QED  BY <1>1, <2>1 DEF GraceCovers, Less
<1>6. CountsCover'
  BY NoNewAnswer
<1>. QED  BY <1>2, <1>3, <1>4, <1>5, <1>6

--------------------------------------------------------------------------------
(***************************************************************************)
(* The invariant, and what follows from it.                                *)
(***************************************************************************)
LEMMA InitServerInv == Init => ServerInv
<1>. SUFFICES ASSUME Init PROVE ServerInv
  OBVIOUS
<1>. USE DEF Init
<1>1. TypeOK
  <2>1. /\ phase \in Phases /\ listener \in Listeners /\ grace \in 0..ShutdownTimeout
        /\ stage \in [Clients -> Stages]
    BY TimeoutsFit DEF Phases, StartPhases, Listeners, Stages
  <2>2. /\ jsonBody \in [Clients -> Types] /\ clientID \in [Clients -> BOOLEAN]
        /\ calls \in [Clients -> Seq(Stores)]
    BY DEF Types
  <2>3. /\ timer \in [Clients -> 0..ReadTimeout \cup 0..HandlerTimeout]
        /\ write \in [Clients -> 0..WriteTimeout]
    BY TimeoutsFit
  <2>4. total \in [Classes -> Nat] /\ received \in [Classes -> Nat]
    BY DEF NoCounts
  <2>. QED  BY <2>1, <2>2, <2>3, <2>4 DEF TypeOK, Types
<1>2. StagesOK
  BY DEF StagesOK
<1>3. ContextOK /\ WriteCovers /\ GraceCovers
  BY DEF ContextOK, WriteCovers, GraceCovers
<1>4. CountsCover
  <2>. SUFFICES ASSUME NEW k \in Classes
                PROVE  0 + Cardinality(Sending(k)) <= 0
    BY DEF CountsCover, NoCounts
  <2>1. Sending(k) = {}
    BY DEF Sending
  <2>. QED  BY <2>1, FS_EmptySet
<1>. QED  BY <1>1, <1>2, <1>3, <1>4 DEF ServerInv

LEMMA NextServerInv == ServerInv /\ [Next]_vars => ServerInv'
<1>. SUFFICES ASSUME ServerInv, [Next]_vars PROVE ServerInv'
  OBVIOUS
<1>1. ASSUME NEW c \in Clients, Connect(c) \/ HangUp(c) PROVE ServerInv'
  BY <1>1, ConnectionKeeps
<1>2. ASSUME NEW c \in Clients, Arrive(c) PROVE ServerInv'
  BY <1>2, ArriveKeeps
<1>3. ASSUME NEW c \in Clients, Disconnect(c) PROVE ServerInv'
  BY <1>3, DisconnectKeeps
<1>4. ASSUME NEW c \in Clients, ReadBody(c) \/ BadBody(c) PROVE ServerInv'
  BY <1>4, BodyKeeps
<1>5. ASSUME NEW c \in Clients, Call(c) PROVE ServerInv'
  BY <1>5, CallKeeps
<1>6. ASSUME NEW c \in Clients, Reply(c) PROVE ServerInv'
  BY <1>6, ReplyKeeps
<1>7. ASSUME NEW c \in Clients,
             Reject(c) \/ Return(c) \/ CommandFails(c) \/ NoConnection(c)
      PROVE  ServerInv'
  BY <1>7, RespondingKeeps
<1>8. ASSUME NEW c \in Clients, Flush(c) PROVE ServerInv'
  BY <1>8, FlushKeeps
<1>9. CASE StartStep \/ Listen \/ ListenFails \/ Shutdown \/ ShutdownReturns \/ Close
  BY <1>9, RunKeeps
<1>10. CASE Exit \/ Fails
  <2>1. stopped' \in BOOLEAN /\ faults' \in Nat
    BY <1>10 DEF Exit, Fails, ServerInv, TypeOK
  <2>. QED  BY <1>10, <2>1, DieKeeps DEF Exit, Fails
<1>11. CASE Stop
  <2>1. stopped' \in BOOLEAN /\ faults' \in Nat
    BY <1>11 DEF Stop, ServerInv, TypeOK
  <2>2. CASE Die
    BY <2>1, <2>2, DieKeeps
  <2>3. CASE UNCHANGED <<phase, listener, grace, clientVars, metricVars, accepted>>
    BY <2>1, <2>3, NoNewAnswer
    DEF ServerInv, TypeOK, StagesOK, ContextOK, WriteCovers, GraceCovers, clientVars,
        contextVars, handlerVars, timerVars, metricVars
  <2>. QED  BY <1>11, <2>2, <2>3 DEF Stop
<1>12. CASE Restart
  BY <1>12, RestartKeeps
<1>13. CASE Tick
  BY <1>13, TickKeeps
<1>14. CASE UNCHANGED vars
  BY <1>14, NoNewAnswer
  DEF ServerInv, TypeOK, StagesOK, ContextOK, WriteCovers, GraceCovers, vars, processVars,
      clientVars, contextVars, handlerVars, timerVars, metricVars, boundVars
<1>. QED  BY <1>1, <1>2, <1>3, <1>4, <1>5, <1>6, <1>7, <1>8, <1>9, <1>10, <1>11, <1>12,
             <1>13, <1>14 DEF Next, Run

(***************************************************************************)
(* ServerInv holds in every state of HTTPServer.                           *)
(***************************************************************************)
THEOREM ServerSafety == Spec => []ServerInv
BY InitServerInv, NextServerInv, PTL DEF Spec

(***************************************************************************)
(* Whatever is requested, a handler finds the body it asserts and, behind  *)
(* a private route, the user.                                              *)
(***************************************************************************)
THEOREM NoHandlerPanics == Spec => []NoPanic
<1>1. ServerInv => NoPanic
  <2>. SUFFICES ASSUME ServerInv, NEW c \in Clients, stage[c] = "handler"
                PROVE  /\ Routed(req[c])
                       /\ Handler(req[c]) \in DOMAIN Asserted =>
                            jsonBody[c] = Asserted[Handler(req[c])]
                       /\ Handler(req[c]) \in Private => clientID[c]
    BY DEF NoPanic
  <2>1. Routed(req[c]) /\ Route[Handler(req[c])] = req[c]
    BY RouteOfHandler DEF ServerInv, ContextOK
  <2>. QED  BY <2>1, ValidationAgrees DEF ServerInv, ContextOK
<1>. QED  BY <1>1, ServerSafety, PTL

(***************************************************************************)
(* No client has an answer that the metrics have not counted, with its     *)
(* status.                                                                 *)
(***************************************************************************)
THEOREM AllAnswersAreCounted == Spec => []AnswersAreCounted
<1>1. ServerInv => AnswersAreCounted
  <2>. SUFFICES ASSUME ServerInv, NEW k \in Classes PROVE received[k] <= total[k]
    BY DEF AnswersAreCounted
  <2>1. received[k] + Cardinality(Sending(k)) <= total[k]
    BY DEF ServerInv, CountsCover
  <2>2. received[k] \in Nat /\ total[k] \in Nat /\ Cardinality(Sending(k)) \in Nat
    BY SendingIsFinite, FS_CardinalityType DEF ServerInv, TypeOK
  <2>. QED  BY <2>1, <2>2
<1>. QED  BY <1>1, ServerSafety, PTL

(***************************************************************************)
(* An answer is lost to WriteTimeout only if its handler outlasted its     *)
(* context.                                                                *)
(***************************************************************************)
THEOREM LostAnswersAreLate == Spec => []LostIsLate
<1>1. ServerInv => LostIsLate
  BY DEF ServerInv, WriteCovers, LostIsLate, Delivered
<1>. QED  BY <1>1, ServerSafety, PTL

(***************************************************************************)
(* When the stores are closed, every handler that began before Shutdown    *)
(* has had all of its own time.                                            *)
(***************************************************************************)
THEOREM NoHandlerIsCutShort == Spec => []ClosedIsOverdue
<1>1. ServerInv => ClosedIsOverdue
  BY DEF ServerInv, GraceCovers, ClosedIsOverdue
<1>. QED  BY <1>1, ServerSafety, PTL

=============================================================================
