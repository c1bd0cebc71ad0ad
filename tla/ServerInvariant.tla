--------------------------- MODULE ServerInvariant ---------------------------
(***************************************************************************)
(* The inductive invariant of HTTPServer: what TLC checks as an invariant  *)
(* and HTTPServerProofs proves.                                            *)
(***************************************************************************)
EXTENDS HTTPServer

(***************************************************************************)
(* What is set in which stage; a process that has ended has no connection. *)
(***************************************************************************)
StagesOK ==
  /\ \A c \in Clients :
       /\ stage[c] \in {"body", "handler"} => req[c] \in Requests
       /\ stage[c] = "flush" <=> status[c] # 0
       /\ holds[c] # "none" => stage[c] = "handler"
       /\ c \in early => stage[c] \in {"handler", "flush"}
  /\ phase = "exited" =>
       listener = "none" /\ \A c \in Clients : stage[c] = "free"

(***************************************************************************)
(* What a handler finds in the context of its request.                     *)
(***************************************************************************)
ContextOK ==
  \A c \in Clients :
    stage[c] = "handler" =>
      /\ Routed(req[c])
      /\ JSONValidation(req[c]) # "none" => jsonBody[c] = JSONValidation(req[c])
      /\ Handler(req[c]) \in Private => clientID[c]

(***************************************************************************)
(* The timers of a request lie within each other: what is left to write is *)
(* enough for the rest of the body and a handler, and later for the rest   *)
(* of the handler.                                                         *)
(***************************************************************************)
WriteCovers ==
  \A c \in Clients :
    /\ stage[c] = "body" => timer[c] + HandlerTimeout <= write[c]
    /\ stage[c] = "handler" => timer[c] <= write[c]
    /\ stage[c] = "flush" => write[c] > 0 \/ c \in late

(***************************************************************************)
(* And so does the timer of an early handler within that of Shutdown.      *)
(***************************************************************************)
GraceCovers ==
  \A c \in early :
    stage[c] = "handler" =>
      /\ timer[c] <= HandlerTimeout
      /\ phase = "shutdown" => timer[c] <= grace
      /\ phase \in EndPhases => timer[c] = 0

(***************************************************************************)
(* An answer is counted before it is sent.                                 *)
(***************************************************************************)
Sending(class) == {c \in Clients : stage[c] = "flush" /\ status[c] = class}

CountsCover ==
  \A class \in Classes : received[class] + Cardinality(Sending(class)) <= total[class]

ServerInv ==
  /\ TypeOK
  /\ StagesOK
  /\ ContextOK
  /\ WriteCovers
  /\ GraceCovers
  /\ CountsCover

================================================================================
