---------------------------- MODULE LocalServer ----------------------------
(***************************************************************************)
(* The local server of one plugin process:                                 *)
(* crates/aurify-plugin-core/src/local_server.rs.                          *)
(*                                                                         *)
(* One server thread takes requests from the HTTP library's queue and      *)
(* answers them one at a time; an operation's handler runs on that thread. *)
(* Any thread may call stop(), which raises a flag, takes the thread's     *)
(* handle under a mutex and joins the thread without letting go of the     *)
(* mutex.  HandlerStops says whether the plugin's handler may call stop()  *)
(* too, on the server thread itself.                                       *)
(*                                                                         *)
(* The stop flag is stored and loaded Relaxed.  It is a single variable,   *)
(* so its coherence order is the order of the stores and loads here.       *)
(***************************************************************************)
EXTENDS Protocol

CONSTANTS
  Stoppers,       \* threads of the plugin that call stop() or drop the server
  Server,         \* the server thread, as a caller of stop()
  HandlerStops,   \* may the operation handler call stop()?
  NoOne,          \* holder of a free mutex
  Requests,       \* the requests clients send
  NoRequest,      \* the server thread is handling nothing
  AcceptFailure,  \* the HTTP library's note that its accept thread gave up
  MaxSent         \* bound on the requests sent in a behaviour

ASSUME LocalServerAssumption ==
  /\ Server \notin Stoppers
  /\ NoOne \notin Stoppers \cup {Server}
  /\ HandlerStops \in BOOLEAN
  /\ NoRequest \notin Requests
  /\ AcceptFailure \notin Requests
  /\ MaxSent \in Nat
  /\ Requests \subseteq RequestType

Callers == Stoppers \cup {Server}
Statuses == {"starting", "ready", "failed"}

VARIABLES
  stop,       \* the AtomicBool
  handle,     \* the Option<JoinHandle> behind the mutex is Some
  lock,       \* who holds that mutex
  poisoned,   \* a thread panicked while it held it
  loop,       \* where the server thread is
  current,    \* the request it is handling
  pc,         \* pc[c]: where caller c is in stop()
  health,     \* the status the plugin last set
  queue,      \* the HTTP library's queue, requests and failures in order
  listening,  \* the listening socket is open
  sent,       \* history: the requests clients sent
  answers,    \* history: the requests answered, each with its reply
  late        \* history: operations begun after the flag was raised

stopVars == <<stop, handle, lock, poisoned, pc>>
clientVars == <<queue, listening, sent>>
vars == <<stopVars, loop, current, health, clientVars, answers, late>>

Init ==
  /\ stop = FALSE
  /\ handle = TRUE
  /\ lock = NoOne
  /\ poisoned = FALSE
  /\ loop = "check"
  /\ current = NoRequest
  /\ pc = [c \in Callers |-> "out"]
  /\ health = "starting"
  /\ queue = <<>>
  /\ listening = TRUE
  /\ sent = <<>>
  /\ answers = <<>>
  /\ late = 0

-----------------------------------------------------------------------------
(* The server thread. *)

\* Mutated: the flag is not read.
CheckStopNever ==
  /\ loop = "check"
  /\ loop' = "recv"
  /\ UNCHANGED <<stopVars, current, health, clientVars, answers, late>>

\* Mutated: nothing is served before the plugin says it is ready.
CheckStopReady ==
  /\ loop = "check"
  /\ loop' = IF stop THEN "exited" ELSE IF health = "ready" THEN "recv" ELSE "check"
  /\ UNCHANGED <<stopVars, current, health, clientVars, answers, late>>

\* The loop's condition, read again after every request and every timeout.
CheckStop ==
  /\ loop = "check"
  /\ loop' = IF stop THEN "exited" ELSE "recv"
  /\ UNCHANGED <<stopVars, current, health, clientVars, answers, late>>

\* Mutated: the flag is read between a request's arrival and its handling.
ReceiveOrStop ==
  /\ loop = "recv"
  /\ queue # <<>>
  /\ queue' = Tail(queue)
  /\ IF stop \/ Head(queue) = AcceptFailure
     THEN loop' = "exited" /\ UNCHANGED current
     ELSE loop' = "handle" /\ current' = Head(queue)
  /\ UNCHANGED <<stopVars, health, listening, sent, answers, late>>

\* recv_timeout hands over the head of the queue; a failure ends the loop.
Receive ==
  /\ loop = "recv"
  /\ queue # <<>>
  /\ queue' = Tail(queue)
  /\ IF Head(queue) = AcceptFailure
     THEN loop' = "exited" /\ UNCHANGED current
     ELSE loop' = "handle" /\ current' = Head(queue)
  /\ UNCHANGED <<stopVars, health, listening, sent, answers, late>>

\* ACCEPT_POLL went by with nothing to handle.
RecvTimeout ==
  /\ loop = "recv"
  /\ queue = <<>>
  /\ loop' = "check"
  /\ UNCHANGED <<stopVars, current, health, clientVars, answers, late>>

\* The current request is answered and the server thread goes on to where.
Answer(reply, where) ==
  /\ answers' = Append(answers, [request |-> current, reply |-> reply])
  /\ current' = NoRequest
  /\ loop' = where

\* `handle`, up to the call of the operation's handler.
Handle ==
  /\ loop = "handle"
  /\ \/ /\ Runs(current)
        /\ loop' = "handler"
        /\ late' = IF stop THEN late + 1 ELSE late
        /\ UNCHANGED <<current, answers>>
     \/ /\ ~Runs(current)
        /\ Answer(DirectAnswer(current, health), "check")
        /\ UNCHANGED late
  /\ UNCHANGED <<stopVars, health, clientVars>>

\* The handler is not inside a call of stop().
HandlerFree == loop = "handler" /\ pc[Server] \notin {"locking", "joining"}

HandlerReturns(ok) ==
  /\ HandlerFree
  /\ Answer(OperationAnswer(ok), "check")
  /\ UNCHANGED <<stopVars, health, clientVars, late>>

\* The request is dropped unanswered and the HTTP library answers for it.
HandlerPanics ==
  /\ HandlerFree
  /\ Answer(Refusal(500, "DROPPED"), "unwinding")
  /\ UNCHANGED <<stopVars, health, clientVars, late>>

\* The panic leaves the closure and the server thread ends.
Unwound ==
  /\ loop = "unwinding"
  /\ loop' = "exited"
  /\ UNCHANGED <<stopVars, current, health, clientVars, answers, late>>

-----------------------------------------------------------------------------
(* The plugin's threads. *)

SetHealth(status) ==
  /\ health' = status
  /\ UNCHANGED <<stopVars, loop, current, clientVars, answers, late>>

\* stop() is called, for the first time or again, and raises the flag.
CallStop(c) ==
  /\ pc[c] \in {"out", "returned"}
  /\ c = Server => HandlerStops /\ loop = "handler"
  /\ stop' = TRUE
  /\ pc' = [pc EXCEPT ![c] = "locking"]
  /\ UNCHANGED <<handle, lock, poisoned, loop, current, health, clientVars, answers, late>>

\* Mutated: a caller that finds the mutex held does not wait for it.
NothingToJoinTryLock(c) ==
  /\ pc[c] = "locking"
  /\ lock # NoOne \/ poisoned \/ ~handle
  /\ pc' = [pc EXCEPT ![c] = "returned"]
  /\ UNCHANGED <<stop, handle, lock, poisoned, loop, current, health, clientVars, answers, late>>

\* The lock is poisoned, or the handle is gone: stop() returns at once.
NothingToJoin(c) ==
  /\ pc[c] = "locking"
  /\ lock = NoOne
  /\ poisoned \/ ~handle
  /\ pc' = [pc EXCEPT ![c] = "returned"]
  /\ UNCHANGED <<stop, handle, lock, poisoned, loop, current, health, clientVars, answers, late>>

\* The handle is taken; the lock stays held while its taker joins.
TakeHandle(c) ==
  /\ pc[c] = "locking"
  /\ lock = NoOne
  /\ ~poisoned
  /\ handle
  /\ handle' = FALSE
  /\ lock' = c
  /\ pc' = [pc EXCEPT ![c] = "joining"]
  /\ UNCHANGED <<stop, poisoned, loop, current, health, clientVars, answers, late>>

\* The join returns once the thread has exited, and the lock is released.
Joined(c) ==
  /\ pc[c] = "joining"
  /\ loop = "exited"
  /\ lock' = NoOne
  /\ pc' = [pc EXCEPT ![c] = "returned"]
  /\ UNCHANGED <<stop, handle, poisoned, loop, current, health, clientVars, answers, late>>

(***************************************************************************)
(* A thread that joins itself: the join either never returns (this action  *)
(* is never taken) or panics, unwinding through stop(), whose guard        *)
(* poisons the mutex, and through the handler, whose request is dropped.   *)
(***************************************************************************)
SelfJoinPanics ==
  /\ pc[Server] = "joining"
  /\ poisoned' = TRUE
  /\ lock' = NoOne
  /\ pc' = [pc EXCEPT ![Server] = "out"]
  /\ Answer(Refusal(500, "DROPPED"), "unwinding")
  /\ UNCHANGED <<stop, handle, health, clientVars, late>>

-----------------------------------------------------------------------------
(* The clients, and the HTTP library's accept thread. *)

ClientSends(request) ==
  /\ listening
  /\ Len(sent) < MaxSent
  /\ sent' = Append(sent, request)
  /\ queue' = Append(queue, request)
  /\ UNCHANGED <<stopVars, loop, current, health, listening, answers, late>>

\* accept() fails: the accept thread leaves a note in the queue and ends.
AcceptFails ==
  /\ listening
  /\ loop # "exited"
  /\ listening' = FALSE
  /\ queue' = Append(queue, AcceptFailure)
  /\ UNCHANGED <<stopVars, loop, current, health, sent, answers, late>>

\* The server object died with its thread; its accept thread closes the
\* socket when it gets round to it.
SocketCloses ==
  /\ listening
  /\ loop = "exited"
  /\ listening' = FALSE
  /\ UNCHANGED <<stopVars, loop, current, health, queue, sent, answers, late>>

-----------------------------------------------------------------------------
ServerThread ==
  \/ CheckStop
  \/ Receive
  \/ RecvTimeout
  \/ Handle
  \/ HandlerPanics
  \/ Unwound
  \/ \E ok \in BOOLEAN : HandlerReturns(ok)

StopCall(c) == CallStop(c) \/ NothingToJoin(c) \/ TakeHandle(c) \/ Joined(c)

Outside ==
  \/ AcceptFails
  \/ SocketCloses
  \/ \E request \in Requests : ClientSends(request)

Next ==
  \/ ServerThread
  \/ \E c \in Callers : StopCall(c)
  \/ SelfJoinPanics
  \/ \E status \in Statuses : SetHealth(status)
  \/ Outside

Spec == Init /\ [][Next]_vars

(***************************************************************************)
(* The scheduler runs the server thread and the threads inside stop().     *)
(* Nothing obliges a handler to return, a client to send, a plugin to call *)
(* stop(), or a join of oneself to panic.                                  *)
(***************************************************************************)
Fairness ==
  /\ WF_vars(CheckStop \/ Receive \/ RecvTimeout \/ Handle \/ Unwound)
  /\ \A c \in Callers : WF_vars(NothingToJoin(c) \/ TakeHandle(c) \/ Joined(c))

FairSpec == Spec /\ Fairness

-----------------------------------------------------------------------------
(* Properties. *)

\* Every variable holds a value of its type (the types of LocalServer and
\* of its server thread).
TypeOK ==
  /\ stop \in BOOLEAN
  /\ handle \in BOOLEAN
  /\ lock \in Callers \cup {NoOne}
  /\ poisoned \in BOOLEAN
  /\ loop \in {"check", "recv", "handle", "handler", "unwinding", "exited"}
  /\ current \in Requests \cup {NoRequest}
  /\ pc \in [Callers -> {"out", "locking", "joining", "returned"}]
  /\ health \in Statuses
  /\ queue \in Seq(Requests \cup {AcceptFailure})
  /\ listening \in BOOLEAN
  /\ sent \in Seq(Requests)
  /\ Len(sent) <= MaxSent
  /\ answers \in Seq([request : Requests, reply : Replies])
  /\ late \in Nat

\* "Every caller returns only once the thread has exited, including a second
\* caller that arrives while the first is still waiting" (the doc of stop).
StopReturnsAfterExit ==
  \A c \in Callers : pc[c] = "returned" => loop = "exited"

\* The weaker promise that also holds when handlers call stop(): an early
\* return comes only from the mutex such a handler poisoned, and then the
\* server thread is already on its way out and runs nothing more.
EarlyReturnOnlyWhenUnwinding ==
  \A c \in Callers : pc[c] = "returned" =>
    loop = "exited" \/ (poisoned /\ loop = "unwinding")

\* However stop() and the requests interleave, at most one operation begins
\* after the flag is raised: the one the thread was already receiving.
AtMostOneLate == late <= 1

\* How many requests the server thread has taken from the queue.
Taken == Len(answers) + (IF current = NoRequest THEN 0 ELSE 1)

\* Requests are answered in the order they were sent, each once, and none is
\* lost between the queue, `handle` and a handler that panics: what is
\* answered, being handled and waiting is what was sent, one after the other.
NoRequestLost ==
  /\ Taken <= Len(sent) /\ Len(sent) <= Taken + Len(queue)
  /\ \A n \in DOMAIN sent :
       sent[n] = IF n <= Len(answers) THEN answers[n].request
                 ELSE IF n <= Taken THEN current ELSE queue[n - Taken]
  /\ \A i \in DOMAIN queue : queue[i] # AcceptFailure => Taken + i <= Len(sent)

\* The statuses contracts/local-protocol.openapi.json lists for a route; a
\* handler that panics adds the HTTP library's 500.
Contract(req) ==
  IF req.path = "outside" THEN {404}
  ELSE IF req.method = "GET" /\ req.path \in {"health", "manifest"} THEN {200, 401}
  ELSE IF ~IsOperationRoute(req) THEN {401, 405}
  ELSE IF req.path \in Operations THEN {200, 400, 401, 413, 422, 500}
  ELSE {401, 404}

\* The body the contract asks for: none, or one JSON object.
Fits(req) ==
  LET text == {k \in DOMAIN req.body : req.body[k] # "space"}
  IN  text = {} \/ \E k \in text : text = {k} /\ req.body[k] = "object"

FollowsContract(req, status) ==
  /\ status \in Contract(req)
  /\ status = 401 <=> req.path # "outside" /\ (req.secrets = <<>> \/ req.secrets[1] # Secret)
  /\ status = 413 => req.length \in Nat /\ req.length > MaxBodyBytes
  /\ Len(req.body) <= MaxBodyBytes =>
       /\ status = 400 => ~Fits(req)
       /\ status \in {200, 422} /\ req.method = "POST" => Fits(req)

\* Every answer has a status the contract lists for its route, and has it for
\* the contract's reason: 401 exactly when the caller has not the secret, 413
\* only for a length above the limit; and of bodies within the limit, those
\* that are not empty and not one JSON object are refused with 400, and no
\* others.
AnswersFollowContract ==
  \A i \in DOMAIN answers : FollowsContract(answers[i].request, answers[i].reply.status)

\* A caller without the secret gets one and the same answer wherever it
\* knocks under the prefix: it cannot tell a missing secret from a wrong one,
\* nor which routes and operations exist ("telling them apart would let a
\* guessing process learn that it is getting warmer").
UnvouchedLearnNothing ==
  \A i, j \in DOMAIN answers :
    (\A k \in {i, j} : ~SecretMatches(answers[k].request) /\ answers[k].request.path # "outside")
      => answers[i].reply = answers[j].reply

\* No handler keeps the server thread for ever: it returns or panics, and so
\* does a join of itself that it got into.
HandlersReturn == []<>(loop # "handler")

\* Every call of stop() returns, if handlers do.
EveryStopReturns ==
  HandlersReturn => \A c \in Stoppers : pc[c] = "locking" ~> pc[c] = "returned"

\* Every request is answered unless the server goes down first, if handlers
\* return: no request is left waiting by the polling loop.
EveryRequestAnswered ==
  HandlersReturn =>
    \A n \in 1..MaxSent : Len(sent) = n ~> Len(answers) >= n \/ loop = "exited"

\* The server implements the promise made to the plugin that started it: it
\* is down once its thread runs nothing more, and the operation a stop cannot
\* prevent is the late one.
Promise ==
  INSTANCE ServerPromise WITH
    Users <- Callers,
    phase <- IF loop \in {"unwinding", "exited"} THEN "down"
             ELSE IF stop THEN "stopping" ELSE "serving",
    running <- loop = "handler",
    spare <- late = 0,
    returned <- {c \in Callers : pc[c] = "returned"}

KeepsPromise == Promise!Spec
=============================================================================
