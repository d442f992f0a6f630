------------------------- MODULE LocalServerProofs -------------------------
(***************************************************************************)
(* Theorems about LocalServer, for every set of threads, clients and       *)
(* requests.  Everything rests on one inductive invariant, IInv.           *)
(***************************************************************************)
EXTENDS LocalServer, TLAPS, SequenceTheorems

(***************************************************************************)
(* The inductive invariant, in named parts.                                *)
(***************************************************************************)

\* The server thread holds a request exactly while it handles it.
Busy == current # NoRequest <=> loop \in {"handle", "handler"}

\* The server thread calls stop() only from inside a handler, and only if
\* handlers do so.
CallsFromHandler ==
  /\ pc[Server] \in {"locking", "joining"} => loop = "handler"
  /\ ~HandlerStops => pc[Server] = "out"

\* The holder of the mutex is the caller that joins.
HolderJoins == \A c \in Callers : pc[c] = "joining" <=> lock = c

\* A handle that is gone was taken by a caller that still joins, that saw the
\* thread exit, or that panicked.
HandleTaken == ~handle => loop = "exited" \/ lock # NoOne \/ poisoned

\* Only a handler that joined its own thread poisons the mutex.
PoisonedBySelfJoin == poisoned => HandlerStops /\ loop \in {"unwinding", "exited"}

\* The late operation was received before the flag was raised, and no other
\* request is received after it.
LateIsLast ==
  late = 0 \/ (late = 1 /\ stop /\ loop \in {"handler", "check", "unwinding", "exited"})

IInv ==
  /\ TypeOK
  /\ Busy
  /\ CallsFromHandler
  /\ HolderJoins
  /\ HandleTaken
  /\ PoisonedBySelfJoin
  /\ EarlyReturnOnlyWhenUnwinding
  /\ LateIsLast

-----------------------------------------------------------------------------
(* Lemmas about the answers. *)

\* What `handle` answers without running an operation is a reply.
LEMMA DirectAnswerType ==
  ASSUME NEW request, NEW status \in Statuses
  PROVE  DirectAnswer(request, status) \in Replies
  BY DEF DirectAnswer, Refusal, Replies, Statuses

\* What it answers for an operation that returned is a reply too.
LEMMA OperationAnswerType ==
  ASSUME NEW ok \in BOOLEAN
  PROVE  OperationAnswer(ok) \in Replies
  BY DEF OperationAnswer, Replies

\* So is the HTTP library's answer for a request that was dropped.
LEMMA DroppedType == Refusal(500, "DROPPED") \in Replies
  BY DEF Refusal, Replies

-----------------------------------------------------------------------------
(* The inductive invariant. *)

LEMMA InitInvariant == Init => IInv
<1> SUFFICES ASSUME Init PROVE IInv
  OBVIOUS
<1>1. TypeOK
  <2>1. queue \in Seq(Requests \cup {AcceptFailure})
        /\ answers \in Seq([request : Requests, reply : Replies])
    BY DEF Init
  <2>2. pc \in [Callers -> {"out", "locking", "joining", "returned"}]
    BY DEF Init
  <2>3. sent \in Seq(Requests) /\ Len(sent) <= MaxSent /\ late \in Nat
    BY LocalServerAssumption DEF Init
  <2> QED
    BY <2>1, <2>2, <2>3 DEF Init, TypeOK, Statuses
<1>2. Busy /\ CallsFromHandler /\ HandleTaken /\ PoisonedBySelfJoin /\ LateIsLast
  BY DEF Init, Callers, Busy, CallsFromHandler, HandleTaken, PoisonedBySelfJoin, LateIsLast
<1>3. HolderJoins /\ EarlyReturnOnlyWhenUnwinding
  BY LocalServerAssumption DEF Init, Callers, HolderJoins, EarlyReturnOnlyWhenUnwinding
<1> QED
  BY <1>1, <1>2, <1>3 DEF IInv

\* No step of the server thread leaves the invariant.
LEMMA ServerThreadInvariant == IInv /\ ServerThread => IInv'
<1> SUFFICES ASSUME IInv, ServerThread PROVE IInv'
  OBVIOUS
<1> USE DEF IInv, stopVars, clientVars
<1>1. CASE CheckStop
  BY <1>1 DEF CheckStop, TypeOK, Busy, CallsFromHandler, HolderJoins, HandleTaken,
     PoisonedBySelfJoin, EarlyReturnOnlyWhenUnwinding, LateIsLast
<1>2. CASE Receive
  <2>1. Head(queue) \in Requests \cup {AcceptFailure} /\ Tail(queue) \in Seq(Requests \cup {AcceptFailure})
    BY <1>2 DEF Receive, TypeOK
  <2>2. TypeOK'
    <3>1. queue' \in Seq(Requests \cup {AcceptFailure})
      BY <1>2, <2>1 DEF Receive
    <3>2. current' \in Requests \cup {NoRequest} /\ loop' \in {"handle", "exited"}
      BY <1>2, <2>1 DEF Receive, TypeOK
    <3> QED
      BY <1>2, <3>1, <3>2 DEF Receive, TypeOK
  <2>3. Busy'
    BY <1>2, <2>1, LocalServerAssumption DEF Receive, Busy
  <2>4. CallsFromHandler' /\ HolderJoins' /\ HandleTaken' /\ PoisonedBySelfJoin'
    BY <1>2 DEF Receive, CallsFromHandler, HolderJoins, HandleTaken, PoisonedBySelfJoin
  <2>5. EarlyReturnOnlyWhenUnwinding' /\ LateIsLast'
    BY <1>2 DEF Receive, EarlyReturnOnlyWhenUnwinding, LateIsLast
  <2> QED
    BY <2>2, <2>3, <2>4, <2>5
<1>3. CASE RecvTimeout
  BY <1>3 DEF RecvTimeout, TypeOK, Busy, CallsFromHandler, HolderJoins, HandleTaken,
     PoisonedBySelfJoin, EarlyReturnOnlyWhenUnwinding, LateIsLast
<1>4. CASE Handle
  <2>1. current \in Requests
    BY <1>4 DEF Handle, TypeOK, Busy
  <2>2. DirectAnswer(current, health) \in Replies
    BY DirectAnswerType DEF TypeOK
  <2>3. TypeOK'
    <3>1. answers' \in Seq([request : Requests, reply : Replies])
      <4> DEFINE S == [request : Requests, reply : Replies]
      <4> DEFINE answer == [request |-> current, reply |-> DirectAnswer(current, health)]
      <4>1. answer \in S
        BY <2>1, <2>2
      <4>2. answers' = answers \/ answers' = Append(answers, answer)
        BY <1>4 DEF Handle, Answer
      <4>3. answers \in Seq(S)
        BY DEF TypeOK
      <4> HIDE DEF answer, S
      <4>4. answers' \in Seq(S)
        BY <4>1, <4>2, <4>3
      <4> QED
        BY <4>4 DEF S
    <3>2. late' \in Nat /\ current' \in Requests \cup {NoRequest} /\ loop' \in {"handler", "check"}
      BY <1>4, <2>1 DEF Handle, Answer, TypeOK
    <3> QED
      BY <1>4, <3>1, <3>2 DEF Handle, TypeOK
  <2>4. Busy' /\ CallsFromHandler' /\ HolderJoins' /\ HandleTaken'
    BY <1>4, <2>1, LocalServerAssumption
    DEF Handle, Answer, Busy, CallsFromHandler, HolderJoins, HandleTaken
  <2>5. PoisonedBySelfJoin' /\ EarlyReturnOnlyWhenUnwinding' /\ LateIsLast'
    BY <1>4 DEF Handle, Answer, TypeOK, PoisonedBySelfJoin, EarlyReturnOnlyWhenUnwinding, LateIsLast
  <2> QED
    BY <2>3, <2>4, <2>5
<1>5. ASSUME NEW where \in {"check", "unwinding"}, NEW reply \in Replies,
             HandlerFree, Answer(reply, where),
             UNCHANGED <<stopVars, health, clientVars, late>>
      PROVE  IInv'
  <2>1. current \in Requests
    BY <1>5 DEF HandlerFree, TypeOK, Busy
  <2>2. TypeOK'
    BY <1>5, <2>1 DEF Answer, TypeOK
  <2>3. Busy' /\ CallsFromHandler' /\ HolderJoins' /\ HandleTaken'
    BY <1>5 DEF HandlerFree, Answer, Busy, CallsFromHandler, HolderJoins, HandleTaken
  <2>4. PoisonedBySelfJoin' /\ EarlyReturnOnlyWhenUnwinding' /\ LateIsLast'
    BY <1>5 DEF HandlerFree, Answer, PoisonedBySelfJoin, EarlyReturnOnlyWhenUnwinding, LateIsLast
  <2> QED
    BY <2>2, <2>3, <2>4
<1>6. ASSUME NEW ok \in BOOLEAN, HandlerReturns(ok) PROVE IInv'
  BY <1>6, <1>5, OperationAnswerType DEF HandlerReturns
<1>7. CASE HandlerPanics
  BY <1>7, <1>5, DroppedType DEF HandlerPanics
<1>8. CASE Unwound
  BY <1>8 DEF Unwound, TypeOK, Busy, CallsFromHandler, HolderJoins, HandleTaken,
     PoisonedBySelfJoin, EarlyReturnOnlyWhenUnwinding, LateIsLast
<1> QED
  BY <1>1, <1>2, <1>3, <1>4, <1>6, <1>7, <1>8 DEF ServerThread

\* No step of a caller inside stop() leaves it: the handle is taken once, and
\* the mutex is held from there to the end of the join.
LEMMA StopCallInvariant ==
  ASSUME NEW c \in Callers
  PROVE  IInv /\ StopCall(c) => IInv'
<1> SUFFICES ASSUME IInv, StopCall(c) PROVE IInv'
  OBVIOUS
<1> USE DEF IInv
<1>1. NoOne \notin Callers /\ Server \in Callers
  BY LocalServerAssumption DEF Callers
<1>2. CASE CallStop(c)
  BY <1>1, <1>2 DEF CallStop, clientVars, TypeOK, Busy, CallsFromHandler, HolderJoins,
     HandleTaken, PoisonedBySelfJoin, EarlyReturnOnlyWhenUnwinding, LateIsLast
<1>3. CASE NothingToJoin(c)
  BY <1>1, <1>3 DEF NothingToJoin, clientVars, TypeOK, Busy, CallsFromHandler, HolderJoins,
     HandleTaken, PoisonedBySelfJoin, EarlyReturnOnlyWhenUnwinding, LateIsLast
<1>4. CASE TakeHandle(c)
  BY <1>1, <1>4 DEF TakeHandle, clientVars, TypeOK, Busy, CallsFromHandler, HolderJoins,
     HandleTaken, PoisonedBySelfJoin, EarlyReturnOnlyWhenUnwinding, LateIsLast
<1>5. CASE Joined(c)
  BY <1>1, <1>5 DEF Joined, clientVars, TypeOK, Busy, CallsFromHandler, HolderJoins,
     HandleTaken, PoisonedBySelfJoin, EarlyReturnOnlyWhenUnwinding, LateIsLast
<1> QED
  BY <1>2, <1>3, <1>4, <1>5 DEF StopCall

\* Nor does a handler that panics joining its own thread.
LEMMA SelfJoinInvariant == IInv /\ SelfJoinPanics => IInv'
<1> SUFFICES ASSUME IInv, SelfJoinPanics PROVE IInv'
  OBVIOUS
<1> USE DEF IInv
<1>1. NoOne \notin Callers /\ Server \in Callers
  BY LocalServerAssumption DEF Callers
<1>2. HandlerStops /\ loop = "handler" /\ current \in Requests
  BY LocalServerAssumption DEF SelfJoinPanics, CallsFromHandler, Busy, TypeOK
<1>3. TypeOK'
  BY <1>1, <1>2, DroppedType DEF SelfJoinPanics, Answer, clientVars, TypeOK
<1>4. Busy' /\ CallsFromHandler' /\ HandleTaken' /\ PoisonedBySelfJoin' /\ LateIsLast'
  BY <1>1, <1>2 DEF SelfJoinPanics, Answer, TypeOK, Busy, CallsFromHandler, HandleTaken,
     PoisonedBySelfJoin, LateIsLast
<1>5. HolderJoins' /\ EarlyReturnOnlyWhenUnwinding'
  BY <1>1, <1>2 DEF SelfJoinPanics, Answer, TypeOK, HolderJoins, EarlyReturnOnlyWhenUnwinding
<1> QED
  BY <1>3, <1>4, <1>5

\* Nor do a change of health, a client or the accept thread.
LEMMA OutsideInvariant ==
  IInv /\ (Outside \/ \E status \in Statuses : SetHealth(status)) => IInv'
<1> SUFFICES ASSUME IInv, Outside \/ \E status \in Statuses : SetHealth(status) PROVE IInv'
  OBVIOUS
<1>1. TypeOK'
  <2> USE DEF IInv, stopVars, clientVars
  <2>1. ASSUME NEW request \in Requests, ClientSends(request) PROVE TypeOK'
    <3>1. queue' \in Seq(Requests \cup {AcceptFailure})
      BY <2>1 DEF ClientSends, TypeOK
    <3>2. sent' \in Seq(Requests) /\ Len(sent') <= MaxSent
      BY <2>1, LocalServerAssumption DEF ClientSends, TypeOK
    <3> QED
      BY <2>1, <3>1, <3>2 DEF ClientSends, TypeOK
  <2>2. CASE AcceptFails
    <3>1. queue' \in Seq(Requests \cup {AcceptFailure})
      BY <2>2 DEF AcceptFails, TypeOK
    <3> QED
      BY <2>2, <3>1 DEF AcceptFails, TypeOK
  <2>3. CASE SocketCloses
    BY <2>3 DEF SocketCloses, TypeOK
  <2>4. ASSUME NEW status \in Statuses, SetHealth(status) PROVE TypeOK'
    BY <2>4 DEF SetHealth, TypeOK
  <2> QED
    BY <2>1, <2>2, <2>3, <2>4 DEF Outside
<1>2. UNCHANGED <<stopVars, loop, current, late>>
  BY DEF Outside, AcceptFails, SocketCloses, ClientSends, SetHealth
<1> QED
  BY <1>1, <1>2 DEF IInv, stopVars, Busy, CallsFromHandler, HolderJoins, HandleTaken,
     PoisonedBySelfJoin, EarlyReturnOnlyWhenUnwinding, LateIsLast

LEMMA StutterInvariant == IInv /\ UNCHANGED vars => IInv'
  BY DEF IInv, vars, stopVars, clientVars, TypeOK, Busy, CallsFromHandler, HolderJoins,
     HandleTaken, PoisonedBySelfJoin, EarlyReturnOnlyWhenUnwinding, LateIsLast

LEMMA NextInvariant == IInv /\ [Next]_vars => IInv'
  BY ServerThreadInvariant, StopCallInvariant, SelfJoinInvariant, OutsideInvariant,
     StutterInvariant DEF Next

\* IInv holds in every reachable state.
THEOREM Invariance == Spec => []IInv
  BY InitInvariant, NextInvariant, PTL DEF Spec

\* Every variable of the server keeps its type, for any number of threads and
\* requests (local_server.rs, LocalServer and its server thread).
THEOREM TypeCorrect == Spec => []TypeOK
<1>1. IInv => TypeOK
  BY DEF IInv
<1> QED
  BY <1>1, Invariance, PTL

\* Every stop() returns only once the server thread has exited, whoever calls
\* it and however often, as the doc of stop (local_server.rs:162-164) says,
\* unless an operation's handler stops the server from inside.
THEOREM StopWaitsForTheThread == Spec => [](~HandlerStops => StopReturnsAfterExit)
<1>1. IInv => (~HandlerStops => StopReturnsAfterExit)
  BY DEF IInv, EarlyReturnOnlyWhenUnwinding, PoisonedBySelfJoin, StopReturnsAfterExit
<1> QED
  BY <1>1, Invariance, PTL

\* Handlers that do stop it can make another stop() return early, but only
\* when the server thread is unwinding and begins no more operations.
THEOREM EarlyReturnIsHarmless == Spec => []EarlyReturnOnlyWhenUnwinding
<1>1. IInv => EarlyReturnOnlyWhenUnwinding
  BY DEF IInv
<1> QED
  BY <1>1, Invariance, PTL

\* At most one operation begins after the stop flag is raised, however many
\* requests wait and however many threads stop the server.
THEOREM OneLateOperationAtMost == Spec => []AtMostOneLate
<1>1. IInv => AtMostOneLate
  BY DEF IInv, LateIsLast, AtMostOneLate
<1> QED
  BY <1>1, Invariance, PTL

-----------------------------------------------------------------------------
(* No request is lost, and every answer is decided by Protocol. *)

\* The accept thread leaves its note when it ends, and nothing comes after it.
FailureIsLast ==
  \A i \in DOMAIN queue : queue[i] = AcceptFailure => i = Len(queue) /\ ~listening

\* An operation's answer goes to a request that passed every check, and every
\* other request has the answer of its first failed check.
DecidedBy(request, reply) ==
  \/ Runs(request) /\ (reply = Refusal(500, "DROPPED") \/ \E ok \in BOOLEAN : reply = OperationAnswer(ok))
  \/ ~Runs(request) /\ \E status \in Statuses : reply = DirectAnswer(request, status)

AnswersAreDecided ==
  /\ \A i \in DOMAIN answers : DecidedBy(answers[i].request, answers[i].reply)
  /\ loop = "handler" => Runs(current)

RInv == FailureIsLast /\ NoRequestLost /\ AnswersAreDecided

LEMMA InitRequests == Init => RInv
BY DEF Init, RInv, FailureIsLast, NoRequestLost, Taken, AnswersAreDecided

\* The part of NoRequestLost that counts.
LEMMA Counts ==
  NoRequestLost =>
    /\ Taken <= Len(sent) /\ Len(sent) <= Taken + Len(queue)
    /\ \A i \in DOMAIN queue : queue[i] # AcceptFailure => Taken + i <= Len(sent)
BY DEF NoRequestLost

\* One more answer: the request is no longer current but answered.
LEMMA AnswerRequests ==
  ASSUME IInv, RInv, NEW reply, NEW where \in {"check", "unwinding"}, current # NoRequest,
         Answer(reply, where), DecidedBy(current, reply), UNCHANGED clientVars
  PROVE  RInv'
<1>1. /\ answers \in Seq([request : Requests, reply : Replies]) /\ sent \in Seq(Requests)
      /\ queue \in Seq(Requests \cup {AcceptFailure})
  BY DEF IInv, TypeOK
<1>2. UNCHANGED <<queue, listening, sent>>
  BY DEF clientVars
<1>3. /\ answers' = Append(answers, [request |-> current, reply |-> reply])
      /\ current' = NoRequest /\ loop' = where
  BY DEF Answer
<1>4. Len(answers) \in Nat /\ Len(answers') = Len(answers) + 1 /\ DOMAIN answers' = 1 .. Len(answers) + 1
  BY <1>1, <1>3
<1>5. /\ \A i \in 1 .. Len(answers) : answers'[i] = answers[i]
      /\ answers'[Len(answers) + 1] = [request |-> current, reply |-> reply]
  BY <1>1, <1>3
<1>6. Taken = Len(answers) + 1 /\ Taken' = Len(answers) + 1
  BY <1>3, <1>4 DEF Taken
<1>7. NoRequestLost'
  <2>1. ASSUME NEW n \in DOMAIN sent
        PROVE  sent[n] = IF n <= Len(answers') THEN answers'[n].request
                         ELSE IF n <= Taken' THEN current' ELSE queue[n - Taken']
    <3>1. n \in Nat \ {0}
      BY <1>1
    <3>2. sent[n] = IF n <= Len(answers) THEN answers[n].request
                    ELSE IF n <= Taken THEN current ELSE queue[n - Taken]
      BY DEF RInv, NoRequestLost
    <3>3. CASE n <= Len(answers)
      BY <1>4, <1>5, <3>1, <3>2, <3>3
    <3>4. CASE n = Len(answers) + 1
      BY <1>4, <1>5, <1>6, <3>2, <3>4
    <3>5. CASE n > Len(answers) + 1
      BY <1>4, <1>6, <3>1, <3>2, <3>5
    <3> QED BY <1>4, <3>1, <3>3, <3>4, <3>5
  <2>2. /\ Taken' <= Len(sent) /\ Len(sent) <= Taken' + Len(queue)
        /\ \A i \in DOMAIN queue : queue[i] # AcceptFailure => Taken' + i <= Len(sent)
    BY <1>6 DEF RInv, NoRequestLost
  <2> QED BY <1>2, <2>1, <2>2 DEF NoRequestLost
<1>8. AnswersAreDecided'
  BY <1>1, <1>3, <1>4, <1>5 DEF RInv, AnswersAreDecided
<1> QED BY <1>2, <1>7, <1>8 DEF RInv, FailureIsLast

LEMMA ReceiveRequests == IInv /\ RInv /\ Receive => RInv'
<1> SUFFICES ASSUME IInv, RInv, Receive PROVE RInv'
  OBVIOUS
<1>1. /\ sent \in Seq(Requests) /\ queue \in Seq(Requests \cup {AcceptFailure})
      /\ answers \in Seq([request : Requests, reply : Replies])
  BY DEF IInv, TypeOK
<1>2. queue # <<>> /\ queue' = Tail(queue) /\ UNCHANGED <<listening, sent, answers>>
  BY DEF Receive
<1>3. /\ Len(queue) \in Nat \ {0} /\ Len(queue') = Len(queue) - 1 /\ DOMAIN queue' = 1 .. Len(queue) - 1
      /\ DOMAIN queue = 1 .. Len(queue)
      /\ \A i \in 1 .. Len(queue) - 1 : queue'[i] = queue[i + 1]
  BY <1>1, <1>2
<1>4. current = NoRequest /\ Taken = Len(answers) /\ Taken \in Nat /\ loop' # "handler"
  BY <1>1 DEF IInv, Busy, Receive, Taken
<1>5. FailureIsLast'
  BY <1>2, <1>3 DEF RInv, FailureIsLast
<1>6. AnswersAreDecided'
  BY <1>2, <1>4 DEF RInv, AnswersAreDecided
<1>7. \A n \in DOMAIN sent : sent[n] # AcceptFailure /\ n \in 1 .. Len(sent)
  BY <1>1, LocalServerAssumption
<1>8. CASE queue[1] = AcceptFailure
  <2>1. Len(queue) = 1 /\ current' = current
    BY <1>1, <1>2, <1>3, <1>8 DEF RInv, FailureIsLast, Receive
  <2>2. Taken' = Taken
    BY <1>2, <2>1 DEF Taken
  <2>3. Len(sent) = Taken
    <3>1. Len(sent) \in Nat /\ DOMAIN sent = 1 .. Len(sent)
      BY <1>1
    <3>2. Len(sent) # Taken + 1
      <4> SUFFICES ASSUME Len(sent) = Taken + 1 PROVE FALSE
        OBVIOUS
      <4>1. Taken + 1 \in DOMAIN sent /\ sent[Taken + 1] = queue[(Taken + 1) - Taken]
        BY <1>4, <3>1 DEF RInv, NoRequestLost
      <4> QED BY <1>4, <1>7, <1>8, <4>1
    <3>3. Taken <= Len(sent) /\ Len(sent) <= Taken + Len(queue)
      BY Counts DEF RInv
    <3> DEFINE m == Len(sent)
               t == Taken
    <3>4. m \in Nat /\ t \in Nat /\ t <= m /\ m <= t + 1 /\ m # t + 1
      BY <1>4, <2>1, <3>1, <3>2, <3>3
    <3>5. m = t
      <4> HIDE DEF m, t
      <4> QED BY <3>4
    <3> QED BY <3>5
  <2>4. ASSUME NEW n \in DOMAIN sent
        PROVE  sent[n] = IF n <= Len(answers) THEN answers[n].request
                         ELSE IF n <= Taken' THEN current' ELSE queue'[n - Taken']
    <3>1. n \in 1 .. Len(answers)
      BY <1>4, <1>7, <2>3
    <3> QED BY <3>1 DEF RInv, NoRequestLost
  <2>5. NoRequestLost'
    BY <1>2, <1>3, <1>4, <2>1, <2>2, <2>3, <2>4 DEF NoRequestLost
  <2> QED BY <1>5, <1>6, <2>5 DEF RInv
<1>9. CASE queue[1] # AcceptFailure
  <2>1. current' = queue[1]
    BY <1>1, <1>2, <1>9 DEF Receive
  <2>2. queue[1] \in Requests /\ current' # NoRequest
    BY <1>1, <1>3, <1>9, <2>1, LocalServerAssumption
  <2>3. Taken' = Taken + 1
    BY <1>2, <1>4, <2>2 DEF Taken
  <2>4. Taken + 1 <= Len(sent)
    BY <1>3, <1>9 DEF RInv, NoRequestLost
  <2>5. Len(sent) \in Nat /\ Len(sent) <= Taken' + Len(queue')
    BY <1>1, <1>3, <1>4, <2>3 DEF RInv, NoRequestLost
  <2>6. ASSUME NEW n \in DOMAIN sent
        PROVE  sent[n] = IF n <= Len(answers) THEN answers[n].request
                         ELSE IF n <= Taken' THEN current' ELSE queue'[n - Taken']
    <3>1. n \in 1 .. Len(sent)
      BY <1>7
    <3>2. sent[n] = IF n <= Len(answers) THEN answers[n].request ELSE queue[n - Taken]
      BY <1>4 DEF RInv, NoRequestLost
    <3>3. CASE n <= Taken + 1
      BY <1>4, <2>1, <2>3, <3>1, <3>2, <3>3
    <3>4. CASE n > Taken + 1
      <4>1. n - Taken' \in 1 .. Len(queue) - 1 /\ (n - Taken') + 1 = n - Taken
        BY <1>3, <1>4, <2>3, <2>5, <3>1, <3>4
      <4>2. queue'[n - Taken'] = queue[n - Taken]
        BY <1>3, <4>1
      <4> QED BY <1>4, <2>3, <3>1, <3>2, <3>4, <4>2
    <3> QED BY <1>4, <3>1, <3>3, <3>4
  <2>7. ASSUME NEW i \in DOMAIN queue', queue'[i] # AcceptFailure
        PROVE  Taken' + i <= Len(sent)
    <3>1. i \in 1 .. Len(queue) - 1 /\ i + 1 \in DOMAIN queue /\ queue[i + 1] # AcceptFailure
      BY <1>3, <2>7
    <3>2. Taken + (i + 1) <= Len(sent)
      BY <3>1, Counts DEF RInv
    <3> QED BY <1>3, <1>4, <2>3, <2>5, <3>1, <3>2
  <2>8. NoRequestLost'
    BY <1>2, <2>3, <2>4, <2>5, <2>6, <2>7 DEF NoRequestLost
  <2> QED BY <1>5, <1>6, <2>8 DEF RInv
<1> QED BY <1>8, <1>9

\* A request, or the note of a failure, joins the queue.
LEMMA QueueRequests ==
  ASSUME IInv, RInv, Outside
  PROVE  RInv'
<1>1. /\ sent \in Seq(Requests) /\ queue \in Seq(Requests \cup {AcceptFailure})
      /\ answers \in Seq([request : Requests, reply : Replies])
  BY DEF IInv, TypeOK
<1>2. UNCHANGED <<answers, current, loop>>
  BY DEF Outside, ClientSends, AcceptFails, SocketCloses
<1>3. Taken' = Taken /\ Taken \in Nat /\ AnswersAreDecided'
  BY <1>1, <1>2 DEF Taken, RInv, AnswersAreDecided
<1>4. Len(sent) \in Nat /\ DOMAIN sent = 1 .. Len(sent) /\ Len(queue) \in Nat /\ DOMAIN queue = 1 .. Len(queue)
  BY <1>1
<1>5. listening => Len(sent) = Taken + Len(queue)
  <2> SUFFICES ASSUME listening PROVE Len(sent) = Taken + Len(queue)
    OBVIOUS
  <2>1. /\ Taken <= Len(sent) /\ Len(sent) <= Taken + Len(queue)
        /\ \A i \in DOMAIN queue : queue[i] # AcceptFailure => Taken + i <= Len(sent)
    BY Counts DEF RInv
  <2> DEFINE m == Len(sent)
             n == Len(queue)
             t == Taken
  <2>2. m \in Nat /\ n \in Nat /\ t \in Nat /\ t <= m /\ m <= t + n
    BY <1>3, <1>4, <2>1
  <2>3. CASE Len(queue) = 0
    <3>1. n = 0
      BY <2>3
    <3>2. m = t + n
      <4> HIDE DEF m, n, t
      <4> QED BY <2>2, <3>1
    <3> QED BY <3>2
  <2>4. CASE Len(queue) # 0
    <3>1. queue[Len(queue)] # AcceptFailure /\ Len(queue) \in DOMAIN queue
      BY <1>4, <2>4 DEF RInv, FailureIsLast
    <3>2. Taken + Len(queue) <= Len(sent)
      BY <2>1, <3>1
    <3>3. m = t + n
      <4>1. t + n <= m
        BY <3>2
      <4> HIDE DEF m, n, t
      <4> QED BY <2>2, <4>1
    <3> QED BY <3>3
  <2> QED BY <2>3, <2>4
<1>6. ASSUME NEW new \in Requests \cup {AcceptFailure}, listening, queue' = Append(queue, new)
      PROVE  /\ DOMAIN queue' = 1 .. Len(queue) + 1 /\ Len(queue') = Len(queue) + 1
             /\ \A i \in 1 .. Len(queue) : queue'[i] = queue[i] /\ queue[i] # AcceptFailure
             /\ queue'[Len(queue) + 1] = new
  BY <1>1, <1>4, <1>6 DEF RInv, FailureIsLast
<1>7. ASSUME NEW request \in Requests, ClientSends(request) PROVE RInv'
  <2>1. listening /\ queue' = Append(queue, request) /\ sent' = Append(sent, request)
    BY <1>7 DEF ClientSends
  <2>2. /\ DOMAIN queue' = 1 .. Len(queue) + 1 /\ Len(queue') = Len(queue) + 1
        /\ \A i \in 1 .. Len(queue) : queue'[i] = queue[i] /\ queue[i] # AcceptFailure
        /\ queue'[Len(queue) + 1] = request
    BY <1>6, <2>1
  <2>3. request # AcceptFailure
    BY LocalServerAssumption
  <2>4. FailureIsLast'
    BY <1>4, <2>2, <2>3 DEF FailureIsLast
  <2>5. /\ Len(sent') = Len(sent) + 1 /\ DOMAIN sent' = 1 .. Len(sent) + 1
        /\ \A n \in 1 .. Len(sent) : sent'[n] = sent[n]
        /\ sent'[Len(sent) + 1] = request
    BY <1>1, <2>1
  <2>6. Len(sent) = Taken + Len(queue)
    BY <1>5, <2>1
  <2>7. Taken' <= Len(sent') /\ Len(sent') <= Taken' + Len(queue')
    BY <1>3, <1>4, <2>2, <2>5, <2>6
  <2>8. ASSUME NEW n \in DOMAIN sent'
        PROVE  sent'[n] = IF n <= Len(answers) THEN answers[n].request
                          ELSE IF n <= Taken THEN current ELSE queue'[n - Taken]
    <3>1. Len(answers) \in Nat /\ Len(answers) <= Taken
      BY <1>1 DEF Taken
    <3>2. CASE n = Len(sent) + 1
      BY <1>3, <1>4, <2>2, <2>5, <2>6, <3>1, <3>2
    <3>3. CASE n \in 1 .. Len(sent)
      <4>1. sent'[n] = IF n <= Len(answers) THEN answers[n].request
                       ELSE IF n <= Taken THEN current ELSE queue[n - Taken]
        BY <1>4, <2>5, <3>3 DEF RInv, NoRequestLost
      <4>2. n > Taken => n - Taken \in 1 .. Len(queue)
        BY <1>3, <1>4, <2>6, <3>3
      <4> QED BY <1>3, <1>4, <2>2, <3>1, <3>3, <4>1, <4>2
    <3> QED BY <1>4, <2>5, <3>2, <3>3
  <2>9. \A i \in DOMAIN queue' : Taken' + i <= Len(sent')
    BY <1>3, <1>4, <2>2, <2>5, <2>6
  <2>10. NoRequestLost'
    BY <1>2, <1>3, <2>7, <2>8, <2>9 DEF NoRequestLost
  <2> QED BY <1>3, <2>4, <2>10 DEF RInv
<1>8. CASE AcceptFails
  <2>1. listening /\ ~listening' /\ queue' = Append(queue, AcceptFailure) /\ sent' = sent
    BY <1>8 DEF AcceptFails
  <2>2. /\ DOMAIN queue' = 1 .. Len(queue) + 1 /\ Len(queue') = Len(queue) + 1
        /\ \A i \in 1 .. Len(queue) : queue'[i] = queue[i] /\ queue[i] # AcceptFailure
        /\ queue'[Len(queue) + 1] = AcceptFailure
    BY <1>6, <2>1
  <2>3. FailureIsLast'
    BY <1>4, <2>1, <2>2 DEF FailureIsLast
  <2>4. Len(sent) = Taken + Len(queue)
    BY <1>5, <2>1
  <2>5. Taken' <= Len(sent') /\ Len(sent') <= Taken' + Len(queue')
    BY <1>3, <1>4, <2>1, <2>2, <2>4
  <2>6. ASSUME NEW n \in DOMAIN sent'
        PROVE  sent'[n] = IF n <= Len(answers) THEN answers[n].request
                          ELSE IF n <= Taken THEN current ELSE queue'[n - Taken]
    <3>1. Len(answers) \in Nat /\ Len(answers) <= Taken
      BY <1>1 DEF Taken
    <3>2. sent'[n] = IF n <= Len(answers) THEN answers[n].request
                     ELSE IF n <= Taken THEN current ELSE queue[n - Taken]
      BY <2>1 DEF RInv, NoRequestLost
    <3>3. n \in 1 .. Len(sent)
      BY <1>4, <2>1
    <3>4. n > Taken => n - Taken \in 1 .. Len(queue)
      BY <1>3, <1>4, <2>4, <3>3
    <3> QED BY <1>3, <1>4, <2>2, <3>1, <3>2, <3>3, <3>4
  <2>7. \A i \in DOMAIN queue' : queue'[i] # AcceptFailure => Taken' + i <= Len(sent')
    BY <1>3, <1>4, <2>1, <2>2, <2>4
  <2>8. NoRequestLost'
    BY <1>2, <1>3, <2>5, <2>6, <2>7 DEF NoRequestLost
  <2> QED BY <1>3, <2>3, <2>8 DEF RInv
<1>9. CASE SocketCloses
  <2>1. UNCHANGED <<queue, sent, answers, current>> /\ (~listening => ~listening')
    BY <1>9 DEF SocketCloses
  <2>2. FailureIsLast'
    BY <2>1 DEF RInv, FailureIsLast
  <2>3. NoRequestLost'
    BY <1>3, <2>1 DEF RInv, NoRequestLost
  <2> QED BY <1>3, <2>2, <2>3 DEF RInv
<1> QED BY <1>7, <1>8, <1>9 DEF Outside

LEMMA NextRequests == IInv /\ RInv /\ [Next]_vars => RInv'
<1> SUFFICES ASSUME IInv, RInv, [Next]_vars PROVE RInv'
  OBVIOUS
<1>1. ASSUME UNCHANGED <<clientVars, answers, current>>, loop' = "handler" => loop = "handler" PROVE RInv'
  <2>1. UNCHANGED <<queue, listening, sent, answers, current>>
    BY <1>1 DEF clientVars
  <2>2. FailureIsLast' /\ AnswersAreDecided'
    BY <1>1, <2>1 DEF RInv, FailureIsLast, AnswersAreDecided
  <2>3. Taken' = Taken
    BY <2>1 DEF Taken
  <2>4. NoRequestLost'
    BY <2>1, <2>3 DEF RInv, NoRequestLost
  <2> QED BY <2>2, <2>4 DEF RInv
<1>2. CASE Receive
  BY <1>2, ReceiveRequests
<1>3. CASE Handle
  <2>1. current # NoRequest /\ health \in Statuses /\ UNCHANGED clientVars
    BY <1>3 DEF Handle, IInv, Busy, TypeOK
  <2>2. CASE Runs(current)
    <3>1. UNCHANGED <<queue, listening, sent, answers, current>>
      BY <1>3, <2>2 DEF Handle, clientVars
    <3>2. FailureIsLast' /\ AnswersAreDecided'
      BY <2>2, <3>1 DEF RInv, FailureIsLast, AnswersAreDecided
    <3>3. Taken' = Taken
      BY <3>1 DEF Taken
    <3>4. NoRequestLost'
      BY <3>1, <3>3 DEF RInv, NoRequestLost
    <3> QED BY <3>2, <3>4 DEF RInv
  <2>3. CASE ~Runs(current)
    <3>1. Answer(DirectAnswer(current, health), "check")
      BY <1>3, <2>3 DEF Handle
    <3>2. DecidedBy(current, DirectAnswer(current, health))
      BY <2>1, <2>3 DEF DecidedBy
    <3> QED BY <2>1, <3>1, <3>2, AnswerRequests
  <2> QED BY <2>2, <2>3
<1>4. ASSUME NEW ok \in BOOLEAN, HandlerReturns(ok) PROVE RInv'
  <2>1. current # NoRequest /\ Runs(current) /\ Answer(OperationAnswer(ok), "check") /\ UNCHANGED clientVars
    BY <1>4 DEF HandlerReturns, HandlerFree, IInv, Busy, RInv, AnswersAreDecided
  <2>2. DecidedBy(current, OperationAnswer(ok))
    BY <2>1 DEF DecidedBy
  <2> QED BY <2>1, <2>2, AnswerRequests
<1>5. CASE HandlerPanics \/ SelfJoinPanics
  <2>1. loop = "handler" /\ Answer(Refusal(500, "DROPPED"), "unwinding") /\ UNCHANGED clientVars
    BY <1>5, LocalServerAssumption DEF HandlerPanics, HandlerFree, SelfJoinPanics, IInv, CallsFromHandler
  <2>2. current # NoRequest /\ Runs(current)
    BY <2>1 DEF IInv, Busy, RInv, AnswersAreDecided
  <2>3. DecidedBy(current, Refusal(500, "DROPPED"))
    BY <2>2 DEF DecidedBy
  <2> QED BY <2>1, <2>2, <2>3, AnswerRequests
<1>6. CASE Outside
  BY <1>6, QueueRequests
<1>7. CASE CheckStop \/ RecvTimeout \/ Unwound
  BY <1>1, <1>7 DEF CheckStop, RecvTimeout, Unwound
<1>8. ASSUME NEW c \in Callers, StopCall(c) PROVE RInv'
  BY <1>1, <1>8 DEF StopCall, CallStop, NothingToJoin, TakeHandle, Joined
<1>9. ASSUME NEW status \in Statuses, SetHealth(status) PROVE RInv'
  BY <1>1, <1>9 DEF SetHealth
<1>10. CASE UNCHANGED vars
  BY <1>1, <1>10 DEF vars
<1> QED BY <1>2, <1>3, <1>4, <1>5, <1>6, <1>7, <1>8, <1>9, <1>10 DEF Next, ServerThread

LEMMA RequestInvariance == Spec => []RInv
<1> QED BY InitRequests, NextRequests, Invariance, PTL DEF Spec

\* Requests are answered in the order they were sent, each once, and none is
\* lost, however requests, failures of the accept thread, panics and stops
\* interleave.
THEOREM RequestsAreNotLost == Spec => []NoRequestLost
<1>1. RInv => NoRequestLost
  BY DEF RInv
<1> QED BY <1>1, RequestInvariance, PTL

\* Whatever requests there are: who has not the secret gets one answer under
\* the prefix, whatever it asks for.
THEOREM StrangersLearnNothing == Spec => []UnvouchedLearnNothing
<1>1. RInv => UnvouchedLearnNothing
  <2> SUFFICES ASSUME RInv, NEW i \in DOMAIN answers, ~SecretMatches(answers[i].request),
                      answers[i].request.path # "outside"
               PROVE  answers[i].reply = Refusal(401, "SECRET_REQUIRED")
    BY DEF UnvouchedLearnNothing
  <2>1. DecidedBy(answers[i].request, answers[i].reply)
    BY DEF RInv, AnswersAreDecided
  <2> QED BY <2>1 DEF DecidedBy, Runs, DirectAnswer
<1> QED BY <1>1, RequestInvariance, PTL

\* What Protocol decides follows the contract, one case for each of its early
\* returns.
LEMMA DecidedFollowsContract ==
  \A req \in RequestType : \A reply : DecidedBy(req, reply) => FollowsContract(req, reply.status)
<1> SUFFICES ASSUME NEW req \in RequestType, NEW reply, DecidedBy(req, reply)
             PROVE  FollowsContract(req, reply.status)
  OBVIOUS
<1> DEFINE Stranger == req.secrets = <<>> \/ req.secrets[1] # Secret
           Short == Len(req.body) <= MaxBodyBytes
<1>1. /\ req.method \in {"GET", "POST", "OTHER"} /\ req.length \in Nat \cup {NoLength}
      /\ req.body \in Seq(Blocks) /\ req.secrets \in Seq(STRING)
  BY DEF RequestType
<1>2. SecretMatches(req) <=> ~Stranger
  BY <1>1 DEF SecretMatches
<1>3. Short => Raw(req) = req.body
  <2> SUFFICES ASSUME Short PROVE Raw(req) = req.body
    OBVIOUS
  <2>1. MaxBodyBytes \in Nat /\ Len(req.body) \in Nat
    BY <1>1, ProtocolAssumption
  <2>2. Raw(req) = SubSeq(req.body, 1, Len(req.body))
    BY <2>1 DEF Raw
  <2> QED BY <1>1, <2>2, SubSeqFull
<1>4. Short => (Unreadable(req) => ~Fits(req))
  BY <1>3 DEF Unreadable, Fits
<1>5. Short => (Fits(req) <=> ~\E i \in Text(req) : Raw(req)[i] # "object" \/ Text(req) # {i})
  <2> SUFFICES ASSUME Short
               PROVE  Fits(req) <=> ~\E i \in Text(req) : Raw(req)[i] # "object" \/ Text(req) # {i}
    OBVIOUS
  <2>1. Text(req) = {k \in DOMAIN req.body : req.body[k] # "space"} /\ Raw(req) = req.body
    BY <1>3 DEF Text
  <2>2. Fits(req) <=> Text(req) = {} \/ \E k \in Text(req) : Text(req) = {k} /\ req.body[k] = "object"
    BY <2>1 DEF Fits
  <2> HIDE DEF Text
  <2> QED BY <2>1, <2>2
<1> HIDE DEF Stranger, Short
<1>6. SUFFICES
        /\ reply.status \in Contract(req)
        /\ reply.status = 401 <=> req.path # "outside" /\ Stranger
        /\ reply.status = 413 => req.length \in Nat /\ req.length > MaxBodyBytes
        /\ Short /\ reply.status = 400 => ~Fits(req)
        /\ Short /\ reply.status \in {200, 422} /\ req.method = "POST" => Fits(req)
  BY DEF FollowsContract, Stranger, Short
<1>7. CASE Runs(req)
  <2>1. reply.status \in {200, 422, 500}
    BY <1>7 DEF DecidedBy, Refusal, OperationAnswer
  <2>2. IsOperationRoute(req) /\ req.path \in Operations /\ SecretMatches(req) /\ ~BodyRefused(req)
    BY <1>7 DEF Runs
  <2>3. req.path # "outside" /\ req.method = "POST"
    BY <2>2 DEF IsOperationRoute
  <2>4. reply.status \in Contract(req)
    BY <2>1, <2>2, <2>3 DEF Contract
  <2>5. Short => Fits(req)
    BY <1>5, <2>2 DEF BodyRefused
  <2> QED BY <1>2, <2>1, <2>2, <2>3, <2>4, <2>5
<1>8. ASSUME ~Runs(req), req.path = "outside" \/ Stranger
      PROVE  \/ reply.status = 404 /\ req.path = "outside"
             \/ reply.status = 401 /\ req.path # "outside" /\ Stranger
  BY <1>2, <1>8 DEF DecidedBy, DirectAnswer, Refusal
<1>9. ASSUME ~Runs(req), req.path # "outside", ~Stranger, ~IsOperationRoute(req)
      PROVE  reply.status = IF req.method = "GET" /\ req.path \in {"health", "manifest"} THEN 200 ELSE 405
  BY <1>2, <1>9 DEF DecidedBy, DirectAnswer, Refusal
<1>10. ASSUME ~Runs(req), ~Stranger, IsOperationRoute(req), req.path \notin Operations
       PROVE  reply.status = 404
  BY <1>2, <1>10 DEF DecidedBy, DirectAnswer, Refusal, IsOperationRoute
<1>11. ASSUME ~Runs(req), ~Stranger, IsOperationRoute(req), req.path \in Operations
       PROVE  \/ reply.status = 413 /\ req.length \in Nat /\ req.length > MaxBodyBytes
              \/ reply.status = 400 /\ (Short => ~Fits(req))
  <2>1. PICK status \in Statuses : reply = DirectAnswer(req, status)
    BY <1>11 DEF DecidedBy
  <2>2. req.path \notin {"outside", "health", "manifest"}
    BY <1>11 DEF IsOperationRoute
  <2>3. CASE req.length # NoLength /\ req.length > MaxBodyBytes
    <3>1. reply.status = 413
      BY <1>2, <1>11, <2>1, <2>2, <2>3 DEF DirectAnswer, Refusal
    <3> QED BY <1>1, <2>3, <3>1
  <2>4. CASE ~(req.length # NoLength /\ req.length > MaxBodyBytes)
    <3>1. reply.status = 400
      BY <1>2, <1>11, <2>1, <2>2, <2>4 DEF DirectAnswer, Refusal
    <3>2. BodyRefused(req)
      BY <1>2, <1>11 DEF Runs
    <3>3. Short => ~Fits(req)
      BY <1>4, <1>5, <2>4, <3>2 DEF BodyRefused
    <3> QED BY <3>1, <3>3
  <2> QED BY <2>3, <2>4
<1>12. CASE ~Runs(req) /\ (req.path = "outside" \/ Stranger)
  <2>1. reply.status \in Contract(req)
    BY <1>8, <1>12 DEF Contract
  <2> QED BY <1>8, <1>12, <2>1
<1>13. CASE ~Runs(req) /\ req.path # "outside" /\ ~Stranger /\ ~IsOperationRoute(req)
  <2>1. reply.status \in {200, 405} /\ (reply.status = 200 => req.method = "GET")
    BY <1>9, <1>13
  <2>2. reply.status \in Contract(req)
    BY <1>9, <1>13 DEF Contract
  <2> QED BY <1>13, <2>1, <2>2
<1>14. CASE ~Runs(req) /\ ~Stranger /\ IsOperationRoute(req)
  <2>1. req.path # "outside" /\ req.path \notin {"health", "manifest"} /\ req.method = "POST"
    BY <1>14 DEF IsOperationRoute
  <2>2. CASE req.path \in Operations
    <3>1. reply.status \in {400, 413}
      BY <1>11, <1>14, <2>2
    <3>2. reply.status \in Contract(req)
      BY <1>14, <2>1, <2>2, <3>1 DEF Contract
    <3> QED BY <1>11, <1>14, <2>1, <2>2, <3>1, <3>2
  <2>3. CASE req.path \notin Operations
    <3>1. reply.status \in Contract(req)
      BY <1>10, <1>14, <2>1, <2>3 DEF Contract
    <3> QED BY <1>10, <1>14, <2>1, <2>3, <3>1
  <2> QED BY <2>2, <2>3
<1> QED
  BY <1>7, <1>12, <1>13, <1>14

\* Every answer follows the contract of the OpenAPI document, whatever
\* operations are declared and whatever is sent.
THEOREM ContractIsKept == Spec => []AnswersFollowContract
<1>1. IInv /\ RInv => AnswersFollowContract
  <2> SUFFICES ASSUME IInv, RInv, NEW i \in DOMAIN answers
               PROVE  FollowsContract(answers[i].request, answers[i].reply.status)
    BY DEF AnswersFollowContract
  <2>1. answers[i].request \in RequestType
    <3>1. answers \in Seq([request : Requests, reply : Replies])
      BY DEF IInv, TypeOK
    <3>2. answers[i] \in [request : Requests, reply : Replies]
      <4> DEFINE S == [request : Requests, reply : Replies]
      <4>1. answers \in Seq(S) /\ DOMAIN answers = 1 .. Len(answers)
        BY <3>1
      <4> HIDE DEF S
      <4>2. answers[i] \in S
        BY <4>1, ElementOfSeq
      <4> QED BY <4>2 DEF S
    <3>3. answers[i].request \in Requests
      BY <3>2
    <3> QED BY <3>3, LocalServerAssumption
  <2>2. DecidedBy(answers[i].request, answers[i].reply)
    BY DEF RInv, AnswersAreDecided
  <2> QED BY <2>1, <2>2, DecidedFollowsContract
<1> QED BY <1>1, Invariance, RequestInvariance, PTL

\* "Bodies larger than this are refused before they are read": true of every
\* body that announces its length, however much of it is sent.
AnnouncedOversizeRefused ==
  \A i \in DOMAIN answers :
    /\ answers[i].request.method = "POST"
    /\ answers[i].request.length \in Nat
    /\ answers[i].request.length > MaxBodyBytes
    => answers[i].reply.status \in {401, 404, 405, 413}

\* A body that is announced as too long never reaches a handler: the promise
\* of MAX_BODY_BYTES that bodies sent in chunks break.
THEOREM AnnouncedBodiesAreLimited == Spec => []AnnouncedOversizeRefused
<1>1. RInv => AnnouncedOversizeRefused
  <2> SUFFICES ASSUME RInv, NEW i \in DOMAIN answers,
                      answers[i].request.method = "POST",
                      answers[i].request.length \in Nat,
                      answers[i].request.length > MaxBodyBytes
               PROVE  answers[i].reply.status \in {401, 404, 405, 413}
    BY DEF AnnouncedOversizeRefused
  <2> DEFINE req == answers[i].request
  <2>1. DecidedBy(req, answers[i].reply)
    BY DEF RInv, AnswersAreDecided
  <2>2. req.length # NoLength
    BY ProtocolAssumption
  <2>3. ~Runs(req)
    BY <2>2 DEF Runs, BodyRefused
  <2>4. PICK h : answers[i].reply = DirectAnswer(req, h)
    BY <2>1, <2>3 DEF DecidedBy
  <2>5. req.method = "POST"
    OBVIOUS
  <2> HIDE DEF req
  <2> QED
    BY <2>2, <2>4, <2>5 DEF DirectAnswer, Refusal, req
<1> QED BY <1>1, RequestInvariance, PTL

-----------------------------------------------------------------------------
(* The server implements ServerPromise. *)

LEMMA InitPromise == Init => Promise!Init
  BY DEF Init, Promise!Init

\* Every step of the server is a step of the promise, or changes nothing the
\* promise speaks of.
LEMMA StepPromise ==
  ASSUME IInv, IInv', [Next]_vars
  PROVE  [Promise!Next]_Promise!vars
<1> USE DEF Promise!vars
<1>1. CASE CheckStop
  BY <1>1 DEF CheckStop, stopVars, Promise!Next, Promise!GoDown
<1>2. CASE Receive
  BY <1>2 DEF Receive, stopVars, Promise!Next, Promise!GoDown
<1>3. CASE RecvTimeout
  BY <1>3 DEF RecvTimeout, stopVars
<1>4. CASE Handle
  BY <1>4 DEF IInv, LateIsLast, Handle, Answer, stopVars, Promise!Next, Promise!Begin
<1>5. CASE HandlerPanics \/ \E ok \in BOOLEAN : HandlerReturns(ok)
  <2>1. loop = "handler" /\ loop' \in {"check", "unwinding"} /\ UNCHANGED <<stop, pc, late>>
    BY <1>5 DEF HandlerPanics, HandlerReturns, HandlerFree, Answer, stopVars
  <2>2. CASE loop' = "check"
    BY <2>1, <2>2 DEF Promise!Next, Promise!End
  <2>3. CASE loop' = "unwinding"
    BY <2>1, <2>3 DEF Promise!Next, Promise!GoDown
  <2> QED
    BY <2>1, <2>2, <2>3
<1>6. CASE Unwound
  BY <1>6 DEF Unwound, stopVars, Promise!Next, Promise!GoDown
<1>7. ASSUME NEW c \in Callers, CallStop(c) PROVE [Promise!Next]_Promise!vars
  BY <1>7 DEF IInv, TypeOK, CallStop, Promise!Next, Promise!AskStop
<1>8. ASSUME NEW c \in Callers, NothingToJoin(c) \/ Joined(c) PROVE [Promise!Next]_Promise!vars
  <2>1. pc[c] # "returned" /\ pc' = [pc EXCEPT ![c] = "returned"]
        /\ UNCHANGED <<stop, loop, late>>
    BY <1>8 DEF NothingToJoin, Joined
  <2>2. loop \in {"unwinding", "exited"}
    BY <1>8, <2>1 DEF IInv, TypeOK, EarlyReturnOnlyWhenUnwinding
  <2>3. {d \in Callers : pc'[d] = "returned"} = {d \in Callers : pc[d] = "returned"} \cup {c}
    BY <2>1 DEF IInv, TypeOK
  <2>4. Promise!Return(c)
    BY <2>1, <2>2, <2>3 DEF Promise!Return
  <2> QED
    BY <2>4 DEF Promise!Next
<1>9. ASSUME NEW c \in Callers, TakeHandle(c) PROVE [Promise!Next]_Promise!vars
  BY <1>9 DEF IInv, TypeOK, TakeHandle
<1>10. CASE SelfJoinPanics
  <2>1. loop = "handler" /\ loop' = "unwinding" /\ UNCHANGED <<stop, late>>
    BY <1>10 DEF SelfJoinPanics, Answer, IInv, CallsFromHandler
  <2>2. {d \in Callers : pc'[d] = "returned"} = {d \in Callers : pc[d] = "returned"}
    BY <1>10 DEF SelfJoinPanics, IInv, TypeOK
  <2> QED
    BY <2>1, <2>2 DEF Promise!Next, Promise!GoDown
<1>11. CASE Outside \/ \E status \in Statuses : SetHealth(status)
  BY <1>11 DEF Outside, AcceptFails, SocketCloses, ClientSends, SetHealth, stopVars
<1>12. CASE UNCHANGED vars
  BY <1>12 DEF vars, stopVars
<1> QED
  BY <1>1, <1>2, <1>3, <1>4, <1>5, <1>6, <1>7, <1>8, <1>9, <1>10, <1>11, <1>12
  DEF Next, ServerThread, StopCall

\* The server thread, its mutex and its queue implement the promise of
\* ServerPromise to every plugin, also to one whose handlers call stop().
THEOREM ServerKeepsPromise == Spec => KeepsPromise
<1>1. IInv /\ IInv' /\ [Next]_vars => [Promise!Next]_Promise!vars
  BY StepPromise
<1> QED
  BY <1>1, InitPromise, Invariance, PTL DEF Spec, KeepsPromise, Promise!Spec
=============================================================================
