----------------------------- MODULE HostTable -----------------------------
(***************************************************************************)
(* The C boundary: crates/aurify-plugin-ffi/src/lib.rs.                    *)
(*                                                                         *)
(* host_start hands out a key into a process-wide table of hosts, never an *)
(* address.  Every other function looks the key up and works on a counted  *)
(* reference (an Arc) to the host; host_stop takes the host out of the     *)
(* table before it stops the host's local server.  Whoever lets go of the  *)
(* last reference destroys the host, and destroying it stops the server    *)
(* once more (the Drop of LocalServer).                                    *)
(*                                                                         *)
(* Each host has a server thread that runs the plugin's callback.  Of the  *)
(* local server this module uses what ServerPromise states and             *)
(* LocalServerProofs proves of LocalServer: a stop returns once the server *)
(* thread has exited.  A callback runs on the server thread of its host    *)
(* and may call the library too; the host names that thread.               *)
(*                                                                         *)
(* A call with a key the table does not hold, or with NULL, changes        *)
(* nothing: it is a stuttering step here.                                  *)
(***************************************************************************)
EXTENDS Naturals

CONSTANTS
  Hosts,          \* the hosts the process starts, each at most once
  Threads,        \* the threads of the plugin that call the library
  NoHost,         \* a caller that holds no reference
  CallbackStops   \* may a callback call host_stop?

ASSUME HostTableAssumption ==
  /\ Hosts \cap Threads = {}
  /\ NoHost \notin Hosts
  /\ CallbackStops \in BOOLEAN

Callers == Threads \cup Hosts

VARIABLES
  nextKey,  \* NEXT_HOST_KEY
  table,    \* HOSTS, a set of <<key, host>>
  issued,   \* history: the <<key, host>> that host_start returned
  op,       \* op[c]: what caller c is doing in the library
  arc,      \* arc[c]: the host it holds a reference to
  key,      \* key[c]: the key it drew for the host it is registering
  server,   \* server[h]: where the server thread of h is
  flag,     \* flag[h]: its stop flag
  freed     \* the hosts whose memory was given back

callVars == <<nextKey, table, issued, op, arc, key, freed>>
serverVars == <<server, flag>>
vars == <<callVars, serverVars>>

\* Mutated: the first key is the NULL pointer.
NullFirst == 0

\* The value NEXT_HOST_KEY starts from.
FirstKey == 1

Init ==
  /\ nextKey = FirstKey
  /\ table = {}
  /\ issued = {}
  /\ op = [c \in Callers |-> "out"]
  /\ arc = [c \in Callers |-> NoHost]
  /\ key = [c \in Callers |-> 0]
  /\ server = [h \in Hosts |-> "unborn"]
  /\ flag = [h \in Hosts |-> FALSE]
  /\ freed = {}

\* A thread of the plugin calls the library whenever it likes, a server
\* thread only from inside its callback.
CanCall(c) == op[c] = "out" /\ (c \in Hosts => server[c] = "callback")

Registered(h) == \E entry \in table : entry[2] = h

\* Mutated: hosts are addresses, and references are not counted.
HoldsNothing(c, h) == FALSE

\* The caller's reference counts: it has not let go of it yet.
Holds(c, h) ==
  arc[c] = h /\ op[c] \in {"register", "insert", "using", "asking", "waiting", "releasing"}

-----------------------------------------------------------------------------
(* host_start *)

\* LocalServer::start succeeded: the server serves before it has a key.  A
\* start that fails leaves nothing behind.
StartServer(c, h) ==
  /\ CanCall(c)
  /\ server[h] = "unborn"
  /\ server' = [server EXCEPT ![h] = "check"]
  /\ op' = [op EXCEPT ![c] = "register"]
  /\ arc' = [arc EXCEPT ![c] = h]
  /\ UNCHANGED <<nextKey, table, issued, key, flag, freed>>

\* Mutated: the lowest key that is free in the table is drawn.
FetchFreeKey(c) ==
  /\ op[c] = "register"
  /\ \E k \in 1..nextKey :
       /\ ~\E entry \in table : entry[1] = k
       /\ \A lower \in 1..(k - 1) : \E entry \in table : entry[1] = lower
       /\ key' = [key EXCEPT ![c] = k]
  /\ nextKey' = nextKey + 1
  /\ op' = [op EXCEPT ![c] = "insert"]
  /\ UNCHANGED <<table, issued, arc, freed, serverVars>>

\* register_host draws a key,
FetchKey(c) ==
  /\ op[c] = "register"
  /\ key' = [key EXCEPT ![c] = nextKey]
  /\ nextKey' = nextKey + 1
  /\ op' = [op EXCEPT ![c] = "insert"]
  /\ UNCHANGED <<table, issued, arc, freed, serverVars>>

\* and, in a step of its own, puts the host into the table under it.
Insert(c) ==
  /\ op[c] = "insert"
  /\ table' = {entry \in table : entry[1] # key[c]} \cup {<<key[c], arc[c]>>}
  /\ issued' = issued \cup {<<key[c], arc[c]>>}
  /\ op' = [op EXCEPT ![c] = "out"]
  /\ arc' = [arc EXCEPT ![c] = NoHost]
  /\ key' = [key EXCEPT ![c] = 0]
  /\ UNCHANGED <<nextKey, freed, serverVars>>

-----------------------------------------------------------------------------
(* host_port, host_set_health, host_has_platform, platform_call *)

\* find_host clones the reference; the lock is gone when the host is used.
Find(c, handed) ==
  /\ CanCall(c)
  /\ \E entry \in table :
       /\ entry[1] = handed[1]
       /\ arc' = [arc EXCEPT ![c] = entry[2]]
  /\ op' = [op EXCEPT ![c] = "using"]
  /\ UNCHANGED <<nextKey, table, issued, key, freed, serverVars>>

\* Mutated: the last reference does not destroy the host.
ReleaseLeaks(c) ==
  /\ op[c] \in {"using", "releasing"}
  /\ op' = [op EXCEPT ![c] = "out"]
  /\ arc' = [arc EXCEPT ![c] = NoHost]
  /\ UNCHANGED <<nextKey, table, issued, key, freed, serverVars>>

\* The function returns and lets go of its reference, the last one or not.
Release(c) ==
  /\ op[c] \in {"using", "releasing"}
  /\ IF Registered(arc[c]) \/ \E d \in Callers \ {c} : Holds(d, arc[c])
     THEN /\ op' = [op EXCEPT ![c] = "out"]
          /\ arc' = [arc EXCEPT ![c] = NoHost]
     ELSE /\ op' = [op EXCEPT ![c] = "dropping"]
          /\ UNCHANGED arc
  /\ UNCHANGED <<nextKey, table, issued, key, freed, serverVars>>

-----------------------------------------------------------------------------
(* host_stop *)

\* Mutated: the host is looked up, and its key stays in the table.
TakeByLookup(c, handed) ==
  /\ CanCall(c)
  /\ c \in Hosts => CallbackStops
  /\ \E entry \in table : entry[1] = handed[1] /\ arc' = [arc EXCEPT ![c] = entry[2]]
  /\ op' = [op EXCEPT ![c] = "asking"]
  /\ UNCHANGED <<nextKey, table, issued, key, freed, serverVars>>

\* take_host: the key leaves the table before the teardown begins.
Take(c, handed) ==
  /\ CanCall(c)
  /\ c \in Hosts => CallbackStops
  /\ \E entry \in table :
       /\ entry[1] = handed[1]
       /\ table' = table \ {entry}
       /\ arc' = [arc EXCEPT ![c] = entry[2]]
  /\ op' = [op EXCEPT ![c] = "asking"]
  /\ UNCHANGED <<nextKey, issued, key, freed, serverVars>>

\* Mutated: the flag is not raised.
AskNothing(c) ==
  /\ op[c] \in {"asking", "dropping"}
  /\ op' = [op EXCEPT ![c] = IF op[c] = "asking" THEN "waiting" ELSE "dropWaiting"]
  /\ UNCHANGED <<nextKey, table, issued, arc, key, serverVars, freed>>

\* LocalServer::stop, called by host_stop or by the Drop of the last
\* reference, raises the flag.
AskServer(c) ==
  /\ op[c] \in {"asking", "dropping"}
  /\ flag' = [flag EXCEPT ![arc[c]] = TRUE]
  /\ op' = [op EXCEPT ![c] = IF op[c] = "asking" THEN "waiting" ELSE "dropWaiting"]
  /\ UNCHANGED <<nextKey, table, issued, arc, key, server, freed>>

\* Mutated: it raises the flag and leaves.
ServerStopping(c) ==
  /\ op[c] = "waiting"
  /\ op' = [op EXCEPT ![c] = "releasing"]
  /\ UNCHANGED <<nextKey, table, issued, arc, key, freed, serverVars>>

\* It returns once the server thread has exited.
ServerStopped(c) ==
  /\ op[c] = "waiting"
  /\ server[arc[c]] = "exited"
  /\ op' = [op EXCEPT ![c] = "releasing"]
  /\ UNCHANGED <<nextKey, table, issued, arc, key, freed, serverVars>>

\* The memory of the host is given back.
Free(c) ==
  /\ op[c] = "dropWaiting"
  /\ server[arc[c]] = "exited"
  /\ freed' = freed \cup {arc[c]}
  /\ op' = [op EXCEPT ![c] = "out"]
  /\ arc' = [arc EXCEPT ![c] = NoHost]
  /\ UNCHANGED <<nextKey, table, issued, key, serverVars>>

-----------------------------------------------------------------------------
(* The server thread of a host. *)

MoveServer(h, from, to) ==
  /\ server[h] = from
  /\ server' = [server EXCEPT ![h] = to]
  /\ UNCHANGED <<callVars, flag>>

CheckStop(h) == MoveServer(h, "check", IF flag[h] THEN "exited" ELSE "recv")

\* ACCEPT_POLL went by, or a request was answered without the callback.
NoOperation(h) == MoveServer(h, "recv", "check")

Dispatch(h) == MoveServer(h, "recv", "callback")

\* The callback returns to dispatch, and dispatch to the loop.
CallbackReturns(h) == op[h] = "out" /\ MoveServer(h, "callback", "check")

\* The HTTP library can accept no more connections: the loop breaks.
AcceptFails(h) == MoveServer(h, "recv", "exited")

-----------------------------------------------------------------------------
Call(c) ==
  \/ \E h \in Hosts : StartServer(c, h)
  \/ FetchKey(c)
  \/ Insert(c)
  \/ \E handed \in issued : Find(c, handed) \/ Take(c, handed)
  \/ Release(c)
  \/ AskServer(c)
  \/ ServerStopped(c)
  \/ Free(c)

ServerThread(h) ==
  \/ CheckStop(h)
  \/ NoOperation(h)
  \/ Dispatch(h)
  \/ CallbackReturns(h)
  \/ AcceptFails(h)

Next ==
  \/ \E c \in Callers : Call(c)
  \/ \E h \in Hosts : ServerThread(h)

Spec == Init /\ [][Next]_vars

(***************************************************************************)
(* Server threads and the threads inside the library run; a platform call  *)
(* ends, by its timeout at the latest.  Nobody has to call the library, no *)
(* request has to arrive and no callback has to return.                    *)
(***************************************************************************)
Fairness ==
  /\ \A h \in Hosts : WF_vars(CheckStop(h) \/ NoOperation(h) \/ Dispatch(h))
  /\ \A c \in Callers :
       WF_vars(FetchKey(c) \/ Insert(c) \/ Release(c) \/ AskServer(c) \/ ServerStopped(c) \/ Free(c))

FairSpec == Spec /\ Fairness

-----------------------------------------------------------------------------
(* Properties. *)

\* Every variable holds a value of its type (HOSTS, NEXT_HOST_KEY and the
\* local variables of the functions of the C boundary).
TypeOK ==
  /\ nextKey \in Nat \ {0}
  /\ table \subseteq (Nat \X Hosts)
  /\ issued \subseteq (Nat \X Hosts)
  /\ op \in [Callers -> {"out", "register", "insert", "using", "asking", "waiting",
                         "releasing", "dropping", "dropWaiting"}]
  /\ arc \in [Callers -> Hosts \cup {NoHost}]
  /\ key \in [Callers -> Nat]
  /\ server \in [Hosts -> {"unborn", "check", "recv", "callback", "exited"}]
  /\ flag \in [Hosts -> BOOLEAN]
  /\ freed \subseteq Hosts

\* Nobody reads freed memory: neither the table nor a caller refers to a
\* freed host, and no callback runs for one ("the second call freed the host
\* under the first, which then read freed memory", the doc of HOSTS).
NoUseAfterFree ==
  \A h \in freed :
    /\ ~Registered(h)
    /\ \A c \in Callers : arc[c] # h
    /\ server[h] = "exited"

\* A host is destroyed by one caller: two never let go of the last reference.
DestroyedOnce ==
  \A c, d \in Callers :
    op[c] \in {"dropping", "dropWaiting"} /\ arc[c] = arc[d] => c = d

\* Destroying a host never has to wait for its server thread: when a lookup
\* turns out to hold the last reference, host_stop has already joined.  So
\* host_port, set_health and platform_call never block on a callback, and
\* the server thread never joins itself through the Drop of its own host.
DropNeverWaits ==
  \A c \in Callers : op[c] \in {"dropping", "dropWaiting"} => server[arc[c]] = "exited"

\* LocalServer::stop is called by one caller at a time and the poisoned-mutex
\* return of a racing stop is out of the C boundary's reach.
OneStopAtATime ==
  \A c, d \in Callers :
    /\ op[c] \in {"asking", "waiting", "dropping", "dropWaiting"}
    /\ op[d] \in {"asking", "waiting", "dropping", "dropWaiting"}
    /\ arc[c] = arc[d]
    => c = d

\* "Keys are never reused, so a stale one cannot name a host started later":
\* a key handed out names one host for ever, even when the draw of the key
\* and the insertion of the host are interleaved with other starts and stops.
KeysNameOneHost ==
  \A entry \in table \cup issued, other \in table \cup issued :
    entry[1] = other[1] <=> entry[2] = other[2]

\* The calls that work on a host somebody was given a key to.
WorksOn(c) ==
  IF op[c] \in {"using", "asking", "waiting", "releasing", "dropping", "dropWaiting"}
  THEN arc[c]
  ELSE NoHost

\* The table, the lock, the counted references and the stop of the local
\* server, each taken in steps of its own, together keep what the comments of
\* lib.rs promise: whatever is interleaved, the callers see the few steps of
\* HostPromise, in which keys are never reused, a host is stopped once, and
\* the last to leave a stopped host frees it without waiting.
Promise == INSTANCE HostPromise
  WITH Users    <- Callers,
       keys     <- issued,
       live     <- {h \in Hosts : Registered(h)},
       inside   <- [c \in Callers |-> WorksOn(c)],
       stopping <- {c \in Callers : op[c] \in {"asking", "waiting"}},
       down     <- {h \in Hosts : server[h] = "exited"},
       gone     <- freed

KeepsHostPromise == Promise!Spec

\* No callback stays for ever; one that stops its own host, or waits for a
\* callback that waits for it, does.
CallbacksReturn == \A h \in Hosts : []<>(server[h] # "callback")

\* Every host_stop that takes a host returns, if callbacks do.
EveryStopReturns ==
  CallbacksReturn => \A c \in Threads : op[c] = "asking" ~> op[c] = "out"

\* Every host taken out of the table is freed, whoever held references to it.
EveryStoppedHostIsFreed ==
  CallbacksReturn =>
    \A h \in Hosts : (\E entry \in issued : entry[2] = h /\ entry \notin table) ~> h \in freed
=============================================================================
