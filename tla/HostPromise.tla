---------------------------- MODULE HostPromise ----------------------------
(***************************************************************************)
(* What the C boundary promises to whoever calls it, whatever its table,   *)
(* counters and reference counts do: the comments on HOSTS, NEXT_HOST_KEY, *)
(* find_host and take_host in crates/aurify-plugin-ffi/src/lib.rs.         *)
(*                                                                         *)
(* A key names one host for good.  A call works on the host its key names  *)
(* until it returns.  A host is stopped once, its stop returns when the    *)
(* server is down, and the last call to leave a stopped host takes it      *)
(* along, without waiting for a server that still runs.                    *)
(***************************************************************************)
CONSTANTS
  Hosts,
  Users,     \* whoever calls: threads, and hosts through their callbacks
  NoHost     \* of a user that is outside

VARIABLES
  keys,      \* the <<key, host>> handed out
  live,      \* the hosts whose key still works
  inside,    \* inside[u]: the host that the call of u works on
  stopping,  \* the users whose stop waits for the server
  down,      \* the hosts whose server runs nothing more
  gone       \* the hosts given back

vars == <<keys, live, inside, stopping, down, gone>>

Init ==
  /\ keys = {}
  /\ live = {}
  /\ inside = [u \in Users |-> NoHost]
  /\ stopping = {}
  /\ down = {}
  /\ gone = {}

\* host_start returns a key that never named a host, for a new host.
HandOut ==
  \E entry \in keys' \ keys :
    /\ keys' = keys \cup {entry}
    /\ entry[2] \in Hosts
    /\ \A other \in keys : other[1] # entry[1] /\ other[2] # entry[2]
    /\ live' = live \cup {entry[2]}
    /\ UNCHANGED <<inside, stopping, down, gone>>

\* A call begins: of a user outside, never one whose own server is down.
Begin(u, h) ==
  /\ inside[u] = NoHost
  /\ u \notin down
  /\ h \in live
  /\ inside' = [inside EXCEPT ![u] = h]
  /\ UNCHANGED <<keys, down, gone>>

Enter(u, h) == Begin(u, h) /\ UNCHANGED <<live, stopping>>

\* From here on the key is stale.
Stop(u, h) ==
  /\ Begin(u, h)
  /\ live' = live \ {h}
  /\ stopping' = stopping \cup {u}

\* LocalServer::stop returns.
Stopped(u) ==
  /\ u \in stopping
  /\ inside[u] \in down
  /\ stopping' = stopping \ {u}
  /\ UNCHANGED <<keys, live, inside, down, gone>>

\* The host of u is in the table, or somebody else works on it.
Needed(u) == inside[u] \in live \/ \E v \in Users \ {u} : inside[v] = inside[u]

Leave(u) ==
  /\ inside[u] # NoHost
  /\ u \notin stopping
  /\ \/ Needed(u) /\ gone' = gone
     \/ ~Needed(u) /\ inside[u] \in down \ gone /\ gone' = gone \cup {inside[u]}
  /\ inside' = [inside EXCEPT ![u] = NoHost]
  /\ UNCHANGED <<keys, live, stopping, down>>

\* A server goes down, asked to or not, while its callback is not in a call.
GoDown(h) ==
  /\ h \notin down
  /\ h \in Users => inside[h] = NoHost
  /\ down' = down \cup {h}
  /\ UNCHANGED <<keys, live, inside, stopping, gone>>

Next ==
  \/ HandOut
  \/ \E u \in Users, h \in Hosts : Enter(u, h) \/ Stop(u, h)
  \/ \E u \in Users : Stopped(u) \/ Leave(u)
  \/ \E h \in Hosts : GoDown(h)

Spec == Init /\ [][Next]_vars
=============================================================================
