----------------------------- MODULE DotnetHost -----------------------------
(***************************************************************************)
(* The .NET binding on top of the C boundary:                              *)
(* bindings/dotnet/Aurify.Plugin/PluginHost.cs.                            *)
(*                                                                         *)
(* A PluginHost object keeps the key of its native host in _host and a GC  *)
(* handle to itself in _self.  The handle's slot in the runtime's handle   *)
(* table travels through the library as user_data; the trampoline, which   *)
(* runs on the server thread, resolves it to find the object whose handler *)
(* to call.  Slots are used again once their handle was freed, so a slot   *)
(* freed too early leads a callback to nothing or to another object.       *)
(*                                                                         *)
(* Every native step is a step of HostTable.  A member of Hosts names the  *)
(* PluginHost object and the native host it starts, as well as the server  *)
(* thread on which the object's handler runs and may use the binding.      *)
(***************************************************************************)
EXTENDS HostTable

CONSTANTS
  Slots,   \* slots of the runtime's handle table
  NoSlot   \* a handle that is not allocated

ASSUME DotnetHostAssumption == NoSlot \notin Slots

NoKey == 0   \* IntPtr.Zero

VARIABLES
  step,      \* step[c]: where caller c is in the binding
  object,    \* object[c]: the PluginHost it works on
  given,     \* given[c]: the key it got from the library or out of _host
  field,     \* field[h]: _host
  self,      \* self[h]: _self
  slots,     \* slots[s]: the object handle s refers to
  userData,  \* userData[h]: the user_data of native host h
  returned,  \* the objects Start has returned to the plugin
  lost       \* observed: objects whose Start threw before it called the library

callerVars == <<step, object, given>>
handleVars == <<self, slots>>
bindingVars == <<callerVars, field, handleVars, userData, returned, lost>>
dotnetVars == <<vars, bindingVars>>

DotnetInit ==
  /\ Init
  /\ step = [c \in Callers |-> "out"]
  /\ object = [c \in Callers |-> NoHost]
  /\ given = [c \in Callers |-> NoKey]
  /\ field = [h \in Hosts |-> NoKey]
  /\ self = [h \in Hosts |-> NoSlot]
  /\ slots = [s \in Slots |-> NoHost]
  /\ userData = [h \in Hosts |-> NoSlot]
  /\ returned = {}
  /\ lost = {}

\* The caller runs managed code of the plugin and enters the binding.
Enter(c, h, where) ==
  /\ step[c] = "out"
  /\ CanCall(c)
  /\ step' = [step EXCEPT ![c] = where]
  /\ object' = [object EXCEPT ![c] = h]

\* The caller goes back to the plugin's code.
Leave(c) ==
  /\ step' = [step EXCEPT ![c] = "out"]
  /\ object' = [object EXCEPT ![c] = NoHost]
  /\ given' = [given EXCEPT ![c] = NoKey]

\* GCHandle.Free, which does nothing to a handle that is not allocated.
FreeHandle(h) ==
  /\ self[h] # NoSlot
  /\ slots' = [slots EXCEPT ![self[h]] = NoHost]
  /\ self' = [self EXCEPT ![h] = NoSlot]

-----------------------------------------------------------------------------
(* Start *)

\* The constructor allocates the handle.
Start(c, h) ==
  /\ server[h] = "unborn"
  /\ self[h] = NoSlot
  /\ Enter(c, h, "starting")
  /\ \E s \in Slots :
       /\ slots[s] = NoHost
       /\ slots' = [slots EXCEPT ![s] = h]
       /\ self' = [self EXCEPT ![h] = s]
  /\ UNCHANGED <<vars, given, field, userData, returned, lost>>

\* The manifest or the launch values cannot be written as JSON, or the library
\* cannot be loaded.  The exception leaves Start, and nobody has the object:
\* its handle stays.
StartThrows(c) ==
  /\ step[c] = "starting"
  /\ lost' = lost \cup {object[c]}
  /\ Leave(c)
  /\ UNCHANGED <<vars, field, handleVars, userData, returned>>

\* Mutated: the handle is not freed.
StartRefusedLeaks(c) ==
  /\ step[c] = "starting"
  /\ Leave(c)
  /\ UNCHANGED <<vars, field, handleVars, userData, returned, lost>>

\* host_start returned NULL: Start throws.
StartRefused(c) ==
  /\ step[c] = "starting"
  /\ FreeHandle(object[c])
  /\ Leave(c)
  /\ UNCHANGED <<vars, field, userData, returned, lost>>

\* host_start started a server, which may run callbacks from now on.
StartAccepted(c) ==
  /\ step[c] = "starting"
  /\ StartServer(c, object[c])
  /\ userData' = [userData EXCEPT ![object[c]] = self[object[c]]]
  /\ step' = [step EXCEPT ![c] = "registering"]
  /\ UNCHANGED <<object, given, field, handleVars, returned, lost>>

DrawKey(c) ==
  /\ step[c] = "registering"
  /\ FetchKey(c)
  /\ UNCHANGED bindingVars

\* Mutated: host_start returns the host's address.
RegisterAddress(c) ==
  /\ step[c] = "registering"
  /\ Insert(c)
  /\ given' = [given EXCEPT ![c] = arc[c]]
  /\ step' = [step EXCEPT ![c] = "started"]
  /\ UNCHANGED <<object, field, handleVars, userData, returned, lost>>

\* host_start returns the key,
Register(c) ==
  /\ step[c] = "registering"
  /\ Insert(c)
  /\ given' = [given EXCEPT ![c] = key[c]]
  /\ step' = [step EXCEPT ![c] = "started"]
  /\ UNCHANGED <<object, field, handleVars, userData, returned, lost>>

\* which Start keeps in _host before anybody else gets to see the object.
SetHost(c) ==
  /\ step[c] = "started"
  /\ field' = [field EXCEPT ![object[c]] = given[c]]
  /\ returned' = returned \cup {object[c]}
  /\ Leave(c)
  /\ UNCHANGED <<vars, handleVars, userData, lost>>

-----------------------------------------------------------------------------
(* Port, HasPlatform, SetHealth, CallPlatform *)

\* _host is read, and may be stale when
ReadHost(c, h) ==
  /\ h \in returned
  /\ Enter(c, h, "calling")
  /\ given' = [given EXCEPT ![c] = field[h]]
  /\ UNCHANGED <<vars, field, handleVars, userData, returned, lost>>

InTable(k) == \E entry \in table : entry[1] = k

\* the library looks it up.
CallNative(c) ==
  /\ step[c] = "calling"
  /\ \/ /\ \E handed \in issued : handed[1] = given[c] /\ Find(c, handed)
        /\ step' = [step EXCEPT ![c] = "inside"]
        /\ UNCHANGED <<object, given>>
     \/ /\ ~InTable(given[c])
        /\ Leave(c)
        /\ UNCHANGED vars
  /\ UNCHANGED <<field, handleVars, userData, returned, lost>>

\* The function goes on inside the library, and returns.
InNative(c) ==
  /\ step[c] = "inside"
  /\ Release(c) \/ AskServer(c) \/ Free(c)
  /\ IF op'[c] = "out" THEN Leave(c) ELSE UNCHANGED callerVars
  /\ UNCHANGED <<field, handleVars, userData, returned, lost>>

-----------------------------------------------------------------------------
(* Dispose *)

\* Mutated: the key is copied, not exchanged.
ExchangeCopies(c, h) ==
  /\ h \in returned
  /\ c \in Hosts => CallbackStops
  /\ field[h] # NoKey
  /\ Enter(c, h, "disposing")
  /\ given' = [given EXCEPT ![c] = field[h]]
  /\ UNCHANGED <<vars, field, handleVars, userData, returned, lost>>

\* Interlocked.Exchange: of several callers one gets the key.  The others
\* find zero and return, which changes nothing.
Exchange(c, h) ==
  /\ h \in returned
  /\ c \in Hosts => CallbackStops
  /\ field[h] # NoKey
  /\ Enter(c, h, "disposing")
  /\ given' = [given EXCEPT ![c] = field[h]]
  /\ field' = [field EXCEPT ![h] = NoKey]
  /\ UNCHANGED <<vars, handleVars, userData, returned, lost>>

StopNative(c) ==
  /\ step[c] = "disposing"
  /\ \/ /\ \E handed \in issued : handed[1] = given[c] /\ Take(c, handed)
        /\ step' = [step EXCEPT ![c] = "stopping"]
     \/ /\ ~InTable(given[c])
        /\ step' = [step EXCEPT ![c] = "freeing"]
        /\ UNCHANGED vars
  /\ UNCHANGED <<object, given, field, handleVars, userData, returned, lost>>

InHostStop(c) ==
  /\ step[c] = "stopping"
  /\ AskServer(c) \/ ServerStopped(c) \/ Release(c) \/ Free(c)
  /\ step' = IF op'[c] = "out" THEN [step EXCEPT ![c] = "freeing"] ELSE step
  /\ UNCHANGED <<object, given, field, handleVars, userData, returned, lost>>

\* Mutated: Free runs on a copy, as on a readonly field.
FreeSelfCopy(c) ==
  /\ step[c] = "freeing"
  /\ self[object[c]] # NoSlot
  /\ slots' = [slots EXCEPT ![self[object[c]]] = NoHost]
  /\ Leave(c)
  /\ UNCHANGED <<vars, field, self, userData, returned, lost>>

\* host_stop returned: the handle is freed if it is still allocated.
FreeSelf(c) ==
  /\ step[c] = "freeing"
  /\ FreeHandle(object[c]) \/ (self[object[c]] = NoSlot /\ UNCHANGED handleVars)
  /\ Leave(c)
  /\ UNCHANGED <<vars, field, userData, returned, lost>>

-----------------------------------------------------------------------------
\* A callback returns through the trampoline when its handler is done.
TrampolineReturns(h) ==
  /\ step[h] = "out"
  /\ CallbackReturns(h)
  /\ UNCHANGED bindingVars

ServerLoop(h) ==
  /\ CheckStop(h) \/ NoOperation(h) \/ Dispatch(h) \/ AcceptFails(h)
  /\ UNCHANGED bindingVars

\* What a caller does once it is in the binding.
Continue(c) ==
  \/ StartThrows(c)
  \/ StartRefused(c)
  \/ StartAccepted(c)
  \/ DrawKey(c)
  \/ Register(c)
  \/ SetHost(c)
  \/ CallNative(c)
  \/ InNative(c)
  \/ StopNative(c)
  \/ InHostStop(c)
  \/ FreeSelf(c)

DotnetNext ==
  \/ \E c \in Callers, h \in Hosts : Start(c, h) \/ ReadHost(c, h) \/ Exchange(c, h)
  \/ \E c \in Callers : Continue(c)
  \/ \E h \in Hosts : TrampolineReturns(h) \/ ServerLoop(h)

DotnetSpec == DotnetInit /\ [][DotnetNext]_dotnetVars

\* As in HostTable: threads inside the binding and server threads run.
DotnetFairness ==
  /\ \A c \in Callers : WF_dotnetVars(Continue(c))
  /\ \A h \in Hosts :
       WF_dotnetVars((CheckStop(h) \/ NoOperation(h) \/ Dispatch(h)) /\ UNCHANGED bindingVars)

DotnetFairSpec == DotnetSpec /\ DotnetFairness

-----------------------------------------------------------------------------
(* Properties. *)

\* Every variable of the binding holds a value of its type.
DotnetTypeOK ==
  /\ step \in [Callers -> {"out", "starting", "registering", "started", "calling", "inside",
                           "disposing", "stopping", "freeing"}]
  /\ object \in [Callers -> Hosts \cup {NoHost}]
  /\ given \in [Callers -> Nat]
  /\ field \in [Hosts -> Nat]
  /\ self \in [Hosts -> Slots \cup {NoSlot}]
  /\ slots \in [Slots -> Hosts \cup {NoHost}]
  /\ userData \in [Hosts -> Slots \cup {NoSlot}]
  /\ returned \subseteq Hosts
  /\ lost \subseteq Hosts

\* While the server thread may run a callback, its user_data resolves to the
\* object whose handler is meant: the handle is not freed before the thread
\* has exited, and its slot belongs to no other object ("the host was already
\* disposed" is an answer the trampoline never gives).
CallbacksFindTheirHost ==
  \A h \in Hosts :
    server[h] \notin {"unborn", "exited"} => userData[h] # NoSlot /\ slots[userData[h]] = h

\* _self is allocated exactly as long as its slot refers to the object, so
\* Dispose never frees a handle that has become somebody else's ("leaving
\* the field claiming to be allocated after the handle is gone").
HandlesAreOwn ==
  \A h \in Hosts : self[h] # NoSlot => slots[self[h]] = h

\* A method of an object works on the native host of that object or on none,
\* also when it read _host before another thread disposed of the object and
\* started a new one.
CallsReachTheirHost ==
  \A c \in Callers : step[c] \in {"inside", "stopping"} => arc[c] \in {object[c], NoHost}

\* Of the callers of Dispose, one at a time and for each object only one ever
\* goes on to host_stop ("the library never sees the same host twice").
OneDisposer ==
  \A c, d \in Callers :
    /\ step[c] \in {"disposing", "stopping", "freeing"}
    /\ step[d] \in {"disposing", "stopping", "freeing"}
    /\ object[c] = object[d]
    => c = d

\* A handle is given back when the library refuses to start the host and when
\* Dispose is done, if callbacks return; until then its object is in use.  The
\* one way to lose it is an exception between the constructor and the library.
NoHandleLeaks ==
  CallbacksReturn =>
    \A h \in Hosts :
      self[h] # NoSlot ~>
        self[h] = NoSlot \/ (h \in returned /\ field[h] # NoKey) \/ h \in lost
=============================================================================
