-------------------------- MODULE DotnetHostProofs --------------------------
(***************************************************************************)
(* Theorems about the .NET binding, for any number of objects, threads and *)
(* handle slots.                                                           *)
(*                                                                         *)
(* Every step of the binding is a step of HostTable or leaves the library  *)
(* alone, so what HostTableProofs shows of the library holds under the     *)
(* binding.  On top of it the argument follows the key: it is in _host of  *)
(* one object, or in the hands of the one caller that disposes of it, who  *)
(* frees the handle once host_stop has seen the server thread exit.        *)
(***************************************************************************)
EXTENDS DotnetHost, HostTableProofs

StartSteps == {"starting", "registering", "started"}
DisposeSteps == {"disposing", "stopping", "freeing"}

-----------------------------------------------------------------------------
(* The inductive invariant of the binding, in named parts. *)

\* A server that may run a callback has its object's handle.
HandleWhileServing ==
  \A h \in Hosts :
    server[h] \notin {"unborn", "exited"} => self[h] # NoSlot /\ userData[h] = self[h]

\* An object is started by one caller, and unknown to the others meanwhile.
StartersAreFirst ==
  \A c \in Callers : step[c] \in StartSteps =>
    /\ object[c] \in Hosts \ returned
    /\ \A d \in Callers : step[d] \in StartSteps /\ object[d] = object[c] => c = d
    /\ step[c] = "starting" => op[c] = "out" /\ server[object[c]] = "unborn" /\ self[object[c]] # NoSlot
    /\ step[c] = "registering" => op[c] \in Registering /\ arc[c] = object[c]
    /\ step[c] = "started" => op[c] = "out" /\ <<given[c], object[c]>> \in table

\* A key that is in _host is in the table.
FieldIsRegistered ==
  \A h \in Hosts : field[h] # NoKey => h \in returned /\ <<field[h], h>> \in table

\* An object is disposed of by one caller, who took the key out of _host and
\* frees the handle when the server thread has exited.
DisposerIsAlone ==
  \A c \in Callers : step[c] \in DisposeSteps =>
    /\ object[c] \in returned /\ field[object[c]] = NoKey
    /\ \A d \in Callers : step[d] \in DisposeSteps /\ object[d] = object[c] => c = d
    /\ step[c] = "disposing" => op[c] = "out" /\ <<given[c], object[c]>> \in table
    /\ step[c] = "stopping" => op[c] \in Stopping \cup Destroying /\ arc[c] = object[c]
    /\ step[c] = "freeing" => op[c] = "out" /\ server[object[c]] = "exited"

\* A key that was read out of _host is its object's, in the table or not.
CallersHoldTheirOwn ==
  \A c \in Callers :
    /\ step[c] = "out" => op[c] = "out"
    /\ step[c] = "calling" =>
         /\ op[c] = "out" /\ object[c] \in Hosts
         /\ given[c] # NoKey => <<given[c], object[c]>> \in issued
    /\ step[c] = "inside" => op[c] \in {"using"} \cup Destroying /\ arc[c] = object[c]

\* A returned object has a host that was issued, and no key is NULL.
KeysAreReal ==
  /\ \A h \in returned : Issued(h)
  /\ \A entry \in issued : entry[1] # NoKey
  /\ \A c \in Callers : op[c] = "insert" => key[c] # NoKey

BInv ==
  /\ DotnetTypeOK
  /\ HandlesAreOwn
  /\ HandleWhileServing
  /\ StartersAreFirst
  /\ FieldIsRegistered
  /\ DisposerIsAlone
  /\ CallersHoldTheirOwn
  /\ KeysAreReal

-----------------------------------------------------------------------------
LEMMA BindingInit == DotnetInit => BInv
<1> USE DotnetHostAssumption DEF DotnetInit, Init, NoKey
<1>1. DotnetInit => DotnetTypeOK /\ HandlesAreOwn /\ FieldIsRegistered
  BY DEF DotnetTypeOK, HandlesAreOwn, FieldIsRegistered
<1>2. DotnetInit => HandleWhileServing /\ StartersAreFirst /\ DisposerIsAlone /\ CallersHoldTheirOwn /\ KeysAreReal
  BY DEF HandleWhileServing, KeysAreReal, StartersAreFirst, DisposerIsAlone, CallersHoldTheirOwn, StartSteps, DisposeSteps
<1> QED
  BY <1>1, <1>2 DEF BInv

\* Freeing the handle of an object whose server cannot run a callback leaves
\* everybody else's handle alone.
LEMMA FreeHandleIsLocal ==
  ASSUME NEW h \in Hosts, BInv, FreeHandle(h), server[h] \in {"unborn", "exited"},
         UNCHANGED <<server, userData>>
  PROVE  /\ self' \in [Hosts -> Slots \cup {NoSlot}]
         /\ slots' \in [Slots -> Hosts \cup {NoHost}]
         /\ \A g \in Hosts \ {h} : self'[g] = self[g]
         /\ HandlesAreOwn'
         /\ HandleWhileServing'
<1> DEFINE s == self[h]
<1>1. s \in Slots /\ slots[s] = h
  BY DEF FreeHandle, BInv, DotnetTypeOK, HandlesAreOwn
<1>2. slots' = [slots EXCEPT ![s] = NoHost] /\ self' = [self EXCEPT ![h] = NoSlot]
  BY DEF FreeHandle
<1> HIDE DEF s
<1>3. /\ self' \in [Hosts -> Slots \cup {NoSlot}]
      /\ slots' \in [Slots -> Hosts \cup {NoHost}]
      /\ self'[h] = NoSlot
      /\ \A g \in Hosts \ {h} : self'[g] = self[g]
  BY <1>1, <1>2 DEF BInv, DotnetTypeOK
<1>4. HandlesAreOwn'
  BY <1>1, <1>2, <1>3 DEF BInv, DotnetTypeOK, HandlesAreOwn
<1>5. HandleWhileServing'
  BY <1>3 DEF BInv, HandleWhileServing
<1> QED
  BY <1>3, <1>4, <1>5

\* A step of one caller, and what it leaves of the others.
OnlyMoves(c) ==
  \A d \in Callers \ {c} :
    /\ step'[d] = step[d] /\ object'[d] = object[d] /\ given'[d] = given[d]
    /\ op'[d] = op[d] /\ arc'[d] = arc[d]

\* A caller that does not dispose of an object does not disturb one that does.
LEMMA OthersDispose ==
  ASSUME NEW c \in Callers, BInv, OnlyMoves(c), step'[c] \notin DisposeSteps,
         \A h \in returned : field'[h] = field[h], returned \subseteq returned',
         table \subseteq table', UNCHANGED server
  PROVE  DisposerIsAlone'
<1>1. ASSUME NEW d \in Callers, step'[d] \in DisposeSteps
      PROVE  /\ d # c /\ step[d] \in DisposeSteps
             /\ step'[d] = step[d] /\ object'[d] = object[d] /\ given'[d] = given[d]
             /\ op'[d] = op[d] /\ arc'[d] = arc[d]
  BY <1>1 DEF OnlyMoves
<1>2. ASSUME NEW d \in Callers, step'[d] \in DisposeSteps
      PROVE  field'[object[d]] = field[object[d]]
  BY <1>1, <1>2 DEF BInv, DisposerIsAlone
<1> QED
  BY <1>1, <1>2 DEF BInv, DisposerIsAlone

\* Nor one that holds a key of an object, or its reference.
LEMMA OthersCall ==
  ASSUME NEW c \in Callers, BInv, OnlyMoves(c), issued \subseteq issued',
         step'[c] = "out" => op'[c] = "out",
         step'[c] # "calling",
         step'[c] = "inside" => op'[c] \in {"using"} \cup Destroying /\ arc'[c] = object'[c]
  PROVE  CallersHoldTheirOwn'
BY DEF OnlyMoves, BInv, CallersHoldTheirOwn

\* The constructor allocates a free slot.
LEMMA StartKeepsBInv ==
  ASSUME NEW c \in Callers, NEW h \in Hosts, IInv, BInv, Start(c, h)
  PROVE  BInv'
<1> USE DotnetHostAssumption, HostTableAssumption
    DEF callerVars, handleVars, bindingVars, Callers, StartSteps, DisposeSteps, Registering, Stopping, Destroying, NoKey,
        serverVars, callVars, Start, Enter, CanCall, vars
<1>0. h \notin returned /\ \A d \in Callers : step[d] \in StartSteps => object[d] # h
  <2>1. ~Issued(h) /\ \A d \in Callers : arc[d] # h
    BY DEF IInv, UnbornIsUnknown
  <2>2. h \notin returned
    BY <2>1 DEF BInv, KeysAreReal
  <2>3. ASSUME NEW d \in Callers, step[d] \in StartSteps, object[d] = h PROVE FALSE
    <3>1. step[d] # "starting"
      BY <2>3 DEF BInv, StartersAreFirst
    <3>2. step[d] # "registering"
      BY <2>1, <2>3 DEF BInv, StartersAreFirst
    <3>3. step[d] # "started"
      <4>1. step[d] = "started" => <<given[d], h>> \in issued
        BY <2>3 DEF BInv, StartersAreFirst, IInv, TableIsIssued
      <4>2. <<given[d], h>> \notin issued
        BY <2>1 DEF Issued
      <4> QED
        BY <4>1, <4>2
    <3> QED
      BY <2>3, <3>1, <3>2, <3>3
  <2> QED
    BY <2>2, <2>3
<1>1. DotnetTypeOK'
  BY DEF IInv, BInv, TypeOK, DotnetTypeOK
<1>2. HandlesAreOwn'
  BY DEF IInv, BInv, TypeOK, DotnetTypeOK, HandlesAreOwn
<1>3. HandleWhileServing'
  BY DEF IInv, BInv, TypeOK, DotnetTypeOK, HandleWhileServing, HandlesAreOwn, StartersAreFirst, DisposerIsAlone
<1>4. StartersAreFirst'
  BY <1>0 DEF IInv, BInv, TypeOK, DotnetTypeOK, StartersAreFirst, FieldIsRegistered, DisposerIsAlone, CallersHoldTheirOwn, HandleWhileServing
<1>5. FieldIsRegistered'
  BY DEF IInv, BInv, TypeOK, DotnetTypeOK, StartersAreFirst, FieldIsRegistered, DisposerIsAlone
<1>6. DisposerIsAlone'
  BY DEF IInv, BInv, TypeOK, DotnetTypeOK, StartersAreFirst, FieldIsRegistered, DisposerIsAlone, CallersHoldTheirOwn, TakenIsStopped
<1>7. CallersHoldTheirOwn'
  BY DEF IInv, BInv, TypeOK, DotnetTypeOK, StartersAreFirst, FieldIsRegistered, DisposerIsAlone, CallersHoldTheirOwn, TableIsIssued
<1>8. KeysAreReal'
  BY DEF IInv, BInv, TypeOK, DotnetTypeOK, KeysAreReal, FieldIsRegistered, StartersAreFirst, TableIsIssued, Issued
<1> QED
  BY <1>1, <1>2, <1>3, <1>4, <1>5, <1>6, <1>7, <1>8 DEF BInv

\* An exception in Start leaves the handle with an object nobody knows.
LEMMA StartThrowsKeepsBInv ==
  ASSUME NEW c \in Callers, IInv, BInv, StartThrows(c)
  PROVE  BInv'
<1> USE DotnetHostAssumption DEF handleVars, callVars, serverVars, StartSteps, DisposeSteps, NoKey, StartThrows, Leave, vars
<1>0. object[c] \in Hosts /\ op[c] = "out"
  BY DEF BInv, StartersAreFirst
<1>1. DotnetTypeOK'
  BY <1>0 DEF BInv, DotnetTypeOK
<1>2. HandlesAreOwn' /\ HandleWhileServing' /\ FieldIsRegistered'
  BY DEF BInv, HandlesAreOwn, HandleWhileServing, FieldIsRegistered
<1>3. OnlyMoves(c) /\ step'[c] = "out" /\ op'[c] = "out"
  BY <1>0 DEF OnlyMoves, BInv, DotnetTypeOK
<1>4. StartersAreFirst'
  BY <1>3 DEF OnlyMoves, BInv, StartersAreFirst
<1>5. UNCHANGED <<field, returned, table, issued, server, op, key>>
  OBVIOUS
<1>6. DisposerIsAlone'
  BY <1>3, <1>5, OthersDispose
<1>7. CallersHoldTheirOwn'
  BY <1>3, <1>5, OthersCall
<1>8. KeysAreReal'
  BY <1>5 DEF BInv, KeysAreReal, Issued
<1> QED
  BY <1>1, <1>2, <1>4, <1>6, <1>7, <1>8 DEF BInv

\* A refused start frees the handle of an object nobody else knows.
LEMMA StartRefusedKeepsBInv ==
  ASSUME NEW c \in Callers, IInv, BInv, StartRefused(c)
  PROVE  BInv'
<1> USE DotnetHostAssumption, HostTableAssumption
    DEF callerVars, handleVars, bindingVars, Callers, StartSteps, DisposeSteps, Registering, Stopping, Destroying, NoKey,
        serverVars, callVars, StartRefused, Leave, vars
<1>0. object[c] \in Hosts /\ server[object[c]] = "unborn"
  BY DEF BInv, StartersAreFirst
<1>9. /\ self' \in [Hosts -> Slots \cup {NoSlot}]
      /\ slots' \in [Slots -> Hosts \cup {NoHost}]
      /\ \A g \in Hosts \ {object[c]} : self'[g] = self[g]
      /\ HandlesAreOwn' /\ HandleWhileServing'
  BY <1>0, FreeHandleIsLocal
<1>1. DotnetTypeOK'
  BY <1>9 DEF IInv, BInv, TypeOK, DotnetTypeOK
<1>2. HandlesAreOwn'
  BY <1>9
<1>3. HandleWhileServing'
  BY <1>9
<1>4. StartersAreFirst'
  BY <1>0, <1>9 DEF IInv, BInv, TypeOK, DotnetTypeOK, StartersAreFirst, FieldIsRegistered, DisposerIsAlone, CallersHoldTheirOwn, HandleWhileServing
<1>5. FieldIsRegistered'
  BY DEF IInv, BInv, TypeOK, DotnetTypeOK, StartersAreFirst, FieldIsRegistered, DisposerIsAlone
<1>10. OnlyMoves(c) /\ step'[c] = "out" /\ op'[c] = "out"
  <2>1. op[c] = "out" /\ UNCHANGED <<op, arc>>
    BY DEF BInv, StartersAreFirst
  <2>2. step'[c] = "out" /\ \A d \in Callers \ {c} : step'[d] = step[d] /\ object'[d] = object[d] /\ given'[d] = given[d]
    BY DEF BInv, DotnetTypeOK
  <2> QED
    BY <2>1, <2>2 DEF OnlyMoves
<1>11. UNCHANGED <<field, returned, table, issued, server>>
  OBVIOUS
<1>6. DisposerIsAlone'
  BY <1>10, <1>11, OthersDispose
<1>7. CallersHoldTheirOwn'
  BY <1>10, <1>11, OthersCall
<1>8. KeysAreReal'
  <2>1. UNCHANGED <<issued, op, key, returned>>
    OBVIOUS
  <2> QED
    BY <2>1 DEF BInv, KeysAreReal, Issued
<1> QED
  BY <1>1, <1>2, <1>3, <1>4, <1>5, <1>6, <1>7, <1>8 DEF BInv

\* The server that starts has the handle as its user_data.
LEMMA StartAcceptedKeepsBInv ==
  ASSUME NEW c \in Callers, IInv, BInv, StartAccepted(c)
  PROVE  BInv'
<1> USE DotnetHostAssumption, HostTableAssumption
    DEF callerVars, handleVars, bindingVars, Callers, StartSteps, DisposeSteps, Registering, Stopping, Destroying, NoKey,
        serverVars, callVars, StartAccepted, StartServer, CanCall
<1>1. DotnetTypeOK'
  BY DEF IInv, BInv, TypeOK, DotnetTypeOK
<1>2. HandlesAreOwn'
  BY DEF IInv, BInv, TypeOK, DotnetTypeOK, HandlesAreOwn
<1>0. /\ object[c] \in Hosts /\ self[object[c]] # NoSlot
      /\ userData'[object[c]] = self[object[c]]
      /\ \A g \in Hosts \ {object[c]} : server'[g] = server[g] /\ userData'[g] = userData[g]
  <2>1. object[c] \in Hosts /\ self[object[c]] # NoSlot
    BY DEF BInv, StartersAreFirst
  <2> DEFINE h == object[c]
  <2>2. server' = [server EXCEPT ![h] = "check"] /\ userData' = [userData EXCEPT ![h] = self[h]]
    OBVIOUS
  <2> HIDE DEF h
  <2>3. server \in [Hosts -> {"unborn", "check", "recv", "callback", "exited"}]
        /\ userData \in [Hosts -> Slots \cup {NoSlot}]
    BY DEF BInv, DotnetTypeOK, IInv, TypeOK
  <2>4. h \in Hosts => userData'[h] = self[h]
        /\ \A g \in Hosts \ {h} : server'[g] = server[g] /\ userData'[g] = userData[g]
    BY <2>2, <2>3
  <2> QED
    BY <2>1, <2>4 DEF h
<1>3. HandleWhileServing'
  BY <1>0 DEF IInv, BInv, TypeOK, DotnetTypeOK, HandleWhileServing, HandlesAreOwn, StartersAreFirst, DisposerIsAlone
<1>4. StartersAreFirst'
  BY DEF IInv, BInv, TypeOK, DotnetTypeOK, StartersAreFirst, FieldIsRegistered, DisposerIsAlone, CallersHoldTheirOwn, HandleWhileServing
<1>5. FieldIsRegistered'
  BY DEF IInv, BInv, TypeOK, DotnetTypeOK, StartersAreFirst, FieldIsRegistered, DisposerIsAlone
<1>6. DisposerIsAlone'
  BY DEF IInv, BInv, TypeOK, DotnetTypeOK, StartersAreFirst, FieldIsRegistered, DisposerIsAlone, CallersHoldTheirOwn, TakenIsStopped
<1>7. CallersHoldTheirOwn'
  BY DEF IInv, BInv, TypeOK, DotnetTypeOK, StartersAreFirst, FieldIsRegistered, DisposerIsAlone, CallersHoldTheirOwn, TableIsIssued
<1>8. KeysAreReal'
  BY DEF IInv, BInv, TypeOK, DotnetTypeOK, KeysAreReal, FieldIsRegistered, StartersAreFirst, TableIsIssued, Issued
<1> QED
  BY <1>1, <1>2, <1>3, <1>4, <1>5, <1>6, <1>7, <1>8 DEF BInv

\* host_start returns a key that is in the table.
LEMMA RegisterKeepsBInv ==
  ASSUME NEW c \in Callers, IInv, BInv, DrawKey(c) \/ Register(c)
  PROVE  BInv'
<1> USE DotnetHostAssumption, HostTableAssumption
    DEF callerVars, handleVars, bindingVars, Callers, StartSteps, DisposeSteps, Registering, Stopping, Destroying, NoKey,
        serverVars, callVars, DrawKey, Register, FetchKey, Insert
<1>1. DotnetTypeOK'
  BY DEF IInv, BInv, TypeOK, DotnetTypeOK
<1>2. HandlesAreOwn'
  BY DEF IInv, BInv, TypeOK, DotnetTypeOK, HandlesAreOwn
<1>3. HandleWhileServing'
  BY DEF IInv, BInv, TypeOK, DotnetTypeOK, HandleWhileServing, HandlesAreOwn, StartersAreFirst, DisposerIsAlone
<1>0. table \subseteq table'
  BY DEF IInv, TypeOK, KeysDrawnOnce, TableIsIssued
<1>4. StartersAreFirst'
  <2>1. CASE DrawKey(c)
    BY <1>0, <2>1 DEF IInv, BInv, TypeOK, DotnetTypeOK, StartersAreFirst
  <2>2. CASE Register(c)
    <3>1. arc[c] = object[c] /\ object[c] \in Hosts /\ <<key[c], object[c]>> \in table'
      BY <2>2 DEF BInv, StartersAreFirst
    <3>2. given'[c] = key[c] /\ op'[c] = "out" /\ step'[c] = "started"
          /\ \A d \in Callers \ {c} : given'[d] = given[d] /\ op'[d] = op[d] /\ arc'[d] = arc[d] /\ step'[d] = step[d]
      BY <2>2 DEF IInv, BInv, TypeOK, DotnetTypeOK
    <3>3. UNCHANGED <<object, returned, server, self>>
      BY <2>2
    <3>4. step[c] = "registering"
      BY <2>2
    <3> HIDE DEF DrawKey, Register, Insert, FetchKey
    <3> SUFFICES ASSUME NEW d \in Callers, (step[d] \in StartSteps)'
                 PROVE  StartersAreFirst!(d)!2'
      BY DEF StartersAreFirst
    <3>5. step[d] \in StartSteps /\ \A e \in Callers : step'[e] \in StartSteps => step[e] \in StartSteps
      BY <3>2, <3>4
    <3>6. /\ object'[d] \in Hosts \ returned'
          /\ \A e \in Callers : step'[e] \in StartSteps /\ object'[e] = object'[d] => d = e
      BY <3>3, <3>5 DEF BInv, StartersAreFirst
    <3>7. CASE d = c
      BY <3>1, <3>2, <3>3, <3>6, <3>7
    <3>8. CASE d # c
      BY <1>0, <3>2, <3>3, <3>6, <3>8 DEF BInv, StartersAreFirst
    <3> QED
      BY <3>7, <3>8
  <2> QED
    BY <2>1, <2>2
<1>5. FieldIsRegistered'
  BY <1>0 DEF IInv, BInv, TypeOK, DotnetTypeOK, StartersAreFirst, FieldIsRegistered, DisposerIsAlone
<1>6. DisposerIsAlone'
  BY <1>0 DEF IInv, BInv, TypeOK, DotnetTypeOK, StartersAreFirst, FieldIsRegistered, DisposerIsAlone, CallersHoldTheirOwn, TakenIsStopped
<1>7. CallersHoldTheirOwn'
  BY DEF IInv, BInv, TypeOK, DotnetTypeOK, StartersAreFirst, FieldIsRegistered, DisposerIsAlone, CallersHoldTheirOwn, TableIsIssued
<1>8. KeysAreReal'
  BY DEF IInv, BInv, TypeOK, DotnetTypeOK, KeysAreReal, FieldIsRegistered, StartersAreFirst, TableIsIssued, Issued
<1> QED
  BY <1>1, <1>2, <1>3, <1>4, <1>5, <1>6, <1>7, <1>8 DEF BInv

\* The object is returned with the key in _host.
LEMMA SetHostKeepsBInv ==
  ASSUME NEW c \in Callers, IInv, BInv, SetHost(c)
  PROVE  BInv'
<1> USE DotnetHostAssumption, HostTableAssumption
    DEF callerVars, handleVars, bindingVars, Callers, StartSteps, DisposeSteps, Registering, Stopping, Destroying, NoKey,
        serverVars, callVars, SetHost, Leave, vars
<1>0. object[c] \in Hosts /\ <<given[c], object[c]>> \in table /\ Issued(object[c])
  BY DEF BInv, StartersAreFirst, IInv, TableIsIssued, Issued
<1>1. DotnetTypeOK'
  <2>1. given[c] \in Nat
    BY DEF BInv, DotnetTypeOK
  <2>2. field' \in [Hosts -> Nat] /\ returned' \subseteq Hosts
    BY <1>0, <2>1 DEF BInv, DotnetTypeOK
  <2> QED
    BY <2>2 DEF BInv, DotnetTypeOK
<1>2. HandlesAreOwn'
  BY DEF IInv, BInv, TypeOK, DotnetTypeOK, HandlesAreOwn
<1>3. HandleWhileServing'
  BY DEF IInv, BInv, TypeOK, DotnetTypeOK, HandleWhileServing, HandlesAreOwn, StartersAreFirst, DisposerIsAlone
<1>4. StartersAreFirst'
  BY DEF IInv, BInv, TypeOK, DotnetTypeOK, StartersAreFirst, FieldIsRegistered, DisposerIsAlone, CallersHoldTheirOwn, HandleWhileServing
<1>5. FieldIsRegistered'
  BY DEF IInv, BInv, TypeOK, DotnetTypeOK, StartersAreFirst, FieldIsRegistered, DisposerIsAlone
<1>9. OnlyMoves(c) /\ step'[c] = "out" /\ op'[c] = "out"
  <2>1. op[c] = "out" /\ UNCHANGED <<op, arc>>
    BY DEF BInv, StartersAreFirst
  <2>2. step'[c] = "out" /\ \A d \in Callers \ {c} : step'[d] = step[d] /\ object'[d] = object[d] /\ given'[d] = given[d]
    BY DEF BInv, DotnetTypeOK
  <2> QED
    BY <2>1, <2>2 DEF OnlyMoves
<1>10. /\ \A h \in returned : field'[h] = field[h]
       /\ returned \subseteq returned'
       /\ UNCHANGED <<table, issued, server>>
  <2>1. object[c] \notin returned /\ field \in [Hosts -> Nat] /\ returned \subseteq Hosts
    BY DEF BInv, StartersAreFirst, DotnetTypeOK
  <2> QED
    BY <2>1
<1>6. DisposerIsAlone'
  BY <1>9, <1>10, OthersDispose
<1>7. CallersHoldTheirOwn'
  BY <1>9, <1>10, OthersCall
<1>8. KeysAreReal'
  <2>1. UNCHANGED <<issued, op, key>> /\ returned' = returned \cup {object[c]}
    OBVIOUS
  <2> QED
    BY <1>0, <2>1 DEF BInv, KeysAreReal, Issued
<1> QED
  BY <1>1, <1>2, <1>3, <1>4, <1>5, <1>6, <1>7, <1>8 DEF BInv

\* A method reads _host.
LEMMA ReadHostKeepsBInv ==
  ASSUME NEW c \in Callers, NEW h \in Hosts, IInv, BInv, ReadHost(c, h)
  PROVE  BInv'
<1> USE DotnetHostAssumption, HostTableAssumption
    DEF callerVars, handleVars, bindingVars, Callers, StartSteps, DisposeSteps, Registering, Stopping, Destroying, NoKey,
        serverVars, callVars, ReadHost, Enter, CanCall, vars
<1>1. DotnetTypeOK'
  BY DEF IInv, BInv, TypeOK, DotnetTypeOK
<1>2. HandlesAreOwn'
  BY DEF IInv, BInv, TypeOK, DotnetTypeOK, HandlesAreOwn
<1>3. HandleWhileServing'
  BY DEF IInv, BInv, TypeOK, DotnetTypeOK, HandleWhileServing, HandlesAreOwn, StartersAreFirst, DisposerIsAlone
<1>4. StartersAreFirst'
  BY DEF IInv, BInv, TypeOK, DotnetTypeOK, StartersAreFirst, FieldIsRegistered, DisposerIsAlone, CallersHoldTheirOwn, HandleWhileServing
<1>5. FieldIsRegistered'
  BY DEF IInv, BInv, TypeOK, DotnetTypeOK, StartersAreFirst, FieldIsRegistered, DisposerIsAlone
<1>6. DisposerIsAlone'
  BY DEF IInv, BInv, TypeOK, DotnetTypeOK, StartersAreFirst, FieldIsRegistered, DisposerIsAlone, CallersHoldTheirOwn, TakenIsStopped
<1>7. CallersHoldTheirOwn'
  BY DEF IInv, BInv, TypeOK, DotnetTypeOK, StartersAreFirst, FieldIsRegistered, DisposerIsAlone, CallersHoldTheirOwn, TableIsIssued
<1>8. KeysAreReal'
  BY DEF IInv, BInv, TypeOK, DotnetTypeOK, KeysAreReal, FieldIsRegistered, StartersAreFirst, TableIsIssued, Issued
<1> QED
  BY <1>1, <1>2, <1>3, <1>4, <1>5, <1>6, <1>7, <1>8 DEF BInv

\* The library finds the object's own host or none.
LEMMA CallNativeKeepsBInv ==
  ASSUME NEW c \in Callers, IInv, BInv, CallNative(c)
  PROVE  BInv'
<1> USE DotnetHostAssumption, HostTableAssumption
    DEF callerVars, handleVars, bindingVars, Callers, StartSteps, DisposeSteps, Registering, Stopping, Destroying, NoKey,
        serverVars, callVars, CallNative, InTable, Find, CanCall, Leave, vars
<1>0. /\ object[c] \in Hosts
      /\ \A entry \in table : entry[1] = given[c] => entry[2] = object[c]
  <2>1. object[c] \in Hosts /\ (given[c] # NoKey => <<given[c], object[c]>> \in issued)
    BY DEF BInv, CallersHoldTheirOwn
  <2>2. ASSUME NEW entry \in table, entry[1] = given[c] PROVE entry[2] = object[c]
    <3>1. entry \in issued /\ given[c] # NoKey
      BY <2>2 DEF IInv, TableIsIssued, BInv, KeysAreReal
    <3> QED
      BY <2>1, <2>2, <3>1 DEF IInv, TableIsIssued
  <2> QED
    BY <2>1, <2>2
<1>1. DotnetTypeOK'
  BY DEF IInv, BInv, TypeOK, DotnetTypeOK
<1>2. HandlesAreOwn'
  BY DEF IInv, BInv, TypeOK, DotnetTypeOK, HandlesAreOwn
<1>3. HandleWhileServing'
  BY DEF IInv, BInv, TypeOK, DotnetTypeOK, HandleWhileServing, HandlesAreOwn, StartersAreFirst, DisposerIsAlone
<1>4. StartersAreFirst'
  BY DEF IInv, BInv, TypeOK, DotnetTypeOK, StartersAreFirst, FieldIsRegistered, DisposerIsAlone, CallersHoldTheirOwn, HandleWhileServing
<1>5. FieldIsRegistered'
  BY DEF IInv, BInv, TypeOK, DotnetTypeOK, StartersAreFirst, FieldIsRegistered, DisposerIsAlone
<1>9. /\ OnlyMoves(c)
      /\ \/ step'[c] = "out" /\ op'[c] = "out"
         \/ step'[c] = "inside" /\ op'[c] = "using" /\ arc'[c] = object'[c]
  <2>1. op[c] = "out"
    BY DEF BInv, CallersHoldTheirOwn
  <2>2. CASE ~\E handed \in issued : handed[1] = given[c] /\ Find(c, handed)
    <3>1. Leave(c) /\ UNCHANGED <<op, arc>>
      BY <2>2
    <3>2. step'[c] = "out" /\ \A d \in Callers \ {c} : step'[d] = step[d] /\ object'[d] = object[d] /\ given'[d] = given[d]
      BY <3>1 DEF BInv, DotnetTypeOK
    <3> QED
      BY <2>1, <3>1, <3>2 DEF OnlyMoves
  <2>3. CASE \E handed \in issued : handed[1] = given[c] /\ Find(c, handed)
    <3>1. PICK entry \in table : entry[1] = given[c] /\ arc' = [arc EXCEPT ![c] = entry[2]]
      BY <2>3
    <3>2. arc' = [arc EXCEPT ![c] = object[c]] /\ op' = [op EXCEPT ![c] = "using"]
      BY <1>0, <2>3, <3>1
    <3>3. UNCHANGED <<object, given>> /\ step' = [step EXCEPT ![c] = "inside"]
      BY <2>3, <3>1
    <3> HIDE DEF CallNative, Find
    <3> QED
      BY <3>2, <3>3 DEF IInv, BInv, TypeOK, DotnetTypeOK, OnlyMoves
  <2> QED
    BY <2>2, <2>3
<1>10. UNCHANGED <<field, returned, table, issued, server>>
  OBVIOUS
<1>6. DisposerIsAlone'
  <2> HIDE DEF CallNative, Find
  <2> QED
    BY <1>9, <1>10, OthersDispose
<1>7. CallersHoldTheirOwn'
  <2> HIDE DEF CallNative, Find
  <2> QED
    BY <1>9, <1>10, OthersCall
<1>8. KeysAreReal'
  BY DEF IInv, BInv, TypeOK, DotnetTypeOK, KeysAreReal, FieldIsRegistered, StartersAreFirst, TableIsIssued, Issued
<1> QED
  BY <1>1, <1>2, <1>3, <1>4, <1>5, <1>6, <1>7, <1>8 DEF BInv

\* The function returns.
LEMMA InNativeKeepsBInv ==
  ASSUME NEW c \in Callers, IInv, BInv, InNative(c)
  PROVE  BInv'
<1> USE DotnetHostAssumption, HostTableAssumption
    DEF callerVars, handleVars, bindingVars, Callers, StartSteps, DisposeSteps, Registering, Stopping, Destroying, NoKey,
        serverVars, callVars, InNative, Release, AskServer, Free, Leave
<1>1. DotnetTypeOK'
  BY DEF IInv, BInv, TypeOK, DotnetTypeOK
<1>2. HandlesAreOwn'
  BY DEF IInv, BInv, TypeOK, DotnetTypeOK, HandlesAreOwn
<1>3. HandleWhileServing'
  BY DEF IInv, BInv, TypeOK, DotnetTypeOK, HandleWhileServing, HandlesAreOwn, StartersAreFirst, DisposerIsAlone
<1>4. StartersAreFirst'
  BY DEF IInv, BInv, TypeOK, DotnetTypeOK, StartersAreFirst, FieldIsRegistered, DisposerIsAlone, CallersHoldTheirOwn, HandleWhileServing
<1>5. FieldIsRegistered'
  BY DEF IInv, BInv, TypeOK, DotnetTypeOK, StartersAreFirst, FieldIsRegistered, DisposerIsAlone
<1>9. /\ OnlyMoves(c)
      /\ \/ step'[c] = "out" /\ op'[c] = "out"
         \/ step'[c] = "inside" /\ op'[c] \in Destroying /\ arc'[c] = object'[c]
  <2>1. op[c] \in {"using"} \cup Destroying /\ arc[c] = object[c]
    BY DEF BInv, CallersHoldTheirOwn
  <2>2. /\ \A d \in Callers \ {c} : op'[d] = op[d] /\ arc'[d] = arc[d]
        /\ \/ op'[c] = "out"
           \/ op'[c] \in Destroying /\ arc'[c] = arc[c]
    BY <2>1 DEF IInv, TypeOK
  <2>3. CASE op'[c] = "out"
    BY <2>2, <2>3 DEF BInv, DotnetTypeOK, OnlyMoves
  <2>4. CASE op'[c] # "out"
    BY <2>1, <2>2, <2>4 DEF OnlyMoves
  <2> QED
    BY <2>3, <2>4
<1>10. UNCHANGED <<field, returned, table, issued, server>>
  OBVIOUS
<1>6. DisposerIsAlone'
  <2> HIDE DEF InNative, Release, AskServer, Free
  <2> QED
    BY <1>9, <1>10, OthersDispose
<1>7. CallersHoldTheirOwn'
  <2> HIDE DEF InNative, Release, AskServer, Free
  <2> QED
    BY <1>9, <1>10, OthersCall
<1>8. KeysAreReal'
  BY DEF IInv, BInv, TypeOK, DotnetTypeOK, KeysAreReal, FieldIsRegistered, StartersAreFirst, TableIsIssued, Issued
<1> QED
  BY <1>1, <1>2, <1>3, <1>4, <1>5, <1>6, <1>7, <1>8 DEF BInv

\* One caller gets the key.
LEMMA ExchangeKeepsBInv ==
  ASSUME NEW c \in Callers, NEW h \in Hosts, IInv, BInv, Exchange(c, h)
  PROVE  BInv'
<1> USE DotnetHostAssumption, HostTableAssumption
    DEF callerVars, handleVars, bindingVars, Callers, StartSteps, DisposeSteps, Registering, Stopping, Destroying, NoKey,
        serverVars, callVars, Exchange, Enter, CanCall, vars
<1>1. DotnetTypeOK'
  BY DEF IInv, BInv, TypeOK, DotnetTypeOK
<1>2. HandlesAreOwn'
  BY DEF IInv, BInv, TypeOK, DotnetTypeOK, HandlesAreOwn
<1>3. HandleWhileServing'
  BY DEF IInv, BInv, TypeOK, DotnetTypeOK, HandleWhileServing, HandlesAreOwn, StartersAreFirst, DisposerIsAlone
<1>4. StartersAreFirst'
  BY DEF IInv, BInv, TypeOK, DotnetTypeOK, StartersAreFirst, FieldIsRegistered, DisposerIsAlone, CallersHoldTheirOwn, HandleWhileServing
<1>5. FieldIsRegistered'
  BY DEF IInv, BInv, TypeOK, DotnetTypeOK, StartersAreFirst, FieldIsRegistered, DisposerIsAlone
<1>6. DisposerIsAlone'
  <2>1. <<field[h], h>> \in table /\ h \in returned
    BY DEF BInv, FieldIsRegistered
  <2>2. \A d \in Callers : step[d] \in DisposeSteps => object[d] # h
    BY DEF BInv, DisposerIsAlone
  <2>3. /\ step'[c] = "disposing" /\ object'[c] = h /\ given'[c] = field[h] /\ field'[h] = NoKey
        /\ \A d \in Callers \ {c} : step'[d] = step[d] /\ object'[d] = object[d] /\ given'[d] = given[d]
        /\ \A g \in Hosts \ {h} : field'[g] = field[g]
    BY DEF BInv, DotnetTypeOK
  <2>4. UNCHANGED <<op, arc, table, server, returned>> /\ op[c] = "out"
    OBVIOUS
  <2>5. returned \subseteq Hosts
    BY DEF BInv, DotnetTypeOK
  <2> HIDE DEF Exchange, Enter
  <2> QED
    BY <2>1, <2>2, <2>3, <2>4, <2>5 DEF BInv, DisposerIsAlone
<1>7. CallersHoldTheirOwn'
  BY DEF IInv, BInv, TypeOK, DotnetTypeOK, StartersAreFirst, FieldIsRegistered, DisposerIsAlone, CallersHoldTheirOwn, TableIsIssued
<1>8. KeysAreReal'
  BY DEF IInv, BInv, TypeOK, DotnetTypeOK, KeysAreReal, FieldIsRegistered, StartersAreFirst, TableIsIssued, Issued
<1> QED
  BY <1>1, <1>2, <1>3, <1>4, <1>5, <1>6, <1>7, <1>8 DEF BInv

\* It finds the host in the table.
LEMMA StopNativeKeepsBInv ==
  ASSUME NEW c \in Callers, IInv, BInv, StopNative(c)
  PROVE  BInv'
<1> USE DotnetHostAssumption, HostTableAssumption
    DEF callerVars, handleVars, bindingVars, Callers, StartSteps, DisposeSteps, Registering, Stopping, Destroying, NoKey,
        serverVars, callVars, StopNative, InTable, Take, CanCall, vars
<1>0. /\ object[c] \in returned /\ object[c] \in Hosts
      /\ \A entry \in table \ table' : entry[2] = object[c]
      /\ step' = [step EXCEPT ![c] = "stopping"]
      /\ op' = [op EXCEPT ![c] = "asking"] /\ arc' = [arc EXCEPT ![c] = object[c]]
      /\ server' = server
  <2>1. /\ object[c] \in returned /\ object[c] \in Hosts /\ <<given[c], object[c]>> \in table
    BY DEF BInv, DotnetTypeOK, DisposerIsAlone
  <2>2. InTable(given[c])
    BY <2>1
  <2>3. /\ \E handed \in issued : handed[1] = given[c] /\ Take(c, handed)
        /\ step' = [step EXCEPT ![c] = "stopping"]
    BY <2>2
  <2>4. PICK entry \in table : /\ entry[1] = given[c] /\ table' = table \ {entry}
                               /\ arc' = [arc EXCEPT ![c] = entry[2]]
    BY <2>3
  <2>5. entry[2] = object[c]
    BY <2>1, <2>4 DEF IInv, TableIsIssued
  <2> QED
    BY <2>1, <2>3, <2>4, <2>5
<1>1. DotnetTypeOK'
  BY DEF IInv, BInv, TypeOK, DotnetTypeOK
<1>2. HandlesAreOwn'
  BY DEF IInv, BInv, TypeOK, DotnetTypeOK, HandlesAreOwn
<1>3. HandleWhileServing'
  BY DEF IInv, BInv, TypeOK, DotnetTypeOK, HandleWhileServing, HandlesAreOwn, StartersAreFirst, DisposerIsAlone
<1>4. StartersAreFirst'
  BY <1>0 DEF IInv, BInv, TypeOK, DotnetTypeOK, StartersAreFirst, FieldIsRegistered, DisposerIsAlone, CallersHoldTheirOwn, HandleWhileServing
<1>5. FieldIsRegistered'
  <2>1. ASSUME NEW g \in Hosts, <<field[g], g>> \in table, field[g] # NoKey
        PROVE  <<field[g], g>> \in table'
    <3>1. field[object[c]] = NoKey
      BY DEF BInv, DisposerIsAlone
    <3>2. g # object[c]
      BY <2>1, <3>1
    <3>3. \A entry \in table : entry[2] # object[c] => entry \in table'
      BY <1>0
    <3> QED
      BY <2>1, <3>2, <3>3
  <2>2. UNCHANGED <<field, returned>>
    OBVIOUS
  <2> QED
    BY <2>1, <2>2 DEF BInv, FieldIsRegistered
<1>6. DisposerIsAlone'
  BY <1>0 DEF IInv, BInv, TypeOK, DotnetTypeOK, StartersAreFirst, FieldIsRegistered, DisposerIsAlone, CallersHoldTheirOwn, TakenIsStopped
<1>7. CallersHoldTheirOwn'
  BY DEF IInv, BInv, TypeOK, DotnetTypeOK, StartersAreFirst, FieldIsRegistered, DisposerIsAlone, CallersHoldTheirOwn, TableIsIssued
<1>8. KeysAreReal'
  BY DEF IInv, BInv, TypeOK, DotnetTypeOK, KeysAreReal, FieldIsRegistered, StartersAreFirst, TableIsIssued, Issued
<1> QED
  BY <1>1, <1>2, <1>3, <1>4, <1>5, <1>6, <1>7, <1>8 DEF BInv

\* host_stop returns once the server thread has exited.
LEMMA InHostStopKeepsBInv ==
  ASSUME NEW c \in Callers, IInv, BInv, InHostStop(c)
  PROVE  BInv'
<1> USE DotnetHostAssumption, HostTableAssumption
    DEF callerVars, handleVars, bindingVars, Callers, StartSteps, DisposeSteps, Registering, Stopping, Destroying, NoKey,
        serverVars, callVars, InHostStop, Release, AskServer, ServerStopped, Free
<1>1. DotnetTypeOK'
  BY DEF IInv, BInv, TypeOK, DotnetTypeOK
<1>2. HandlesAreOwn'
  BY DEF IInv, BInv, TypeOK, DotnetTypeOK, HandlesAreOwn
<1>3. HandleWhileServing'
  BY DEF IInv, BInv, TypeOK, DotnetTypeOK, HandleWhileServing, HandlesAreOwn, StartersAreFirst, DisposerIsAlone
<1>4. StartersAreFirst'
  BY DEF IInv, BInv, TypeOK, DotnetTypeOK, StartersAreFirst, FieldIsRegistered, DisposerIsAlone, CallersHoldTheirOwn, HandleWhileServing
<1>5. FieldIsRegistered'
  BY DEF IInv, BInv, TypeOK, DotnetTypeOK, StartersAreFirst, FieldIsRegistered, DisposerIsAlone
<1>6. DisposerIsAlone'
  BY DEF IInv, BInv, TypeOK, DotnetTypeOK, StartersAreFirst, FieldIsRegistered, DisposerIsAlone, CallersHoldTheirOwn, TakenIsStopped
<1>7. CallersHoldTheirOwn'
  BY DEF IInv, BInv, TypeOK, DotnetTypeOK, StartersAreFirst, FieldIsRegistered, DisposerIsAlone, CallersHoldTheirOwn, TableIsIssued
<1>8. KeysAreReal'
  BY DEF IInv, BInv, TypeOK, DotnetTypeOK, KeysAreReal, FieldIsRegistered, StartersAreFirst, TableIsIssued, Issued
<1> QED
  BY <1>1, <1>2, <1>3, <1>4, <1>5, <1>6, <1>7, <1>8 DEF BInv

\* Then the handle is freed.
LEMMA FreeSelfKeepsBInv ==
  ASSUME NEW c \in Callers, IInv, BInv, FreeSelf(c)
  PROVE  BInv'
<1> USE DotnetHostAssumption, HostTableAssumption
    DEF callerVars, handleVars, bindingVars, Callers, StartSteps, DisposeSteps, Registering, Stopping, Destroying, NoKey,
        serverVars, callVars, FreeSelf, Leave, vars
<1>0. object[c] \in returned /\ object[c] \in Hosts /\ server[object[c]] = "exited"
  BY DEF BInv, DotnetTypeOK, DisposerIsAlone
<1>9. /\ self' \in [Hosts -> Slots \cup {NoSlot}]
      /\ slots' \in [Slots -> Hosts \cup {NoHost}]
      /\ \A g \in Hosts \ {object[c]} : self'[g] = self[g]
      /\ HandlesAreOwn' /\ HandleWhileServing'
  <2>1. CASE FreeHandle(object[c])
    BY <1>0, <2>1, FreeHandleIsLocal
  <2>2. CASE UNCHANGED handleVars
    BY <2>2 DEF BInv, DotnetTypeOK, HandlesAreOwn, HandleWhileServing
  <2> QED
    BY <2>1, <2>2
<1>1. DotnetTypeOK'
  BY <1>9 DEF IInv, BInv, TypeOK, DotnetTypeOK
<1>2. HandlesAreOwn'
  BY <1>9
<1>3. HandleWhileServing'
  BY <1>9
<1>4. StartersAreFirst'
  BY <1>0, <1>9 DEF IInv, BInv, TypeOK, DotnetTypeOK, StartersAreFirst, FieldIsRegistered, DisposerIsAlone, CallersHoldTheirOwn, HandleWhileServing
<1>5. FieldIsRegistered'
  BY DEF IInv, BInv, TypeOK, DotnetTypeOK, StartersAreFirst, FieldIsRegistered, DisposerIsAlone
<1>6. DisposerIsAlone'
  BY DEF IInv, BInv, TypeOK, DotnetTypeOK, StartersAreFirst, FieldIsRegistered, DisposerIsAlone, CallersHoldTheirOwn, TakenIsStopped
<1>7. CallersHoldTheirOwn'
  BY DEF IInv, BInv, TypeOK, DotnetTypeOK, StartersAreFirst, FieldIsRegistered, DisposerIsAlone, CallersHoldTheirOwn, TableIsIssued
<1>8. KeysAreReal'
  BY DEF IInv, BInv, TypeOK, DotnetTypeOK, KeysAreReal, FieldIsRegistered, StartersAreFirst, TableIsIssued, Issued
<1> QED
  BY <1>1, <1>2, <1>3, <1>4, <1>5, <1>6, <1>7, <1>8 DEF BInv

\* The server thread leaves the binding alone.
LEMMA ServerKeepsBInv ==
  ASSUME NEW h \in Hosts, IInv, BInv, TrampolineReturns(h) \/ ServerLoop(h)
  PROVE  BInv'
<1> USE DotnetHostAssumption, HostTableAssumption
    DEF callerVars, handleVars, bindingVars, Callers, StartSteps, DisposeSteps, Registering, Stopping, Destroying, NoKey,
        serverVars, callVars, TrampolineReturns, ServerLoop, CallbackReturns, CheckStop, NoOperation, Dispatch, AcceptFails, MoveServer
<1>1. DotnetTypeOK'
  BY DEF IInv, BInv, TypeOK, DotnetTypeOK
<1>2. HandlesAreOwn'
  BY DEF IInv, BInv, TypeOK, DotnetTypeOK, HandlesAreOwn
<1>3. HandleWhileServing'
  BY DEF IInv, BInv, TypeOK, DotnetTypeOK, HandleWhileServing, HandlesAreOwn, StartersAreFirst, DisposerIsAlone
<1>4. StartersAreFirst'
  BY DEF IInv, BInv, TypeOK, DotnetTypeOK, StartersAreFirst, FieldIsRegistered, DisposerIsAlone, CallersHoldTheirOwn, HandleWhileServing
<1>5. FieldIsRegistered'
  BY DEF IInv, BInv, TypeOK, DotnetTypeOK, StartersAreFirst, FieldIsRegistered, DisposerIsAlone
<1>6. DisposerIsAlone'
  BY DEF IInv, BInv, TypeOK, DotnetTypeOK, StartersAreFirst, FieldIsRegistered, DisposerIsAlone, CallersHoldTheirOwn, TakenIsStopped
<1>7. CallersHoldTheirOwn'
  BY DEF IInv, BInv, TypeOK, DotnetTypeOK, StartersAreFirst, FieldIsRegistered, DisposerIsAlone, CallersHoldTheirOwn, TableIsIssued
<1>8. KeysAreReal'
  BY DEF IInv, BInv, TypeOK, DotnetTypeOK, KeysAreReal, FieldIsRegistered, StartersAreFirst, TableIsIssued, Issued
<1> QED
  BY <1>1, <1>2, <1>3, <1>4, <1>5, <1>6, <1>7, <1>8 DEF BInv

LEMMA BindingStep == IInv /\ BInv /\ [DotnetNext]_dotnetVars => BInv'
<1> SUFFICES ASSUME IInv, BInv, [DotnetNext]_dotnetVars PROVE BInv'
  OBVIOUS
<1>1. CASE UNCHANGED dotnetVars
  BY <1>1 DEF dotnetVars, vars, callVars, serverVars, bindingVars, callerVars, handleVars, BInv, DotnetTypeOK,
     HandlesAreOwn, HandleWhileServing, StartersAreFirst, FieldIsRegistered, DisposerIsAlone, CallersHoldTheirOwn,
     KeysAreReal, Issued
<1>2. ASSUME NEW c \in Callers, Continue(c) PROVE BInv'
  BY <1>2, StartThrowsKeepsBInv, StartRefusedKeepsBInv, StartAcceptedKeepsBInv, RegisterKeepsBInv, SetHostKeepsBInv,
     CallNativeKeepsBInv, InNativeKeepsBInv, StopNativeKeepsBInv, InHostStopKeepsBInv, FreeSelfKeepsBInv
  DEF Continue
<1> QED
  BY <1>1, <1>2, StartKeepsBInv, ReadHostKeepsBInv, ExchangeKeepsBInv, ServerKeepsBInv DEF DotnetNext

-----------------------------------------------------------------------------
(* The binding uses the library as HostTable describes it. *)

\* Every step of the binding is a step of the library or none.
LEMMA StepMapsToStep == IInv /\ BInv /\ [DotnetNext]_dotnetVars => [Next]_vars
<1> SUFFICES ASSUME IInv, BInv, [DotnetNext]_dotnetVars PROVE [Next]_vars
  OBVIOUS
<1>1. ASSUME NEW c \in Callers, NEW h \in Hosts, Start(c, h) \/ ReadHost(c, h) \/ Exchange(c, h)
      PROVE  UNCHANGED vars
  BY <1>1 DEF Start, ReadHost, Exchange
<1>2. ASSUME NEW c \in Callers, Continue(c)
      PROVE  UNCHANGED vars \/ Call(c)
  <2>1. CASE StartAccepted(c)
    BY <2>1 DEF StartAccepted, BInv, StartersAreFirst, StartSteps, Call
  <2>2. CASE StartThrows(c) \/ StartRefused(c) \/ SetHost(c) \/ FreeSelf(c)
    BY <2>2 DEF StartThrows, StartRefused, SetHost, FreeSelf
  <2>3. CASE DrawKey(c) \/ Register(c)
    BY <2>3 DEF DrawKey, Register, Call
  <2>4. CASE CallNative(c) \/ StopNative(c)
    BY <2>4 DEF CallNative, StopNative, Call
  <2>5. CASE InNative(c) \/ InHostStop(c)
    BY <2>5 DEF InNative, InHostStop, Call
  <2> QED
    BY <1>2, <2>1, <2>2, <2>3, <2>4, <2>5 DEF Continue
<1>3. ASSUME NEW h \in Hosts, TrampolineReturns(h) \/ ServerLoop(h)
      PROVE  ServerThread(h)
  BY <1>3 DEF TrampolineReturns, ServerLoop, ServerThread
<1>4. CASE UNCHANGED dotnetVars
  BY <1>4 DEF dotnetVars
<1> QED
  BY <1>1, <1>2, <1>3, <1>4 DEF DotnetNext, Next

\* Both invariants hold in every reachable state.
THEOREM BindingInvariance == DotnetSpec => [](IInv /\ BInv)
<1>1. DotnetInit => IInv /\ BInv
  BY InitInvariant, BindingInit DEF DotnetInit
<1>2. IInv /\ BInv /\ [DotnetNext]_dotnetVars => IInv' /\ BInv'
  BY BindingStep, StepMapsToStep, NextInvariant
<1> QED
  BY <1>1, <1>2, PTL DEF DotnetSpec

\* A plugin that uses the binding uses the C boundary in a way HostTable
\* allows: every theorem about HostTable holds of it.
THEOREM BindingUsesTheLibrary == DotnetSpec => Spec
<1>1. DotnetInit => Init
  BY DEF DotnetInit
<1> QED
  BY <1>1, StepMapsToStep, BindingInvariance, PTL DEF DotnetSpec, Spec

\* So the objects, their threads and their callbacks see of the C boundary
\* what HostPromise says.
THEOREM BindingKeepsHostPromise == DotnetSpec => KeepsHostPromise
  BY BindingUsesTheLibrary, BoundaryKeepsItsPromise, PTL

\* Every variable of the binding keeps its type.
THEOREM BindingTypeCorrect == DotnetSpec => []DotnetTypeOK
<1>1. BInv => DotnetTypeOK
  BY DEF BInv
<1> QED
  BY <1>1, BindingInvariance, PTL

\* A callback always resolves its user_data to its own object: Dispose frees
\* the handle only after the server thread has exited, however many threads
\* dispose, call and start other hosts, and whatever slots are used again.
THEOREM HandlesOutliveCallbacks == DotnetSpec => []CallbacksFindTheirHost
<1>1. BInv => CallbacksFindTheirHost
  BY DEF BInv, DotnetTypeOK, HandleWhileServing, HandlesAreOwn, CallbacksFindTheirHost
<1> QED
  BY <1>1, BindingInvariance, PTL

\* No handle that is somebody else's is ever freed.
THEOREM OnlyOwnHandlesAreFreed == DotnetSpec => []HandlesAreOwn
<1>1. BInv => HandlesAreOwn
  BY DEF BInv
<1> QED
  BY <1>1, BindingInvariance, PTL

\* A method that races Dispose works on its own native host or on none.
THEOREM MethodsReachTheirHost == DotnetSpec => []CallsReachTheirHost
<1>1. BInv => CallsReachTheirHost
  BY DEF BInv, DisposerIsAlone, CallersHoldTheirOwn, DisposeSteps, CallsReachTheirHost
<1> QED
  BY <1>1, BindingInvariance, PTL

\* Dispose stops an object's host once, whoever calls it how often.
THEOREM DisposedOnce == DotnetSpec => []OneDisposer
<1>1. BInv => OneDisposer
  BY DEF BInv, DisposerIsAlone, DisposeSteps, OneDisposer
<1> QED
  BY <1>1, BindingInvariance, PTL
=============================================================================
