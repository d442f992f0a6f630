-------------------------- MODULE HostTableProofs --------------------------
(***************************************************************************)
(* Theorems about HostTable, for any number of hosts and threads, and      *)
(* whether or not callbacks stop hosts.                                    *)
(*                                                                         *)
(* The argument follows a host through its life: unborn; being registered, *)
(* known to the caller of host_start only; in the table; taken out of it   *)
(* by one caller that stops it; stopped, and held by callers that found it *)
(* before; let go of by the last one, which destroys it; freed.            *)
(***************************************************************************)
EXTENDS HostTable, TLAPS

Registering == {"register", "insert"}
Stopping == {"asking", "waiting", "releasing"}
Destroying == {"dropping", "dropWaiting"}

Issued(h) == \E entry \in issued : entry[2] = h

(***************************************************************************)
(* The inductive invariant, in named parts.                                *)
(***************************************************************************)

\* A caller refers to a host exactly while it is in the library.
ReferenceWhileInside == \A c \in Callers : op[c] = "out" <=> arc[c] = NoHost

\* Keys are drawn once.
KeysDrawnOnce ==
  /\ \A entry \in issued : entry[1] < nextKey
  /\ \A c \in Callers : op[c] = "insert" =>
       /\ key[c] < nextKey
       /\ \A entry \in issued : entry[1] # key[c]
       /\ \A d \in Callers : op[d] = "insert" /\ key[d] = key[c] => c = d

\* The table holds hosts under the keys they were issued with.
TableIsIssued ==
  /\ table \subseteq issued
  /\ \A entry \in issued, other \in issued : entry[1] = other[1] <=> entry[2] = other[2]

\* A host that is being registered is known to one caller only.
NewbornIsPrivate ==
  \A c \in Callers : op[c] \in Registering =>
    /\ ~Issued(arc[c])
    /\ \A d \in Callers : arc[d] = arc[c] => c = d

\* What has not begun is not referred to.
UnbornIsUnknown ==
  \A h \in Hosts : server[h] = "unborn" => ~Issued(h) /\ \A c \in Callers : arc[c] # h

\* Only issued hosts are used, and a host is stopped after it left the table.
UsedIsIssued ==
  \A c \in Callers :
    /\ op[c] \notin Registering \cup {"out"} => Issued(arc[c])
    /\ op[c] \in Stopping \cup Destroying => ~Registered(arc[c])

\* A host is stopped by one caller and destroyed by the last to refer to it.
OneStopper ==
  /\ \A c, d \in Callers :
       op[c] \in Stopping /\ op[d] \in Stopping /\ arc[c] = arc[d] => c = d
  /\ \A c, d \in Callers : op[c] \in Destroying /\ arc[c] = arc[d] => c = d

\* A host out of the table is being stopped, or its server thread has exited.
TakenIsStopped ==
  /\ \A h \in Hosts : Issued(h) /\ ~Registered(h) =>
       server[h] = "exited" \/ \E c \in Callers : op[c] \in {"asking", "waiting"} /\ arc[c] = h
  /\ \A c \in Callers : op[c] \in Destroying \cup {"releasing"} => server[arc[c]] = "exited"

\* A freed host was issued, and is gone.
FreedIsGone == NoUseAfterFree /\ \A h \in freed : Issued(h)

IInv ==
  /\ TypeOK
  /\ ReferenceWhileInside
  /\ KeysDrawnOnce
  /\ TableIsIssued
  /\ NewbornIsPrivate
  /\ UnbornIsUnknown
  /\ UsedIsIssued
  /\ OneStopper
  /\ TakenIsStopped
  /\ FreedIsGone

-----------------------------------------------------------------------------
LEMMA InitInvariant == Init => IInv
<1> SUFFICES ASSUME Init PROVE IInv
  OBVIOUS
<1>1. TypeOK
  BY DEF Init, TypeOK, FirstKey
<1>2. ReferenceWhileInside /\ KeysDrawnOnce /\ TableIsIssued
  BY DEF Init, ReferenceWhileInside, KeysDrawnOnce, TableIsIssued
<1>3. NewbornIsPrivate /\ UsedIsIssued /\ OneStopper
  BY DEF Init, NewbornIsPrivate, UsedIsIssued, OneStopper, Registering, Stopping, Destroying
<1>4. UnbornIsUnknown
  BY HostTableAssumption DEF Init, UnbornIsUnknown, Issued
<1>5. TakenIsStopped /\ FreedIsGone
  BY DEF Init, TakenIsStopped, FreedIsGone, NoUseAfterFree, Issued, Destroying
<1> QED
  BY <1>1, <1>2, <1>3, <1>4, <1>5 DEF IInv

\* host_start has a server but no key yet.
LEMMA StartServerInvariant ==
  ASSUME NEW c \in Callers, NEW h \in Hosts, IInv, StartServer(c, h)
  PROVE  IInv'
<1> USE HostTableAssumption DEF Callers, serverVars, StartServer, CanCall
<1>1. TypeOK'
  BY DEF IInv, TypeOK
<1>2. ReferenceWhileInside'
  BY DEF IInv, TypeOK, ReferenceWhileInside
<1>3. KeysDrawnOnce'
  BY DEF IInv, TypeOK, KeysDrawnOnce, TableIsIssued
<1>4. TableIsIssued'
  BY DEF IInv, TypeOK, TableIsIssued, KeysDrawnOnce, NewbornIsPrivate, Issued,
     Registering
<1>5. NewbornIsPrivate'
  BY DEF IInv, TypeOK, NewbornIsPrivate, ReferenceWhileInside, UnbornIsUnknown,
     TableIsIssued, Issued, Registering
<1>6. UnbornIsUnknown'
  BY DEF IInv, TypeOK, UnbornIsUnknown, TableIsIssued, Issued
<1>7. UsedIsIssued'
  BY DEF IInv, TypeOK, UsedIsIssued, NewbornIsPrivate, TableIsIssued, Issued,
     Registered, Registering, Stopping, Destroying
<1>8. OneStopper'
  BY DEF IInv, TypeOK, OneStopper, UsedIsIssued, ReferenceWhileInside, NewbornIsPrivate,
     UnbornIsUnknown, TableIsIssued, Issued, Registered, Registering, Stopping,
     Destroying
<1>9. TakenIsStopped'
  BY DEF IInv, TypeOK, TakenIsStopped, OneStopper, UsedIsIssued, NewbornIsPrivate,
     UnbornIsUnknown, TableIsIssued, Issued, Registered, Registering, Stopping,
     Destroying
<1>10. FreedIsGone'
  BY DEF IInv, TypeOK, FreedIsGone, NoUseAfterFree, TakenIsStopped, OneStopper,
     UsedIsIssued, ReferenceWhileInside, NewbornIsPrivate, UnbornIsUnknown,
     TableIsIssued, Issued, Registered, Registering, Stopping, Destroying
<1> QED
  BY <1>1, <1>2, <1>3, <1>4, <1>5, <1>6, <1>7, <1>8, <1>9, <1>10 DEF IInv

\* register_host draws a key nobody else has.
LEMMA FetchKeyInvariant ==
  ASSUME NEW c \in Callers, IInv, FetchKey(c)
  PROVE  IInv'
<1> USE HostTableAssumption DEF Callers, serverVars, FetchKey
<1>1. TypeOK'
  BY DEF IInv, TypeOK
<1>2. ReferenceWhileInside'
  BY DEF IInv, TypeOK, ReferenceWhileInside
<1>3. KeysDrawnOnce'
  BY DEF IInv, TypeOK, KeysDrawnOnce, TableIsIssued
<1>4. TableIsIssued'
  BY DEF IInv, TypeOK, TableIsIssued, KeysDrawnOnce, NewbornIsPrivate, Issued,
     Registering
<1>5. NewbornIsPrivate'
  BY DEF IInv, TypeOK, NewbornIsPrivate, ReferenceWhileInside, UnbornIsUnknown,
     TableIsIssued, Issued, Registering
<1>6. UnbornIsUnknown'
  BY DEF IInv, TypeOK, UnbornIsUnknown, TableIsIssued, Issued
<1>7. UsedIsIssued'
  BY DEF IInv, TypeOK, UsedIsIssued, NewbornIsPrivate, TableIsIssued, Issued,
     Registered, Registering, Stopping, Destroying
<1>8. OneStopper'
  BY DEF IInv, TypeOK, OneStopper, UsedIsIssued, ReferenceWhileInside, NewbornIsPrivate,
     UnbornIsUnknown, TableIsIssued, Issued, Registered, Registering, Stopping,
     Destroying
<1>9. TakenIsStopped'
  BY DEF IInv, TypeOK, TakenIsStopped, OneStopper, UsedIsIssued, NewbornIsPrivate,
     UnbornIsUnknown, TableIsIssued, Issued, Registered, Registering, Stopping,
     Destroying
<1>10. FreedIsGone'
  BY DEF IInv, TypeOK, FreedIsGone, NoUseAfterFree, TakenIsStopped, OneStopper,
     UsedIsIssued, ReferenceWhileInside, NewbornIsPrivate, UnbornIsUnknown,
     TableIsIssued, Issued, Registered, Registering, Stopping, Destroying
<1> QED
  BY <1>1, <1>2, <1>3, <1>4, <1>5, <1>6, <1>7, <1>8, <1>9, <1>10 DEF IInv

\* register_host puts the host into the table.
LEMMA InsertInvariant ==
  ASSUME NEW c \in Callers, IInv, Insert(c)
  PROVE  IInv'
<1> USE HostTableAssumption DEF Callers, serverVars, Insert
<1>1. TypeOK'
  <2>1. arc[c] \in Hosts
    BY DEF IInv, TypeOK, ReferenceWhileInside
  <2> QED
    BY <2>1 DEF IInv, TypeOK
<1>2. ReferenceWhileInside'
  BY DEF IInv, TypeOK, ReferenceWhileInside
<1>3. KeysDrawnOnce'
  BY DEF IInv, TypeOK, KeysDrawnOnce, TableIsIssued
<1>4. TableIsIssued'
  BY DEF IInv, TypeOK, TableIsIssued, KeysDrawnOnce, NewbornIsPrivate, Issued,
     Registering
<1>5. NewbornIsPrivate'
  BY DEF IInv, TypeOK, NewbornIsPrivate, ReferenceWhileInside, UnbornIsUnknown,
     TableIsIssued, Issued, Registering
<1>6. UnbornIsUnknown'
  BY DEF IInv, TypeOK, UnbornIsUnknown, TableIsIssued, Issued
<1>7. UsedIsIssued'
  BY DEF IInv, TypeOK, UsedIsIssued, NewbornIsPrivate, TableIsIssued, Issued,
     Registered, Registering, Stopping, Destroying
<1>8. OneStopper'
  BY DEF IInv, TypeOK, OneStopper, UsedIsIssued, ReferenceWhileInside, NewbornIsPrivate,
     UnbornIsUnknown, TableIsIssued, Issued, Registered, Registering, Stopping,
     Destroying
<1>9. TakenIsStopped'
  <2>1. \A d \in Callers : op[d] \in {"asking", "waiting"} \cup Destroying \cup {"releasing"} =>
          op'[d] = op[d] /\ arc'[d] = arc[d]
    BY DEF IInv, TypeOK, Destroying
  <2>2. table' = table \cup {<<key[c], arc[c]>>} /\ issued' = issued \cup {<<key[c], arc[c]>>}
    BY DEF IInv, TypeOK, KeysDrawnOnce, TableIsIssued
  <2>3. \A h \in Hosts : Issued(h)' /\ ~Registered(h)' => Issued(h) /\ ~Registered(h)
    BY <2>2 DEF Issued, Registered
  <2>4. \A d \in Callers : op'[d] \in Destroying \cup {"releasing"} =>
          op[d] \in Destroying \cup {"releasing"} /\ arc'[d] = arc[d]
    BY DEF IInv, TypeOK, Destroying
  <2> QED
    BY <2>1, <2>3, <2>4 DEF IInv, TakenIsStopped
<1>10. FreedIsGone'
  BY DEF IInv, TypeOK, FreedIsGone, NoUseAfterFree, TakenIsStopped, OneStopper,
     UsedIsIssued, ReferenceWhileInside, NewbornIsPrivate, UnbornIsUnknown,
     TableIsIssued, Issued, Registered, Registering, Stopping, Destroying
<1> QED
  BY <1>1, <1>2, <1>3, <1>4, <1>5, <1>6, <1>7, <1>8, <1>9, <1>10 DEF IInv

\* A lookup finds a host in the table, which is not freed.
LEMMA FindInvariant ==
  ASSUME NEW c \in Callers, NEW handed \in issued, IInv, Find(c, handed)
  PROVE  IInv'
<1> USE HostTableAssumption DEF Callers, serverVars, Find, CanCall
<1>1. TypeOK'
  BY DEF IInv, TypeOK
<1>2. ReferenceWhileInside'
  BY DEF IInv, TypeOK, ReferenceWhileInside
<1>3. KeysDrawnOnce'
  BY DEF IInv, TypeOK, KeysDrawnOnce, TableIsIssued
<1>4. TableIsIssued'
  BY DEF IInv, TypeOK, TableIsIssued, KeysDrawnOnce, NewbornIsPrivate, Issued,
     Registering
<1>5. NewbornIsPrivate'
  BY DEF IInv, TypeOK, NewbornIsPrivate, ReferenceWhileInside, UnbornIsUnknown,
     TableIsIssued, Issued, Registering
<1>6. UnbornIsUnknown'
  BY DEF IInv, TypeOK, UnbornIsUnknown, TableIsIssued, Issued
<1>7. UsedIsIssued'
  BY DEF IInv, TypeOK, UsedIsIssued, NewbornIsPrivate, TableIsIssued, Issued,
     Registered, Registering, Stopping, Destroying
<1>8. OneStopper'
  BY DEF IInv, TypeOK, OneStopper, UsedIsIssued, ReferenceWhileInside, NewbornIsPrivate,
     UnbornIsUnknown, TableIsIssued, Issued, Registered, Registering, Stopping,
     Destroying
<1>9. TakenIsStopped'
  BY DEF IInv, TypeOK, TakenIsStopped, OneStopper, UsedIsIssued, NewbornIsPrivate,
     UnbornIsUnknown, TableIsIssued, Issued, Registered, Registering, Stopping,
     Destroying
<1>10. FreedIsGone'
  BY DEF IInv, TypeOK, FreedIsGone, NoUseAfterFree, TakenIsStopped, OneStopper,
     UsedIsIssued, ReferenceWhileInside, NewbornIsPrivate, UnbornIsUnknown,
     TableIsIssued, Issued, Registered, Registering, Stopping, Destroying
<1> QED
  BY <1>1, <1>2, <1>3, <1>4, <1>5, <1>6, <1>7, <1>8, <1>9, <1>10 DEF IInv

\* The last caller to let go of a host finds its server thread exited.
LEMMA ReleaseInvariant ==
  ASSUME NEW c \in Callers, IInv, Release(c)
  PROVE  IInv'
<1> USE HostTableAssumption DEF Callers, serverVars, Release, Holds
<1>1. TypeOK'
  BY DEF IInv, TypeOK
<1>2. ReferenceWhileInside'
  BY DEF IInv, TypeOK, ReferenceWhileInside
<1>3. KeysDrawnOnce'
  BY DEF IInv, TypeOK, KeysDrawnOnce, TableIsIssued
<1>4. TableIsIssued'
  BY DEF IInv, TypeOK, TableIsIssued, KeysDrawnOnce, NewbornIsPrivate, Issued,
     Registering
<1>5. NewbornIsPrivate'
  BY DEF IInv, TypeOK, NewbornIsPrivate, ReferenceWhileInside, UnbornIsUnknown,
     TableIsIssued, Issued, Registering
<1>6. UnbornIsUnknown'
  BY DEF IInv, TypeOK, UnbornIsUnknown, TableIsIssued, Issued
<1>7. UsedIsIssued'
  BY DEF IInv, TypeOK, UsedIsIssued, NewbornIsPrivate, TableIsIssued, Issued,
     Registered, Registering, Stopping, Destroying
<1>8. OneStopper'
  BY DEF IInv, TypeOK, OneStopper, UsedIsIssued, ReferenceWhileInside, NewbornIsPrivate,
     UnbornIsUnknown, TableIsIssued, Issued, Registered, Registering, Stopping,
     Destroying
<1>9. TakenIsStopped'
  <2>1. server' = server /\ \A h \in Hosts : (Issued(h)' <=> Issued(h)) /\ (Registered(h)' <=> Registered(h))
    BY DEF Issued, Registered
  <2>2. \A d \in Callers : op[d] \in {"asking", "waiting"} => op'[d] = op[d] /\ arc'[d] = arc[d]
    BY DEF IInv, TypeOK
  <2>3. \A h \in Hosts : (Issued(h) /\ ~Registered(h) =>
          server[h] = "exited" \/ \E d \in Callers : op[d] \in {"asking", "waiting"} /\ arc[d] = h)
    BY DEF IInv, TakenIsStopped
  <2>4. ASSUME NEW d \in Callers, op'[d] \in Destroying \cup {"releasing"}
        PROVE  server[arc'[d]] = "exited"
    <3>1. CASE d # c
      BY <2>4, <3>1 DEF IInv, TypeOK, TakenIsStopped
    <3>2. CASE d = c
      <4>1. op[c] \in {"using", "releasing"} /\ arc'[c] = arc[c]
        BY <2>4, <3>2 DEF IInv, TypeOK, Destroying
      <4>2. /\ ~Registered(arc[c])
            /\ \A e \in Callers \ {c} : ~Holds(e, arc[c])
        BY <2>4, <3>2 DEF IInv, TypeOK, Destroying
      <4>3. arc[c] \in Hosts /\ Issued(arc[c])
        BY <4>1 DEF IInv, TypeOK, ReferenceWhileInside, UsedIsIssued, Registering
      <4>4. server[arc[c]] = "exited"
        BY <2>3, <4>1, <4>2, <4>3
      <4> QED
        BY <3>2, <4>1, <4>4
    <3> QED
      BY <3>1, <3>2
  <2>5. \A h \in Hosts : Issued(h)' /\ ~Registered(h)' =>
          server'[h] = "exited" \/ \E d \in Callers : op'[d] \in {"asking", "waiting"} /\ arc'[d] = h
    BY <2>1, <2>2, <2>3
  <2> QED
    BY <2>1, <2>4, <2>5 DEF TakenIsStopped
<1>10. FreedIsGone'
  BY DEF IInv, TypeOK, FreedIsGone, NoUseAfterFree, TakenIsStopped, OneStopper,
     UsedIsIssued, ReferenceWhileInside, NewbornIsPrivate, UnbornIsUnknown,
     TableIsIssued, Issued, Registered, Registering, Stopping, Destroying
<1> QED
  BY <1>1, <1>2, <1>3, <1>4, <1>5, <1>6, <1>7, <1>8, <1>9, <1>10 DEF IInv

\* host_stop takes the host: nobody else stops it, and nobody finds it again.
LEMMA TakeInvariant ==
  ASSUME NEW c \in Callers, NEW handed \in issued, IInv, Take(c, handed)
  PROVE  IInv'
<1> USE HostTableAssumption DEF Callers, serverVars, Take, CanCall
<1>1. TypeOK'
  BY DEF IInv, TypeOK
<1>2. ReferenceWhileInside'
  BY DEF IInv, TypeOK, ReferenceWhileInside
<1>3. KeysDrawnOnce'
  BY DEF IInv, TypeOK, KeysDrawnOnce, TableIsIssued
<1>4. TableIsIssued'
  BY DEF IInv, TypeOK, TableIsIssued, KeysDrawnOnce, NewbornIsPrivate, Issued,
     Registering
<1>5. NewbornIsPrivate'
  BY DEF IInv, TypeOK, NewbornIsPrivate, ReferenceWhileInside, UnbornIsUnknown,
     TableIsIssued, Issued, Registering
<1>6. UnbornIsUnknown'
  BY DEF IInv, TypeOK, UnbornIsUnknown, TableIsIssued, Issued
<1>7. UsedIsIssued'
  BY DEF IInv, TypeOK, UsedIsIssued, NewbornIsPrivate, TableIsIssued, Issued,
     Registered, Registering, Stopping, Destroying
<1>8. OneStopper'
  BY DEF IInv, TypeOK, OneStopper, UsedIsIssued, ReferenceWhileInside, NewbornIsPrivate,
     UnbornIsUnknown, TableIsIssued, Issued, Registered, Registering, Stopping,
     Destroying
<1>9. TakenIsStopped'
  BY DEF IInv, TypeOK, TakenIsStopped, OneStopper, UsedIsIssued, NewbornIsPrivate,
     UnbornIsUnknown, TableIsIssued, Issued, Registered, Registering, Stopping,
     Destroying
<1>10. FreedIsGone'
  BY DEF IInv, TypeOK, FreedIsGone, NoUseAfterFree, TakenIsStopped, OneStopper,
     UsedIsIssued, ReferenceWhileInside, NewbornIsPrivate, UnbornIsUnknown,
     TableIsIssued, Issued, Registered, Registering, Stopping, Destroying
<1> QED
  BY <1>1, <1>2, <1>3, <1>4, <1>5, <1>6, <1>7, <1>8, <1>9, <1>10 DEF IInv

\* The flag is raised.
LEMMA AskServerInvariant ==
  ASSUME NEW c \in Callers, IInv, AskServer(c)
  PROVE  IInv'
<1> USE HostTableAssumption DEF Callers, serverVars, AskServer
<1>1. TypeOK'
  BY DEF IInv, TypeOK
<1>2. ReferenceWhileInside'
  BY DEF IInv, TypeOK, ReferenceWhileInside
<1>3. KeysDrawnOnce'
  BY DEF IInv, TypeOK, KeysDrawnOnce, TableIsIssued
<1>4. TableIsIssued'
  BY DEF IInv, TypeOK, TableIsIssued, KeysDrawnOnce, NewbornIsPrivate, Issued,
     Registering
<1>5. NewbornIsPrivate'
  BY DEF IInv, TypeOK, NewbornIsPrivate, ReferenceWhileInside, UnbornIsUnknown,
     TableIsIssued, Issued, Registering
<1>6. UnbornIsUnknown'
  BY DEF IInv, TypeOK, UnbornIsUnknown, TableIsIssued, Issued
<1>7. UsedIsIssued'
  BY DEF IInv, TypeOK, UsedIsIssued, NewbornIsPrivate, TableIsIssued, Issued,
     Registered, Registering, Stopping, Destroying
<1>8. OneStopper'
  BY DEF IInv, TypeOK, OneStopper, UsedIsIssued, ReferenceWhileInside, NewbornIsPrivate,
     UnbornIsUnknown, TableIsIssued, Issued, Registered, Registering, Stopping,
     Destroying
<1>9. TakenIsStopped'
  BY DEF IInv, TypeOK, TakenIsStopped, OneStopper, UsedIsIssued, NewbornIsPrivate,
     UnbornIsUnknown, TableIsIssued, Issued, Registered, Registering, Stopping,
     Destroying
<1>10. FreedIsGone'
  BY DEF IInv, TypeOK, FreedIsGone, NoUseAfterFree, TakenIsStopped, OneStopper,
     UsedIsIssued, ReferenceWhileInside, NewbornIsPrivate, UnbornIsUnknown,
     TableIsIssued, Issued, Registered, Registering, Stopping, Destroying
<1> QED
  BY <1>1, <1>2, <1>3, <1>4, <1>5, <1>6, <1>7, <1>8, <1>9, <1>10 DEF IInv

\* The server thread has exited.
LEMMA ServerStoppedInvariant ==
  ASSUME NEW c \in Callers, IInv, ServerStopped(c)
  PROVE  IInv'
<1> USE HostTableAssumption DEF Callers, serverVars, ServerStopped
<1>1. TypeOK'
  BY DEF IInv, TypeOK
<1>2. ReferenceWhileInside'
  BY DEF IInv, TypeOK, ReferenceWhileInside
<1>3. KeysDrawnOnce'
  BY DEF IInv, TypeOK, KeysDrawnOnce, TableIsIssued
<1>4. TableIsIssued'
  BY DEF IInv, TypeOK, TableIsIssued, KeysDrawnOnce, NewbornIsPrivate, Issued,
     Registering
<1>5. NewbornIsPrivate'
  BY DEF IInv, TypeOK, NewbornIsPrivate, ReferenceWhileInside, UnbornIsUnknown,
     TableIsIssued, Issued, Registering
<1>6. UnbornIsUnknown'
  BY DEF IInv, TypeOK, UnbornIsUnknown, TableIsIssued, Issued
<1>7. UsedIsIssued'
  BY DEF IInv, TypeOK, UsedIsIssued, NewbornIsPrivate, TableIsIssued, Issued,
     Registered, Registering, Stopping, Destroying
<1>8. OneStopper'
  BY DEF IInv, TypeOK, OneStopper, UsedIsIssued, ReferenceWhileInside, NewbornIsPrivate,
     UnbornIsUnknown, TableIsIssued, Issued, Registered, Registering, Stopping,
     Destroying
<1>9. TakenIsStopped'
  BY DEF IInv, TypeOK, TakenIsStopped, OneStopper, UsedIsIssued, NewbornIsPrivate,
     UnbornIsUnknown, TableIsIssued, Issued, Registered, Registering, Stopping,
     Destroying
<1>10. FreedIsGone'
  BY DEF IInv, TypeOK, FreedIsGone, NoUseAfterFree, TakenIsStopped, OneStopper,
     UsedIsIssued, ReferenceWhileInside, NewbornIsPrivate, UnbornIsUnknown,
     TableIsIssued, Issued, Registered, Registering, Stopping, Destroying
<1> QED
  BY <1>1, <1>2, <1>3, <1>4, <1>5, <1>6, <1>7, <1>8, <1>9, <1>10 DEF IInv

\* The host is freed by the last caller that referred to it.
LEMMA FreeInvariant ==
  ASSUME NEW c \in Callers, IInv, Free(c)
  PROVE  IInv'
<1> USE HostTableAssumption DEF Callers, serverVars, Free
<1>1. TypeOK'
  <2>1. arc[c] \in Hosts
    BY DEF IInv, TypeOK, ReferenceWhileInside
  <2> QED
    BY <2>1 DEF IInv, TypeOK
<1>2. ReferenceWhileInside'
  BY DEF IInv, TypeOK, ReferenceWhileInside
<1>3. KeysDrawnOnce'
  BY DEF IInv, TypeOK, KeysDrawnOnce, TableIsIssued
<1>4. TableIsIssued'
  BY DEF IInv, TypeOK, TableIsIssued, KeysDrawnOnce, NewbornIsPrivate, Issued,
     Registering
<1>5. NewbornIsPrivate'
  BY DEF IInv, TypeOK, NewbornIsPrivate, ReferenceWhileInside, UnbornIsUnknown,
     TableIsIssued, Issued, Registering
<1>6. UnbornIsUnknown'
  BY DEF IInv, TypeOK, UnbornIsUnknown, TableIsIssued, Issued
<1>7. UsedIsIssued'
  BY DEF IInv, TypeOK, UsedIsIssued, NewbornIsPrivate, TableIsIssued, Issued,
     Registered, Registering, Stopping, Destroying
<1>8. OneStopper'
  BY DEF IInv, TypeOK, OneStopper, UsedIsIssued, ReferenceWhileInside, NewbornIsPrivate,
     UnbornIsUnknown, TableIsIssued, Issued, Registered, Registering, Stopping,
     Destroying
<1>9. TakenIsStopped'
  BY DEF IInv, TypeOK, TakenIsStopped, OneStopper, UsedIsIssued, NewbornIsPrivate,
     UnbornIsUnknown, TableIsIssued, Issued, Registered, Registering, Stopping,
     Destroying
<1>10. FreedIsGone'
  BY DEF IInv, TypeOK, FreedIsGone, NoUseAfterFree, TakenIsStopped, OneStopper,
     UsedIsIssued, ReferenceWhileInside, NewbornIsPrivate, UnbornIsUnknown,
     TableIsIssued, Issued, Registered, Registering, Stopping, Destroying
<1> QED
  BY <1>1, <1>2, <1>3, <1>4, <1>5, <1>6, <1>7, <1>8, <1>9, <1>10 DEF IInv

\* The server threads.
LEMMA ServerThreadInvariant ==
  ASSUME NEW h \in Hosts, IInv, ServerThread(h)
  PROVE  IInv'
<1> USE HostTableAssumption DEF Callers, serverVars, ServerThread, CheckStop, NoOperation, Dispatch, CallbackReturns, AcceptFails, MoveServer, callVars
<1>1. TypeOK'
  BY DEF IInv, TypeOK
<1>2. ReferenceWhileInside'
  BY DEF IInv, TypeOK, ReferenceWhileInside
<1>3. KeysDrawnOnce'
  BY DEF IInv, TypeOK, KeysDrawnOnce, TableIsIssued
<1>4. TableIsIssued'
  BY DEF IInv, TypeOK, TableIsIssued, KeysDrawnOnce, NewbornIsPrivate, Issued,
     Registering
<1>5. NewbornIsPrivate'
  BY DEF IInv, TypeOK, NewbornIsPrivate, ReferenceWhileInside, UnbornIsUnknown,
     TableIsIssued, Issued, Registering
<1>6. UnbornIsUnknown'
  BY DEF IInv, TypeOK, UnbornIsUnknown, TableIsIssued, Issued
<1>7. UsedIsIssued'
  BY DEF IInv, TypeOK, UsedIsIssued, NewbornIsPrivate, TableIsIssued, Issued,
     Registered, Registering, Stopping, Destroying
<1>8. OneStopper'
  BY DEF IInv, TypeOK, OneStopper, UsedIsIssued, ReferenceWhileInside, NewbornIsPrivate,
     UnbornIsUnknown, TableIsIssued, Issued, Registered, Registering, Stopping,
     Destroying
<1>9. TakenIsStopped'
  BY DEF IInv, TypeOK, TakenIsStopped, OneStopper, UsedIsIssued, NewbornIsPrivate,
     UnbornIsUnknown, TableIsIssued, Issued, Registered, Registering, Stopping,
     Destroying
<1>10. FreedIsGone'
  BY DEF IInv, TypeOK, FreedIsGone, NoUseAfterFree, TakenIsStopped, OneStopper,
     UsedIsIssued, ReferenceWhileInside, NewbornIsPrivate, UnbornIsUnknown,
     TableIsIssued, Issued, Registered, Registering, Stopping, Destroying
<1> QED
  BY <1>1, <1>2, <1>3, <1>4, <1>5, <1>6, <1>7, <1>8, <1>9, <1>10 DEF IInv

LEMMA StutterInvariant == IInv /\ UNCHANGED vars => IInv'
  BY DEF vars, callVars, serverVars, IInv, TypeOK, ReferenceWhileInside, KeysDrawnOnce, TableIsIssued,
     NewbornIsPrivate, UnbornIsUnknown, UsedIsIssued, OneStopper, TakenIsStopped, FreedIsGone,
     NoUseAfterFree, Issued, Registered

LEMMA NextInvariant == IInv /\ [Next]_vars => IInv'
<1> SUFFICES ASSUME IInv, [Next]_vars PROVE IInv'
  OBVIOUS
<1>1. ASSUME NEW c \in Callers, Call(c) PROVE IInv'
  BY <1>1, StartServerInvariant, FetchKeyInvariant, InsertInvariant, FindInvariant, ReleaseInvariant,
     TakeInvariant, AskServerInvariant, ServerStoppedInvariant, FreeInvariant DEF Call
<1>2. ASSUME NEW h \in Hosts, ServerThread(h) PROVE IInv'
  BY <1>2, ServerThreadInvariant
<1> QED
  BY <1>1, <1>2, StutterInvariant DEF Next

\* IInv holds in every reachable state.
THEOREM Invariance == Spec => []IInv
  BY InitInvariant, NextInvariant, PTL DEF Spec

\* Every variable of the C boundary keeps its type.
THEOREM TypeCorrect == Spec => []TypeOK
<1>1. IInv => TypeOK
  BY DEF IInv
<1> QED
  BY <1>1, Invariance, PTL

\* A freed host is in no table, in no caller's hands and in no callback: the
\* keys and the counted references of lib.rs keep host_stop from freeing a
\* host under anybody, in any number of threads.
THEOREM NobodyUsesFreedMemory == Spec => []NoUseAfterFree
<1>1. IInv => NoUseAfterFree
  BY DEF IInv, FreedIsGone
<1> QED
  BY <1>1, Invariance, PTL

\* The last reference is let go of once.
THEOREM HostsAreDestroyedOnce == Spec => []DestroyedOnce
<1>1. IInv => DestroyedOnce
  BY DEF IInv, OneStopper, Destroying, DestroyedOnce
<1> QED
  BY <1>1, Invariance, PTL

\* Whoever destroys a host finds its server thread exited, so no lookup ever
\* waits for a callback and no server thread joins itself by dropping a host.
THEOREM DestroyingNeverWaits == Spec => []DropNeverWaits
<1>1. IInv => DropNeverWaits
  BY DEF IInv, TakenIsStopped, Destroying, DropNeverWaits
<1> QED
  BY <1>1, Invariance, PTL

\* The local server of a host is stopped by one caller at a time.
THEOREM StopsDoNotOverlap == Spec => []OneStopAtATime
<1>1. IInv => OneStopAtATime
  BY DEF IInv, OneStopper, Stopping, Destroying, OneStopAtATime
<1> QED
  BY <1>1, Invariance, PTL

\* A key names one host for ever.
THEOREM KeysAreNeverReused == Spec => []KeysNameOneHost
<1>1. IInv => KeysNameOneHost
  BY DEF IInv, TableIsIssued, KeysNameOneHost
<1> QED
  BY <1>1, Invariance, PTL
-----------------------------------------------------------------------------
(***************************************************************************)
(* The refinement of HostPromise.  Every step of the C boundary is a step  *)
(* of the promise or changes nothing its callers can tell.                 *)
(***************************************************************************)
Inside == {"using", "asking", "waiting", "releasing", "dropping", "dropWaiting"}

\* A server thread is inside the library only from its callback.
CallsFromCallbacks == \A h \in Hosts : op[h] # "out" => server[h] = "callback"

RInv == IInv /\ CallsFromCallbacks

LEMMA InitCallsFromCallbacks == Init => CallsFromCallbacks
  BY DEF Init, CallsFromCallbacks, Callers

LEMMA NextCallsFromCallbacks == RInv /\ [Next]_vars => CallsFromCallbacks'
<1> SUFFICES ASSUME RInv, [Next]_vars PROVE CallsFromCallbacks'
  OBVIOUS
<1> USE DEF RInv, IInv, TypeOK, CallsFromCallbacks, Callers
<1>1. ASSUME NEW c \in Callers, NEW h \in Hosts, StartServer(c, h) PROVE CallsFromCallbacks'
  BY <1>1 DEF StartServer, CanCall
<1>2. ASSUME NEW c \in Callers, Call(c), server' = server, op[c] # "out" PROVE CallsFromCallbacks'
  <2>1. \A d \in Callers \ {c} : op'[d] = op[d]
    BY <1>2 DEF Call, StartServer, CanCall, FetchKey, Insert, Find, Take, Release, AskServer,
       ServerStopped, Free
  <2> QED
    BY <1>2, <2>1
<1>3. ASSUME NEW c \in Callers, NEW handed \in issued, Find(c, handed) \/ Take(c, handed)
      PROVE  CallsFromCallbacks'
  BY <1>3 DEF Find, Take, CanCall, serverVars
<1>4. ASSUME NEW h \in Hosts, ServerThread(h) PROVE CallsFromCallbacks'
  BY <1>4 DEF ServerThread, CheckStop, NoOperation, Dispatch, CallbackReturns, AcceptFails,
     MoveServer, callVars
<1>5. CASE UNCHANGED vars
  BY <1>5 DEF vars, callVars, serverVars
<1>6. ASSUME NEW c \in Callers, Call(c) PROVE CallsFromCallbacks'
  <2>1. CASE \E h \in Hosts : StartServer(c, h)
    BY <2>1, <1>1
  <2>2. CASE \E handed \in issued : Find(c, handed) \/ Take(c, handed)
    BY <2>2, <1>3
  <2>3. CASE FetchKey(c) \/ Insert(c) \/ Release(c) \/ AskServer(c) \/ ServerStopped(c) \/ Free(c)
    <3>1. server' = server /\ op[c] # "out"
      BY <2>3 DEF FetchKey, Insert, Release, AskServer, ServerStopped, Free, serverVars
    <3> QED
      BY <3>1, <1>2, <1>6
  <2> QED
    BY <1>6, <2>1, <2>2, <2>3 DEF Call
<1> QED
  BY <1>4, <1>5, <1>6 DEF Next

THEOREM RefinementInvariance == Spec => []RInv
<1>1. Init => RInv
  BY InitInvariant, InitCallsFromCallbacks DEF RInv
<1>2. RInv /\ [Next]_vars => RInv'
  BY NextInvariant, NextCallsFromCallbacks DEF RInv
<1> QED
  BY <1>1, <1>2, PTL DEF Spec

LEMMA InitPromise == Init => Promise!Init
  BY DEF Init, Promise!Init, Registered, WorksOn, Callers

\* What the promise sees of the callers and of the table.
Users == [c \in Callers |-> WorksOn(c)]
Live == {h \in Hosts : Registered(h)}
Waiting == {c \in Callers : op[c] \in {"asking", "waiting"}}
Down == {h \in Hosts : server[h] = "exited"}

LEMMA SameView ==
  /\ issued' = issued
  /\ Users' = Users
  /\ Live' = Live
  /\ Waiting' = Waiting
  /\ Down' = Down
  /\ freed' = freed
  => UNCHANGED Promise!vars
  BY DEF Promise!vars, Users, Live, Waiting, Down

\* A host that has a server and no key yet is nobody's business.
LEMMA StartServerStep ==
  ASSUME NEW c \in Callers, NEW h \in Hosts, RInv, StartServer(c, h)
  PROVE  UNCHANGED Promise!vars
<1> USE DEF StartServer, CanCall, RInv, IInv, TypeOK
<1>1. issued' = issued /\ freed' = freed /\ table' = table
  OBVIOUS
<1>2. Users' = Users
  BY DEF Users, WorksOn
<1>3. Live' = Live
  BY DEF Live, Registered
<1>4. Waiting' = Waiting
  BY DEF Waiting
<1>5. Down' = Down
  BY DEF Down
<1> QED
  BY <1>1, <1>2, <1>3, <1>4, <1>5, SameView

LEMMA FetchKeyStep ==
  ASSUME NEW c \in Callers, RInv, FetchKey(c)
  PROVE  UNCHANGED Promise!vars
<1> USE DEF FetchKey, RInv, IInv, TypeOK, serverVars
<1>1. issued' = issued /\ freed' = freed
  OBVIOUS
<1>2. Users' = Users
  BY DEF Users, WorksOn
<1>3. Live' = Live
  BY DEF Live, Registered
<1>4. Waiting' = Waiting
  BY DEF Waiting
<1>5. Down' = Down
  BY DEF Down
<1> QED
  BY <1>1, <1>2, <1>3, <1>4, <1>5, SameView

\* The key that was drawn names no other host, and the host has no other key.
LEMMA InsertStep ==
  ASSUME NEW c \in Callers, RInv, Insert(c)
  PROVE  Promise!HandOut
<1> DEFINE entry == <<key[c], arc[c]>>
<1> USE DEF Insert, RInv, IInv, serverVars
<1>1. arc[c] \in Hosts
  BY DEF TypeOK, ReferenceWhileInside
<1>2. entry[1] = key[c] /\ entry[2] = arc[c]
  OBVIOUS
<1>3. \A other \in issued : other[1] # entry[1] /\ other[2] # entry[2]
  BY <1>2 DEF KeysDrawnOnce, NewbornIsPrivate, Registering, Issued
<1>4. issued' = issued \cup {entry} /\ entry \in issued' \ issued
  BY <1>2, <1>3
<1>5. table' = table \cup {entry}
  BY <1>2, <1>3 DEF TableIsIssued
<1>6. Live' = Live \cup {entry[2]}
  BY <1>1, <1>2, <1>5 DEF Live, Registered
<1>7. Users' = Users
  BY DEF Users, WorksOn, TypeOK
<1>8. Waiting' = Waiting
  BY DEF Waiting, TypeOK
<1>9. Down' = Down /\ freed' = freed
  BY DEF Down
<1> HIDE DEF entry, Insert, RInv, IInv
<1> QED
  BY <1>1, <1>2, <1>3, <1>4, <1>6, <1>7, <1>8, <1>9 DEF Promise!HandOut, Users, Live, Waiting, Down

\* A lookup and a take find a host in the table, by way of a caller outside.
LEMMA BeginStep ==
  ASSUME NEW c \in Callers, NEW entry \in table, RInv, CanCall(c),
         arc' = [arc EXCEPT ![c] = entry[2]],
         op' \in {[op EXCEPT ![c] = "using"], [op EXCEPT ![c] = "asking"]},
         UNCHANGED <<issued, freed, server>>
  PROVE  entry[2] \in Live /\ Promise!Begin(c, entry[2])
<1> USE DEF RInv, IInv
<1>1. entry[2] \in Hosts /\ entry[2] \in Live
  BY DEF TypeOK, Live, Registered
<1>2. Users[c] = NoHost
  BY DEF Users, WorksOn, CanCall
<1>3. c \notin Down
  BY HostTableAssumption DEF Down, CanCall
<1>4. Users' = [Users EXCEPT ![c] = entry[2]]
  BY <1>1 DEF Users, WorksOn, TypeOK
<1>5. Down' = Down
  BY DEF Down
<1> QED
  BY <1>1, <1>2, <1>3, <1>4, <1>5 DEF Promise!Begin, Users, Live, Down

LEMMA FindStep ==
  ASSUME NEW c \in Callers, NEW handed \in issued, RInv, Find(c, handed)
  PROVE  \E h \in Hosts : Promise!Enter(c, h)
<1>1. PICK entry \in table : arc' = [arc EXCEPT ![c] = entry[2]]
  BY DEF Find
<1>2. entry[2] \in Live /\ Promise!Begin(c, entry[2])
  <2>1. /\ CanCall(c)
        /\ op' \in {[op EXCEPT ![c] = "using"], [op EXCEPT ![c] = "asking"]}
        /\ UNCHANGED <<issued, freed, server>>
    BY DEF Find, serverVars
  <2> QED
    BY <1>1, <2>1, BeginStep
<1>3. Live' = Live /\ Waiting' = Waiting
  BY DEF Live, Waiting, Registered, Find, CanCall, RInv, IInv, TypeOK
<1>4. entry[2] \in Hosts
  BY <1>2 DEF Live
<1> QED
  BY <1>2, <1>3, <1>4 DEF Promise!Enter, Live, Waiting

LEMMA TakeStep ==
  ASSUME NEW c \in Callers, NEW handed \in issued, RInv, Take(c, handed)
  PROVE  \E h \in Hosts : Promise!Stop(c, h)
<1>1. PICK entry \in table : table' = table \ {entry} /\ arc' = [arc EXCEPT ![c] = entry[2]]
  BY DEF Take
<1>2. entry[2] \in Live /\ Promise!Begin(c, entry[2])
  <2>1. /\ CanCall(c)
        /\ op' \in {[op EXCEPT ![c] = "using"], [op EXCEPT ![c] = "asking"]}
        /\ UNCHANGED <<issued, freed, server>>
    BY DEF Take, serverVars
  <2> QED
    BY <1>1, <2>1, BeginStep
<1>3. \A other \in table : other[2] = entry[2] => other = entry
  BY DEF RInv, IInv, TypeOK, TableIsIssued
<1>4. Live' = Live \ {entry[2]}
  BY <1>1, <1>3 DEF Live, Registered
<1>5. Waiting' = Waiting \cup {c}
  BY DEF Waiting, Take, RInv, IInv, TypeOK
<1>6. entry[2] \in Hosts
  BY <1>2 DEF Live
<1> QED
  BY <1>2, <1>4, <1>5, <1>6 DEF Promise!Stop, Live, Waiting

\* A caller that is not the last one leaves the host to the others; the last
\* one goes on to destroy it, which nobody sees yet.
LEMMA ReleaseStep ==
  ASSUME NEW c \in Callers, RInv, Release(c)
  PROVE  Promise!Leave(c) \/ UNCHANGED Promise!vars
<1> USE DEF RInv, IInv
<1>1. issued' = issued /\ freed' = freed /\ Live' = Live /\ Waiting' = Waiting /\ Down' = Down
  BY DEF Release, Live, Registered, Waiting, Down, serverVars, TypeOK
<1>2. arc[c] \in Hosts /\ Users[c] = arc[c] /\ c \notin Waiting
  BY DEF Release, ReferenceWhileInside, TypeOK, Users, WorksOn, Waiting
<1>3. CASE Registered(arc[c]) \/ \E d \in Callers \ {c} : Holds(d, arc[c])
  <2>1. Users' = [Users EXCEPT ![c] = NoHost]
    BY <1>3 DEF Release, Users, WorksOn, TypeOK
  <2>2. Users[c] \in Live \/ \E d \in Callers \ {c} : Users[d] = Users[c]
    <3>1. ASSUME NEW d \in Callers \ {c}, Holds(d, arc[c]) PROVE Users[d] = arc[c]
      <4>1. op[d] \notin Registering
        BY <3>1 DEF NewbornIsPrivate, Holds
      <4> QED
        BY <3>1, <4>1 DEF Holds, Registering, Users, WorksOn
    <3> QED
      BY <1>2, <1>3, <3>1 DEF Live
  <2>3. Users[c] # NoHost
    BY <1>2, HostTableAssumption
  <2> HIDE DEF RInv, IInv
  <2> QED
    BY <1>1, <1>2, <2>1, <2>2, <2>3 DEF Promise!Leave, Promise!Needed, Users, Live, Waiting, Down
<1>4. CASE ~(Registered(arc[c]) \/ \E d \in Callers \ {c} : Holds(d, arc[c]))
  <2>1. Users' = Users
    BY <1>4 DEF Release, Users, WorksOn, TypeOK
  <2> QED
    BY <1>1, <2>1, SameView
<1> QED
  BY <1>3, <1>4

LEMMA AskServerStep ==
  ASSUME NEW c \in Callers, RInv, AskServer(c)
  PROVE  UNCHANGED Promise!vars
<1> USE DEF AskServer, RInv, IInv, TypeOK
<1>1. issued' = issued /\ freed' = freed
  OBVIOUS
<1>2. Users' = Users
  BY DEF Users, WorksOn
<1>3. Live' = Live
  BY DEF Live, Registered
<1>4. Waiting' = Waiting
  BY DEF Waiting
<1>5. Down' = Down
  BY DEF Down
<1> QED
  BY <1>1, <1>2, <1>3, <1>4, <1>5, SameView

LEMMA ServerStoppedStep ==
  ASSUME NEW c \in Callers, RInv, ServerStopped(c)
  PROVE  Promise!Stopped(c)
<1> USE DEF ServerStopped, RInv, IInv, TypeOK, serverVars
<1>1. issued' = issued /\ freed' = freed
  OBVIOUS
<1>2. Users' = Users
  BY DEF Users, WorksOn
<1>3. Live' = Live /\ Down' = Down
  BY DEF Live, Registered, Down
<1>4. c \in Waiting /\ Waiting' = Waiting \ {c}
  BY DEF Waiting
<1>5. Users[c] \in Down
  <2>1. arc[c] \in Hosts
    BY DEF ReferenceWhileInside
  <2> QED
    BY <2>1 DEF Users, WorksOn, Down
<1> QED
  BY <1>1, <1>2, <1>3, <1>4, <1>5 DEF Promise!Stopped, Users, Live, Waiting, Down

\* Whoever frees a host is the last to leave it, and its server is down.
LEMMA FreeStep ==
  ASSUME NEW c \in Callers, RInv, Free(c)
  PROVE  Promise!Leave(c)
<1> USE DEF RInv, IInv
<1>1. arc[c] \in Hosts /\ Users[c] = arc[c] /\ c \notin Waiting
  BY DEF Free, ReferenceWhileInside, TypeOK, Users, WorksOn, Waiting
<1>2. Users[c] # NoHost
  BY <1>1, HostTableAssumption
<1>3. issued' = issued /\ Live' = Live /\ Waiting' = Waiting /\ Down' = Down
  BY DEF Free, Live, Registered, Waiting, Down, serverVars, TypeOK
<1>4. Users' = [Users EXCEPT ![c] = NoHost]
  BY DEF Free, Users, WorksOn, TypeOK
<1>5. Users[c] \notin Live
  BY <1>1 DEF Free, UsedIsIssued, Destroying, Live
<1>6. \A d \in Callers \ {c} : Users[d] # Users[c]
  <2>1. SUFFICES ASSUME NEW d \in Callers \ {c}, Users[d] = arc[c] PROVE FALSE
    BY <1>1
  <2>2. op[d] \in Inside /\ arc[d] = arc[c]
    BY <1>1, <2>1, HostTableAssumption DEF Users, WorksOn, Inside
  <2> QED
    BY <2>2 DEF Free, OneStopper, Destroying
<1>7. Users[c] \in Down /\ Users[c] \notin freed /\ freed' = freed \cup {Users[c]}
  BY <1>1 DEF Free, Down, FreedIsGone, NoUseAfterFree
<1> HIDE DEF RInv, IInv
<1> QED
  BY <1>1, <1>2, <1>3, <1>4, <1>5, <1>6, <1>7
     DEF Promise!Leave, Promise!Needed, Users, Live, Waiting, Down

\* A server thread that exits is not inside the library.
LEMMA ServerThreadStep ==
  ASSUME NEW h \in Hosts, RInv, ServerThread(h)
  PROVE  Promise!GoDown(h) \/ UNCHANGED Promise!vars
<1> USE DEF RInv, IInv
<1>1. /\ UNCHANGED callVars
      /\ \E to \in {"check", "recv", "callback", "exited"} : server' = [server EXCEPT ![h] = to]
      /\ server[h] \in {"check", "recv", "callback"}
      /\ server'[h] = "exited" => server[h] \in {"check", "recv"}
  BY DEF ServerThread, CheckStop, NoOperation, Dispatch, CallbackReturns, AcceptFails, MoveServer,
     TypeOK
<1>2. issued' = issued /\ freed' = freed /\ Users' = Users /\ Live' = Live /\ Waiting' = Waiting
  BY <1>1 DEF callVars, Users, WorksOn, Live, Registered, Waiting
<1>3. CASE server'[h] = "exited"
  <2>1. h \notin Down /\ Down' = Down \cup {h}
    BY <1>1, <1>3 DEF Down, TypeOK
  <2>2. Users[h] = NoHost
    <3>1. op[h] = "out"
      BY <1>1, <1>3 DEF CallsFromCallbacks
    <3> QED
      BY <3>1 DEF Users, WorksOn, Callers
  <2> HIDE DEF RInv, IInv
  <2> QED
    BY <1>2, <2>1, <2>2 DEF Promise!GoDown, Users, Live, Waiting, Down
<1>4. CASE server'[h] # "exited"
  <2>1. Down' = Down
    BY <1>1, <1>4 DEF Down, TypeOK
  <2> QED
    BY <1>2, <2>1, SameView
<1> QED
  BY <1>3, <1>4

LEMMA StepPromise == RInv /\ [Next]_vars => [Promise!Next]_(Promise!vars)
<1> SUFFICES ASSUME RInv, [Next]_vars PROVE Promise!Next \/ UNCHANGED Promise!vars
  OBVIOUS
<1>1. ASSUME NEW c \in Callers, Call(c) PROVE Promise!Next \/ UNCHANGED Promise!vars
  <2>1. CASE \E h \in Hosts : StartServer(c, h)
    BY <2>1, StartServerStep
  <2>2. CASE FetchKey(c) \/ AskServer(c)
    BY <2>2, FetchKeyStep, AskServerStep
  <2>3. CASE Insert(c)
    BY <2>3, InsertStep DEF Promise!Next
  <2>4. CASE \E handed \in issued : Find(c, handed) \/ Take(c, handed)
    BY <2>4, FindStep, TakeStep DEF Promise!Next
  <2>5. CASE Release(c) \/ ServerStopped(c) \/ Free(c)
    BY <2>5, ReleaseStep, ServerStoppedStep, FreeStep DEF Promise!Next
  <2> QED
    BY <1>1, <2>1, <2>2, <2>3, <2>4, <2>5 DEF Call
<1>2. ASSUME NEW h \in Hosts, ServerThread(h) PROVE Promise!Next \/ UNCHANGED Promise!vars
  BY <1>2, ServerThreadStep DEF Promise!Next
<1>3. CASE UNCHANGED vars
  BY <1>3 DEF vars, callVars, serverVars, Promise!vars, WorksOn, Registered
<1> QED
  BY <1>1, <1>2, <1>3 DEF Next

\* Whatever threads, callbacks and stops do at once, the C boundary behaves
\* as its comments say: keys are never reused, a call works on the host its
\* key names until it returns, a host is stopped once, and the last call to
\* leave a stopped host frees it, with its server down.
THEOREM BoundaryKeepsItsPromise == Spec => KeepsHostPromise
<1>1. Init => Promise!Init
  BY InitPromise
<1>2. RInv /\ [Next]_vars => [Promise!Next]_(Promise!vars)
  BY StepPromise
<1> QED
  BY <1>1, <1>2, RefinementInvariance, PTL DEF Spec, KeepsHostPromise, Promise!Spec
=============================================================================
