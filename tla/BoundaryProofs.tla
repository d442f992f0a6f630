--------------------------- MODULE BoundaryProofs ---------------------------
(***************************************************************************)
(* Proofs about Boundary, for any number of threads and of addresses.      *)
(*                                                                         *)
(* Whether the memory is in order depends on what a step does to one       *)
(* pointer only: two lemmas say what an allocation and a free keep, under  *)
(* the condition that the pointer is NULL, or is not.  That this condition *)
(* holds where the code relies on it is the other half of the invariant:   *)
(* where a caller is tells which of its variables hold a string.           *)
(***************************************************************************)
EXTENDS Boundary, TLAPS

Side(v) == IF v = "arguments" THEN "runtime" ELSE "library"

MemoryTypeOK ==
  /\ heap \in [Addresses -> {"unused", "library", "runtime", "corrupted"}]
  /\ text \in [Addresses -> Texts \cup {Freed}]
  /\ \A a \in Addresses : heap[a] = "library" => text[a] # "not UTF-8"
  /\ pointer \in [Holders -> Addresses \cup {NULL}]

Held == \A a \in Addresses : heap[a] # "unused" => \E holder \in Holders : pointer[holder] = a

Memory == MemoryTypeOK /\ FreedByItsAllocator /\ PointersAreLive /\ Held

\* The memory is in order, and variable v of caller c is the only one that
\* changed.
OnlyChanges(c, v) ==
  /\ Memory'
  /\ \A d \in Callers, w \in Variables :
       d # c \/ w # v =>
         /\ pointer'[<<d, w>>] = pointer[<<d, w>>]
         /\ pointer[<<d, w>>] # NULL => text'[pointer[<<d, w>>]] = text[pointer[<<d, w>>]]

ControlTypeOK ==
  /\ at \in [Callers -> {"out", "inside", "network", "returned", "failed", "taken"}]
  /\ fn \in [Callers -> {"none", "validate", "start", "health", "platform", "alloc"}]
  /\ slot \in [Callers -> BOOLEAN]
  /\ problem \in [Callers -> AllProblems \cup {"none"}]
  /\ told \in [Callers -> Texts \cup {"nothing"}]
  /\ operation \in [Servers -> {"idle", "callback", "replied", "read"}]
  /\ said \in [Servers -> Ends]
  /\ heard \in [Servers -> {"nothing", "done", "its code", "PLUGIN_ERROR", "PLUGIN_INTERNAL"}]

\* The callback has made its reply, and not returned yet.
Replying(c) == at[c] = "taken" /\ fn[c] = "alloc"

\* Which strings a call of the library has, and when there is one.
CallShape(c) ==
  /\ pointer[<<c, "arguments">>] # NULL <=> at[c] # "out"
  /\ pointer[<<c, "answer">>] # NULL => at[c] = "returned"
  /\ pointer[<<c, "error">>] # NULL <=> at[c] = "failed" /\ slot[c]
  /\ c \in Servers /\ at[c] # "out" => operation[c] = "callback"
  /\ at[c] # "out" /\ fn[c] = "alloc" => c \in Servers /\ at[c] \in {"inside", "taken"}

\* What a call says, from its way out until its caller has read it.
CallSays(c) ==
  /\ at[c] = "inside" /\ fn[c] = "health" => problem[c] = "none"
  /\ at[c] = "network" => fn[c] = "platform"
  /\ at[c] \in {"returned", "failed"} => Says(c, Result(c)) = Due(c)
  /\ at[c] = "taken" /\ fn[c] # "alloc" => told[c] = Due(c)

\* Which strings an operation has.
OperationShape(c) ==
  /\ pointer[<<c, "lent">>] # NULL <=> c \in Servers /\ operation[c] # "idle"
  /\ pointer[<<c, "reply">>] # NULL => c \in Servers /\ (Replying(c) \/ operation[c] = "replied")

\* What becomes of a reply, from how the handler ended.
Unsayable(end) == OnOperation(end) \in {"NULL", "not UTF-8"}
Meant(end) == IF Unsayable(end) THEN "PLUGIN_INTERNAL" ELSE Outcome(OnOperation(end))

\* The reply on its way says how the handler ended.
ReplySays(s) ==
  /\ at[s] = "inside" /\ fn[s] = "alloc" =>
       /\ said[s] # "NULL"
       /\ text[pointer[<<s, "arguments">>]] = OnOperation(said[s])
  /\ Replying(s) \/ operation[s] = "replied" =>
       IF pointer[<<s, "reply">>] = NULL
       THEN Unsayable(said[s])
       ELSE ~Unsayable(said[s]) /\ text[pointer[<<s, "reply">>]] = OnOperation(said[s])
  /\ heard[s] # "nothing" => operation[s] = "read" /\ heard[s] = Meant(said[s])

Control ==
  /\ ControlTypeOK
  /\ \A c \in Callers : CallShape(c) /\ CallSays(c) /\ OperationShape(c)
  /\ \A s \in Servers : ReplySays(s)

IInv == Memory /\ Control

-----------------------------------------------------------------------------
(* Memory *)

\* A string for a variable that has none: to_c_string and Utf8Arg.
LEMMA AllocateKeepsMemory ==
  ASSUME Memory, NEW c \in Callers, NEW v \in Variables, NEW says \in Texts,
         v # "arguments" => says # "not UTF-8",
         pointer[<<c, v>>] = NULL,
         Allocate(c, v, Side(v), says)
  PROVE  /\ OnlyChanges(c, v)
         /\ pointer'[<<c, v>>] \in Addresses
         /\ text'[pointer'[<<c, v>>]] = says
<1>1. PICK a \in Addresses :
        /\ heap[a] = "unused"
        /\ heap' = [heap EXCEPT ![a] = Side(v)]
        /\ text' = [text EXCEPT ![a] = says]
        /\ pointer' = [pointer EXCEPT ![<<c, v>>] = a]
  BY DEF Allocate
<1>2. <<c, v>> \in Holders /\ NULL \notin Addresses
  BY BoundaryAssumption DEF Holders
<1>3. \A holder \in Holders : pointer[holder] # a
  BY <1>1, <1>2 DEF Memory, PointersAreLive
<1>4. \A holder \in Holders : pointer'[holder] = IF holder = <<c, v>> THEN a ELSE pointer[holder]
  BY <1>1, <1>2 DEF Memory, MemoryTypeOK
<1>5. \A b \in Addresses :
        /\ heap'[b] = IF b = a THEN Side(v) ELSE heap[b]
        /\ text'[b] = IF b = a THEN says ELSE text[b]
  BY <1>1 DEF Memory, MemoryTypeOK
<1>6. MemoryTypeOK'
  <2>1. Side(v) \in {"library", "runtime"} /\ (v = "arguments" => Side(v) = "runtime")
    BY DEF Side
  <2>2. heap' \in [Addresses -> {"unused", "library", "runtime", "corrupted"}]
    BY <1>1, <2>1 DEF Memory, MemoryTypeOK
  <2>3. text' \in [Addresses -> Texts \cup {Freed}]
    BY <1>1 DEF Memory, MemoryTypeOK
  <2>4. \A b \in Addresses : heap'[b] = "library" => text'[b] # "not UTF-8"
    BY <1>5, <2>1 DEF Memory, MemoryTypeOK
  <2>5. pointer' \in [Holders -> Addresses \cup {NULL}]
    BY <1>1, <1>2 DEF Memory, MemoryTypeOK
  <2>6. QED
    BY <2>2, <2>3, <2>4, <2>5 DEF MemoryTypeOK
<1>7. FreedByItsAllocator'
  BY <1>5 DEF Memory, FreedByItsAllocator, Side
<1>8. PointersAreLive'
  <2>1. SUFFICES ASSUME NEW holder \in Holders, pointer'[holder] # NULL
                 PROVE  /\ heap'[pointer'[holder]] = IF holder[2] = "arguments" THEN "runtime" ELSE "library"
                        /\ \A other \in Holders : pointer'[other] = pointer'[holder] => other = holder
    BY DEF PointersAreLive
  <2>2. CASE holder = <<c, v>>
    BY <2>2, <1>3, <1>4, <1>5 DEF Side
  <2>3. CASE holder # <<c, v>>
    <3>1. pointer'[holder] = pointer[holder] /\ pointer[holder] \in Addresses
      BY <2>1, <2>3, <1>4 DEF Memory, MemoryTypeOK
    <3>2. pointer[holder] # a /\ pointer[holder] # NULL
      BY <3>1, <1>2, <1>3
    <3>3. /\ heap[pointer[holder]] = IF holder[2] = "arguments" THEN "runtime" ELSE "library"
          /\ \A other \in Holders : pointer[other] = pointer[holder] => other = holder
      BY <3>2 DEF Memory, PointersAreLive
    <3>4. heap'[pointer'[holder]] = heap[pointer[holder]]
      BY <3>1, <3>2, <1>5
    <3>5. ASSUME NEW other \in Holders, pointer'[other] = pointer'[holder]
          PROVE  other = holder
      BY <3>1, <3>2, <3>3, <3>5, <1>4
    <3>6. QED
      BY <3>1, <3>3, <3>4, <3>5
  <2>4. QED
    BY <2>2, <2>3
<1>9. Held'
  <2>1. SUFFICES ASSUME NEW b \in Addresses, heap'[b] # "unused"
                 PROVE  \E holder \in Holders : pointer'[holder] = b
    BY DEF Held
  <2>2. CASE b = a
    BY <2>2, <1>2, <1>4
  <2>3. CASE b # a
    <3>1. PICK holder \in Holders : pointer[holder] = b
      BY <2>1, <2>3, <1>5 DEF Memory, Held
    <3>2. holder # <<c, v>>
      BY <3>1, <1>2
    <3>3. QED
      BY <3>1, <3>2, <1>4
  <2>4. QED
    BY <2>2, <2>3
<1>10. ASSUME NEW d \in Callers, NEW w \in Variables, d # c \/ w # v
       PROVE  /\ pointer'[<<d, w>>] = pointer[<<d, w>>]
              /\ pointer[<<d, w>>] # NULL => text'[pointer[<<d, w>>]] = text[pointer[<<d, w>>]]
  <2>1. <<d, w>> \in Holders /\ <<d, w>> # <<c, v>>
    BY <1>10 DEF Holders
  <2>2. pointer[<<d, w>>] \in Addresses \cup {NULL} /\ pointer[<<d, w>>] # a
    BY <2>1, <1>3 DEF Memory, MemoryTypeOK
  <2>3. QED
    BY <2>1, <2>2, <1>4, <1>5
<1>11. Memory'
  BY <1>6, <1>7, <1>8, <1>9 DEF Memory
<1>12. OnlyChanges(c, v)
  BY <1>10, <1>11 DEF OnlyChanges
<1>13. pointer'[<<c, v>>] = a
  BY <1>2, <1>4
<1>14. text'[a] = says
  BY <1>5
<1>15. QED
  BY <1>12, <1>13, <1>14

\* A string that is freed by the side its variable belongs to.
LEMMA FreeKeepsMemory ==
  ASSUME Memory, NEW c \in Callers, NEW v \in Variables,
         pointer[<<c, v>>] # NULL,
         Free(c, v, Side(v))
  PROVE  OnlyChanges(c, v) /\ pointer'[<<c, v>>] = NULL
<1> DEFINE a == pointer[<<c, v>>]
<1>1. <<c, v>> \in Holders /\ NULL \notin Addresses /\ a \in Addresses
  BY BoundaryAssumption DEF Holders, Memory, MemoryTypeOK
<1>2. heap[a] = Side(v)
  BY <1>1 DEF Memory, PointersAreLive, Side
<1>3. /\ heap' = [heap EXCEPT ![a] = "unused"]
      /\ text' = [text EXCEPT ![a] = Freed]
      /\ pointer' = [pointer EXCEPT ![<<c, v>>] = NULL]
  BY <1>1, <1>2 DEF Free, Memory, MemoryTypeOK
<1>4. \A holder \in Holders : holder # <<c, v>> => pointer[holder] # a
  BY <1>1 DEF Memory, PointersAreLive
<1>5. \A holder \in Holders : pointer'[holder] = IF holder = <<c, v>> THEN NULL ELSE pointer[holder]
  BY <1>1, <1>3 DEF Memory, MemoryTypeOK
<1> HIDE DEF a
<1>6. \A b \in Addresses :
        /\ heap'[b] = IF b = a THEN "unused" ELSE heap[b]
        /\ text'[b] = IF b = a THEN Freed ELSE text[b]
  BY <1>3 DEF Memory, MemoryTypeOK
<1>7. MemoryTypeOK'
  <2>1. heap' \in [Addresses -> {"unused", "library", "runtime", "corrupted"}]
    BY <1>3 DEF Memory, MemoryTypeOK
  <2>2. text' \in [Addresses -> Texts \cup {Freed}]
    BY <1>3 DEF Memory, MemoryTypeOK
  <2>3. \A b \in Addresses : heap'[b] = "library" => text'[b] # "not UTF-8"
    BY <1>6 DEF Memory, MemoryTypeOK, Freed
  <2>4. pointer' \in [Holders -> Addresses \cup {NULL}]
    BY <1>1, <1>3 DEF Memory, MemoryTypeOK
  <2>5. QED
    BY <2>1, <2>2, <2>3, <2>4 DEF MemoryTypeOK
<1>8. FreedByItsAllocator'
  BY <1>6 DEF Memory, FreedByItsAllocator
<1>9. PointersAreLive'
  <2>1. SUFFICES ASSUME NEW holder \in Holders, pointer'[holder] # NULL
                 PROVE  /\ heap'[pointer'[holder]] = IF holder[2] = "arguments" THEN "runtime" ELSE "library"
                        /\ \A other \in Holders : pointer'[other] = pointer'[holder] => other = holder
    BY DEF PointersAreLive
  <2>2. holder # <<c, v>> /\ pointer'[holder] = pointer[holder]
    BY <2>1, <1>5
  <2>3. pointer[holder] \in Addresses /\ pointer[holder] # a /\ pointer[holder] # NULL
    BY <2>1, <2>2, <1>4 DEF Memory, MemoryTypeOK
  <2>4. QED
    BY <2>2, <2>3, <1>5, <1>6 DEF Memory, PointersAreLive
<1>10. Held'
  <2>1. SUFFICES ASSUME NEW b \in Addresses, heap'[b] # "unused"
                 PROVE  \E holder \in Holders : pointer'[holder] = b
    BY DEF Held
  <2>2. b # a /\ heap[b] # "unused"
    BY <2>1, <1>6
  <2>3. PICK holder \in Holders : pointer[holder] = b
    BY <2>2 DEF Memory, Held
  <2>4. holder # <<c, v>>
    BY <2>2, <2>3 DEF a
  <2>5. QED
    BY <2>3, <2>4, <1>5
<1>11. ASSUME NEW d \in Callers, NEW w \in Variables, d # c \/ w # v
       PROVE  /\ pointer'[<<d, w>>] = pointer[<<d, w>>]
              /\ pointer[<<d, w>>] # NULL => text'[pointer[<<d, w>>]] = text[pointer[<<d, w>>]]
  <2>1. <<d, w>> \in Holders /\ <<d, w>> # <<c, v>>
    BY <1>11 DEF Holders
  <2>2. pointer[<<d, w>>] \in Addresses \cup {NULL} /\ pointer[<<d, w>>] # a
    BY <2>1, <1>4 DEF Memory, MemoryTypeOK
  <2>3. QED
    BY <2>1, <2>2, <1>5, <1>6
<1>12. QED
  BY <1>1, <1>5, <1>7, <1>8, <1>9, <1>10, <1>11 DEF OnlyChanges, Memory

LEMMA UnchangedKeepsMemory ==
  ASSUME Memory, UNCHANGED memory, NEW c \in Callers, NEW v \in Variables
  PROVE  OnlyChanges(c, v) /\ pointer'[<<c, v>>] = pointer[<<c, v>>]
BY DEF memory, OnlyChanges, Memory, MemoryTypeOK, FreedByItsAllocator, PointersAreLive, Held

\* string_free accepts NULL.
LEMMA StringFreeKeepsMemory ==
  ASSUME Memory, NEW c \in Callers, NEW v \in Variables, v # "arguments", string_free(c, v)
  PROVE  OnlyChanges(c, v) /\ pointer'[<<c, v>>] = NULL
<1>1. CASE pointer[<<c, v>>] = NULL
  BY <1>1, UnchangedKeepsMemory DEF string_free
<1>2. CASE pointer[<<c, v>>] # NULL
  BY <1>2, FreeKeepsMemory DEF string_free, Side
<1>3. QED
  BY <1>1, <1>2

-----------------------------------------------------------------------------
(* Control *)

Untouched(d) ==
  /\ at'[d] = at[d] /\ fn'[d] = fn[d] /\ slot'[d] = slot[d] /\ problem'[d] = problem[d] /\ told'[d] = told[d]
  /\ d \in Servers => operation'[d] = operation[d] /\ said'[d] = said[d] /\ heard'[d] = heard[d]

\* A step of one caller keeps what the invariant says of the others.
LEMMA OthersKeep ==
  ASSUME IInv, NEW c \in Callers, NEW v \in Variables, OnlyChanges(c, v),
         ControlTypeOK', \A d \in Callers : d # c => Untouched(d),
         CallShape(c)', CallSays(c)', OperationShape(c)', c \in Servers => ReplySays(c)'
  PROVE  IInv'
<1>1. ASSUME NEW d \in Callers, d # c
      PROVE  CallShape(d)' /\ CallSays(d)' /\ OperationShape(d)' /\ (d \in Servers => ReplySays(d)')
  <2>1. \A w \in Variables :
          /\ pointer'[<<d, w>>] = pointer[<<d, w>>]
          /\ pointer[<<d, w>>] # NULL => text'[pointer[<<d, w>>]] = text[pointer[<<d, w>>]]
    BY <1>1 DEF OnlyChanges
  <2>2. Untouched(d) /\ CallShape(d) /\ CallSays(d) /\ OperationShape(d)
    BY <1>1 DEF IInv, Control
  <2>3. CallShape(d)' /\ OperationShape(d)'
    BY <2>1, <2>2 DEF Untouched, CallShape, OperationShape, Replying, Variables
  <2>6. CallSays(d)'
    <3>1. Result(d)' = Result(d) /\ Due(d)' = Due(d) /\ Result(d) \in Variables
      BY <2>2 DEF Untouched, Result, Due, Variables
    <3>2. Says(d, Result(d))' = Says(d, Result(d))
      BY <2>1, <3>1 DEF Says
    <3>3. QED
      BY <2>2, <3>1, <3>2 DEF Untouched, CallSays
  <2>4. ASSUME d \in Servers
        PROVE  ReplySays(d)'
    <3>1. ReplySays(d)
      BY <2>4 DEF IInv, Control
    <3>2. "arguments" \in Variables /\ "reply" \in Variables
      BY DEF Variables
    <3>3. QED
      BY <2>1, <2>2, <2>4, <3>1, <3>2 DEF Untouched, CallShape, ReplySays, Replying
  <2>5. QED
    BY <2>3, <2>4, <2>6
<1>2. Servers \subseteq Callers
  BY DEF Callers
<1>3. Memory'
  BY DEF OnlyChanges
<1>4. Control'
  BY <1>1, <1>2 DEF Control
<1>5. QED
  BY <1>3, <1>4 DEF IInv

\* What a step of c leaves alone, one variable excepted.
LEMMA OwnPointers ==
  ASSUME NEW c \in Callers, NEW v \in Variables, OnlyChanges(c, v)
  PROVE  \A w \in Variables :
           w # v =>
             /\ pointer'[<<c, w>>] = pointer[<<c, w>>]
             /\ pointer[<<c, w>>] # NULL => text'[pointer[<<c, w>>]] = text[pointer[<<c, w>>]]
BY DEF OnlyChanges

LEMMA ReasonsAreTexts ==
  /\ AllProblems \subseteq Texts \ {"not UTF-8"}
  /\ "none" \notin AllProblems /\ "NULL" \notin AllProblems
  /\ \A function \in {"validate", "start", "health", "platform"} : Problems(function) \subseteq AllProblems
  /\ Problems("health") = {}
<1>1. Problems("validate") = {"no manifest", "bad manifest"}
  BY DEF Problems
<1>2. Problems("start") = {"no callback", "no manifest", "bad manifest", "bad launch", "no server"}
  BY DEF Problems
<1>3. Problems("platform") = {"no host", "no platform", "no method or path", "bad body", "no answer"}
  BY DEF Problems
<1>4. Problems("health") = {}
  BY DEF Problems
<1>5. \A reason : reason \in AllProblems <=> \/ reason \in Problems("validate")
                                            \/ reason \in Problems("start")
                                            \/ reason \in Problems("platform")
  BY Zenon DEF AllProblems
<1>6. AllProblems \subseteq Texts
  BY DEF Texts
<1>7. \A reason \in {"not UTF-8", "none", "NULL"} : reason \notin AllProblems
  <2>1. TAKE reason \in {"not UTF-8", "none", "NULL"}
  <2>2. /\ reason \notin Problems("validate")
        /\ reason \notin Problems("start")
        /\ reason \notin Problems("platform")
    BY <1>1, <1>2, <1>3
  <2>3. QED
    BY <1>5, <2>2
<1>8. \A function \in {"validate", "start", "health", "platform"} : Problems(function) \subseteq AllProblems
  BY <1>4, <1>5
<1>9. QED
  BY <1>4, <1>6, <1>7, <1>8

\* A step inside a call that is no string_alloc: what has to be looked at is
\* the shape of the call and what it says.
LEMMA MoveKeeps ==
  ASSUME IInv, NEW c \in Callers, NEW v \in {"answer", "error"}, OnlyChanges(c, v),
         at[c] # "out", fn[c] # "alloc",
         NEW where \in {"network", "returned", "failed", "taken"}, at' = [at EXCEPT ![c] = where],
         UNCHANGED <<fn, slot, problem, operation, said, heard>>,
         told' \in [Callers -> Texts \cup {"nothing"}], \A d \in Callers : d # c => told'[d] = told[d],
         pointer'[<<c, "answer">>] # NULL => where = "returned",
         pointer'[<<c, "error">>] # NULL <=> where = "failed" /\ slot[c],
         CallSays(c)'
  PROVE  IInv'
<1>1. v \in Variables
  BY DEF Variables
<1>3. ControlTypeOK /\ CallShape(c) /\ OperationShape(c)
  BY DEF IInv, Control
<1>4. ControlTypeOK'
  BY <1>3 DEF ControlTypeOK
<1>5. at'[c] = where /\ \A d \in Callers : d # c => at'[d] = at[d]
  BY <1>3 DEF ControlTypeOK
<1>6. \A d \in Callers : d # c => Untouched(d)
  BY <1>5 DEF Untouched
<1>7. \A w \in {"arguments", "lent", "reply"} : pointer'[<<c, w>>] = pointer[<<c, w>>]
  BY <1>1, OwnPointers DEF Variables
<1>8. CallShape(c)'
  BY <1>3, <1>5, <1>7 DEF CallShape
<1>9. OperationShape(c)'
  BY <1>3, <1>5, <1>7 DEF OperationShape, Replying
<1>10. ASSUME c \in Servers
       PROVE  ReplySays(c)'
  <2>1. ReplySays(c) /\ operation[c] = "callback"
    BY <1>3, <1>10 DEF IInv, Control, CallShape
  <2>2. QED
    BY <2>1, <1>5 DEF ReplySays, Replying
<1>11. QED
  BY <1>1, <1>4, <1>6, <1>8, <1>9, <1>10, OthersKeep

\* An early return says what was wrong, if it can.
LEMMA RefuseKeeps ==
  ASSUME IInv, NEW c \in Callers, at[c] \in {"inside", "network"}, fn[c] \in {"start", "platform"},
         NEW reason \in AllProblems, Refuse(c, reason)
  PROVE  IInv'
<1>1. Memory /\ ControlTypeOK /\ CallShape(c)
  BY DEF IInv, Control
<1>2. pointer[<<c, "error">>] = NULL /\ pointer[<<c, "answer">>] = NULL
  BY <1>1 DEF CallShape
<1>3. /\ problem[c] = reason
      /\ at' = [at EXCEPT ![c] = "failed"]
      /\ UNCHANGED <<fn, slot, problem, told, operation, said, heard>>
      /\ "error" \in Variables /\ "answer" \in Variables
      /\ reason \in Texts /\ reason # "not UTF-8" /\ reason # "none"
  BY ReasonsAreTexts DEF Refuse, Move, dispatchVars, Variables
<1>4. /\ OnlyChanges(c, "error")
      /\ IF slot[c]
         THEN pointer'[<<c, "error">>] # NULL /\ text'[pointer'[<<c, "error">>]] = reason
         ELSE pointer'[<<c, "error">>] = NULL
  <2>1. CASE slot[c]
    <3>1. Allocate(c, "error", Side("error"), reason)
      BY <2>1 DEF Refuse, put_error, to_c_string, Side
    <3>2. QED
      BY <1>1, <1>2, <1>3, <2>1, <3>1, AllocateKeepsMemory, BoundaryAssumption
  <2>2. CASE ~slot[c]
    BY <1>1, <1>2, <1>3, <2>2, UnchangedKeepsMemory DEF Refuse, put_error
  <2>3. QED
    BY <2>1, <2>2
<1>5. pointer'[<<c, "answer">>] = NULL
  BY <1>2, <1>3, <1>4, OwnPointers
<1>6. at'[c] = "failed" /\ told' \in [Callers -> Texts \cup {"nothing"}]
  BY <1>1, <1>3 DEF ControlTypeOK
<1>7. CallSays(c)'
  <2>1. Says(c, "error")' = IF slot[c] THEN reason ELSE "nothing"
    BY <1>4 DEF Says
  <2>2. Due(c)' = IF slot[c] THEN reason ELSE "nothing"
    BY <1>3 DEF Due
  <2>3. QED
    BY <1>6, <2>1, <2>2 DEF CallSays, Result
<1>8. QED
  BY <1>3, <1>4, <1>5, <1>6, <1>7, MoveKeeps

\* A step that leaves the memory alone, or returns a string.
LEMMA ReturnKeeps ==
  ASSUME IInv, NEW c \in Callers, at[c] \in {"inside", "network"}, fn[c] # "alloc",
         NEW where \in {"network", "returned"}, Move(c, where),
         where = "network" => fn[c] = "platform",
         \/ UNCHANGED memory /\ (where = "returned" => Due(c) = "nothing")
         \/ /\ where = "returned" /\ Due(c) \in AllProblems \cup {"answer"}
            /\ to_c_string(c, "answer", Due(c))
  PROVE  IInv'
<1>1. Memory /\ ControlTypeOK /\ CallShape(c)
  BY DEF IInv, Control
<1>2. pointer[<<c, "error">>] = NULL /\ pointer[<<c, "answer">>] = NULL
  BY <1>1 DEF CallShape
<1>3. /\ "error" \in Variables /\ "answer" \in Variables
      /\ AllProblems \cup {"answer"} \subseteq Texts \ {"not UTF-8"}
      /\ at' = [at EXCEPT ![c] = where]
      /\ UNCHANGED <<fn, slot, problem, told, operation, said, heard>>
  BY ReasonsAreTexts DEF Variables, Texts, Move, dispatchVars
<1>4. /\ OnlyChanges(c, "answer")
      /\ pointer'[<<c, "answer">>] # NULL => where = "returned"
      /\ where = "returned" => Says(c, "answer")' = Due(c)
  <2>1. CASE UNCHANGED memory /\ (where = "returned" => Due(c) = "nothing")
    BY <1>1, <1>2, <1>3, <2>1, UnchangedKeepsMemory DEF Says
  <2>2. CASE /\ where = "returned" /\ Due(c) \in AllProblems \cup {"answer"}
             /\ to_c_string(c, "answer", Due(c))
    <3>1. Allocate(c, "answer", Side("answer"), Due(c))
      BY <2>2 DEF to_c_string, Side
    <3>2. /\ OnlyChanges(c, "answer")
          /\ pointer'[<<c, "answer">>] \in Addresses
          /\ text'[pointer'[<<c, "answer">>]] = Due(c)
      BY <1>1, <1>2, <1>3, <2>2, <3>1, AllocateKeepsMemory
    <3>3. QED
      BY <2>2, <3>2, BoundaryAssumption DEF Says
  <2>3. QED
    BY <2>1, <2>2
<1>5. pointer'[<<c, "error">>] = NULL
  BY <1>2, <1>3, <1>4, OwnPointers
<1>6. at'[c] = where /\ told' \in [Callers -> Texts \cup {"nothing"}]
  BY <1>1, <1>3 DEF ControlTypeOK
<1>7. CallSays(c)'
  <2>1. Due(c)' = Due(c)
    BY <1>3 DEF Due
  <2>2. QED
    BY <1>3, <1>4, <1>6, <2>1 DEF CallSays, Result
<1>8. QED
  BY <1>2, <1>3, <1>4, <1>5, <1>6, <1>7, MoveKeeps

LEMMA TakeStringKeeps ==
  ASSUME IInv, NEW c \in Callers, TakeString(c)
  PROVE  IInv'
<1>1. Memory /\ ControlTypeOK /\ CallShape(c) /\ CallSays(c)
  BY DEF IInv, Control
<1>2. /\ at[c] \in {"returned", "failed"} /\ fn[c] # "alloc"
      /\ at' = [at EXCEPT ![c] = "taken"]
      /\ told' = [told EXCEPT ![c] = Due(c)]
      /\ UNCHANGED <<fn, slot, problem, operation, said, heard>>
  BY <1>1 DEF TakeString, CallShape, CallSays, dispatchVars
<1> DEFINE v == Result(c)
<1>3. string_free(c, v) /\ v \in {"answer", "error"} /\ v \in Variables /\ v # "arguments"
  BY DEF TakeString, Result, Variables
<1>4. OnlyChanges(c, v) /\ pointer'[<<c, v>>] = NULL
  BY <1>1, <1>3, StringFreeKeepsMemory
<1>5. pointer'[<<c, "answer">>] = NULL /\ pointer'[<<c, "error">>] = NULL
  <2>1. "error" \in Variables /\ "answer" \in Variables
    BY DEF Variables
  <2>2. CASE at[c] = "failed"
    BY <1>1, <1>3, <1>4, <2>1, <2>2, OwnPointers DEF CallShape, Result
  <2>3. CASE at[c] # "failed"
    BY <1>1, <1>3, <1>4, <2>1, <2>3, OwnPointers DEF CallShape, Result
  <2>4. QED
    BY <2>2, <2>3
<1>6. Due(c) \in Texts \cup {"nothing"}
  BY <1>1, ReasonsAreTexts DEF Due, ControlTypeOK, Texts
<1>7. /\ told' \in [Callers -> Texts \cup {"nothing"}]
      /\ told'[c] = Due(c) /\ at'[c] = "taken"
      /\ \A d \in Callers : d # c => told'[d] = told[d]
  BY <1>1, <1>2, <1>6 DEF ControlTypeOK
<1>8. CallSays(c)'
  <2>1. Due(c)' = Due(c)
    BY <1>2 DEF Due
  <2>2. QED
    BY <1>7, <2>1 DEF CallSays
<1> HIDE DEF v
<1>9. QED
  BY <1>2, <1>3, <1>4, <1>5, <1>7, <1>8, MoveKeeps

-----------------------------------------------------------------------------
(* The steps that begin and end a call or an operation. *)

\* A call begins: for a string_alloc, the handler of the callback has ended.
LEMMA CallKeeps ==
  ASSUME IInv, NEW c \in Callers, NEW function \in {"validate", "start", "health", "platform", "alloc"},
         NEW says \in Texts, Call(c, function, says), UNCHANGED <<operation, heard>>,
         slot' \in [Callers -> BOOLEAN], \A d \in Callers : d # c => slot'[d] = slot[d],
         problem' \in [Callers -> AllProblems \cup {"none"}], \A d \in Callers : d # c => problem'[d] = problem[d],
         function = "health" => problem'[c] = "none", UNCHANGED told,
         \/ function # "alloc" /\ UNCHANGED said
         \/ /\ function = "alloc" /\ c \in Servers
            /\ \E end \in Ends \ {"NULL"} : said' = [said EXCEPT ![c] = end] /\ says = OnOperation(end)
  PROVE  IInv'
<1>1. Memory /\ ControlTypeOK /\ CallShape(c) /\ OperationShape(c)
  BY DEF IInv, Control
<1>2. CanCall(c) /\ at[c] = "out" /\ pointer[<<c, "arguments">>] = NULL /\ pointer[<<c, "answer">>] = NULL
      /\ pointer[<<c, "error">>] = NULL
  BY <1>1 DEF Call, CanCall, CallShape
<1>3. \A w \in {"arguments", "answer", "error", "lent", "reply"} : w \in Variables
  BY DEF Variables
<1>4. /\ OnlyChanges(c, "arguments")
      /\ pointer'[<<c, "arguments">>] # NULL
      /\ text'[pointer'[<<c, "arguments">>]] = says
  <2>1. Allocate(c, "arguments", Side("arguments"), says)
    BY DEF Call, Pin, Side
  <2>2. /\ OnlyChanges(c, "arguments")
        /\ pointer'[<<c, "arguments">>] \in Addresses
        /\ text'[pointer'[<<c, "arguments">>]] = says
    <3>1. "arguments" \in Variables /\ pointer[<<c, "arguments">>] = NULL /\ Memory
      BY <1>1, <1>2, <1>3
    <3>2. QED
      BY <2>1, <3>1, AllocateKeepsMemory
  <2>3. QED
    BY <2>2, BoundaryAssumption
<1>5. at' = [at EXCEPT ![c] = "inside"] /\ fn' = [fn EXCEPT ![c] = function]
  BY DEF Call
<1>6. at'[c] = "inside" /\ fn'[c] = function
  BY <1>1, <1>5 DEF ControlTypeOK
<1>7. said' \in [Servers -> Ends] /\ \A d \in Servers : d # c => said'[d] = said[d]
  <2>1. said \in [Servers -> Ends]
    BY <1>1 DEF ControlTypeOK
  <2>2. UNCHANGED said \/ \E end \in Ends : said' = [said EXCEPT ![c] = end]
    OBVIOUS
  <2>3. QED
    BY <2>1, <2>2
<1>8. ControlTypeOK'
  <2>1. /\ at' \in [Callers -> {"out", "inside", "network", "returned", "failed", "taken"}]
        /\ fn' \in [Callers -> {"none", "validate", "start", "health", "platform", "alloc"}]
    BY <1>1, <1>5 DEF ControlTypeOK
  <2>2. told' \in [Callers -> Texts \cup {"nothing"}]
    BY <1>1 DEF ControlTypeOK
  <2>3. /\ operation' \in [Servers -> {"idle", "callback", "replied", "read"}]
        /\ heard' \in [Servers -> {"nothing", "done", "its code", "PLUGIN_ERROR", "PLUGIN_INTERNAL"}]
    BY <1>1 DEF ControlTypeOK
  <2>4. QED
    BY <1>7, <2>1, <2>2, <2>3 DEF ControlTypeOK
<1>9. \A d \in Callers : d # c => Untouched(d)
  <2>1. \A d \in Callers : d # c => at'[d] = at[d] /\ fn'[d] = fn[d]
    BY <1>1, <1>5 DEF ControlTypeOK
  <2>2. QED
    BY <1>7, <2>1 DEF Untouched
<1>10. \A w \in {"answer", "error", "lent", "reply"} : pointer'[<<c, w>>] = pointer[<<c, w>>]
  BY <1>3, <1>4, OwnPointers
<1>11. CallShape(c)'
  BY <1>2, <1>4, <1>6, <1>10 DEF CallShape, CanCall
<1>15. CallSays(c)'
  BY <1>6 DEF CallSays
<1>12. OperationShape(c)'
  <2>1. ~Replying(c) /\ ~Replying(c)'
    BY <1>2, <1>6 DEF Replying
  <2>2. QED
    BY <1>1, <1>10, <2>1 DEF OperationShape
<1>13. ASSUME c \in Servers
       PROVE  ReplySays(c)'
  <2>1. ReplySays(c) /\ operation[c] = "callback" /\ heard[c] = "nothing"
    BY <1>2, <1>13 DEF IInv, Control, CanCall, ReplySays
  <2>2. function = "alloc" => said'[c] # "NULL" /\ says = OnOperation(said'[c])
    BY <1>1, <1>13 DEF ControlTypeOK
  <2>3. QED
    BY <2>1, <2>2, <1>4, <1>6 DEF ReplySays, Replying
<1>14. QED
  BY <1>3, <1>4, <1>8, <1>9, <1>11, <1>12, <1>13, <1>15, OthersKeep

LEMMA EnterKeeps ==
  ASSUME IInv, NEW c \in Callers, Enter(c)
  PROVE  IInv'
<1>1. PICK function \in Functions \cup HandlerFunctions :
        /\ Call(c, function, "arguments")
        /\ \E wrong \in Problems(function) \cup {"none"} : problem' = [problem EXCEPT ![c] = wrong]
        /\ \E passed \in IF function \in {"start", "platform"} THEN BOOLEAN ELSE {FALSE} :
             slot' = [slot EXCEPT ![c] = passed]
  BY DEF Enter
<1>2. PICK passed \in BOOLEAN : slot' = [slot EXCEPT ![c] = passed]
  BY <1>1
<1>3. PICK wrong \in Problems(function) \cup {"none"} : problem' = [problem EXCEPT ![c] = wrong]
  BY <1>1
<1>4. ControlTypeOK /\ "arguments" \in Texts /\ UNCHANGED <<told, operation, heard, said>>
  BY DEF Enter, dispatchVars, IInv, Control, Texts
<1>5. function \in {"validate", "start", "health", "platform"}
  BY BoundaryAssumption
<1>6. slot' \in [Callers -> BOOLEAN] /\ \A d \in Callers : d # c => slot'[d] = slot[d]
  BY <1>2, <1>4 DEF ControlTypeOK
<1>7. /\ problem' \in [Callers -> AllProblems \cup {"none"}]
      /\ \A d \in Callers : d # c => problem'[d] = problem[d]
      /\ function = "health" => problem'[c] = "none"
  BY <1>3, <1>4, <1>5, ReasonsAreTexts DEF ControlTypeOK
<1>8. QED
  BY <1>1, <1>4, <1>5, <1>6, <1>7, CallKeeps

LEMMA StringAllocKeeps ==
  ASSUME IInv, NEW c \in Callers, string_alloc(c)
  PROVE  IInv'
<1>1. Memory /\ ControlTypeOK /\ CallShape(c) /\ OperationShape(c)
  BY DEF IInv, Control
<1>2. /\ at[c] = "inside" /\ fn[c] = "alloc"
      /\ at' = [at EXCEPT ![c] = "taken"]
      /\ UNCHANGED <<fn, slot, problem, told, operation, said, heard>>
  BY DEF string_alloc, Inside, Move, dispatchVars
<1>3. c \in Servers /\ operation[c] = "callback" /\ ~Replying(c)
  BY <1>1, <1>2 DEF CallShape, Replying
<1>4. /\ pointer[<<c, "answer">>] = NULL /\ pointer[<<c, "error">>] = NULL /\ pointer[<<c, "reply">>] = NULL
      /\ pointer[<<c, "arguments">>] # NULL
  BY <1>1, <1>2, <1>3 DEF CallShape, OperationShape
<1> DEFINE says == text[pointer[<<c, "arguments">>]]
<1>5. says = OnOperation(said[c]) /\ says \in Texts /\ said[c] # "NULL" /\ heard[c] = "nothing"
  <2>1. ReplySays(c) /\ said[c] \in Ends
    BY <1>1, <1>3 DEF IInv, Control, ControlTypeOK
  <2>2. says = OnOperation(said[c]) /\ said[c] # "NULL" /\ heard[c] = "nothing"
    BY <1>2, <1>3, <2>1 DEF ReplySays
  <2>3. OnOperation(said[c]) \in Texts
    BY <2>1, <2>2 DEF OnOperation, Ends, Texts, Envelopes
  <2>4. QED
    BY <2>2, <2>3
<1>6. \A w \in {"arguments", "answer", "error", "lent", "reply"} : w \in Variables
  BY DEF Variables
<1>7. /\ OnlyChanges(c, "reply")
      /\ IF pointer'[<<c, "reply">>] = NULL
         THEN says = "not UTF-8"
         ELSE says # "not UTF-8" /\ text'[pointer'[<<c, "reply">>]] = says
  <2>1. CASE says = "not UTF-8"
    BY <1>1, <1>4, <1>6, <2>1, UnchangedKeepsMemory DEF string_alloc
  <2>2. CASE says # "not UTF-8"
    <3>1. Allocate(c, "reply", Side("reply"), says)
      BY <2>2 DEF string_alloc, to_c_string, Side
    <3>2. /\ OnlyChanges(c, "reply")
          /\ pointer'[<<c, "reply">>] \in Addresses
          /\ text'[pointer'[<<c, "reply">>]] = says
      <4>1. says \in Texts /\ "reply" \in Variables /\ pointer[<<c, "reply">>] = NULL
        BY <1>4, <1>5, <1>6
      <4>2. QED
        BY <1>1, <2>2, <3>1, <4>1, AllocateKeepsMemory
    <3>3. QED
      BY <2>2, <3>2, BoundaryAssumption
  <2>3. QED
    BY <2>1, <2>2
<1> HIDE DEF says
<1>8. ControlTypeOK' /\ at'[c] = "taken"
  BY <1>1, <1>2 DEF ControlTypeOK
<1>9. \A d \in Callers : d # c => Untouched(d)
  <2>1. \A d \in Callers : d # c => at'[d] = at[d]
    BY <1>1, <1>2 DEF ControlTypeOK
  <2>2. QED
    BY <1>2, <2>1 DEF Untouched
<1>10. \A w \in {"arguments", "answer", "error", "lent"} : pointer'[<<c, w>>] = pointer[<<c, w>>]
  <2>1. OnlyChanges(c, "reply")
    BY <1>7
  <2>2. QED
    BY <1>6, <2>1, OwnPointers
<1>11. CallShape(c)'
  BY <1>2, <1>3, <1>4, <1>8, <1>10 DEF CallShape
<1>12. OperationShape(c)'
  BY <1>1, <1>2, <1>3, <1>8, <1>10 DEF OperationShape, Replying
<1>13. ReplySays(c)'
  <2>1. IF pointer'[<<c, "reply">>] = NULL
        THEN Unsayable(said[c])
        ELSE ~Unsayable(said[c]) /\ text'[pointer'[<<c, "reply">>]] = OnOperation(said[c])
    <3>1. OnOperation(said[c]) # "NULL"
      BY <1>5, ReasonsAreTexts DEF Texts, Envelopes
    <3>2. QED
      BY <1>5, <1>7, <3>1 DEF Unsayable
  <2>2. QED
    BY <1>2, <1>5, <1>8, <2>1 DEF ReplySays
<1>20. CallSays(c)'
  BY <1>2, <1>8 DEF CallSays
<1>14. QED
  BY <1>6, <1>7, <1>8, <1>9, <1>11, <1>12, <1>13, <1>20, OthersKeep

LEMMA ReturnsKeeps ==
  ASSUME IInv, NEW c \in Callers, Return(c)
  PROVE  IInv'
<1>1. Memory /\ ControlTypeOK /\ CallShape(c) /\ OperationShape(c)
  BY DEF IInv, Control
<1>2. /\ at[c] = "taken"
      /\ at' = [at EXCEPT ![c] = "out"]
      /\ fn' = [fn EXCEPT ![c] = "none"]
      /\ slot' = [slot EXCEPT ![c] = FALSE]
      /\ problem' = [problem EXCEPT ![c] = "none"]
      /\ told' = [told EXCEPT ![c] = "nothing"]
      /\ operation' = IF fn[c] = "alloc" THEN [operation EXCEPT ![c] = "replied"] ELSE operation
      /\ UNCHANGED <<said, heard>>
  BY DEF Return
<1>3. /\ pointer[<<c, "arguments">>] # NULL /\ pointer[<<c, "answer">>] = NULL /\ pointer[<<c, "error">>] = NULL
      /\ Replying(c) <=> fn[c] = "alloc"
      /\ fn[c] = "alloc" => c \in Servers
      /\ c \in Servers => operation[c] = "callback"
  BY <1>1, <1>2 DEF CallShape, Replying
<1>4. \A w \in {"arguments", "answer", "error", "lent", "reply"} : w \in Variables
  BY DEF Variables
<1>5. OnlyChanges(c, "arguments") /\ pointer'[<<c, "arguments">>] = NULL
  BY <1>1, <1>3, <1>4, FreeKeepsMemory DEF Return, Unpin, Side
<1>6. /\ at'[c] = "out" /\ fn'[c] = "none" /\ ~Replying(c)'
      /\ c \in Servers => operation'[c] = IF fn[c] = "alloc" THEN "replied" ELSE "callback"
  BY <1>1, <1>2, <1>3 DEF ControlTypeOK, Replying
<1>7. operation' \in [Servers -> {"idle", "callback", "replied", "read"}]
  BY <1>1, <1>2 DEF ControlTypeOK
<1>8. ControlTypeOK'
  BY <1>1, <1>2, <1>7 DEF ControlTypeOK
<1>9. \A d \in Callers : d # c => Untouched(d)
  BY <1>1, <1>2 DEF Untouched, ControlTypeOK
<1>10. \A w \in {"answer", "error", "lent", "reply"} :
         /\ pointer'[<<c, w>>] = pointer[<<c, w>>]
         /\ pointer[<<c, w>>] # NULL => text'[pointer[<<c, w>>]] = text[pointer[<<c, w>>]]
  BY <1>4, <1>5, OwnPointers
<1>11. CallShape(c)'
  BY <1>3, <1>5, <1>6, <1>10 DEF CallShape
<1>12. OperationShape(c)'
  BY <1>1, <1>3, <1>6, <1>10 DEF OperationShape
<1>13. ASSUME c \in Servers
       PROVE  ReplySays(c)'
  <2>1. ReplySays(c) /\ heard[c] = "nothing"
    BY <1>3, <1>13 DEF IInv, Control, ReplySays
  <2>2. operation'[c] = "replied" => Replying(c)
    BY <1>3, <1>6, <1>13
  <2>3. QED
    BY <2>1, <2>2, <1>2, <1>6, <1>10 DEF ReplySays
<1>20. CallSays(c)'
  BY <1>6 DEF CallSays
<1>14. QED
  BY <1>4, <1>5, <1>8, <1>9, <1>11, <1>12, <1>13, <1>20, OthersKeep

LEMMA HandlerEndsKeeps ==
  ASSUME IInv, NEW s \in Servers, HandlerEnds(s)
  PROVE  IInv'
<1>1. PICK end \in Ends :
        /\ said' = [said EXCEPT ![s] = end]
        /\ IF end = "NULL"
           THEN /\ CanCall(s)
                /\ operation' = [operation EXCEPT ![s] = "replied"]
                /\ UNCHANGED <<memory, at, fn>>
           ELSE Call(s, "alloc", OnOperation(end)) /\ UNCHANGED operation
  BY DEF HandlerEnds
<1>2. /\ s \in Callers /\ "reply" \in Variables
      /\ Memory /\ ControlTypeOK /\ CallShape(s) /\ OperationShape(s) /\ ReplySays(s)
      /\ UNCHANGED <<slot, problem, told, heard>>
  BY DEF HandlerEnds, IInv, Control, Callers, Variables
<1>3. CASE end # "NULL"
  <2>1. OnOperation(end) \in Texts /\ end \in Ends \ {"NULL"}
    BY <1>3 DEF OnOperation, Ends, Texts, Envelopes
  <2>2. slot \in [Callers -> BOOLEAN] /\ problem \in [Callers -> AllProblems \cup {"none"}]
    BY <1>2 DEF ControlTypeOK
  <2>3. Call(s, "alloc", OnOperation(end)) /\ UNCHANGED <<operation, heard>>
    BY <1>1, <1>2, <1>3
  <2>4. QED
    BY <1>1, <1>2, <2>1, <2>2, <2>3, CallKeeps
<1>4. CASE end = "NULL"
  <2>1. /\ CanCall(s)
        /\ operation' = [operation EXCEPT ![s] = "replied"]
        /\ said' = [said EXCEPT ![s] = "NULL"]
        /\ UNCHANGED <<memory, at, fn>>
    BY <1>1, <1>4
  <2>2. OnlyChanges(s, "reply") /\ UNCHANGED pointer
    BY <1>2, <2>1, UnchangedKeepsMemory DEF memory
  <2>3. at[s] = "out" /\ operation[s] = "callback" /\ operation'[s] = "replied" /\ said'[s] = "NULL"
    BY <1>2, <2>1 DEF CanCall, ControlTypeOK
  <2>4. pointer[<<s, "reply">>] = NULL /\ heard[s] = "nothing"
    BY <1>2, <2>3 DEF OperationShape, ReplySays, Replying
  <2>5. ControlTypeOK'
    BY <1>2, <2>1 DEF ControlTypeOK, Ends
  <2>6. \A d \in Callers : d # s => Untouched(d)
    BY <1>2, <2>1 DEF Untouched, ControlTypeOK
  <2>7. CallShape(s)'
    BY <1>2, <2>1, <2>2, <2>3 DEF CallShape
  <2>8. OperationShape(s)'
    BY <1>2, <2>2, <2>3, <2>4 DEF OperationShape
  <2>9. ReplySays(s)'
    BY <1>2, <2>1, <2>2, <2>3, <2>4 DEF ReplySays, Replying, Unsayable, OnOperation
  <2>11. CallSays(s)'
    BY <2>1, <2>3 DEF CallSays
  <2>10. QED
    BY <1>2, <2>2, <2>5, <2>6, <2>7, <2>8, <2>9, <2>11, OthersKeep
<1>5. QED
  BY <1>3, <1>4

LEMMA DispatchKeeps ==
  ASSUME IInv, NEW s \in Servers, dispatch(s)
  PROVE  IInv'
<1>1. /\ s \in Callers /\ Memory /\ ControlTypeOK /\ CallShape(s) /\ OperationShape(s) /\ ReplySays(s)
  BY DEF IInv, Control, Callers
<1>2. /\ operation[s] = "idle"
      /\ operation' = [operation EXCEPT ![s] = "callback"]
      /\ UNCHANGED <<at, fn, slot, problem, told, said, heard>>
  BY DEF dispatch, Lend, callVars
<1>3. at[s] = "out" /\ pointer[<<s, "lent">>] = NULL /\ pointer[<<s, "reply">>] = NULL /\ heard[s] = "nothing"
  BY <1>1, <1>2 DEF CallShape, OperationShape, ReplySays, Replying
<1>4. \A w \in {"arguments", "answer", "error", "lent", "reply"} : w \in Variables
  BY DEF Variables
<1>5. OnlyChanges(s, "lent") /\ pointer'[<<s, "lent">>] # NULL
  <2>1. Allocate(s, "lent", Side("lent"), "arguments") /\ "arguments" \in Texts
    BY DEF dispatch, to_c_string, Side, Texts
  <2>2. OnlyChanges(s, "lent") /\ pointer'[<<s, "lent">>] \in Addresses
    BY <1>1, <1>3, <1>4, <2>1, AllocateKeepsMemory
  <2>3. QED
    BY <2>2, BoundaryAssumption
<1>6. ControlTypeOK' /\ operation'[s] = "callback"
  BY <1>1, <1>2 DEF ControlTypeOK
<1>7. \A d \in Callers : d # s => Untouched(d)
  BY <1>1, <1>2 DEF Untouched, ControlTypeOK
<1>8. \A w \in {"arguments", "answer", "error", "reply"} : pointer'[<<s, w>>] = pointer[<<s, w>>]
  BY <1>1, <1>4, <1>5, OwnPointers
<1>9. CallShape(s)'
  BY <1>1, <1>2, <1>6, <1>8 DEF CallShape
<1>10. OperationShape(s)'
  BY <1>1, <1>2, <1>3, <1>5, <1>6, <1>8 DEF OperationShape
<1>11. ReplySays(s)'
  BY <1>1, <1>2, <1>3, <1>6 DEF ReplySays, Replying
<1>20. CallSays(s)'
  BY <1>2, <1>3 DEF CallSays
<1>12. QED
  BY <1>1, <1>4, <1>5, <1>6, <1>7, <1>9, <1>10, <1>11, <1>20, OthersKeep

LEMMA ReadReplyKeeps ==
  ASSUME IInv, NEW s \in Servers, read_reply(s)
  PROVE  IInv'
<1> DEFINE reply == pointer[<<s, "reply">>]
<1>1. /\ s \in Callers /\ Memory /\ ControlTypeOK /\ CallShape(s) /\ OperationShape(s) /\ ReplySays(s)
  BY DEF IInv, Control, Callers
<1>2. /\ operation[s] = "replied"
      /\ operation' = [operation EXCEPT ![s] = "read"]
      /\ heard' = [heard EXCEPT ![s] = IF reply = NULL THEN "PLUGIN_INTERNAL" ELSE Outcome(text[reply])]
      /\ string_free(s, "reply")
      /\ UNCHANGED <<at, fn, slot, problem, told, said>>
  BY DEF read_reply, callVars
<1>3. \A w \in {"arguments", "answer", "error", "lent", "reply"} : w \in Variables
  BY DEF Variables
<1>4. at[s] = "out"
  BY <1>1, <1>2 DEF CallShape
<1>5. OnlyChanges(s, "reply") /\ pointer'[<<s, "reply">>] = NULL
  BY <1>1, <1>2, <1>3, StringFreeKeepsMemory
<1>6. heard'[s] = Meant(said[s])
  <2>1. heard'[s] = IF reply = NULL THEN "PLUGIN_INTERNAL" ELSE Outcome(text[reply])
    BY <1>1, <1>2 DEF ControlTypeOK
  <2>2. IF reply = NULL THEN Unsayable(said[s]) ELSE ~Unsayable(said[s]) /\ text[reply] = OnOperation(said[s])
    BY <1>1, <1>2 DEF ReplySays
  <2>3. QED
    BY <2>1, <2>2 DEF Meant
<1>7. ControlTypeOK' /\ operation'[s] = "read"
  <2>1. \A end : Meant(end) \in {"done", "its code", "PLUGIN_ERROR", "PLUGIN_INTERNAL"}
    BY DEF Meant, Outcome
  <2>2. heard' \in [Servers -> {"nothing", "done", "its code", "PLUGIN_ERROR", "PLUGIN_INTERNAL"}]
    <3>1. heard' = [heard EXCEPT ![s] = Meant(said[s])]
      BY <1>1, <1>2, <1>6 DEF ControlTypeOK
    <3>2. QED
      BY <1>1, <2>1, <3>1 DEF ControlTypeOK
  <2>3. QED
    BY <1>1, <1>2, <2>2 DEF ControlTypeOK
<1>8. \A d \in Callers : d # s => Untouched(d)
  BY <1>1, <1>2 DEF Untouched, ControlTypeOK
<1>9. \A w \in {"arguments", "answer", "error", "lent"} : pointer'[<<s, w>>] = pointer[<<s, w>>]
  BY <1>1, <1>3, <1>5, OwnPointers
<1>10. CallShape(s)'
  BY <1>1, <1>2, <1>4, <1>9 DEF CallShape
<1>11. OperationShape(s)'
  BY <1>1, <1>2, <1>5, <1>7, <1>9 DEF OperationShape
<1>12. ReplySays(s)'
  BY <1>2, <1>4, <1>6, <1>7 DEF ReplySays, Replying
<1>20. CallSays(s)'
  BY <1>2, <1>4 DEF CallSays
<1>13. QED
  BY <1>1, <1>3, <1>5, <1>7, <1>8, <1>10, <1>11, <1>12, <1>20, OthersKeep

LEMMA DropLentKeeps ==
  ASSUME IInv, NEW s \in Servers, drop_lent(s)
  PROVE  IInv'
<1>1. /\ s \in Callers /\ Memory /\ ControlTypeOK /\ CallShape(s) /\ OperationShape(s) /\ ReplySays(s)
  BY DEF IInv, Control, Callers
<1>2. /\ operation[s] = "read"
      /\ operation' = [operation EXCEPT ![s] = "idle"]
      /\ said' = [said EXCEPT ![s] = "NULL"]
      /\ heard' = [heard EXCEPT ![s] = "nothing"]
      /\ Free(s, "lent", "library")
      /\ UNCHANGED <<at, fn, slot, problem, told>>
  BY DEF drop_lent, callVars
<1>3. at[s] = "out" /\ pointer[<<s, "lent">>] # NULL /\ pointer[<<s, "reply">>] = NULL
  BY <1>1, <1>2 DEF CallShape, OperationShape, Replying
<1>4. \A w \in {"arguments", "answer", "error", "lent", "reply"} : w \in Variables
  BY DEF Variables
<1>5. OnlyChanges(s, "lent") /\ pointer'[<<s, "lent">>] = NULL
  BY <1>1, <1>2, <1>3, <1>4, FreeKeepsMemory DEF Side
<1>6. ControlTypeOK' /\ operation'[s] = "idle" /\ heard'[s] = "nothing"
  BY <1>1, <1>2 DEF ControlTypeOK, Ends
<1>7. \A d \in Callers : d # s => Untouched(d)
  BY <1>1, <1>2 DEF Untouched, ControlTypeOK
<1>8. \A w \in {"arguments", "answer", "error", "reply"} : pointer'[<<s, w>>] = pointer[<<s, w>>]
  BY <1>1, <1>4, <1>5, OwnPointers
<1>9. CallShape(s)'
  BY <1>1, <1>2, <1>3, <1>8 DEF CallShape
<1>10. OperationShape(s)'
  BY <1>1, <1>2, <1>3, <1>5, <1>6, <1>8 DEF OperationShape
<1>11. ReplySays(s)'
  BY <1>2, <1>3, <1>6 DEF ReplySays, Replying
<1>20. CallSays(s)'
  BY <1>2, <1>3 DEF CallSays
<1>12. QED
  BY <1>1, <1>4, <1>5, <1>6, <1>7, <1>9, <1>10, <1>11, <1>20, OthersKeep

-----------------------------------------------------------------------------
(* The invariant, and what follows from it. *)

THEOREM BoundaryInit == Init => IInv
<1> SUFFICES ASSUME Init PROVE IInv
  OBVIOUS
<1>1. Memory
  BY BoundaryAssumption DEF Init, Memory, MemoryTypeOK, FreedByItsAllocator, PointersAreLive, Held
<1>2. ControlTypeOK
  BY DEF Init, ControlTypeOK, Ends
<1>3. \A c \in Callers, v \in Variables : pointer[<<c, v>>] = NULL
  BY DEF Init, Holders
<1>4. \A c \in Callers : CallShape(c) /\ CallSays(c) /\ OperationShape(c)
  BY <1>3 DEF Init, CallShape, CallSays, OperationShape, Variables
<1>5. \A s \in Servers : ReplySays(s)
  BY DEF Init, ReplySays, Replying, Callers
<1>6. QED
  BY <1>1, <1>2, <1>4, <1>5 DEF IInv, Control

THEOREM BoundaryStep == IInv /\ [Next]_vars => IInv'
<1> SUFFICES ASSUME IInv, [Next]_vars PROVE IInv'
  OBVIOUS
<1>1. ASSUME NEW c \in Callers, InLibrary(c)
      PROVE  IInv'
  <2>1. CallShape(c) /\ CallSays(c)
    BY DEF IInv, Control
  <2>9. Problems("validate") \cup Problems("start") \cup Problems("platform") \subseteq AllProblems
    BY ReasonsAreTexts
  <2>2. CASE manifest_validate(c)
    <3>1. at[c] = "inside" /\ fn[c] = "validate" /\ Move(c, "returned")
      BY <2>2 DEF manifest_validate, Inside
    <3>2. \/ UNCHANGED memory /\ Due(c) = "nothing"
          \/ Due(c) \in AllProblems /\ to_c_string(c, "answer", Due(c))
      BY <2>2, <2>9, <3>1 DEF manifest_validate, Due, Problems
    <3>3. QED
      BY <3>1, <3>2, ReturnKeeps
  <2>3. CASE host_start(c)
    <3>1. at[c] = "inside" /\ fn[c] = "start"
      BY <2>3 DEF host_start, Inside
    <3>2. CASE \E reason \in Problems("start") : Refuse(c, reason)
      BY <2>9, <3>1, <3>2, RefuseKeeps
    <3>3. CASE problem[c] = "none" /\ Move(c, "returned") /\ UNCHANGED memory
      BY <3>1, <3>3, ReturnKeeps DEF Due
    <3>4. QED
      BY <2>3, <3>2, <3>3 DEF host_start, Problems
  <2>4. CASE host_set_health(c)
    BY <2>1, <2>4, ReturnKeeps DEF host_set_health, Inside, CallSays, Due
  <2>5. CASE platform_call(c)
    <3>1. at[c] = "inside" /\ fn[c] = "platform"
      BY <2>5 DEF platform_call, Inside
    <3>2. CASE \E reason \in Problems("platform") : Refuse(c, reason)
      BY <2>9, <3>1, <3>2, RefuseKeeps
    <3>3. CASE Move(c, "network") /\ UNCHANGED memory
      BY <3>1, <3>3, ReturnKeeps
    <3>4. QED
      BY <2>5, <3>2, <3>3 DEF platform_call, Problems
  <2>6. CASE PlatformAnswers(c)
    <3>1. at[c] = "network" /\ fn[c] = "platform"
      BY <2>1, <2>6 DEF PlatformAnswers, CallSays
    <3>2. "no answer" \in AllProblems
      BY <2>9 DEF Problems
    <3>3. CASE Refuse(c, "no answer")
      BY <3>1, <3>2, <3>3, RefuseKeeps
    <3>4. CASE problem[c] = "none" /\ Move(c, "returned") /\ to_c_string(c, "answer", "answer")
      BY <3>1, <3>4, ReturnKeeps DEF Due
    <3>5. QED
      BY <2>6, <3>3, <3>4 DEF PlatformAnswers
  <2>7. CASE string_alloc(c)
    BY <2>7, StringAllocKeeps
  <2>8. QED
    BY <1>1, <2>2, <2>3, <2>4, <2>5, <2>6, <2>7 DEF InLibrary
<1>2. ASSUME NEW c \in Callers, Enter(c) \/ InBinding(c)
      PROVE  IInv'
  BY <1>2, EnterKeeps, TakeStringKeeps, ReturnsKeeps DEF InBinding
<1>3. ASSUME NEW s \in Servers, dispatch(s) \/ HandlerEnds(s) \/ read_reply(s) \/ drop_lent(s)
      PROVE  IInv'
  BY <1>3, DispatchKeeps, HandlerEndsKeeps, ReadReplyKeeps, DropLentKeeps
<1>4. CASE UNCHANGED vars
  <2>1. UNCHANGED <<heap, text, pointer, at, fn, slot, problem, told, operation, said, heard>>
    BY <1>4 DEF vars, memory, callVars, dispatchVars
  <2>2. Memory'
    BY <2>1 DEF IInv, Memory, MemoryTypeOK, FreedByItsAllocator, PointersAreLive, Held
  <2>3. ControlTypeOK'
    BY <2>1 DEF IInv, Control, ControlTypeOK
  <2>4. ASSUME NEW c \in Callers
        PROVE  CallShape(c)' /\ CallSays(c)' /\ OperationShape(c)'
    <3>1. CallShape(c) /\ CallSays(c) /\ OperationShape(c)
      BY DEF IInv, Control
    <3>2. CallShape(c)'
      BY <2>1, <3>1 DEF CallShape
    <3>3. CallSays(c)'
      BY <2>1, <3>1 DEF CallSays, Says, Result, Due
    <3>4. OperationShape(c)'
      BY <2>1, <3>1 DEF OperationShape, Replying
    <3>5. QED
      BY <3>2, <3>3, <3>4
  <2>5. \A s \in Servers : ReplySays(s)'
    BY <2>1 DEF IInv, Control, ReplySays, Replying
  <2>6. QED
    BY <2>2, <2>3, <2>4, <2>5 DEF IInv, Control
<1>5. QED
  BY <1>1, <1>2, <1>3, <1>4 DEF Next

THEOREM BoundaryInvariant == Spec => []IInv
BY BoundaryInit, BoundaryStep, PTL DEF Spec

\* Every variable has its type, and the library's strings are UTF-8.
THEOREM BoundaryTypes == Spec => []TypeOK
<1>1. IInv => TypeOK
  BY DEF IInv, Memory, MemoryTypeOK, Control, ControlTypeOK, TypeOK
<1>2. QED
  BY <1>1, BoundaryInvariant, PTL

\* No string goes to the allocator of the other side, and none goes twice.
THEOREM BoundaryFrees == Spec => []FreedByItsAllocator
<1>1. IInv => FreedByItsAllocator
  BY DEF IInv, Memory
<1>2. QED
  BY <1>1, BoundaryInvariant, PTL

\* Nobody has a pointer to a string that is gone, or that is another's.
THEOREM BoundaryPointers == Spec => []PointersAreLive
<1>1. IInv => PointersAreLive
  BY DEF IInv, Memory
<1>2. QED
  BY <1>1, BoundaryInvariant, PTL

\* No string outlives its call or operation.
THEOREM BoundaryLeaksNothing == Spec => []NothingLeaks
<1>1. ASSUME IInv, NEW a \in Addresses, heap[a] # "unused"
      PROVE  \E c \in Callers, v \in Variables :
               /\ pointer[<<c, v>>] = a
               /\ IF v \in {"lent", "reply"} THEN operation[c] # "idle" ELSE at[c] # "out"
  <2>1. PICK holder \in Holders : pointer[holder] = a
    BY <1>1 DEF IInv, Memory, Held
  <2>2. PICK c \in Callers, v \in Variables : holder = <<c, v>>
    BY DEF Holders
  <2>3. pointer[<<c, v>>] = a /\ a # NULL /\ CallShape(c) /\ OperationShape(c)
    BY <1>1, <2>1, <2>2, BoundaryAssumption DEF IInv, Control
  <2>4. CASE v \in {"lent", "reply"}
    BY <2>3, <2>4 DEF CallShape, OperationShape, Replying
  <2>5. CASE v \notin {"lent", "reply"}
    BY <2>3, <2>5 DEF CallShape, Variables
  <2>6. QED
    BY <2>3, <2>4, <2>5
<1>2. IInv => NothingLeaks
  BY <1>1 DEF NothingLeaks
<1>3. QED
  BY <1>2, BoundaryInvariant, PTL

\* A caller reads what its own call has to say: the reason it failed for, the
\* answer, or nothing, on every way out of the library.
THEOREM BoundaryReasons == Spec => []ReasonsArrive
<1>1. IInv => ReasonsArrive
  BY DEF IInv, Control, CallSays, ReasonsArrive
<1>2. QED
  BY <1>1, BoundaryInvariant, PTL

\* An operation ends as its handler meant, if its result survives the way.
THEOREM BoundaryHears == Spec => []HandlersAreHeard
<1>1. ASSUME IInv, NEW s \in Servers, heard[s] # "nothing"
      PROVE  /\ heard[s] = "done" <=> said[s] \in {"returns", "result", "neither"}
             /\ heard[s] = "its code" <=> said[s] \in {"fails", "error", "result and error"}
  <2>1. heard[s] = Meant(said[s]) /\ said[s] \in Ends
    BY <1>1 DEF IInv, Control, ReplySays, ControlTypeOK
  <2>2. QED
    BY <2>1 DEF Meant, Unsayable, Outcome, OnOperation, Ends, Envelopes
<1>2. IInv => HandlersAreHeard
  BY <1>1 DEF HandlersAreHeard
<1>3. QED
  BY <1>2, BoundaryInvariant, PTL
=============================================================================
