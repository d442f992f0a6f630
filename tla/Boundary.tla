------------------------------ MODULE Boundary ------------------------------
(***************************************************************************)
(* Who owns the strings that cross the C boundary:                         *)
(* crates/aurify-plugin-ffi/src/lib.rs on the side of the library,         *)
(* Native.cs and PluginHost.cs on the side of the .NET runtime.            *)
(*                                                                         *)
(* Both sides allocate from memory of their own, and what one allocated    *)
(* only it may free.  The runtime pins the arguments of a call until the   *)
(* call has returned; the library hands out an answer or a message, which  *)
(* the binding copies and gives back to be freed.  The other way round, on *)
(* a server thread, the library lends the callback a name and arguments,   *)
(* and the callback hands back a string it had string_alloc make, which    *)
(* the library frees.  While the callback runs its handler, that thread    *)
(* may call the library like any other thread.                             *)
(*                                                                         *)
(* An address may be used again once it was freed.  Strings that are made  *)
(* and freed together are one string here.  What is wrong with a call is   *)
(* chosen when it begins; a reason is named for what it says is wrong, and *)
(* each way out of a function names its own.  The keys and references of   *)
(* hosts are HostTable's.                                                  *)
(***************************************************************************)
CONSTANTS
  Threads,    \* threads of the plugin
  Servers,    \* server threads
  Functions,  \* the functions of the library threads call
  HandlerFunctions,  \* and those handlers call
  Addresses,  \* where strings are
  NULL

ASSUME BoundaryAssumption ==
  /\ Threads \cap Servers = {}
  /\ Functions \cup HandlerFunctions \subseteq {"validate", "start", "health", "platform"}
  /\ NULL \notin Addresses

Callers == Threads \cup Servers

\* The variables of a caller that hold a string.
Variables == {"arguments", "answer", "error", "lent", "reply"}
Holders == Callers \X Variables

\* What a callback may give string_alloc to copy, by what dispatch looks at.
Envelopes == {"result", "error", "internal error", "error without code", "result and error",
              "neither", "not JSON"}

\* How a handler ends.  A callback in C may hand back any text or NULL.  One of
\* the .NET binding returns a value or throws one of two kinds of exception;
\* the value may be one that cannot be written as JSON (NaN), or that the
\* library cannot read (nested too deep, a number too large); and arguments
\* that are nested too deep for the runtime never get to the handler.
Ends == Envelopes \cup {"not UTF-8", "NULL", "returns", "returns NaN", "returns too much",
                        "fails", "throws", "is not called"}

\* What may be wrong with a call, in the order in which its function looks.
Problems(function) ==
  CASE function = "validate" -> {"no manifest", "bad manifest"}
    [] function = "start"    -> {"no callback", "no manifest", "bad manifest", "bad launch", "no server"}
    [] function = "platform" -> {"no host", "no platform", "no method or path", "bad body", "no answer"}
    [] OTHER                 -> {}

AllProblems == UNION {Problems(function) : function \in {"validate", "start", "platform"}}

Texts == Envelopes \cup AllProblems \cup {"not UTF-8", "arguments", "answer"}
Freed == "freed"   \* what is at an address without a string

VARIABLES
  heap,       \* heap[a]: the side that allocated the string at a
  text,       \* text[a]: what it says
  pointer,    \* pointer[c, v]: the string in variable v of caller c
  at,         \* at[c]: where c is in a call of the library
  fn,         \* fn[c]: the function it calls
  slot,       \* slot[c]: did it pass an error_out?
  problem,    \* problem[c]: the first thing that is wrong with its call
  told,       \* told[c]: what the string said that its call gave it
  operation,  \* operation[s]: where server thread s is in dispatch
  said,       \* said[s]: how the handler of its operation ended
  heard       \* heard[s]: what dispatch made of that, "nothing" before

memory == <<heap, text, pointer>>
callVars == <<at, fn, slot, problem, told>>
dispatchVars == <<operation, said, heard>>
vars == <<memory, callVars, dispatchVars>>

Init ==
  /\ heap = [a \in Addresses |-> "unused"]
  /\ text = [a \in Addresses |-> Freed]
  /\ pointer = [holder \in Holders |-> NULL]
  /\ at = [c \in Callers |-> "out"]
  /\ fn = [c \in Callers |-> "none"]
  /\ slot = [c \in Callers |-> FALSE]
  /\ problem = [c \in Callers |-> "none"]
  /\ told = [c \in Callers |-> "nothing"]
  /\ operation = [s \in Servers |-> "idle"]
  /\ said = [s \in Servers |-> "NULL"]
  /\ heard = [s \in Servers |-> "nothing"]

-----------------------------------------------------------------------------
(* Memory *)

Allocate(c, v, side, says) ==
  \E a \in Addresses :
    /\ heap[a] = "unused"
    /\ heap' = [heap EXCEPT ![a] = side]
    /\ text' = [text EXCEPT ![a] = says]
    /\ pointer' = [pointer EXCEPT ![<<c, v>>] = a]

\* Freeing what the other side allocated, or what is not allocated, corrupts
\* the memory.
Free(c, v, side) ==
  LET a == pointer[<<c, v>>]
  IN  /\ heap' = [heap EXCEPT ![a] = IF @ = side THEN "unused" ELSE "corrupted"]
      /\ text' = [text EXCEPT ![a] = Freed]
      /\ pointer' = [pointer EXCEPT ![<<c, v>>] = NULL]

\* Utf8Arg, and its Dispose.
Pin(c, says) == Allocate(c, "arguments", "runtime", says)
Unpin(c) == Free(c, "arguments", "runtime")

\* A NUL inside the text is dropped, so that there always is a string.
to_c_string(c, v, says) == Allocate(c, v, "library", says)

\* Mutated: it is given back to the allocator of the runtime.
free_by_runtime(c, v) == IF pointer[<<c, v>>] = NULL THEN UNCHANGED memory ELSE Free(c, v, "runtime")

string_free(c, v) == IF pointer[<<c, v>>] = NULL THEN UNCHANGED memory ELSE Free(c, v, "library")

-----------------------------------------------------------------------------
(* Calls of the library *)

CanCall(c) == at[c] = "out" /\ (c \in Servers => operation[c] = "callback")

Call(c, function, says) ==
  /\ CanCall(c)
  /\ Pin(c, says)
  /\ at' = [at EXCEPT ![c] = "inside"]
  /\ fn' = [fn EXCEPT ![c] = function]

Enter(c) ==
  /\ \E function \in IF c \in Servers THEN HandlerFunctions ELSE Functions :
       /\ Call(c, function, "arguments")
       /\ \E wrong \in Problems(function) \cup {"none"} : problem' = [problem EXCEPT ![c] = wrong]
       /\ \E passed \in IF function \in {"start", "platform"} THEN BOOLEAN ELSE {FALSE} :
            slot' = [slot EXCEPT ![c] = passed]
  /\ UNCHANGED <<told, dispatchVars>>

Inside(c, function) == at[c] = "inside" /\ fn[c] = function

Move(c, where) == at' = [at EXCEPT ![c] = where] /\ UNCHANGED <<fn, slot, problem, told, dispatchVars>>

put_error(c, says) == IF slot[c] THEN to_c_string(c, "error", says) ELSE UNCHANGED memory

\* An early return: error_out is filled, if there is one, and NULL returned.
Refuse(c, reason) ==
  /\ problem[c] = reason
  /\ put_error(c, reason)
  /\ Move(c, "failed")

\* NULL when the manifest is valid; there is no error_out.
manifest_validate(c) ==
  /\ Inside(c, "validate")
  /\ Move(c, "returned")
  /\ \/ problem[c] = "no manifest" /\ to_c_string(c, "answer", "no manifest")
     \/ problem[c] = "bad manifest" /\ to_c_string(c, "answer", "bad manifest")
     \/ problem[c] = "none" /\ UNCHANGED memory

\* It returns a key, which is no string.
host_start(c) ==
  /\ Inside(c, "start")
  /\ \/ Refuse(c, "no callback")
     \/ Refuse(c, "no manifest")
     \/ Refuse(c, "bad manifest")
     \/ Refuse(c, "bad launch")
     \/ Refuse(c, "no server")
     \/ problem[c] = "none" /\ Move(c, "returned") /\ UNCHANGED memory

host_set_health(c) ==
  /\ Inside(c, "health")
  /\ Move(c, "returned")
  /\ UNCHANGED memory

\* Mutated: a body that is not JSON is refused without a reason.
platform_call_silent(c) ==
  /\ Inside(c, "platform")
  /\ \/ Refuse(c, "no host")
     \/ Refuse(c, "no platform")
     \/ Refuse(c, "no method or path")
     \/ problem[c] = "bad body" /\ Move(c, "failed") /\ UNCHANGED memory
     \/ problem[c] \in {"none", "no answer"} /\ Move(c, "network") /\ UNCHANGED memory

\* The platform gets to see the strings of the caller,
platform_call(c) ==
  /\ Inside(c, "platform")
  /\ \/ Refuse(c, "no host")
     \/ Refuse(c, "no platform")
     \/ Refuse(c, "no method or path")
     \/ Refuse(c, "bad body")
     \/ problem[c] \in {"none", "no answer"} /\ Move(c, "network") /\ UNCHANGED memory

\* Mutated: the call does not time out.
PlatformSilent(c) == at[c] = "network" /\ UNCHANGED vars

\* and answers, or the call fails or times out.
PlatformAnswers(c) ==
  /\ at[c] = "network"
  /\ \/ Refuse(c, "no answer")
     \/ problem[c] = "none" /\ Move(c, "returned") /\ to_c_string(c, "answer", "answer")

\* Mutated: the bytes are copied, UTF-8 or not.
copy_bytes(s) ==
  /\ Inside(s, "alloc")
  /\ Move(s, "taken")
  /\ to_c_string(s, "reply", text[pointer[<<s, "arguments">>]])

\* AllocForLibrary: what string_alloc makes is what the callback returns.
string_alloc(s) ==
  /\ Inside(s, "alloc")
  /\ Move(s, "taken")
  /\ LET says == text[pointer[<<s, "arguments">>]]
     IN  IF says = "not UTF-8" THEN UNCHANGED memory ELSE to_c_string(s, "reply", says)

\* The binding takes the error of a call that failed, otherwise the answer: it
\* reads the string, if there is one, and gives it back.
Result(c) == IF at[c] = "failed" THEN "error" ELSE "answer"
Says(c, v) == IF pointer[<<c, v>>] = NULL THEN "nothing" ELSE text[pointer[<<c, v>>]]

TakeString(c) ==
  /\ at[c] \in {"returned", "failed"}
  /\ at' = [at EXCEPT ![c] = "taken"]
  /\ told' = [told EXCEPT ![c] = Says(c, Result(c))]
  /\ string_free(c, Result(c))
  /\ UNCHANGED <<fn, slot, problem, dispatchVars>>

\* The arguments are disposed of, and the binding returns or throws.
Return(c) ==
  /\ at[c] = "taken"
  /\ Unpin(c)
  /\ at' = [at EXCEPT ![c] = "out"]
  /\ fn' = [fn EXCEPT ![c] = "none"]
  /\ slot' = [slot EXCEPT ![c] = FALSE]
  /\ problem' = [problem EXCEPT ![c] = "none"]
  /\ told' = [told EXCEPT ![c] = "nothing"]
  /\ IF fn[c] = "alloc" THEN operation' = [operation EXCEPT ![c] = "replied"] ELSE UNCHANGED operation
  /\ UNCHANGED <<said, heard>>

-----------------------------------------------------------------------------
(* dispatch *)

Lend(s) ==
  /\ operation[s] = "idle"
  /\ operation' = [operation EXCEPT ![s] = "callback"]
  /\ UNCHANGED <<callVars, said, heard>>

\* Mutated: the strings are temporaries, gone when the callback is called.
LendTemporaries(s) ==
  /\ Lend(s)
  /\ \E a \in Addresses : pointer' = [pointer EXCEPT ![<<s, "lent">>] = a]
  /\ UNCHANGED <<heap, text>>

\* The callback gets to see the name and the arguments, until it returns.
dispatch(s) ==
  /\ Lend(s)
  /\ to_c_string(s, "lent", "arguments")

\* Mutated: every exception is caught as an unexpected one.
OnOperationCatchAll(end) ==
  CASE end = "returns"          -> "result"
    [] end = "returns too much" -> "not JSON"
    [] end \in {"returns NaN", "fails", "throws", "is not called"} -> "internal error"
    [] OTHER                    -> end

\* The envelope of what a handler returns or throws.  The arguments are read
\* and the result is written inside the try.
OnOperation(end) ==
  CASE end = "returns"          -> "result"
    [] end = "returns too much" -> "not JSON"
    [] end = "fails"            -> "error"
    [] end \in {"returns NaN", "throws", "is not called"} -> "internal error"
    [] OTHER                    -> end

\* The handler ends, and its callback returns NULL or has a string made.
HandlerEnds(s) ==
  /\ \E end \in Ends :
       /\ said' = [said EXCEPT ![s] = end]
       /\ IF end = "NULL"
          THEN /\ CanCall(s)
               /\ operation' = [operation EXCEPT ![s] = "replied"]
               /\ UNCHANGED <<memory, at, fn>>
          ELSE Call(s, "alloc", OnOperation(end)) /\ UNCHANGED operation
  /\ UNCHANGED <<slot, problem, told, heard>>

\* An error counts even next to a result; what has neither is an empty result.
Outcome(reply) ==
  CASE reply \in {"result", "neither"}           -> "done"
    [] reply \in {"error", "result and error"}   -> "its code"
    [] reply = "error without code"              -> "PLUGIN_ERROR"
    [] OTHER                                     -> "PLUGIN_INTERNAL"

\* Mutated: a reply that is no JSON is not freed.
read_reply_leaks(s) ==
  LET reply == pointer[<<s, "reply">>]
  IN  /\ operation[s] = "replied"
      /\ heard' = [heard EXCEPT ![s] = IF reply = NULL THEN "PLUGIN_INTERNAL" ELSE Outcome(text[reply])]
      /\ operation' = [operation EXCEPT ![s] = "read"]
      /\ IF reply # NULL /\ text[reply] = "not JSON"
         THEN pointer' = [pointer EXCEPT ![<<s, "reply">>] = NULL] /\ UNCHANGED <<heap, text>>
         ELSE string_free(s, "reply")
      /\ UNCHANGED <<callVars, said>>

\* dispatch owns the reply from here on, and drops it on every way out.
read_reply(s) ==
  LET reply == pointer[<<s, "reply">>]
  IN  /\ operation[s] = "replied"
      /\ heard' = [heard EXCEPT ![s] = IF reply = NULL THEN "PLUGIN_INTERNAL" ELSE Outcome(text[reply])]
      /\ operation' = [operation EXCEPT ![s] = "read"]
      /\ string_free(s, "reply")
      /\ UNCHANGED <<callVars, said>>

\* Mutated: the strings are lent with into_raw, and nobody takes them back.
forget_lent(s) ==
  /\ operation[s] = "read"
  /\ operation' = [operation EXCEPT ![s] = "idle"]
  /\ said' = [said EXCEPT ![s] = "NULL"]
  /\ heard' = [heard EXCEPT ![s] = "nothing"]
  /\ UNCHANGED <<memory, callVars>>

\* At the end the strings that were lent are dropped, and the outcome is the
\* server's.
drop_lent(s) ==
  /\ operation[s] = "read"
  /\ operation' = [operation EXCEPT ![s] = "idle"]
  /\ said' = [said EXCEPT ![s] = "NULL"]
  /\ heard' = [heard EXCEPT ![s] = "nothing"]
  /\ Free(s, "lent", "library")
  /\ UNCHANGED callVars

-----------------------------------------------------------------------------
InLibrary(c) ==
  \/ manifest_validate(c)
  \/ host_start(c)
  \/ host_set_health(c)
  \/ platform_call(c)
  \/ PlatformAnswers(c)
  \/ string_alloc(c)

InBinding(c) == TakeString(c) \/ Return(c)

Next ==
  \/ \E c \in Callers : Enter(c) \/ InLibrary(c) \/ InBinding(c)
  \/ \E s \in Servers : dispatch(s) \/ HandlerEnds(s) \/ read_reply(s) \/ drop_lent(s)

Spec == Init /\ [][Next]_vars

(***************************************************************************)
(* The library and the binding run, and a platform call ends (its timeout).*)
(* No operation has to be asked for and no handler has to end.             *)
(***************************************************************************)
Fairness ==
  /\ \A c \in Callers : WF_vars(InLibrary(c) \/ InBinding(c))
  /\ \A s \in Servers : WF_vars(read_reply(s) \/ drop_lent(s))

FairSpec == Spec /\ Fairness

-----------------------------------------------------------------------------
(* Properties. *)

\* Every variable holds a value of its type; what the library allocated is
\* always UTF-8.
TypeOK ==
  /\ heap \in [Addresses -> {"unused", "library", "runtime", "corrupted"}]
  /\ text \in [Addresses -> Texts \cup {Freed}]
  /\ \A a \in Addresses : heap[a] = "library" => text[a] # "not UTF-8"
  /\ pointer \in [Holders -> Addresses \cup {NULL}]
  /\ at \in [Callers -> {"out", "inside", "network", "returned", "failed", "taken"}]
  /\ fn \in [Callers -> {"none", "validate", "start", "health", "platform", "alloc"}]
  /\ slot \in [Callers -> BOOLEAN]
  /\ problem \in [Callers -> AllProblems \cup {"none"}]
  /\ told \in [Callers -> Texts \cup {"nothing"}]
  /\ operation \in [Servers -> {"idle", "callback", "replied", "read"}]
  /\ said \in [Servers -> Ends]
  /\ heard \in [Servers -> {"nothing", "done", "its code", "PLUGIN_ERROR", "PLUGIN_INTERNAL"}]

\* "Both sides free with the allocator that allocated": no string is given to
\* the other side's allocator, and none is freed twice.
FreedByItsAllocator == \A a \in Addresses : heap[a] # "corrupted"

\* Every string somebody may still read is there, and is nobody else's: the
\* arguments of a call while the library works on them, on the network too,
\* the name and arguments of an operation while its callback runs, calls of
\* its handler included, and the reply until dispatch has read it.
PointersAreLive ==
  \A holder \in Holders :
    pointer[holder] # NULL =>
      /\ heap[pointer[holder]] = IF holder[2] = "arguments" THEN "runtime" ELSE "library"
      /\ \A other \in Holders : pointer[other] = pointer[holder] => other = holder

\* No string outlives what it was made for: a call of the library, whether it
\* returned or failed, or an operation, however its handler ended.
NothingLeaks ==
  \A a \in Addresses :
    heap[a] # "unused" =>
      \E c \in Callers, v \in Variables :
        /\ pointer[<<c, v>>] = a
        /\ IF v \in {"lent", "reply"} THEN operation[c] # "idle" ELSE at[c] # "out"

\* What a call has to say: the answer of the platform, or what was wrong, if
\* the caller has somewhere to put it ("returns NULL and fills error_out").
Due(c) ==
  CASE problem[c] = "none" -> IF fn[c] = "platform" THEN "answer" ELSE "nothing"
    [] OTHER               -> IF fn[c] = "validate" \/ slot[c] THEN problem[c] ELSE "nothing"

\* A caller reads what its own call has to say, on every way out: the reason
\* when the call failed, the reason it failed for, and none when it succeeded,
\* whatever strings others make and free between the check that failed and
\* the exception that quotes it.
ReasonsArrive ==
  \A c \in Callers : at[c] = "taken" /\ fn[c] # "alloc" => told[c] = Due(c)

\* The outcome of an operation is the one its handler meant, across the
\* envelope, two copies and two parsers: what failed never counts as done, a
\* result counts as done exactly if it survives the way, and a code is kept
\* if there is one.
HandlersAreHeard ==
  \A s \in Servers :
    heard[s] # "nothing" =>
      /\ heard[s] = "done" <=> said[s] \in {"returns", "result", "neither"}
      /\ heard[s] = "its code" <=> said[s] \in {"fails", "error", "result and error"}

\* No handler runs for ever.
HandlersEnd == \A s \in Servers : []<>(operation[s] # "callback")

\* If handlers end, every string is freed at some time, on either side.
EveryStringIsFreed == HandlersEnd => \A a \in Addresses : heap[a] # "unused" ~> heap[a] = "unused"
=============================================================================
