# Aurify plugin SDK: specifications, model checking and proofs

The Aurify client installs plugins: programs that run as processes of their
own on the person's machine. This repository is the SDK such a program is built
with. A Rust core serves the client's requests and calls the platform; a C
boundary makes it usable from other languages; a .NET binding sits on top.
This directory specifies the parts in which something can go wrong that a unit
test would hardly reach: threads that stop a server while it works, references
and keys that outlive each other, strings with two allocators, tokens that arrive
out of order, checks whose order tells a stranger something.

    tlc -workers 2 -config LocalServer_stops.cfg MCLocalServer     model-check a run
    tlapm LocalServerProofs.tla                                    check a module's proofs

`PROJECT.json` lists every run with its module and configuration, the source
lines each definition translates, the hazards and the theorems.

## 1. The system

| Part | Source | State it keeps | Operations |
| --- | --- | --- | --- |
| Local protocol | `local_server.rs` `handle`, `contracts/local-protocol.openapi.json` | none | one request in, one answer out, or an operation to run |
| Local server | `local_server.rs` | stop flag, thread handle behind a mutex, health behind a mutex; the HTTP library's queue | `start`, `set_health`, `stop`, `Drop`; the server thread's loop |
| C boundary | `aurify-plugin-ffi/src/lib.rs`, `aurify_plugin.h` | process-wide table from keys to counted hosts, the next key | `host_start`, `host_port`, `host_set_health`, `host_has_platform`, `platform_call`, `host_stop`, `manifest_validate`, string functions; `dispatch` into the plugin's callback |
| Platform client | `platform.rs` | the person's token, in a slot responses may replace | `from_launch`, `call`, `read_file_chunk` |
| Launch context | `launch.rs` | none | five values checked: port, secret, platform address, token, directory |
| Manifest, versions | `manifest.rs`, `contracts/manifest.schema.json` | none | `from_json`, `to_json`, `validate`, `is_semver`, `version_at_least` |
| .NET binding | `bindings/dotnet/Aurify.Plugin` | the native key, a GC handle that is the callback's `user_data` | `Start`, `Port`, `HasPlatform`, `SetHealth`, `CallPlatform`, `Dispose`, the trampoline `OnOperation` |
| Sample plugin | `samples/hello-plugin` | a string | an example of use |

How they interact. `host_start` checks the manifest and the launch context,
starts a local server and a platform client, and puts both, as one host, into
the table. The client's HTTP requests reach the server thread through the HTTP
library's queue. The server thread decides each with `handle`; a declared
operation runs the plugin's callback on that very thread, through `dispatch`
and, in .NET, the trampoline. The callback may call the library again: set the
health, call the platform, start or stop hosts. `host_stop` takes the host out
of the table and stops its server, which joins the server thread. Whoever lets
go of the last reference to a host destroys it, and the destructor of its
server calls `stop` once more.

What is hard here:

* `stop` may be called from several threads at once, and from the very thread
  it waits for. It holds a mutex while it joins.
* The stop flag is polled between requests; requests, failures of the HTTP
  library and the flag race.
* A callback runs while other threads stop the host it belongs to.
* Keys stay in the plugin's hands after their host is gone.
* The .NET runtime uses the slot of a freed GC handle again, and the native side
  still holds that slot as `user_data`.
* Overlapping platform calls apply their renewed tokens in the order their
  responses are handled, not in the order they were minted.
* A response can fail after its headers: the token arrived and the body did not.
* Strings cross the C boundary both ways between two allocators, on paths that
  succeed, fail and time out, and from inside callbacks.
* A callback's reply may be anything; an outcome passes two exception filters,
  an envelope and a parser.
* The validator, the launch context and the server each check a part of what
  must hold together for a button to work.
* A manifest is read, written and read again, with fields that may be missing,
  null or unknown.
* Versions compare by numbers, by text and by length, and a number may be too
  long to be read.
* Sizes and ranges at their limits: a body without a length, a byte range that
  ends at the top of `u64`, a chunk longer than asked for.

What makes each part correct:

* Protocol: the contract's statuses for the contract's reasons; a caller
  without the secret learns nothing (`AnswersFollowContract`,
  `UnvouchedLearnNothing`).
* Local server: `stop` means stopped; requests are answered in order, each once,
  and none is lost; everything asked for comes to an end
  (`KeepsPromise`, `NoRequestLost`, `EveryStopReturns`, `EveryRequestAnswered`).
* C boundary: no host is used after it was freed, none is freed twice or leaked,
  none is destroyed by a thread that then has to wait, and no key ever means
  another host (`NoUseAfterFree`, `DropNeverWaits`, `KeysNameOneHost`,
  `EveryStoppedHostIsFreed`, and all of them at once as `KeepsHostPromise`). Every string is freed
  once, by the side that allocated it, after its last reader; a caller reads the
  reason its own call failed for; an outcome is what its handler meant (`FreedByItsAllocator`,
  `PointersAreLive`, `NothingLeaks`, `EveryStringIsFreed`, `ReasonsArrive`,
  `HandlersAreHeard`).
* .NET binding: a callback finds the object it was started for, a method
  its own native host or none, one of several callers disposes, and no GC handle
  is freed early, freed for another object or, once the library was called, forgotten
  (`CallbacksFindTheirHost`, `HandlesAreOwn`, `CallsReachTheirHost`,
  `NoHandleLeaks`).
* Platform client: an accepted renewal is never lost with its call, a token of
  a refusal never kept, an older token replaces a newer one only where calls
  overlap, a range never wraps, a chunk never exceeds what was
  asked for (`RenewalOutlivesTheBody`, `RejectionKeepsTheSlot`,
  `OnlyOvertakenCallsGoBack`, `RangeIsExact`, `ChunkFits`).
* Launch context and manifest: what is accepted works, can be removed, is what
  was installed and runs with what the client handed over (`AcceptedWorks`,
  `SlotsShowOneScreen`, `ServedIsInstalled`, `LaunchIsWhatWasHanded`).
* Versions: the order of semantic versioning, and in any case an order
  (`FollowsSemver`, `OrderIsTotal`, `UpdatesKeepPlugins`).

## 2. The modules

| Module | What it is |
| --- | --- |
| `Protocol` | what `handle` decides about one request, as operators |
| `LocalServer` | the server thread, `stop`, `set_health`, handlers, the HTTP library's queue; extends `Protocol` |
| `ServerPromise` | the abstract specification of a local server |
| `MCLocalServer` | requests for TLC, and what the docs say of bodies above the limit |
| `LocalServerProofs` | theorems about `LocalServer` |
| `HostTable` | the C boundary's table, keys, references, callbacks, and the server threads as `ServerPromise` describes them |
| `HostPromise` | the abstract specification of the C boundary's hosts |
| `HostTableProofs` | theorems about `HostTable`, the refinement of `HostPromise` among them |
| `DotnetHost` | the .NET object around a native host: `_host`, `_self`, the GC handle table; extends `HostTable` |
| `DotnetHostProofs` | theorems about `DotnetHost`, on top of `HostTableProofs` |
| `Boundary` | who owns the strings that cross the C boundary; `error_out`, `dispatch`, the trampoline's envelope |
| `BoundaryProofs` | theorems about `Boundary` |
| `PlatformClient` | the token slot, calls and file chunks by several threads |
| `PlatformClientProofs` | theorems about `PlatformClient` |
| `Manifest` | how a manifest is read from JSON and written again, and which ones `validate` accepts, as operators |
| `ManifestProofs` | reading, writing and reading again changes nothing |
| `Plugin` | `host_start`'s checks, a client that shows what the manifest declares, the server's answers; extends `Manifest`, instantiates `Protocol` |
| `MCPlugin` | manifests for TLC: a sound plugin, a sound app, and what two edits make of them |
| `PluginProofs` | theorems about `Plugin` |
| `VersionOrder` | `is_semver`, `version_at_least`, and the order of semver.org as reference |
| `MCVersionOrder` | versions for TLC |
| `VersionOrderProofs` | theorems about `VersionOrder` |

### Protocol and LocalServer

A request is a record of its method, its path class, the values of its secret
headers, its announced length and its body, a sequence of blocks of five
kinds (white space, a JSON object, another JSON value, not JSON, not UTF-8).
The limit `MAX_BODY_BYTES` is counted in blocks. `DirectAnswer` is the chain of
early returns of `handle` in their order, `Runs` the condition under which it
reaches the handler. Cutting a body off at the limit is `Raw`, so a body that
is too long and has no announced length is cut as the code cuts it.

The loop of the server thread is `loop`: `check` (the `while` condition),
`recv` (`recv_timeout`), `handle`, `handler` (the plugin's code), `unwinding`
(a panic on its way out of the closure), `exited`. One step of the model reads
or writes one piece of shared state. `stop` is three steps: store the flag
(`CallStop`), lock and take the handle (`TakeHandle`) or find nothing to join
(`NothingToJoin`), and join (`Joined`); the mutex stays locked from the second
to the third, as the guard does in the code. A handler that stops its own
server takes the first two steps as caller `Server`; its join of itself either
never returns (no step) or panics (`SelfJoinPanics`): the first is what Windows
does, the second what Rust's pthread join does, and the panic poisons the mutex. The
constant `HandlerStops` says whether handlers do that at all. `HandlerPanics`
drops the request, for which the HTTP library answers 500.

The flag is `Relaxed`. It is one variable, and a load may only return what the
coherence order allows, so stores and loads of it are interleaved steps; no
other data is published through it. Health has no lock of its own in the model:
it is written and read in single steps, which is what its mutex makes of them.

External to the repository and modelled by what the code relies on: clients
(`ClientSends`), the HTTP library's queue, the failure of its accept thread
(`AcceptFails`, which `recv_timeout` reports once) and the moment it closes the
listening socket (`SocketCloses`).

`LocalServer::start` is `Init`. When it fails it leaves nothing behind, so a
failed start is no behaviour of this module.

### ServerPromise

One page that a plugin author needs: operations run one at a time; after a stop
was asked for, at most one more begins; a stop returns only when the server is
down; a server that is down runs nothing, ever again; it may go down unasked.
`LocalServer` implements it under the mapping `Promise`: `stopping` is the
raised flag, `down` is a server thread that has left the loop for good (unwinding or
exited), `spare` is the one late operation.

### HostTable

Threads of the plugin and the callbacks of hosts call the library. `table` is
`HOSTS`; `arc[c]` is the `Arc` a caller cloned out of it (`Find`, `find_host`)
or removed from it (`Take`, `take_host`); `Release` is the end of the function,
where the last reference sets off the destructor (`dropping`, `dropWaiting`,
then `Free`). `register_host` is two steps, because drawing the key and
inserting the host are two. Callers may use any key that `host_start` ever
returned, so stale ones too. Of the local server the module keeps its flag and where
its thread is: a stop returns once that thread has exited, which is the promise
proved in `LocalServerProofs`. A lookup that finds nothing changes nothing and
is a stuttering step.

`HostPromise` is the page a caller of the C boundary needs, in six kinds of
step: a new key is handed out for a new host; a call enters a host whose key is
still good; a stop enters it and makes the key stale; the stop has seen the
server down; a call leaves, and the last one to leave a stopped host takes the
host along; a server goes down, while its callback is in no call. `HostTable`
implements it under the mapping `Promise`: a call is inside the host its
reference names (`WorksOn`), a host is live while it is in the table. What the
page does not show is what the code needs steps for: drawing a key before it is
inserted, counting references, letting go of the last one before its destructor
runs, and the second stop that the destructor asks for.

`StopsDoNotOverlap` closes the circle: through the C boundary `stop` is never
called by two callers at once, so the poisoned mutex of section 5 cannot let a second
`host_stop` return early.

### DotnetHost

A member of `Hosts` is a `PluginHost` object together with the native host it
starts. `field[h]` is `_host`, `self[h]` is `_self`, a slot of the runtime's
handle table `slots`; `userData[h]` is what the library passes to the
trampoline. Each native step is the step of `HostTable` with the same arguments, taken
inside the binding's own control (`step[c]`): the constructor allocates a slot
(`Start`), the native start succeeds (`StartAccepted`, `DrawKey`, `Register`)
or returns NULL (`StartRefused`, which frees the handle), and `SetHost` stores
the key before the object is returned to anybody. Between the constructor and the
native call `Start` may also throw (`StartThrows`): the manifest or the launch values
cannot be written as JSON, or the library cannot be loaded. Nothing frees the
handle then, and nobody has the object; the history variable `lost` remembers
it. A method reads `_host`
(`ReadHost`) and calls the library with it (`CallNative`, `InNative`) in two
steps, so that the key may be stale by then. `Dispose` is the atomic exchange
(`Exchange`), `host_stop` (`StopNative`, `InHostStop`) and the free of the handle
(`FreeSelf`). A caller who finds zero in `_host` returns at once, which
changes nothing and is a stuttering step. Callbacks use returned objects as the
threads do; a callback does not return while it is inside the binding
(`TrampolineReturns`). `BindingUsesTheLibrary` proves that this
composition is a use of `HostTable` and not a change to it.

### Boundary

`heap` says which side allocated the string at an address, `text` what it says,
`pointer` which variable of which thread holds it. `Allocate` and `Free` are the
two allocators: freeing a string of the other side, or one that is not
allocated, leaves `corrupted` behind. Addresses are used again. A call pins its
arguments (`Enter`), works (`manifest_validate`, `host_start`,
`host_set_health`, `platform_call` and, after the network,
`PlatformAnswers`), hands out an answer or a message, which the binding copies
and gives back (`TakeString`; `told` is what it said), and then its arguments are
unpinned (`Return`). What is wrong with a call, `problem`, is nondeterministic, and chosen
when it begins, among what its function looks for (`Problems`). Every early
return is a disjunct of its function: it fires on its problem and
calls `put_error` with its reason itself (`Refuse`), which writes nothing if no
`error_out` was given. So a return that forgets its `put_error`, or gives
another's reason, is a behaviour `ReasonsArrive` tells apart; its mutant is one
such return. A reason is named for the problem it reports; its wording is left out, and when a
manifest or a launch value is bad is the subject of `Plugin`.

`dispatch` lends name and arguments to the callback; its handler
calls the library as other threads do, and ends in any way a C callback or a
.NET handler can (`HandlerEnds`). `OnOperation` is the envelope of the binding.
The arguments are read and the result is written inside its `try`, so two more ends
are unexpected exceptions: arguments the runtime will not parse (the handler is
not called) and a value that cannot be written as JSON (`NaN`). A
value that is written but that the library will not read, nested too deep or with a
number too large, arrives as no JSON. None of the three counts as done
(`HandlersAreHeard`), although in the last two the handler has run.
`string_alloc` makes the reply, `read_reply` reads and frees it, `drop_lent`
ends the loan. Keys and references of hosts are `HostTable`'s; a host cannot go
away under a call because of `NoUseAfterFree`.

### PlatformClient

A call copies the token (`Send`), the platform answers or the answer is lost
(`PlatformAnswers`), a refusal or a lost response ends the call (`Rejected`,
`NoResponse`), an accepted response first replaces the token (`Renew`) and only
then reads its body (`ReadText`, `ReadBytes`, `BrokenBytes`). `call` and
`read_file_chunk` share these steps, as their code does line by line. Tokens
are numbered as the platform mints them. Offsets and lengths are integers
modulo `Word`, which is 2^64 in the code; `ChunkCall` computes the range
header's end with the wrap-around the code would have. The check of the media
id's shape is left out: it rejects before anything is sent, like the other
argument checks of `ReadFileChunk`.

### Manifest and Plugin

`Valid` is `validate`. The rules that relate parts of a manifest (slots to
screens and operations, components to operations, permissions to their
explanations, an app to what it may not have) are translated as they are; a
rule about the text of one field is a member of `FieldRules`, kept or broken.
A JSON object is a function from its field names. `SLOT`, `COMPONENT`, `SCREEN`,
`ENTRY` and `MANIFEST` are the tables behind what serde derives: which fields
are required, what the others default to, which are left out again when they
are `None`. `from_json` and `to_json` are built from them.

`Plugin` puts the pieces in a row. The package holds the manifest as JSON;
`HostStart` is `host_start` up to the table: it reads and validates the
manifest, which is taken to be the one in the package, and
reads the launch values from its argument, or from the environment of the
process if that argument is not a UTF-8 string, which a .NET process on Unix does not share
(`environment`). It keeps the secret and whether there is a platform client.
The client reads the manifest route (`ReadManifest`). It opens slots, loads the models of screens, activates
components and runs message actions as the repository's README describes
(`OpenSlot`, `LoadModel`, `Activate`, `MessageAction`); `ServerAnswers` gives the
answer of `Protocol` to the request. The question is whether what one
part accepts is what the next part serves. A refused `host_start` leaves nothing
behind and is a stuttering step. The server here answers at once: how it
gets to its answer is `LocalServer`.

### VersionOrder

A version is its parts, a part is a sequence of characters, a character is an
integer in the order of ASCII. `version_at_least` is the function of the code:
cores by number, then parts of the prerelease in turn, where what parses as a
`u64` is a number and everything else text. `Precedes` is section 11 of
semver.org, where every sequence of digits is a number. They differ only in
numbers that are no `u64` (`NumbersFit`). `Word` stands for 2^64. `VersionTexts`
are all versions there can be: the assumption on `Versions` says no more than
that a part is a sequence of characters.

## 3. The runs

| Run | Instance | States | Shows |
| --- | --- | --- | --- |
| `server` | 2 threads and the handler stop; 3 kinds of request, 2 sent | 30 432 | types, promises, requests answered in order and each once, every stop and every request ends |
| `server_requests` | 107 requests, every ordered pair | 730 875 | answers follow the contract, strangers learn nothing |
| `hosts` | 2 hosts, 3 threads, callbacks may stop hosts | 39 675 | the refinement of `HostPromise`, memory, keys, no waiting destructor, stops return, hosts are freed |
| `dotnet` | 2 objects, 2 threads, callbacks may dispose, 2 handle slots | 132 579 | handles, stale keys, no leak once the library was called |
| `boundary` | a thread that calls the platform, a server thread whose handler calls any function, 5 addresses | 440 736 | allocators, live pointers, no leak, reasons on every way out, outcomes, every string is freed |
| `platform` | 2 callers, word of 8, chunks up to 2, 3 tokens | 608 692 | tokens and ranges, and which calls lose the newest token |
| `plugin` | packages two edits from sound ones, 19 kinds of launch values | 77 102 | what is accepted works, slots lead to one screen, launch values are not mixed, what is served is what was installed |
| `versions` | 69 versions, word of 16 | 4 761 | semantic versioning, a total order, updates keep plugins |
| `server_self_stop`, `server_oversize`, `platform_two_callers`, `plugin_names` | | | disagreements of code and documentation, section 5 |

Every property of a passing run has a mutant in `PROJECT.json`: an operator of
the module, marked "Mutated" in its comment, that changes one definition the way
a plausible bug would, and with which the run's configuration finds the property
violated.

### The bounds, and why they are enough

* `MaxSent = 2` requests in `server`: the hazards need one request in the
  handler and one behind it in the queue. Stops are not bounded: a caller
  stops again as often as it likes.
* Two stopping threads and the handler: one that joins, one that waits for its
  mutex, one on the server thread.
* `MaxBodyBytes = 2` blocks with bodies of up to 3 in `server_requests`: below,
  at and above the limit, with lengths announced, missing and wrong. Two
  requests per behaviour are enough because the server keeps nothing between
  requests but the health; `UnvouchedLearnNothing` compares two answers.
* Two hosts and three threads: one thread that stops a host, one that holds a
  reference or stops it too, one that starts the other host meanwhile. Each
  host is started once; a key could only be handed out again by the counter,
  which only grows (its wrap after 2^64 starts is left out).
* In `dotnet` two objects, two threads and the two callbacks: two who dispose
  of one object or one who disposes and one who still uses it, and a callback
  meanwhile. Two slots for two objects, so that every slot freed too early can
  be taken by the other object. An object is constructed once more when its start was
  refused, so refusals are not bounded. A start that throws keeps its slot for good.
* `Word = 8`, `MaxChunk = 2`, offsets at both ends, lengths zero, at and above
  the chunk limit and at the top of the word: the smallest word in which every
  comparison of `AcceptedRange` goes both ways and the sum wraps. `MaxTokens =
  3`: the launch token and two renewals, enough for one to overtake the other.
  `PlatformClientProofs` removes all of these bounds.

* In `boundary` one thread and one server thread, whose handler is inside the
  library at the same time: the arguments of both, what one lends and what each
  takes are alive together, and five addresses are all they can hold, so an
  address freed too early is taken at once by the other. Threads share nothing
  but the heap, and `BoundaryProofs` removes the bound. The handler
  calls any function (`HandlerFunctions`), the thread the one that may have to
  wait (`Functions`): a step of another function is one of the same form.
  With any function from both the run has twice the states; `BoundaryProofs` has no such
  bound.

* Two edits of a manifest in `plugin`: a wrong reference and the change that
  hides it from one check (a declared operation gone, a second screen of the same id, a
  slot of another type, a field missing, null or unknown). The names include one that a URL cannot carry as it is.
* `Word = 16` in `versions`: identifiers of digits below and above it, such as
  `9` and `10`, `99` and `100`, between which the orders of numbers and of texts
  disagree, next to identifiers that begin with digits. Every pair of versions is an initial state
  and every update a step, so the runs see every triple.

`Plugin` and `VersionOrder` run without the deadlock check because a refused
plugin, or a client whose version is malformed, has nothing more to do.
`HostTable` and `DotnetHost` run without it: a plugin may have stopped every
host and call nothing more.

### Fairness

Assumed: the operating system runs the server thread while it is in the loop,
and threads that are inside `stop` or inside the library take their next step
when they can. Weak fairness suffices: the mutex of `stop` is released for good
once the thread has exited, because the handle is then gone, so no waiting
caller can be overtaken for ever. In `HostTable` a function that holds a reference
ends: lookups do not block, and a platform call has `REQUEST_TIMEOUT`. In
`DotnetHost` the same holds of a thread inside the binding, whose managed code
between two native calls does not wait for anything. In `Boundary` a call of
the library and the code of the binding around it run, and a platform call
comes back.

Not assumed: that a client sends anything, that a plugin ever stops its server,
that a handler returns, that a join of oneself panics rather than hangs.
Liveness is stated with the premise that handlers (callbacks) return,
`HandlersReturn`, `HandlersEnd` and `CallbacksReturn`, because a handler that does not return
does block `stop` for ever, and the code says so. The callbacks excluded are exactly those that
block for ever, the ones that wait for themselves included.

## 4. The proofs

All theorems hold for every value of the constants that the named assumptions
(`LocalServerAssumption`, `ProtocolAssumption`, `HostTableAssumption`,
`DotnetHostAssumption`, `BoundaryAssumption`, `PlatformClientAssumption`, `ManifestAssumption`, `PluginAssumption`, `VersionOrderAssumption`) allow. Each component's proof has the same form:
an inductive invariant `IInv` in named parts, one lemma or step per action, one step under
it per part the action can disturb, then the theorems from `Spec => []IInv`.

**LocalServerProofs.** That a returned `stop` means an exited thread is not
inductive: a caller that finds no handle returns only because somebody else
has joined. What is missing is the link between the mutex, the handle and the
thread: the handle is gone only if somebody is joining, and holds the
mutex, or the thread is out of the loop. From the invariant: `TypeCorrect`, `StopWaitsForTheThread`
(when handlers do not stop their server every `stop` returns after
the exit, for any number of threads), `EarlyReturnIsHarmless` (when they do, an
early return happens only while the thread unwinds), `OneLateOperationAtMost`
(the late operation is the one between the reading of the flag and the next one), and
`ServerKeepsPromise`, the refinement of `ServerPromise`, which needs the others:
each step is mapped to one of the promise's steps or to a stutter. TLC checks
the refinement, in which the two theorems before it are contained.

A second invariant, `RInv`, is about requests. `NoRequestLost` is not inductive
alone: an accept failure in the middle of the queue would end the loop with
requests behind it unaccounted for. `FailureIsLast` says that the failure is
the last thing that ever joins the queue, and `AnswersAreDecided` that every
answer is one `Protocol` decides for its request. From it:
`RequestsAreNotLost`, `StrangersLearnNothing` and, with
`DecidedFollowsContract`, a case analysis over the early returns of `handle`,
`ContractIsKept`, for any operations, secret, limit and requests.
`AnnouncedBodiesAreLimited` is the other side of the run `server_oversize`: the
documented limit holds of every body that announces its length.

**HostTableProofs.** The invariant says who holds what: a host in the table has
one key below `nextKey` and nobody who stops it; a host outside the table that is not freed is
being registered, held or destroyed; whoever is past `waiting` has seen the
thread exit. From it: `TypeCorrect`, `NobodyUsesFreedMemory`,
`HostsAreDestroyedOnce`, `DestroyingNeverWaits`, `StopsDoNotOverlap`,
`KeysAreNeverReused`.

`BoundaryKeepsItsPromise` is the refinement of `HostPromise`, with one lemma for
each action: most of them change nothing that the page shows, `Insert`, `Find`,
`Take` and `ServerStopped` are the page's steps, and the two ends of a
reference are its `Leave`: `Release` when somebody else keeps the host, `Free`
when nobody does. That the page lets the caller go (`Leave` asks for a server that
is down, a host not yet given back and nobody else inside) is what the invariant
is needed for. Its one
new part is that a server thread is inside the library only from its callback
(`CallsFromCallbacks`): otherwise a server could go down around its own call. TLC
checks the refinement in `hosts`; `HostsAreDestroyedOnce` and
`StopsDoNotOverlap` are contained in it and have no run of their own.

**DotnetHostProofs.** The invariant is `IInv` of the library, which carries over
because every step of the binding is a step of `HostTable` or none
(`StepMapsToStep`), and `BInv`, which follows the key: it is in the hands of
the one caller who starts the object, then in `_host` of that object, then in the
hands of the one caller who took it out. That caller frees the handle, after `host_stop` has seen
the server thread exit; so an object whose server may run a callback has its
handle (`HandleWhileServing`). From it: `BindingTypeCorrect`,
`HandlesOutliveCallbacks`, `OnlyOwnHandlesAreFreed`, `MethodsReachTheirHost`,
`DisposedOnce`, `BindingUsesTheLibrary` (`DotnetSpec => Spec`), and so
`BindingKeepsHostPromise`.

**BoundaryProofs.** The invariant follows each variable of each thread: it
holds a string exactly in the states of its call or operation in which the code
owns one, of the side that made it, and no two variables hold the same. From it
the four properties of ownership and types. What the strings say is followed as
well: `CallSays` relates the string a call hands out to the problem the
call began with, from the early return that made it until its caller has read it, so that
`BoundaryReasons` has one case for each way out of the library; `ReplySays` and
`BoundaryHears` do the same for the string of a reply between the handler and
the outcome.

**ManifestProofs.** `ManifestRoundTrip`: for every JSON object that
`from_json` accepts, what `to_json` writes is read back as the same manifest.
Struct by struct: a field that is written is read as it is, one that is left
out was `None` and is read as `None`; the lists go element by element.

**PlatformClientProofs.** `RenewalOutlivesTheBody` and `RejectionKeepsTheSlot`
need that a minted token belongs to one reply (`TokensAreMintedOnce`):
otherwise another caller's accepted renewal could carry a rejected one's
number. `OnlyOverlapLosesTheNewest` needs that a response brings a token newer
than the one its request was sent with (`UsedIsOlder`): as long as the slot holds
that one, the renewal is a step forward. `RangesAreExact` rests on the lemma `ModuloWord`, for any word size.
`SingleCallerKeepsTheNewest` proves `SlotNeverGoesBack`, the property
two callers violate (section 5), for a single caller.

**PluginProofs.** For every set of manifests, not only the edited ones of the
run. The invariant adds to `AcceptedWorks` what `host_start` has checked
(`Checked`) and the path by which the client came to its question: nothing is
shown or asked before the start, and an app, whose components `validate` never
looks at, has no slots and so shows no screen (`NothingBefore`).
`ModelOperationIsDeclared`, `ComponentOperationIsDeclared` and
`SlotIsSoundIfValid` take from `Valid` what each of the client's three ways to
an operation needs; `RequestRuns` takes the request through every check of
`Protocol`. From it: `TypeCorrect`, `AcceptedPluginsWork`,
`SlotsLeadToOneScreen`; `LaunchIsNeverMixed`; and, with `ManifestRoundTrip`,
`ClientsReadTheManifest`.

**VersionOrderProofs.** About the digits themselves, for parts and versions of
any length and any word. The lexicographic order of sequences is treated once,
for any strict total order on the elements (`AboveInIsTotal`,
`AboveInIsTransitive`), and used three times: on the numbers of a core, on the
characters of a part, on the parts of a prerelease. The order on the parts
(`PartsAreOrdered`) is where the code mixes two comparisons: parts that are a
`u64` among themselves by number, the others among themselves as text, every
text above every number; no cycle can come of it, because a
part is on one side or the other whatever it is compared with. That a version is
determined by its numbers, which `OrderIsTotal` needs for its second half, is
`DigitsAreUnique`: without leading zeros two sequences of digits with one value
are the same. `Value` is a recursive function; that it is defined at every
length, and what it says of one more digit, is shown by the least counterexample
(`LeastNatural`, from the well-foundedness of the natural numbers). From it:
`SemverIsFollowed`, `VersionsAreOrdered` and `UpdatesNeverDropPlugins`.

Every invariant and every action property that a passing run checks is proved.
Only model-checked: liveness (`EveryStopReturns`, `EveryRequestAnswered`,
`EveryStoppedHostIsFreed`, `NoHandleLeaks`, `EveryStringIsFreed`), which needs
fairness and `ENABLED`. The runs that end with a counterexample
(section 5) have no theorem; what is left of their claims has:
`StopWaitsForTheThread` and `EarlyReturnIsHarmless`, `AnnouncedBodiesAreLimited`,
`SingleCallerKeepsTheNewest` and `OnlyOverlapLosesTheNewest`, and
`AcceptedPluginsWork`, whose premise is that names are plain.

## 5. Where code and documentation disagree

Each is a run that TLC ends with a counterexample.

* `server_self_stop`: the doc of `stop` says every caller returns only once the
  thread has exited. After a handler stopped its own server the mutex is
  poisoned and another `stop` returns at once, while the thread still unwinds.
  `EarlyReturnIsHarmless` proves that nothing runs any more then.
* `server_oversize`: bodies above the limit "are refused before they are read".
  One sent in chunks announces no length, is cut off at the limit, and what is
  left may be a complete envelope: its operation runs.
* `platform_two_callers`: the client "keeps the current token". Of two
  overlapping calls, the one handled last wins, also with the older token.
  `OnlyOverlapLosesTheNewest` proves that nothing else sets the slot back.
* `plugin_names`: 404 means "the manifest does not declare this operation". The
  validator accepts any text as an operation name and the server compares names
  as they stand in the URL, so a declared `two words` is answered 404.

Noticed and not made into a run: a server that ended because accepting failed
(`AcceptFails`) leaves its host in the table, so `host_port`, "0 once the host is
stopped", still returns its port. The schema says of a slot's operation that it
"must be a declared operation name", and `validate` looks it up for message
actions only. A secret with white space around it is
accepted at the start and matches no request, because the header arrives
trimmed (the port is trimmed, the secret is not; `AcceptedWorks` excludes such
secrets by its premise `Unchanged`). The repository's README says the environment is read only for a
`NULL` launch argument; it is also read for one that is not UTF-8. The schema
asks for a `timeoutSeconds` of at least 1 and `validate` does not look at it. A message
action is accepted without the permission `messages.read`. `args` of the envelope may be any JSON value,
while the C header promises the callback a JSON object. A `Dispose` that comes
second returns at once while the first one still waits for the server thread;
its doc ("waits for its thread", "safe to call again") can be read either way.

`stop` joins the server thread, and the HTTP library closes the listening socket
on its own thread a moment later (`SocketCloses`;
`aurify-plugin-ffi/src/lib.rs:440-441` says so), while
`PluginHostTests.cs:115-116` expects a refused connection right after `Dispose`:
a plugin that starts again on the same port at once may fail to bind.

A `PluginHost.Start` that throws between its constructor and the native call
(`PluginHost.cs:112-116`) never frees the GC handle, so the object is never
collected (`StartThrows`); no doc speaks of it, and `NoHandleLeaks`
names it as the one way to lose a handle.

In a callback's reply, `"error": null` counts as an error (code
`PLUGIN_ERROR`), and JSON that is no object, or has neither field, is a success
with the result `null` (`Outcome`). A `body_json` that is not UTF-8 is sent as
no body. The strings of `SetHealth` and `CallPlatform` end at an embedded NUL on the
C side, while the library drops a NUL from its own strings.

The .NET `PluginManifest` has no `actor`, `permissionRationale`, `network`,
`minClientVersion`, `icon`, `author` or `homepage`: an app, or a plugin that
reads messages, built with it is always refused
(`ActorIsSound`, `PermissionsAreSound`). The schema says it mirrors the
validator and forbids unknown fields, which serde ignores.

## 6. Not modelled

* The Display texts, the JSON layout, HTTP headers other than the secret, the
  token and the range, TLS and timeouts of the HTTP client (a timeout is a lost
  response).
* Poisoning of the table's mutex and of the health's: nothing panics while it holds them.
* A panic of a callback in the C boundary: `extern "C"` aborts the process.
* Finalizers: `PluginHost` has none, so an object that is never disposed of keeps
  its host and its handle, by design. The builder in `PluginManifest.cs`, a
  plain object with a serializer.
* The data directory of the launch context: copied, and read by nobody in the
  library.
* The texts of the manifest no rule is about, and the depth at which two JSON
  libraries stop reading (64 in .NET, 128 in serde): a choice for the arguments and the
  result of an operation (`Ends`), left out for manifests.
* The sample plugin and the crate facade `lib.rs`: no logic of the system.
* What the platform does with an old token after a renewal was lost: not here.

## 7. Plan

Done, in this order: `Protocol`, `LocalServer`, `ServerPromise` and their proofs;
`HostTable` with its proofs; `DotnetHost` on top of it, with its proofs;
`PlatformClient` with its proofs; `Manifest` and `Plugin` with their proofs;
`VersionOrder`; `Boundary` with its proofs; the JSON of manifests, its
round trip, and all of the launch values; the proofs about requests; the order
of versions proved on its digits; `HostPromise` and its refinement; when the
token slot goes back.

Left, in this order:

1. A page for the objects of the .NET binding (start, use, dispose, callback)
   that `DotnetHost` implements, as `HostTable` does `HostPromise`.
2. A client that probes the health of a server whose handler is slow, composed
   with `LocalServer`.
