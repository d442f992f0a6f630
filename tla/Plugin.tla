------------------------------- MODULE Plugin -------------------------------
(***************************************************************************)
(* From a package and launch values to answers: host_start of             *)
(* crates/aurify-plugin-ffi/src/lib.rs reads and checks both               *)
(* (Manifest::from_json and validate, LaunchContext::from_values of        *)
(* crates/aurify-plugin-core) and starts a server; the client shows what   *)
(* the manifest declares and sends the requests that belong to it; the     *)
(* server decides each of them as Protocol says.                           *)
(*                                                                         *)
(* What the module is about is whether the three fit together: is what     *)
(* the validator accepts what the server then serves?                      *)
(*                                                                         *)
(* A host_start that is refused leaves nothing behind and is a stuttering  *)
(* step.                                                                   *)
(***************************************************************************)
EXTENDS Manifest

CONSTANTS
  Packages,      \* the manifests in JSON a plugin may have
  Handed,        \* the launch values the client may hand to the process
  PlainNames,    \* operation names that a URL carries as they are
  MaxBodyBytes,  \* as in Protocol
  NoLength       \* as in Protocol

Server(Operations, Secret) == INSTANCE Protocol

\* What stands in a URL for a name with other characters: percent-encoded,
\* and as such no name.
Encoded == "percent-encoded"

(***************************************************************************)
(* Launch values.  A port is "number", or "padded" with white space, or    *)
(* not one; a secret is "secret", or "padded", or too short.               *)
(***************************************************************************)
Ports == {Absent, "blank", "number", "padded", "zero", "text"}
Secrets == {Absent, "blank", "short", "secret", "padded"}
Texts == {Absent, "blank", "text"}
LaunchValues == [port : Ports, secret : Secrets, platformUrl : Texts, platformToken : Texts]
NoValues == [port |-> Absent, secret |-> Absent, platformUrl |-> Absent, platformToken |-> Absent]

\* Operation names are not the words that stand for other paths in the model.
ASSUME PluginAssumption ==
  /\ MaxBodyBytes \in Nat \ {0}
  /\ NoLength \notin Nat
  /\ Absent \notin {"number", "padded"}
  /\ Handed \subseteq LaunchValues
  /\ \A package \in Packages :
       IsManifest(package) =>
         LET m == from_json(package)
         IN  /\ Unmarked(m)
             /\ Encoded \notin OperationNames(m)
             /\ OperationNames(m) \cap {"outside", "health", "manifest", "unrouted"} = {}
             /\ Absent \notin OperationNames(m) \cup ScreenIds(m)

\* LaunchContext::from_values: the port is trimmed before it is read.
LaunchIsSound(values) == values.port \in {"number", "padded"} /\ values.secret \in {"secret", "padded"}

non_empty(value) == IF value = "blank" THEN Absent ELSE value

\* PlatformClient::from_launch: a client takes an address and a token.
HasPlatform(values) == non_empty(values.platformUrl) # Absent /\ non_empty(values.platformToken) # Absent

\* A header reaches the server without the white space around its value.
Trimmed(secret) == IF secret = "padded" THEN "secret" ELSE secret

VARIABLES
  package,      \* the manifest of the installed package, in JSON
  handed,       \* the launch values the client hands the process
  environment,  \* what of them the library sees in the environment
  host,         \* "none" or "serving"
  manifest,     \* the manifest of a host that serves; the client has it too
  secret,       \* the secret of the launch context
  platform,     \* has the host a platform client?
  claimed,      \* what the client read from the manifest route, or Absent
  shown,        \* the screen the client shows, by its id
  asked,        \* the operation the client last asked for
  reply         \* the server's answer to that, or Absent

launchVars == <<package, handed, environment>>
hostVars == <<host, manifest, secret, platform>>
clientVars == <<claimed, shown, asked, reply>>
vars == <<launchVars, hostVars, clientVars>>

\* The library may not see the environment of the process (.NET on Unix).
Init ==
  /\ package \in Packages
  /\ handed \in Handed
  /\ environment \in {handed, NoValues}
  /\ host = "none" /\ manifest = Absent
  /\ secret = Absent /\ platform = FALSE
  /\ claimed = Absent
  /\ shown = Absent /\ asked = Absent /\ reply = Absent

\* The kinds of argument host_start may get for its JSON strings.
Arguments == {"NULL", "not UTF-8", "not JSON", "json"}

\* Without launch values in UTF-8 the environment is read.
StartWith(values) ==
  /\ host = "none"
  /\ IsManifest(package)
  /\ LaunchIsSound(values)
  /\ host' = "serving"
  /\ manifest' = from_json(package)
  /\ secret' = values.secret
  /\ UNCHANGED <<launchVars, clientVars>>

\* Mutated: host_start does not have the manifest validated.
HostStartUnchecked(launchJson) ==
  LET values == IF launchJson = "json" THEN handed ELSE environment
  IN  /\ launchJson # "not JSON"
      /\ StartWith(values)
      /\ platform' = HasPlatform(values)

\* Mutated: the platform client is configured from the environment.
HostStartMixed(launchJson) ==
  LET values == IF launchJson = "json" THEN handed ELSE environment
  IN  /\ launchJson # "not JSON"
      /\ StartWith(values)
      /\ Valid(manifest')
      /\ platform' = HasPlatform(environment)

\* host_start with a callback.
HostStart(launchJson) ==
  LET values == IF launchJson = "json" THEN handed ELSE environment
  IN  /\ launchJson # "not JSON"
      /\ StartWith(values)
      /\ Valid(manifest')
      /\ platform' = HasPlatform(values)

-----------------------------------------------------------------------------
(* The client, as the repository's README describes it. *)

\* The request the client sends for an operation.
Request(name) ==
  [method |-> "POST",
   path |-> IF name \in PlainNames THEN name ELSE Encoded,
   secrets |-> <<Trimmed(handed.secret)>>,
   length |-> 1,
   body |-> <<"object">>]

Ask(name) ==
  /\ asked' = name
  /\ reply' = Absent
  /\ UNCHANGED <<launchVars, hostVars, claimed>>

Idle == host = "serving" /\ (asked = Absent \/ reply # Absent)

\* The client asks the process what it claims to be.
ReadManifest ==
  /\ Idle
  /\ LET request == [Request("manifest") EXCEPT !.method = "GET", !.path = "manifest"]
         answer == Server(OperationNames(manifest), secret)!DirectAnswer(request, "ready")
     IN  answer.code = "manifest"
  /\ claimed' = from_json(to_json(manifest))
  /\ UNCHANGED <<launchVars, hostVars, shown, asked, reply>>

\* The person opens a slot that has a screen.
OpenSlot ==
  /\ Idle
  /\ \E slot \in Elements(manifest.slots) : slot.type # "message-action" /\ shown' = slot.screen
  /\ UNCHANGED <<launchVars, hostVars, claimed, asked, reply>>

\* The model of the screen is loaded, at first and after every action.
LoadModel ==
  /\ Idle
  /\ \E screen \in Elements(manifest.screens) : screen.id = shown /\ Ask(screen.modelOperation)
  /\ UNCHANGED shown

\* A component of the screen is activated.
Activate ==
  /\ Idle
  /\ \E screen \in Elements(manifest.screens) :
       /\ screen.id = shown
       /\ \E component \in Elements(screen.components) :
            component.operation # Absent /\ Ask(component.operation)
  /\ UNCHANGED shown

\* The person chooses the action on a message.
MessageAction ==
  /\ Idle
  /\ \E slot \in Elements(manifest.slots) : slot.type = "message-action" /\ Ask(slot.operation)
  /\ UNCHANGED shown

-----------------------------------------------------------------------------
\* The server answers; the operation itself ends well or not.
ServerAnswers ==
  /\ host = "serving" /\ asked # Absent /\ reply = Absent
  /\ LET request == Request(asked)
         operations == OperationNames(manifest)
     IN  IF Server(operations, secret)!Runs(request)
         THEN \E ok \in BOOLEAN : reply' = Server(operations, secret)!OperationAnswer(ok)
         ELSE reply' = Server(operations, secret)!DirectAnswer(request, "ready")
  /\ UNCHANGED <<launchVars, hostVars, claimed, shown, asked>>

Next ==
  \/ \E launchJson \in Arguments : HostStart(launchJson)
  \/ ReadManifest
  \/ OpenSlot
  \/ MessageAction
  \/ LoadModel
  \/ Activate
  \/ ServerAnswers

Spec == Init /\ [][Next]_vars

-----------------------------------------------------------------------------
(* Properties. *)

Answers == [status : {200, 400, 401, 404, 405, 413, 422},
            code : {"result", "error", "ready", "manifest", "NOT_FOUND", "SECRET_REQUIRED",
                    "METHOD_NOT_ALLOWED", "OPERATION_UNKNOWN", "BODY_TOO_LARGE",
                    "BODY_UNREADABLE", "BODY_INVALID"}]

\* Every variable holds a value of its type, and the client asks for declared
\* operations.
TypeOK ==
  /\ handed \in Handed
  /\ environment \in {handed, NoValues}
  /\ host \in {"none", "serving"}
  /\ secret \in {"secret", "padded", Absent}
  /\ platform \in BOOLEAN
  /\ asked \in IF host = "none" THEN {Absent} ELSE OperationNames(manifest) \cup {Absent}
  /\ reply \in Answers \cup {Absent}

\* A host works with the values the client handed to its process and with no
\* others: its secret, and the platform exactly if an address and a token
\* were handed over.  The binding passes them explicitly or the library reads
\* the environment, which may not show them; the two are never mixed.
LaunchIsWhatWasHanded == host = "serving" => secret = handed.secret /\ platform = HasPlatform(handed)

\* "What this process claims to be" is what was installed: the manifest the
\* client reads from a running plugin is the one host_start read from the
\* package and found valid, however the package was written: with fields
\* left out, null, or unknown.
ServedIsInstalled == claimed # Absent => claimed = from_json(package) /\ Valid(claimed)

\* What the client passes on unchanged: plain operation names, and a secret
\* without white space around it.
Unchanged == OperationNames(manifest) \subseteq PlainNames /\ Trimmed(handed.secret) = handed.secret

\* "A manifest that passes locally is not refused later": whatever a person
\* opens, presses or chooses in an accepted plugin reaches its operation.
\* The validator's references, the server's list of operations and the
\* secret of the launch fit together.
AcceptedWorks == reply # Absent /\ Unchanged => reply.status \in {200, 422}

\* A plugin that runs has a card it can be removed from, and each of its
\* slots with a screen leads to one screen and no other.
SlotsShowOneScreen ==
  host = "serving" /\ manifest.kind = "plugin" =>
    /\ \E slot \in Elements(manifest.slots) : slot.type = REQUIRED_SLOT
    /\ \A slot \in Elements(manifest.slots) :
         slot.type # "message-action" =>
           \E i \in DOMAIN manifest.screens :
             \A j \in DOMAIN manifest.screens : manifest.screens[j].id = slot.screen <=> i = j

\* 404 means "the manifest does not declare this operation".
UnknownMeansUndeclared ==
  reply # Absent => (reply.status = 404 => asked \notin OperationNames(manifest))
=============================================================================
