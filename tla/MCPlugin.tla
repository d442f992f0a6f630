------------------------------ MODULE MCPlugin ------------------------------
(***************************************************************************)
(* Packages for TLC: the manifests the tests of manifest.rs start from,    *)
(* what up to two edits make of them, and the first two written otherwise. *)
(***************************************************************************)
EXTENDS Plugin, TLC

NoEntry == [url |-> Null, program |-> Null, runtime |-> Null]
Slot(type, screen, operation) == [type |-> type, screen |-> screen, operation |-> operation]
Component(type, bind, operation) == [type |-> type, bind |-> bind, operation |-> operation]

PluginManifest ==
  [kind |-> "plugin", actor |-> Null, id |-> "local-ai", version |-> "semver",
   schemaVersion |-> "fit", title |-> "fit", summary |-> Null, minClientVersion |-> "fit",
   icon |-> Null, author |-> Null, homepage |-> Null,
   network |-> "fit", uninstall |-> "fit", resources |-> "fit",
   permissions |-> {"identity.basic"}, permissionRationale |-> [scope \in {} |-> "text"],
   entry |-> [NoEntry EXCEPT !.program = "inside the package", !.runtime = "dotnet"],
   slots |-> <<Slot("apps-card", "main", Null), Slot("message-action", Null, "summarize")>>,
   screens |-> <<[id |-> "main", title |-> "fit", modelOperation |-> "main.model",
                  components |-> <<Component("list", "items", Null),
                                   Component("button", Null, "main.model")>>]>>,
   operations |-> <<"main.model", "summarize">>]

AppManifest ==
  [PluginManifest EXCEPT !.kind = "app", !.actor = "person", !.slots = <<>>, !.screens = <<>>,
                         !.operations = <<>>, !.entry = [NoEntry EXCEPT !.url = "https"]]

\* One field other than it was.
Edits(m) ==
  {[m EXCEPT !.kind = kind] : kind \in {"app", "plugin"}}
  \cup {[m EXCEPT !.actor = actor] : actor \in {Null, "robot"}}
  \cup {[m EXCEPT !.version = version] : version \in {"host-v0.3.0", "v1"}}
  \cup {[m EXCEPT !.id = "other"], [m EXCEPT !.title = "unfit"], [m EXCEPT !.homepage = "unfit"]}
  \cup {[m EXCEPT !.permissions = @ \cup {scope}] : scope \in {"messages.read", "telemetry"}}
  \cup {[m EXCEPT !.permissionRationale = [scope \in {"messages.read"} |-> text]] : text \in {"text", "unfit"}}
  \cup {[m EXCEPT !.entry = Null]}
  \cup (IF m.entry = Null THEN {} ELSE
        {[m EXCEPT !.entry = NoEntry], [m EXCEPT !.entry.url = "https"],
         [m EXCEPT !.entry.program = "outside"], [m EXCEPT !.entry.runtime = "java"]})
  \cup {[m EXCEPT !.slots = Append(@, slot)] :
          slot \in {Slot("ai-tab", "main", Null), Slot("ai-tab", "other", "nowhere"),
                    Slot("ai-tab", "main", "nowhere"), Slot("message-action", "other", "main.model"),
                    Slot("message-action", "main", "nowhere"), Slot("toolbar", "main", Null)}}
  \cup {[m EXCEPT !.slots = Tail(@)] : n \in {1} \cap DOMAIN m.slots}
  \cup {[m EXCEPT !.screens = Append(@, [id |-> id, title |-> "fit", modelOperation |-> operation, components |-> <<>>])] :
          id \in {"main", "other"}, operation \in {"summarize", "nowhere"}}
  \cup {[m EXCEPT !.screens[1].components = Append(@, component)] :
          component \in {Component("button", Null, "nowhere"), Component("toggle", Null, "summarize"),
                         Component("canvas", Null, Null)}, n \in {1} \cap DOMAIN m.screens}
  \cup {[m EXCEPT !.operations = Append(@, name)] : name \in {"summarize", "two words"}}
  \cup {[m EXCEPT !.operations = Tail(@)] : n \in {1} \cap DOMAIN m.operations}
  \cup {[m EXCEPT !.slots = Append(@, Slot("message-action", Null, "two words")),
                  !.operations = Append(@, "two words")]}

EditedOnce == UNION {Edits(m) : m \in {PluginManifest, AppManifest}}

SomeManifests == {PluginManifest, AppManifest} \cup EditedOnce \cup UNION {Edits(m) : m \in EditedOnce}

\* A field is left out or null, and a field is there that nobody knows.
Rewritten(json) ==
  {[field \in DOMAIN json \ {name} |-> json[field]] : name \in DOMAIN json}
  \cup {[json EXCEPT ![name] = Null] : name \in DOMAIN json}
  \cup {json @@ [name \in {"unknown"} |-> Null]}
  \cup {[json EXCEPT !.slots[1] = [type |-> "apps-card", screen |-> "main", color |-> "text"]] :
          n \in {1} \cap DOMAIN json.slots}
  \cup {[json EXCEPT !.screens[1] = [title |-> "fit"] @@ [modelOperation |-> "main.model"]] :
          n \in {1} \cap DOMAIN json.screens}

SomePackages == SomeManifests \cup UNION {Rewritten(m) : m \in {PluginManifest, AppManifest}}

\* Sound values, each port and each secret beside them, and every pair of an
\* address and a token.
SoundValues == [port |-> "number", secret |-> "secret", platformUrl |-> "text", platformToken |-> "text"]
SomeHanded ==
  {[SoundValues EXCEPT !.port = port] : port \in Ports}
  \cup {[SoundValues EXCEPT !.secret = secret_] : secret_ \in Secrets}
  \cup {[SoundValues EXCEPT !.platformUrl = url, !.platformToken = token] : url \in Texts, token \in Texts}
=============================================================================
