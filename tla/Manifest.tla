------------------------------ MODULE Manifest ------------------------------
(***************************************************************************)
(* The plugin manifest, crates/aurify-plugin-core/src/manifest.rs: how it  *)
(* is read from JSON and written again (from_json, to_json and what serde  *)
(* derives for the structs), and which manifests are valid (validate).     *)
(*                                                                         *)
(* A JSON object is a function from the names of its fields.  The rules    *)
(* that relate several parts of a manifest are here as they are in the     *)
(* code.  A rule about the text of one field alone (a length, a pattern, a *)
(* closed list) is abstracted to whether the text is "unfit"; a struct     *)
(* with one such field is that field.  Texts no rule is about (labels,     *)
(* descriptions, the timeout of the probe) are left out, and so are the    *)
(* wording and the order of the messages: a manifest is valid when there   *)
(* are none.                                                               *)
(*                                                                         *)
(*   permissions         : a set of scopes                                 *)
(*   permissionRationale : a function from scopes to "text" or "unfit"     *)
(*   operations          : a sequence of names                             *)
(***************************************************************************)
EXTENDS Naturals, Sequences

CONSTANTS
  Absent,   \* an Option that is None
  Null      \* null in JSON

(***************************************************************************)
(* The structs: the fields a JSON object must have, and what the others    *)
(* are if it does not have them.  Those that are Absent then are Options,  *)
(* and are written only if they are there.                                 *)
(***************************************************************************)
SLOT == [required |-> {"type"}, default |-> [screen |-> Absent, operation |-> Absent]]
COMPONENT == [required |-> {"type"}, default |-> [bind |-> Absent, operation |-> Absent]]
SCREEN == [required |-> {"id", "title", "modelOperation"}, default |-> [components |-> <<>>]]
ENTRY == [required |-> {}, default |-> [url |-> Absent, program |-> Absent, runtime |-> Absent]]
MANIFEST ==
  [required |-> {"schemaVersion", "id", "version", "kind", "title"},
   default |->
     [actor |-> Absent, minClientVersion |-> Absent, icon |-> Absent, author |-> Absent,
      homepage |-> Absent, summary |-> Absent, entry |-> Absent,
      network |-> "fit", uninstall |-> "fit", resources |-> "fit",
      permissionRationale |-> [scope \in {} |-> "text"], permissions |-> {},
      slots |-> <<>>, screens |-> <<>>, operations |-> <<>>]]

\* No struct has null for a default.
ASSUME ManifestAssumption ==
  \A struct \in {SLOT, COMPONENT, SCREEN, ENTRY, MANIFEST} :
    \A field \in DOMAIN struct.default : struct.default[field] # Null

Elements(s) == {s[i] : i \in DOMAIN s}

\* A field that is null counts as one that is not there, if it may be so.
IsStruct(struct, json) ==
  /\ struct.required \subseteq DOMAIN json
  /\ \A field \in DOMAIN json :
       /\ json[field] # Absent
       /\ json[field] = Null =>
            /\ field \notin struct.required
            /\ field \in DOMAIN struct.default => struct.default[field] = Absent

\* Fields no struct knows are ignored.
Read(struct, json) ==
  [field \in struct.required \cup DOMAIN struct.default |->
     IF field \in DOMAIN json /\ json[field] # Null THEN json[field] ELSE struct.default[field]]

ReadAll(struct, list) == [i \in DOMAIN list |-> Read(struct, list[i])]

Write(value) == [field \in {name \in DOMAIN value : value[name] # Absent} |-> value[field]]

WriteAll(list) == [i \in DOMAIN list |-> Write(list[i])]

\* from_json succeeds.
IsManifest(json) ==
  /\ IsStruct(MANIFEST, json)
  /\ LET m == Read(MANIFEST, json)
     IN  /\ m.entry # Absent => IsStruct(ENTRY, m.entry)
         /\ \A slot \in Elements(m.slots) : IsStruct(SLOT, slot)
         /\ \A screen \in Elements(m.screens) :
              /\ IsStruct(SCREEN, screen)
              /\ \A component \in Elements(Read(SCREEN, screen).components) : IsStruct(COMPONENT, component)

ReadScreen(json) == [Read(SCREEN, json) EXCEPT !.components = ReadAll(COMPONENT, @)]
WriteScreen(screen) == Write([screen EXCEPT !.components = WriteAll(@)])

from_json(json) ==
  LET m == Read(MANIFEST, json)
  IN  [m EXCEPT !.entry = IF @ = Absent THEN Absent ELSE Read(ENTRY, @),
                !.slots = ReadAll(SLOT, @),
                !.screens = [i \in DOMAIN @ |-> ReadScreen(@[i])]]

\* Mutated: permissionRationale is written under a name that nobody reads.
to_json_snake_case(m) ==
  Write([[field \in DOMAIN m \ {"permissionRationale"} |-> m[field]]
           EXCEPT !.entry = IF @ = Absent THEN Absent ELSE Write(@),
                  !.slots = WriteAll(@),
                  !.screens = [i \in DOMAIN @ |-> WriteScreen(@[i])]])

to_json(m) ==
  Write([m EXCEPT !.entry = IF @ = Absent THEN Absent ELSE Write(@),
                  !.slots = WriteAll(@),
                  !.screens = [i \in DOMAIN @ |-> WriteScreen(@[i])]])

\* Nothing that is written for a manifest could be taken for Absent or Null.
Unmarked(m) ==
  /\ m.entry = Absent \/ Write(m.entry) \notin {Absent, Null}
  /\ WriteAll(m.slots) \notin {Absent, Null}
  /\ [i \in DOMAIN m.screens |-> WriteScreen(m.screens[i])] \notin {Absent, Null}
  /\ \A screen \in Elements(m.screens) : WriteAll(screen.components) \notin {Absent, Null}

-----------------------------------------------------------------------------
SLOT_TYPES == {"ai-tab", "apps-card", "settings-entry", "message-action"}
REQUIRED_SLOT == "apps-card"
COMPONENT_TYPES == {"text", "list", "toggle", "button", "progress"}
PERMISSIONS == {"identity.basic", "generation.jobs", "messages.read", "files.own"}
RUNTIMES == {"dotnet"}

\* The fields with a rule about their text.
FieldRules ==
  {"minClientVersion", "homepage", "author", "icon", "network", "uninstall", "schemaVersion", "id",
   "version", "title", "summary", "resources"}

ScreenIds(m) == {screen.id : screen \in Elements(m.screens)}
OperationNames(m) == Elements(m.operations)

\* An optional field is absent or refers to something declared.
AbsentOr(field, declared) == field \in declared \cup {Absent}

\* A semantic version, or the one version that was published before the rule.
VersionIsSound(m) == m.version = "semver" \/ (m.id = "local-ai" /\ m.version = "host-v0.3.0")

ActorIsSound(m) ==
  /\ AbsentOr(m.actor, {"person", "author"})
  /\ m.kind = "app" => m.actor # Absent

\* Permissions are known, explanations belong to a permission, and reading
\* messages is explained.
PermissionsAreSound(m) ==
  /\ m.permissions \subseteq PERMISSIONS
  /\ \A scope \in DOMAIN m.permissionRationale :
       scope \in m.permissions /\ m.permissionRationale[scope] = "text"
  /\ "messages.read" \in m.permissions => "messages.read" \in DOMAIN m.permissionRationale

\* A field of the entry is absent if the entry is.
EntryField(m, field) == IF m.entry = Absent THEN Absent ELSE m.entry[field]

\* validate_app
AppIsSound(m) ==
  /\ EntryField(m, "url") = "https"
  /\ EntryField(m, "program") = Absent /\ EntryField(m, "runtime") = Absent
  /\ m.slots = <<>>

EntryIsSound(m) ==
  /\ EntryField(m, "program") = "inside the package"
  /\ AbsentOr(EntryField(m, "runtime"), RUNTIMES)
  /\ EntryField(m, "url") = Absent

DeclaredOnce(names) == \A i, j \in DOMAIN names : names[i] = names[j] => i = j

\* Mutated: a slot need not name anything that is declared.
SlotTypeIsSound(m, slot) == slot.type \in SLOT_TYPES

\* A message action runs an operation, every other slot shows a screen.
SlotIsSound(m, slot) ==
  /\ slot.type \in SLOT_TYPES
  /\ IF slot.type = "message-action"
     THEN slot.operation \in OperationNames(m)
     ELSE slot.screen \in ScreenIds(m)

\* Mutated: the operation of a component is not looked up.
ComponentTypeIsSound(m, component) ==
  /\ component.type \in COMPONENT_TYPES
  /\ component.type \in {"list", "toggle", "progress"} => component.bind # Absent

ComponentIsSound(m, component) ==
  /\ component.type \in COMPONENT_TYPES
  /\ AbsentOr(component.operation, OperationNames(m))
  /\ component.type \in {"list", "toggle", "progress"} => component.bind # Absent

ScreenIsSound(m, screen) ==
  /\ screen.modelOperation \in OperationNames(m)
  /\ \A component \in Elements(screen.components) : ComponentIsSound(m, component)

\* validate_plugin
PluginIsSound(m) ==
  /\ EntryIsSound(m)
  /\ DeclaredOnce([i \in DOMAIN m.screens |-> m.screens[i].id])
  /\ DeclaredOnce(m.operations)
  /\ \E slot \in Elements(m.slots) : slot.type = REQUIRED_SLOT
  /\ \A slot \in Elements(m.slots) : SlotIsSound(m, slot)
  /\ \A screen \in Elements(m.screens) : ScreenIsSound(m, screen)

\* `validate` returns no messages.
Valid(m) ==
  /\ \A field \in FieldRules : m[field] # "unfit"
  /\ VersionIsSound(m)
  /\ ActorIsSound(m)
  /\ PermissionsAreSound(m)
  /\ IF m.kind = "app" THEN AppIsSound(m) ELSE PluginIsSound(m)
=============================================================================
