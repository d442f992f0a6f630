---------------------------- MODULE PluginProofs ----------------------------
(***************************************************************************)
(* Theorems about Plugin, for every set of packages.                       *)
(*                                                                         *)
(* AcceptedWorks is not inductive: that an answer is good depends on what  *)
(* host_start has checked, and on the path by which the client came to the *)
(* operation.  IInv adds both.                                             *)
(***************************************************************************)
EXTENDS Plugin, ManifestProofs, SequenceTheorems

\* What host_start has checked when it let the plugin run, and what the host
\* then works with.
Checked ==
  host = "serving" =>
    /\ IsManifest(package) /\ manifest = from_json(package) /\ Valid(manifest)
    /\ LaunchIsSound(handed)
    /\ secret = handed.secret /\ platform = HasPlatform(handed)

\* What the client reads from a host is its manifest.
ClaimsAreTrue == claimed # Absent => host = "serving" /\ claimed = manifest

\* Before a host serves nothing is shown or asked; an app, which has no slots,
\* shows no screen of the manifest at any time.
NothingBefore ==
  /\ host = "none" => secret = Absent /\ asked = Absent /\ claimed = Absent
  /\ host = "none" \/ manifest.kind = "app" => shown = Absent

\* An answer answers a question, and the questions of a sound manifest are
\* answered by its operations.
GoodReply == reply # Absent => asked # Absent /\ host = "serving" /\ (Unchanged => reply.status \in {200, 422})

IInv ==
  /\ package \in Packages
  /\ TypeOK
  /\ Checked
  /\ ClaimsAreTrue
  /\ NothingBefore
  /\ GoodReply

(***************************************************************************)
(* The lemmas about Valid, one for each way the client comes to ask.       *)
(***************************************************************************)
LEMMA ModelOperationIsDeclared ==
  ASSUME NEW m, Valid(m), m.kind # "app", NEW screen \in Elements(m.screens)
  PROVE  screen.modelOperation \in OperationNames(m)
BY DEF Valid, PluginIsSound, ScreenIsSound

LEMMA ComponentOperationIsDeclared ==
  ASSUME NEW m, Valid(m), m.kind # "app", NEW screen \in Elements(m.screens),
         NEW component \in Elements(screen.components), component.operation # Absent
  PROVE  component.operation \in OperationNames(m)
BY DEF Valid, PluginIsSound, ScreenIsSound, ComponentIsSound, AbsentOr

LEMMA SlotIsSoundIfValid ==
  ASSUME NEW m, Valid(m), NEW slot \in Elements(m.slots)
  PROVE  m.kind # "app" /\ SlotIsSound(m, slot)
<1>1. m.kind # "app"
  BY DEF Valid, AppIsSound, Elements
<1> QED BY <1>1 DEF Valid, PluginIsSound

LEMMA OneBlock == ASSUME NEW block PROVE SubSeq(<<block>>, 1, 1) = <<block>>
<1>1. <<block>> \in Seq({block}) /\ Len(<<block>>) = 1
  OBVIOUS
<1> QED BY <1>1, SubSeqFull

\* The request the client sends for a declared name passes every check of the
\* server.
LEMMA RequestRuns ==
  ASSUME NEW m, OperationNames(m) \cap {"outside", "health", "manifest", "unrouted"} = {}, NEW name \in OperationNames(m), OperationNames(m) \subseteq PlainNames,
         NEW s, Trimmed(handed.secret) = s
  PROVE  Server(OperationNames(m), s)!Runs(Request(name))
<1> DEFINE request == Request(name)
           ops == OperationNames(m)
<1>1. /\ request.method = "POST" /\ request.path = name
      /\ request.secrets = <<s>>
      /\ request.length = 1 /\ request.body = <<"object">>
  BY DEF Request
<1>2. MaxBodyBytes \in Nat /\ MaxBodyBytes >= 1 /\ NoLength \notin Nat
  BY PluginAssumption
<1>3. name \notin {"outside", "health", "manifest", "unrouted"}
  OBVIOUS
<1> HIDE DEF request
<1>4. Server(ops, s)!SecretMatches(request)
  BY <1>1 DEF Server!SecretMatches
<1>5. Server(ops, s)!IsOperationRoute(request)
  BY <1>1, <1>3 DEF Server!IsOperationRoute
<1>6. Server(ops, s)!Raw(request) = <<"object">>
  <2>1. Server(ops, s)!Raw(request) = SubSeq(<<"object">>, 1, 1)
    BY <1>1, <1>2 DEF Server!Raw
  <2> QED BY <2>1, OneBlock
<1>7. ~Server(ops, s)!Unreadable(request)
  BY <1>6 DEF Server!Unreadable
<1>8. Server(ops, s)!Text(request) \subseteq {1}
  BY <1>6 DEF Server!Text
<1>9. ~Server(ops, s)!BodyRefused(request)
  BY <1>1, <1>2, <1>6, <1>7, <1>8 DEF Server!BodyRefused, Server!Text
<1> QED BY <1>1, <1>4, <1>5, <1>9 DEF Server!Runs, request, ops

-----------------------------------------------------------------------------
LEMMA InitIsIInv == Init => IInv
BY DEF Init, IInv, TypeOK, Checked, ClaimsAreTrue, NothingBefore, GoodReply

\* What is assumed of packages holds of the manifest of a host.
LEMMA ServedManifest ==
  ASSUME IInv, host = "serving"
  PROVE  /\ IsManifest(package) /\ manifest = from_json(package) /\ Valid(manifest)
         /\ Unmarked(manifest)
         /\ OperationNames(manifest) \cap {"outside", "health", "manifest", "unrouted"} = {}
         /\ Absent \notin OperationNames(manifest) \cup ScreenIds(manifest)
<1>1. package \in Packages /\ IsManifest(package) /\ manifest = from_json(package) /\ Valid(manifest)
  BY DEF IInv, Checked
<1>2. LET m == from_json(package)
      IN  /\ Unmarked(m)
          /\ OperationNames(m) \cap {"outside", "health", "manifest", "unrouted"} = {}
          /\ Absent \notin OperationNames(m) \cup ScreenIds(m)
  BY <1>1, PluginAssumption
<1> QED BY <1>1, <1>2

\* The client asks for a declared operation and has no answer yet.
LEMMA AskKeepsIInv ==
  ASSUME IInv, host = "serving", NEW name \in OperationNames(manifest), Ask(name), UNCHANGED shown
  PROVE  IInv'
<1>1. name # Absent
  BY ServedManifest
<1>2. UNCHANGED <<package, handed, environment, host, manifest, secret, platform, claimed, shown>>
  BY DEF Ask, launchVars, hostVars
<1>3. asked' = name /\ reply' = Absent
  BY DEF Ask
<1>4. OperationNames(manifest') = OperationNames(manifest)
  BY <1>2
<1>5. TypeOK'
  BY <1>2, <1>3, <1>4 DEF IInv, TypeOK
<1>6. Checked' /\ ClaimsAreTrue' /\ NothingBefore' /\ GoodReply'
  BY <1>2, <1>3 DEF IInv, Checked, ClaimsAreTrue, NothingBefore, GoodReply
<1> QED BY <1>2, <1>5, <1>6 DEF IInv

LEMMA HostStartKeepsIInv ==
  ASSUME IInv, NEW launchJson \in Arguments, HostStart(launchJson)
  PROVE  IInv'
<1> DEFINE values == IF launchJson = "json" THEN handed ELSE environment
<1>1. /\ host = "none" /\ IsManifest(package) /\ LaunchIsSound(values)
      /\ host' = "serving" /\ manifest' = from_json(package) /\ secret' = values.secret
      /\ Valid(manifest') /\ platform' = HasPlatform(values)
  BY DEF HostStart, StartWith
<1>2. UNCHANGED <<package, handed, environment, claimed, shown, asked, reply>>
  BY DEF HostStart, StartWith, launchVars, clientVars
<1>3. values = handed
  <2>1. ~LaunchIsSound(NoValues)
    BY PluginAssumption DEF LaunchIsSound, NoValues
  <2> QED BY <1>1, <2>1 DEF IInv, TypeOK
<1> HIDE DEF values
<1>4. Checked'
  BY <1>1, <1>2, <1>3 DEF Checked, LaunchIsSound
<1>5. asked = Absent /\ claimed = Absent /\ shown = Absent /\ reply = Absent
  BY <1>1 DEF IInv, NothingBefore, GoodReply
<1>6. TypeOK'
  <2>1. secret' \in {"secret", "padded", Absent} /\ platform' \in BOOLEAN
    BY <1>1, <1>3 DEF LaunchIsSound, HasPlatform
  <2>2. asked' \in OperationNames(manifest') \cup {Absent}
    BY <1>2, <1>5
  <2> QED BY <1>1, <1>2, <2>1, <2>2 DEF IInv, TypeOK
<1>7. ClaimsAreTrue' /\ NothingBefore' /\ GoodReply'
  BY <1>1, <1>2, <1>5 DEF ClaimsAreTrue, NothingBefore, GoodReply
<1> QED BY <1>2, <1>4, <1>6, <1>7 DEF IInv

LEMMA ReadManifestKeepsIInv ==
  ASSUME IInv, ReadManifest
  PROVE  IInv'
<1>1. host = "serving" /\ claimed' = from_json(to_json(manifest))
  BY DEF ReadManifest, Idle
<1>2. UNCHANGED <<package, handed, environment, host, manifest, secret, platform, shown, asked, reply>>
  BY DEF ReadManifest, launchVars, hostVars
<1>3. claimed' = manifest
  <2>1. IsManifest(package) /\ manifest = from_json(package) /\ Unmarked(manifest)
    BY <1>1, ServedManifest
  <2> QED BY <1>1, <2>1, ManifestRoundTrip
<1>4. OperationNames(manifest') = OperationNames(manifest) /\ Unchanged' = Unchanged
  BY <1>2 DEF Unchanged
<1>5. TypeOK'
  BY <1>2, <1>4 DEF IInv, TypeOK
<1>6. Checked' /\ ClaimsAreTrue' /\ NothingBefore' /\ GoodReply'
  BY <1>1, <1>2, <1>3, <1>4 DEF IInv, Checked, ClaimsAreTrue, NothingBefore, GoodReply
<1> QED BY <1>2, <1>5, <1>6 DEF IInv

LEMMA OpenSlotKeepsIInv ==
  ASSUME IInv, OpenSlot
  PROVE  IInv'
<1>1. host = "serving"
  BY DEF OpenSlot, Idle
<1>2. manifest.kind # "app"
  <2>1. PICK slot \in Elements(manifest.slots) : TRUE
    BY DEF OpenSlot
  <2> QED BY <1>1, <2>1, ServedManifest, SlotIsSoundIfValid
<1>3. UNCHANGED <<package, handed, environment, host, manifest, secret, platform, claimed, asked, reply>>
  BY DEF OpenSlot, launchVars, hostVars
<1>4. OperationNames(manifest') = OperationNames(manifest) /\ Unchanged' = Unchanged
  BY <1>3 DEF Unchanged
<1>5. TypeOK'
  BY <1>3, <1>4 DEF IInv, TypeOK
<1>6. Checked' /\ ClaimsAreTrue' /\ NothingBefore' /\ GoodReply'
  BY <1>1, <1>2, <1>3, <1>4 DEF IInv, Checked, ClaimsAreTrue, NothingBefore, GoodReply
<1> QED BY <1>3, <1>5, <1>6 DEF IInv

LEMMA ServerAnswersKeepsIInv ==
  ASSUME IInv, ServerAnswers
  PROVE  IInv'
<1>1. host = "serving" /\ asked # Absent
  BY DEF ServerAnswers
<1>2. UNCHANGED <<package, handed, environment, host, manifest, secret, platform, claimed, shown, asked>>
  BY DEF ServerAnswers, launchVars, hostVars
<1>3. asked \in OperationNames(manifest) /\ secret = handed.secret
  BY <1>1 DEF IInv, TypeOK, Checked
<1>4. reply' \in Answers
  BY DEF ServerAnswers, Answers, Server!OperationAnswer, Server!DirectAnswer, Server!Refusal
<1>5. Unchanged => reply'.status \in {200, 422}
  <2> SUFFICES ASSUME Unchanged PROVE reply'.status \in {200, 422}
    OBVIOUS
  <2>1. OperationNames(manifest) \cap {"outside", "health", "manifest", "unrouted"} = {}
    BY <1>1, ServedManifest
  <2>2. Server(OperationNames(manifest), secret)!Runs(Request(asked))
    BY <1>3, <2>1, RequestRuns DEF Unchanged
  <2> QED BY <2>2 DEF ServerAnswers, Server!OperationAnswer
<1>6. OperationNames(manifest') = OperationNames(manifest) /\ Unchanged' = Unchanged
  BY <1>2 DEF Unchanged
<1>7. TypeOK'
  BY <1>2, <1>4, <1>6 DEF IInv, TypeOK
<1>8. Checked' /\ ClaimsAreTrue' /\ NothingBefore' /\ GoodReply'
  BY <1>1, <1>2, <1>5, <1>6 DEF IInv, Checked, ClaimsAreTrue, NothingBefore, GoodReply
<1> QED BY <1>2, <1>7, <1>8 DEF IInv

LEMMA StepKeepsIInv == IInv /\ [Next]_vars => IInv'
<1> SUFFICES ASSUME IInv, [Next]_vars PROVE IInv'
  OBVIOUS
<1>1. ASSUME NEW launchJson \in Arguments, HostStart(launchJson) PROVE IInv'
  BY <1>1, HostStartKeepsIInv
<1>2. CASE MessageAction
  <2>1. PICK slot \in Elements(manifest.slots) : slot.type = "message-action" /\ Ask(slot.operation)
    BY <1>2 DEF MessageAction
  <2>2. host = "serving" /\ UNCHANGED shown
    BY <1>2 DEF MessageAction, Idle
  <2>3. slot.operation \in OperationNames(manifest)
    BY <2>1, <2>2, ServedManifest, SlotIsSoundIfValid DEF SlotIsSound
  <2> QED BY <2>1, <2>2, <2>3, AskKeepsIInv
<1>3. ASSUME host = "serving", NEW screen \in Elements(manifest.screens), screen.id = shown
      PROVE  Valid(manifest) /\ manifest.kind # "app"
  BY <1>3, ServedManifest DEF IInv, NothingBefore, ScreenIds
<1>4. CASE LoadModel
  <2>1. PICK screen \in Elements(manifest.screens) : screen.id = shown /\ Ask(screen.modelOperation)
    BY <1>4 DEF LoadModel
  <2>2. host = "serving" /\ UNCHANGED shown
    BY <1>4 DEF LoadModel, Idle
  <2>3. screen.modelOperation \in OperationNames(manifest)
    BY <1>3, <2>1, <2>2, ModelOperationIsDeclared
  <2> QED BY <2>1, <2>2, <2>3, AskKeepsIInv
<1>5. CASE Activate
  <2>1. PICK screen \in Elements(manifest.screens) :
          /\ screen.id = shown
          /\ \E component \in Elements(screen.components) :
               component.operation # Absent /\ Ask(component.operation)
    BY <1>5 DEF Activate
  <2>2. PICK component \in Elements(screen.components) :
          component.operation # Absent /\ Ask(component.operation)
    BY <2>1
  <2>3. host = "serving" /\ UNCHANGED shown
    BY <1>5 DEF Activate, Idle
  <2>4. component.operation \in OperationNames(manifest)
    BY <1>3, <2>1, <2>2, <2>3, ComponentOperationIsDeclared
  <2> QED BY <2>2, <2>3, <2>4, AskKeepsIInv
<1>6. CASE UNCHANGED vars
  <2>1. UNCHANGED <<package, handed, environment, host, manifest, secret, platform, claimed, shown, asked, reply>>
    BY <1>6 DEF vars, launchVars, hostVars, clientVars
  <2>2. OperationNames(manifest') = OperationNames(manifest) /\ Unchanged' = Unchanged
    BY <2>1 DEF Unchanged
  <2>3. TypeOK'
    BY <2>1, <2>2 DEF IInv, TypeOK
  <2>4. Checked' /\ ClaimsAreTrue' /\ NothingBefore' /\ GoodReply'
    BY <2>1, <2>2 DEF IInv, Checked, ClaimsAreTrue, NothingBefore, GoodReply
  <2> QED BY <2>1, <2>3, <2>4 DEF IInv
<1> QED
  BY <1>1, <1>2, <1>4, <1>5, <1>6, ReadManifestKeepsIInv, OpenSlotKeepsIInv, ServerAnswersKeepsIInv DEF Next

LEMMA Invariance == Spec => []IInv
<1> QED BY InitIsIInv, StepKeepsIInv, PTL DEF Spec

\* Every variable keeps its type, and the client asks for declared operations
\* only.
THEOREM TypeCorrect == Spec => []TypeOK
<1>1. IInv => TypeOK
  BY DEF IInv
<1> QED BY <1>1, Invariance, PTL

\* A host works with the launch values the client handed to its process,
\* whether they were passed to host_start or read from the environment.
THEOREM LaunchIsNeverMixed == Spec => []LaunchIsWhatWasHanded
<1>1. IInv => LaunchIsWhatWasHanded
  BY DEF IInv, Checked, LaunchIsWhatWasHanded
<1> QED BY <1>1, Invariance, PTL

\* The manifest a client reads from a running plugin is the one in its
\* package, however that was written.
THEOREM ClientsReadTheManifest == Spec => []ServedIsInstalled
<1>1. IInv => ServedIsInstalled
  BY DEF IInv, Checked, ClaimsAreTrue, ServedIsInstalled
<1> QED BY <1>1, Invariance, PTL

\* Whatever manifest and launch values host_start accepts, every operation
\* that a slot, a screen or a component of the manifest leads to is run by
\* the server, if the manifest's names and the secret arrive as they are.
THEOREM AcceptedPluginsWork == Spec => []AcceptedWorks
<1>1. IInv => AcceptedWorks
  BY DEF IInv, GoodReply, AcceptedWorks
<1> QED BY <1>1, Invariance, PTL

\* Every slot of a plugin that runs and has a screen leads to exactly one
\* screen, and the plugin has a card.
THEOREM SlotsLeadToOneScreen == Spec => []SlotsShowOneScreen
<1>1. IInv => SlotsShowOneScreen
  <2> SUFFICES ASSUME IInv, host = "serving", manifest.kind = "plugin"
               PROVE  /\ \E slot \in Elements(manifest.slots) : slot.type = REQUIRED_SLOT
                      /\ \A slot \in Elements(manifest.slots) :
                           slot.type # "message-action" =>
                             \E i \in DOMAIN manifest.screens :
                               \A j \in DOMAIN manifest.screens :
                                 manifest.screens[j].id = slot.screen <=> i = j
    BY DEF SlotsShowOneScreen
  <2> DEFINE ids == [i \in DOMAIN manifest.screens |-> manifest.screens[i].id]
  <2>1. Valid(manifest)
    BY DEF IInv, Checked
  <2>2. PluginIsSound(manifest)
    BY <2>1 DEF Valid
  <2>3. \A i, j \in DOMAIN manifest.screens :
          manifest.screens[i].id = manifest.screens[j].id => i = j
    <3>1. DeclaredOnce(ids)
      BY <2>2 DEF PluginIsSound
    <3> QED BY <3>1 DEF DeclaredOnce
  <2>4. ASSUME NEW slot \in Elements(manifest.slots), slot.type # "message-action"
        PROVE  \E i \in DOMAIN manifest.screens :
                 \A j \in DOMAIN manifest.screens : manifest.screens[j].id = slot.screen <=> i = j
    <3>1. slot.screen \in ScreenIds(manifest)
      BY <2>1, <2>4, SlotIsSoundIfValid DEF SlotIsSound
    <3>2. PICK i \in DOMAIN manifest.screens : slot.screen = manifest.screens[i].id
      BY <3>1 DEF ScreenIds, Elements
    <3> QED BY <2>3, <3>2
  <2>5. \E slot \in Elements(manifest.slots) : slot.type = REQUIRED_SLOT
    BY <2>2 DEF PluginIsSound
  <2> QED BY <2>4, <2>5
<1> QED BY <1>1, Invariance, PTL
=============================================================================
