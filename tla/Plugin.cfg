\* Manifests up to two edits away from a sound one, every kind of launch value.
SPECIFICATION Spec
CONSTANTS
  Absent = Absent
  NoLength = NoLength
  MaxBodyBytes = 2
  PlainNames = {"main.model", "summarize", "nowhere"}
  Null = Null
  Packages <- SomePackages
  Handed <- SomeHanded
INVARIANTS
  TypeOK
  AcceptedWorks
  SlotsShowOneScreen
  LaunchIsWhatWasHanded
  ServedIsInstalled
\* Nobody can do anything with a plugin that is refused.
CHECK_DEADLOCK FALSE
