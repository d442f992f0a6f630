\* A declared operation whose name a URL carries percent-encoded.
SPECIFICATION Spec
CONSTANTS
  Absent = Absent
  NoLength = NoLength
  MaxBodyBytes = 2
  PlainNames = {"main.model", "summarize", "nowhere"}
  Null = Null
  Packages <- SomePackages
  Handed <- SomeHanded
INVARIANT
  UnknownMeansUndeclared
\* Nobody can do anything with a plugin that is refused.
CHECK_DEADLOCK FALSE
