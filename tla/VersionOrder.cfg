\* Every pair of versions, and every update of the client.
SPECIFICATION Spec
CONSTANTS
  Word = 16
  Versions <- SomeVersions
INVARIANTS
  FollowsSemver
  OrderIsTotal
PROPERTY
  UpdatesKeepPlugins
\* A client with an unsound version is never updated.
CHECK_DEADLOCK FALSE
