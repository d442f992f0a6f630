\* A thread of the plugin and a server thread, with as many addresses as they
\* can have strings at the same time.  The handler calls any function.
SPECIFICATION FairSpec
CONSTANTS
  Threads = {t}
  Servers = {s}
  Functions = {"platform"}
  HandlerFunctions = {"validate", "start", "health", "platform"}
  Addresses = {a1, a2, a3, a4, a5}
  NULL = NULL
INVARIANTS
  TypeOK
  FreedByItsAllocator
  PointersAreLive
  NothingLeaks
  ReasonsArrive
  HandlersAreHeard
PROPERTY
  EveryStringIsFreed
