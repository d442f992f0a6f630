SPECIFICATION DotnetFairSpec
CONSTANTS
  NoHost = nohost
  NoSlot = noslot
  Hosts = {h1, h2}
  Threads = {t1, t2}
  Slots = {s1, s2}
  CallbackStops = TRUE
INVARIANTS DotnetTypeOK CallbacksFindTheirHost HandlesAreOwn CallsReachTheirHost
PROPERTIES NoHandleLeaks
CHECK_DEADLOCK FALSE
