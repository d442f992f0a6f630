SPECIFICATION FairSpec
CONSTANTS
  NoHost = nohost
  Hosts = {h1, h2}
  Threads = {t1, t2, t3}
  CallbackStops = TRUE
INVARIANTS TypeOK NoUseAfterFree DropNeverWaits KeysNameOneHost
PROPERTIES KeepsHostPromise EveryStopReturns EveryStoppedHostIsFreed
CHECK_DEADLOCK FALSE
