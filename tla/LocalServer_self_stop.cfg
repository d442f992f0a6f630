SPECIFICATION Spec
CONSTANTS
  Operations = {"greet"}
  Secret = "secret"
  MaxBodyBytes = 2
  NoLength = nolength
  Server = server
  NoOne = nobody
  NoRequest = norequest
  AcceptFailure = acceptfailure
  Stoppers = {t1, t2}
  HandlerStops = TRUE
  Requests <- FewRequests
  MaxSent = 1
INVARIANT StopReturnsAfterExit
