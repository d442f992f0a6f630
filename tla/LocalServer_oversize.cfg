SPECIFICATION Spec
CONSTANTS
  Operations = {"greet"}
  Secret = "secret"
  MaxBodyBytes = 2
  NoLength = nolength
  Server = server
  NoOne = nobody
  NoRequest = norequest
  AcceptFailure = acceptfailure
  Stoppers = {}
  HandlerStops = FALSE
  Requests <- BodyRequests
  MaxSent = 1
INVARIANT OversizeRefused
