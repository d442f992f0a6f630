SPECIFICATION Spec
CONSTANTS
  Operations = {"greet"}
  Secret = "secret"
  MaxBodyBytes = 2
  NoLength = nolength
  Server = server
  NoOne = nobody
  NoRequest = norequest
  AcceptFailure = acceptfailure
  Stoppers = {}
  HandlerStops = FALSE
  Requests <- AllRequests
  MaxSent = 2
INVARIANTS AnswersFollowContract UnvouchedLearnNothing
