------------------------------ MODULE Protocol ------------------------------
(***************************************************************************)
(* What the local server decides about one request before any operation    *)
(* runs: `handle` of crates/aurify-plugin-core/src/local_server.rs.        *)
(*                                                                         *)
(* A request is a record                                                   *)
(*   method  : "GET", "POST" or "OTHER"                                    *)
(*   path    : the URL with its query cut off: "outside" the route prefix, *)
(*             "health", "manifest", "unrouted" (under the prefix, naming  *)
(*             no route) or, for the operations route, an operation name   *)
(*   secrets : the values of its X-Aurify-Plugin-Secret headers, in order  *)
(*   length  : its Content-Length, or NoLength when it is sent in chunks   *)
(*   body    : what its reader yields, a sequence of blocks.  The limit on *)
(*             the body is counted in blocks.                              *)
(***************************************************************************)
EXTENDS Naturals, Sequences

CONSTANTS
  Operations,    \* names of the operations the manifest declares
  Secret,        \* the secret of the launch context
  MaxBodyBytes,  \* MAX_BODY_BYTES, in blocks
  NoLength       \* stands for an absent Content-Length

ASSUME ProtocolAssumption ==
  /\ MaxBodyBytes \in Nat
  /\ NoLength \notin Nat
  /\ Operations \cap {"outside", "health", "manifest", "unrouted"} = {}

(***************************************************************************)
(* The kinds of block a body is made of.  "space" is white space; "object" *)
(* is a whole JSON object, whose args field is handed to the handler as it *)
(* is; "value" is a whole JSON value that is no object; "garbage" is not   *)
(* JSON; "binary" is not UTF-8.                                            *)
(***************************************************************************)
Blocks == {"space", "object", "value", "garbage", "binary"}

RequestType ==
  [method : {"GET", "POST", "OTHER"}, path : STRING, secrets : Seq(STRING),
   length : Nat \cup {NoLength}, body : Seq(Blocks)]

Refusal(status, code) == [status |-> status, code |-> code]

\* The first secret header decides, and a missing one matches nothing.
SecretMatches(req) == req.secrets # <<>> /\ Head(req.secrets) = Secret

IsOperationRoute(req) ==
  /\ req.method = "POST"
  /\ req.path \notin {"outside", "health", "manifest", "unrouted"}

\* At most MaxBodyBytes of the body are read, whatever its real length.
Raw(req) ==
  SubSeq(req.body, 1, IF Len(req.body) < MaxBodyBytes THEN Len(req.body) ELSE MaxBodyBytes)

Unreadable(req) == \E i \in DOMAIN Raw(req) : Raw(req)[i] = "binary"

\* Where the text is, when the white space around its values is gone.
Text(req) == {i \in DOMAIN Raw(req) : Raw(req)[i] # "space"}

BodyRefused(req) ==
  \/ req.length # NoLength /\ req.length > MaxBodyBytes
  \/ Unreadable(req)
  \/ \E i \in Text(req) : Raw(req)[i] # "object" \/ Text(req) # {i}

\* Mutated: the list of declared operations is not consulted.
RunsUndeclared(req) == SecretMatches(req) /\ IsOperationRoute(req) /\ ~BodyRefused(req)

\* The request passes every check of `handle` and its operation is run.
Runs(req) ==
  /\ SecretMatches(req)
  /\ IsOperationRoute(req)
  /\ req.path \in Operations
  /\ ~BodyRefused(req)

\* Mutated: a missing secret and a wrong one are told apart.
DirectAnswerTells(req, health) ==
  IF req.path = "outside" THEN Refusal(404, "NOT_FOUND")
  ELSE IF req.secrets = <<>> THEN Refusal(401, "SECRET_MISSING")
  ELSE IF ~SecretMatches(req) THEN Refusal(401, "SECRET_WRONG")
  ELSE Refusal(405, "METHOD_NOT_ALLOWED")

(***************************************************************************)
(* The answer to a request that runs no operation, in the order of the     *)
(* early returns of `handle`.  The health and manifest routes answer 200   *)
(* with a body: the health at that moment, the manifest.                   *)
(***************************************************************************)
DirectAnswer(req, health) ==
  IF req.path = "outside" THEN Refusal(404, "NOT_FOUND")
  ELSE IF ~SecretMatches(req) THEN Refusal(401, "SECRET_REQUIRED")
  ELSE IF req.method = "GET" /\ req.path = "health" THEN [status |-> 200, code |-> health]
  ELSE IF req.method = "GET" /\ req.path = "manifest" THEN [status |-> 200, code |-> "manifest"]
  ELSE IF ~IsOperationRoute(req) THEN Refusal(405, "METHOD_NOT_ALLOWED")
  ELSE IF req.path \notin Operations THEN Refusal(404, "OPERATION_UNKNOWN")
  ELSE IF req.length # NoLength /\ req.length > MaxBodyBytes THEN Refusal(413, "BODY_TOO_LARGE")
  ELSE IF Unreadable(req) THEN Refusal(400, "BODY_UNREADABLE")
  ELSE Refusal(400, "BODY_INVALID")

Replies ==
  [status : {200},
   code : {"starting", "ready", "failed", "manifest", "result"}]
  \cup
  [status : {400, 401, 404, 405, 413, 422, 500},
   code : {"NOT_FOUND", "SECRET_REQUIRED", "METHOD_NOT_ALLOWED", "OPERATION_UNKNOWN",
           "BODY_TOO_LARGE", "BODY_UNREADABLE", "BODY_INVALID", "error", "DROPPED"}]

\* Mutated: an operation's error is sent with the status of a success.
OperationAnswer200(ok) == [status |-> 200, code |-> IF ok THEN "result" ELSE "error"]

\* The answer once the operation handler returned: Ok or Err.
OperationAnswer(ok) ==
  IF ok THEN [status |-> 200, code |-> "result"] ELSE [status |-> 422, code |-> "error"]
=============================================================================
