--------------------------- MODULE ServerPromise ---------------------------
(***************************************************************************)
(* What a local server promises to the plugin that started it, whatever    *)
(* its thread, mutex and queue do: the doc comments of `stop` and          *)
(* `OperationHandler` in crates/aurify-plugin-core/src/local_server.rs.    *)
(*                                                                         *)
(* Operations run one at a time.  Once a stop was asked for, at most one   *)
(* more begins; a stop returns only when the server is down, and a server  *)
(* that is down runs nothing, ever again.  It may go down unasked, also in *)
(* the middle of an operation, whose handler then never returns.           *)
(***************************************************************************)
CONSTANT Users    \* the threads that stop the server

VARIABLES
  phase,     \* "serving", "stopping" once a stop was asked for, "down"
  running,   \* an operation is running
  spare,     \* the operation a stop cannot prevent has not begun yet
  returned   \* the users whose last call of stop has returned

vars == <<phase, running, spare, returned>>

Init ==
  /\ phase = "serving"
  /\ running = FALSE
  /\ spare = TRUE
  /\ returned = {}

Begin ==
  /\ ~running
  /\ \/ phase = "serving" /\ spare' = spare
     \/ phase = "stopping" /\ spare /\ spare' = FALSE
  /\ running' = TRUE
  /\ UNCHANGED <<phase, returned>>

End ==
  /\ running
  /\ running' = FALSE
  /\ UNCHANGED <<phase, spare, returned>>

AskStop(u) ==
  /\ phase' = IF phase = "serving" THEN "stopping" ELSE phase
  /\ returned' = returned \ {u}
  /\ UNCHANGED <<running, spare>>

\* The server goes down: it was asked to, or it can no longer serve.
GoDown ==
  /\ phase # "down"
  /\ phase' = "down"
  /\ running' = FALSE
  /\ UNCHANGED <<spare, returned>>

Return(u) ==
  /\ phase = "down"
  /\ u \notin returned
  /\ returned' = returned \cup {u}
  /\ UNCHANGED <<phase, running, spare>>

Next ==
  \/ Begin
  \/ End
  \/ GoDown
  \/ \E u \in Users : AskStop(u) \/ Return(u)

Spec == Init /\ [][Next]_vars
=============================================================================
