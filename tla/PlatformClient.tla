--------------------------- MODULE PlatformClient ---------------------------
(***************************************************************************)
(* Calls from the plugin to the platform:                                  *)
(* crates/aurify-plugin-core/src/platform.rs.                              *)
(*                                                                         *)
(* The client keeps the person's token in a slot that any response the     *)
(* platform accepts may replace.  Several threads call through one client: *)
(* each copies the token out of the slot, sends its request, puts a        *)
(* renewed token into the slot when the headers of an accepted response    *)
(* are there, and only then reads the body.                                *)
(*                                                                         *)
(* Tokens are numbered in the order the platform mints them.  Byte offsets *)
(* and lengths are integers modulo Word (2^64 in the code).                *)
(***************************************************************************)
EXTENDS Naturals

CONSTANTS
  Callers,    \* threads calling the platform
  Offsets,    \* file offsets and
  Lengths,    \*   chunk lengths that callers ask for
  Word,       \* one more than the largest u64
  MaxChunk,   \* MAXIMUM_FILE_CHUNK_BYTES
  MaxTokens   \* bound on the tokens minted in a behaviour

ASSUME PlatformClientAssumption ==
  /\ Word \in Nat /\ MaxChunk \in Nat /\ MaxChunk + 1 < Word
  /\ Offsets \subseteq 0..(Word - 1)
  /\ Lengths \subseteq 0..(Word - 1)
  /\ MaxTokens \in Nat \ {0}

NoToken == 0
LaunchToken == 1
Tokens == 1..MaxTokens

\* A request: of `call`, or of `read_file_chunk` with its range header.
JsonCall == [kind |-> "call"]
ChunkCall(offset, length) ==
  [kind |-> "chunk", length |-> length,
   first |-> offset, last |-> (offset + length + Word - 1) % Word]

\* Mutated: the sum is not checked for overflow.
AcceptedRangeUnchecked(offset, length) == length # 0 /\ length <= MaxChunk

AcceptedRange(offset, length) ==
  /\ length # 0
  /\ length <= MaxChunk
  /\ offset + length < Word

VARIABLES
  slot,     \* the token slot
  pc,       \* pc[c]: "idle", "sent", "answered", "reading", "done"
  request,  \* request[c]: what c asked for
  used,     \* used[c]: the token it sent along
  reply,    \* reply[c]: how the exchange ended, and the token it brought
  result,   \* result[c]: what the call returned
  bytes,    \* bytes[c]: the number of bytes of the chunk it returned
  minted,   \* the platform: the last token it minted
  held      \* history: the tokens the slot has held

clientVars == <<slot, held>>
vars == <<slot, pc, request, used, reply, result, bytes, minted, held>>

NoReply == [status |-> "none", renewed |-> NoToken]

Init ==
  /\ slot = LaunchToken
  /\ pc = [c \in Callers |-> "idle"]
  /\ request = [c \in Callers |-> JsonCall]
  /\ used = [c \in Callers |-> NoToken]
  /\ reply = [c \in Callers |-> NoReply]
  /\ result = [c \in Callers |-> "none"]
  /\ bytes = [c \in Callers |-> 0]
  /\ minted = LaunchToken
  /\ held = {LaunchToken}

\* The call returns.
Return(c, how) ==
  /\ pc' = [pc EXCEPT ![c] = "done"]
  /\ result' = [result EXCEPT ![c] = how]

-----------------------------------------------------------------------------
(* The client. *)

\* Mutated: the token is taken out of the slot.
SendTaking(c, what) ==
  /\ pc[c] \in {"idle", "done"}
  /\ pc' = [pc EXCEPT ![c] = "sent"]
  /\ request' = [request EXCEPT ![c] = what]
  /\ used' = [used EXCEPT ![c] = slot]
  /\ slot' = NoToken
  /\ reply' = [reply EXCEPT ![c] = NoReply]
  /\ result' = [result EXCEPT ![c] = "none"]
  /\ bytes' = [bytes EXCEPT ![c] = 0]
  /\ UNCHANGED <<held, minted>>

\* The token is copied out of the slot and the request is on its way.
Send(c, what) ==
  /\ pc[c] \in {"idle", "done"}
  /\ pc' = [pc EXCEPT ![c] = "sent"]
  /\ request' = [request EXCEPT ![c] = what]
  /\ used' = [used EXCEPT ![c] = slot]
  /\ reply' = [reply EXCEPT ![c] = NoReply]
  /\ result' = [result EXCEPT ![c] = "none"]
  /\ bytes' = [bytes EXCEPT ![c] = 0]
  /\ UNCHANGED <<clientVars, minted>>

Call(c) == Send(c, JsonCall)

\* read_file_chunk checks its arguments before it sends anything.
ReadFileChunk(c) ==
  \E offset \in Offsets, length \in Lengths :
    \/ /\ AcceptedRange(offset, length)
       /\ Send(c, ChunkCall(offset, length))
    \/ /\ ~AcceptedRange(offset, length)
       /\ pc[c] \in {"idle", "done"}
       /\ Return(c, "InvalidRequest")
       /\ UNCHANGED <<clientVars, request, used, reply, bytes, minted>>

\* No response: the connection failed, or REQUEST_TIMEOUT ran out.
NoResponse(c) ==
  /\ pc[c] = "answered"
  /\ reply[c].status = "lost"
  /\ Return(c, "Transport")
  /\ UNCHANGED <<clientVars, request, used, reply, bytes, minted>>

\* Mutated: the token of a rejection is stored like any other.
RejectedRenews(c) ==
  /\ pc[c] = "answered"
  /\ reply[c].status = "rejected"
  /\ Return(c, "Rejected")
  /\ held' = held \cup ({reply[c].renewed} \ {NoToken})
  /\ slot' = IF reply[c].renewed = NoToken THEN slot ELSE reply[c].renewed
  /\ UNCHANGED <<request, used, reply, bytes, minted>>

\* Mutated: a call that is turned away puts the token it used back.
RejectedRestores(c) ==
  /\ pc[c] = "answered"
  /\ reply[c].status = "rejected"
  /\ Return(c, "Rejected")
  /\ slot' = used[c]
  /\ UNCHANGED <<held, request, used, reply, bytes, minted>>

\* A status of 400 or more: the body is passed on, the headers are not read.
Rejected(c) ==
  /\ pc[c] = "answered"
  /\ reply[c].status = "rejected"
  /\ Return(c, "Rejected")
  /\ UNCHANGED <<clientVars, request, used, reply, bytes, minted>>

\* Mutated: the slot is replaced only if it still holds the token sent.
RenewIfUnchanged(c) ==
  /\ pc[c] = "answered"
  /\ reply[c].status = "accepted"
  /\ pc' = [pc EXCEPT ![c] = "reading"]
  /\ IF reply[c].renewed = NoToken \/ slot # used[c]
     THEN UNCHANGED clientVars
     ELSE slot' = reply[c].renewed /\ held' = held \cup {reply[c].renewed}
  /\ UNCHANGED <<request, used, reply, result, bytes, minted>>

\* An accepted response: its renewed token replaces the one in the slot,
\* whichever that is by now, before the body is read.
Renew(c) ==
  /\ pc[c] = "answered"
  /\ reply[c].status = "accepted"
  /\ pc' = [pc EXCEPT ![c] = "reading"]
  /\ IF reply[c].renewed = NoToken
     THEN UNCHANGED clientVars
     ELSE /\ slot' = reply[c].renewed
          /\ held' = held \cup {reply[c].renewed}
  /\ UNCHANGED <<request, used, reply, result, bytes, minted>>

\* The body of a call: JSON, empty, no JSON, or cut off.
ReadText(c) ==
  /\ pc[c] = "reading"
  /\ request[c].kind = "call"
  /\ \E how \in {"Value", "Null", "InvalidJson", "Transport"} : Return(c, how)
  /\ UNCHANGED <<clientVars, request, used, reply, bytes, minted>>

\* Mutated: the chunk is whatever the platform sends.
ReadAllBytes(c, size) ==
  /\ pc[c] = "reading"
  /\ request[c].kind = "chunk"
  /\ Return(c, "Chunk")
  /\ bytes' = [bytes EXCEPT ![c] = size]
  /\ UNCHANGED <<clientVars, request, used, reply, minted>>

\* The body of a chunk of which the platform sends size bytes: one byte more
\* than was asked for is enough to tell that the platform sends too much.
ReadBytes(c, size) ==
  /\ pc[c] = "reading"
  /\ request[c].kind = "chunk"
  /\ LET limit == (request[c].length + 1) % Word
         read == IF size < limit THEN size ELSE limit
     IN  \/ read <= request[c].length /\ Return(c, "Chunk") /\ bytes' = [bytes EXCEPT ![c] = read]
         \/ read > request[c].length /\ Return(c, "Transport") /\ UNCHANGED bytes
  /\ UNCHANGED <<clientVars, request, used, reply, minted>>

BrokenBytes(c) ==
  /\ pc[c] = "reading"
  /\ request[c].kind = "chunk"
  /\ Return(c, "Transport")
  /\ UNCHANGED <<clientVars, request, used, reply, bytes, minted>>

-----------------------------------------------------------------------------
(* The platform and the network. *)

\* The platform handles the request, minting a token or not; its response
\* arrives, or is lost on the way.
PlatformAnswers(c) ==
  /\ pc[c] = "sent"
  /\ pc' = [pc EXCEPT ![c] = "answered"]
  /\ \E status \in {"accepted", "rejected", "lost"} :
       \/ /\ reply' = [reply EXCEPT ![c] = [status |-> status, renewed |-> NoToken]]
          /\ UNCHANGED minted
       \/ /\ minted < MaxTokens
          /\ minted' = minted + 1
          /\ reply' = [reply EXCEPT ![c] = [status |-> status, renewed |-> minted']]
  /\ UNCHANGED <<clientVars, request, used, result, bytes>>

-----------------------------------------------------------------------------
CallerStep(c) ==
  \/ Call(c)
  \/ ReadFileChunk(c)
  \/ NoResponse(c)
  \/ Rejected(c)
  \/ Renew(c)
  \/ ReadText(c)
  \/ \E size \in 0..(MaxChunk + 2) : ReadBytes(c, size)
  \/ BrokenBytes(c)

Next == \E c \in Callers : CallerStep(c) \/ PlatformAnswers(c)

Spec == Init /\ [][Next]_vars

-----------------------------------------------------------------------------
(* Properties. *)

Replies == [status : {"none", "accepted", "rejected", "lost"}, renewed : Tokens \cup {NoToken}]

\* Every variable holds a value of its type (PlatformClient and the locals of
\* its two methods).
TypeOK ==
  /\ slot \in Tokens
  /\ pc \in [Callers -> {"idle", "sent", "answered", "reading", "done"}]
  /\ request \in [Callers -> {JsonCall} \cup {ChunkCall(o, l) : o \in Offsets, l \in Lengths}]
  /\ used \in [Callers -> Tokens \cup {NoToken}]
  /\ reply \in [Callers -> Replies]
  /\ result \in [Callers -> {"none", "Value", "Null", "InvalidJson", "Transport",
                             "Rejected", "InvalidRequest", "Chunk"}]
  /\ bytes \in [Callers -> Nat]
  /\ minted \in Tokens
  /\ held \subseteq Tokens

\* A token that came with an accepted response reaches the slot even when the
\* call then fails on its body, and whatever other calls do meanwhile: a call
\* that is over has not lost the renewal it was given.
RenewalOutlivesTheBody ==
  \A c \in Callers :
    pc[c] = "done" /\ reply[c].status = "accepted" /\ reply[c].renewed # NoToken
      => reply[c].renewed \in held

\* A response that is rejected or lost leaves no token behind.
RejectionKeepsTheSlot ==
  \A c \in Callers : reply[c].status # "accepted" => reply[c].renewed \notin held

\* "the client keeps the current token in a slot the platform may replace":
\* the slot never goes back to a token older than one it already held.
SlotNeverGoesBack == [][slot <= slot']_slot

\* It goes back in one way only: to the renewal of a call that was overtaken,
\* whose token somebody replaced while it was on its way.  A call whose token
\* is still in the slot renews it with a newer one, so overlapping calls are
\* the whole danger, and a plugin whose calls do not overlap is out of it.
OnlyOvertakenCallsGoBack ==
  [][slot' < slot =>
       \E c \in Callers :
         /\ pc[c] = "answered" /\ reply[c].status = "accepted"
         /\ reply[c].renewed = slot'
         /\ used[c] # slot]_slot

\* The range header asks for exactly the bytes the caller asked for, at most
\* MAXIMUM_FILE_CHUNK_BYTES of them, and its end has not wrapped around.
RangeIsExact ==
  \A c \in Callers :
    request[c].kind = "chunk" =>
      /\ request[c].first <= request[c].last
      /\ request[c].last - request[c].first + 1 = request[c].length
      /\ request[c].length <= MaxChunk

\* A chunk that is returned is never longer than what was asked for, however
\* much the platform sends.
ChunkFits ==
  \A c \in Callers :
    result[c] = "Chunk" => request[c].kind = "chunk" /\ bytes[c] <= request[c].length
=============================================================================
