------------------------ MODULE PlatformClientProofs ------------------------
(***************************************************************************)
(* Theorems about PlatformClient, for any number of callers, any word size *)
(* and any chunk limit below it.                                           *)
(***************************************************************************)
EXTENDS PlatformClient, Integers, TLAPS

(***************************************************************************)
(* The inductive invariant, in named parts.                                *)
(***************************************************************************)

\* A reply is there from the moment the platform answered.
RepliesAreFresh == \A c \in Callers : pc[c] \in {"idle", "sent"} => reply[c] = NoReply

\* Tokens are minted once, and the slot has held no token that is still to
\* be read out of a response, or that came with no accepted response.
TokensAreMintedOnce ==
  /\ \A token \in held : token <= minted
  /\ \A c \in Callers : reply[c].renewed <= minted
  /\ \A c, d \in Callers :
       reply[c].renewed # NoToken /\ reply[c].renewed = reply[d].renewed => c = d
  /\ \A c \in Callers :
       pc[c] = "answered" \/ reply[c].status # "accepted" => reply[c].renewed \notin held

\* An accepted response whose body is being read, or was, is in the slot's past.
RenewedIsHeld ==
  \A c \in Callers :
    pc[c] \in {"reading", "done"} /\ reply[c].status = "accepted" /\ reply[c].renewed # NoToken
      => reply[c].renewed \in held

IInv ==
  /\ TypeOK
  /\ slot \in held
  /\ RepliesAreFresh
  /\ TokensAreMintedOnce
  /\ RenewedIsHeld
  /\ RangeIsExact
  /\ ChunkFits

-----------------------------------------------------------------------------
(* Arithmetic modulo the word. *)

\* Adding the word and reducing gives the number back.
LEMMA ModuloWord ==
  ASSUME NEW w \in Nat \ {0}, NEW x \in 0..(w - 1)
  PROVE  (x + w) % w = x
<1> DEFINE q == (x + w) \div w
<1>1. (x + w) % w \in 0..(w - 1)
  BY Z3
<1>2. x + w = (w * q) + ((x + w) % w)
  BY Z3
<1>3. q \in Int
  BY Z3
<1> HIDE DEF q
<1>4. q = 1
  <2>1. CASE q <= 0
    <3>1. w * q <= 0
      BY <2>1, <1>3, Z3
    <3> QED
      BY <3>1, <1>1, <1>2, <1>3
  <2>2. CASE q >= 2
    <3>1. w * q >= 2 * w
      BY <2>2, <1>3, Z3
    <3> QED
      BY <3>1, <1>1, <1>2, <1>3
  <2> QED
    BY <2>1, <2>2, <1>3
<1> QED
  BY <1>2, <1>4

\* A range that passes the check of read_file_chunk ends where it should.
LEMMA LastByte ==
  ASSUME NEW offset \in Offsets, NEW length \in Lengths, AcceptedRange(offset, length)
  PROVE  /\ ChunkCall(offset, length).kind = "chunk"
         /\ ChunkCall(offset, length).length = length
         /\ ChunkCall(offset, length).first = offset
         /\ ChunkCall(offset, length).last = offset + length - 1
         /\ offset \in Nat /\ length \in Nat \ {0} /\ length <= MaxChunk
<1>1. offset \in Nat /\ length \in Nat \ {0} /\ Word \in Nat \ {0} /\ length <= MaxChunk
  BY PlatformClientAssumption DEF AcceptedRange
<1> DEFINE x == offset + length - 1
<1>2. x \in 0..(Word - 1)
  BY <1>1 DEF AcceptedRange
<1>3. offset + length + Word - 1 = x + Word
  BY <1>1
<1>4. (x + Word) % Word = x
  BY <1>1, <1>2, ModuloWord
<1> QED
  BY <1>1, <1>3, <1>4 DEF ChunkCall

-----------------------------------------------------------------------------
LEMMA InitInvariant == Init => IInv
  BY PlatformClientAssumption
  DEF Init, IInv, TypeOK, Tokens, LaunchToken, NoToken, NoReply, Replies, JsonCall,
      RepliesAreFresh, TokensAreMintedOnce, RenewedIsHeld, RangeIsExact, ChunkFits

\* Sending a request touches nobody's reply but the sender's.
LEMMA SendInvariant ==
  ASSUME NEW c \in Callers, IInv,
         NEW what \in {JsonCall} \cup {ChunkCall(o, l) : o \in Offsets, l \in Lengths},
         Send(c, what),
         what.kind = "chunk" =>
           what.first <= what.last /\ what.last - what.first + 1 = what.length /\ what.length <= MaxChunk
  PROVE  IInv'
<1> USE DEF Send, clientVars
<1>1. TypeOK'
  BY DEF IInv, TypeOK, NoReply, Replies, NoToken
<1>2. RepliesAreFresh' /\ TokensAreMintedOnce' /\ RenewedIsHeld' /\ slot' \in held'
  BY DEF IInv, TypeOK, NoReply, NoToken, Tokens, RepliesAreFresh, TokensAreMintedOnce, RenewedIsHeld
<1>3. RangeIsExact'
  BY DEF IInv, TypeOK, RangeIsExact
<1>4. ChunkFits'
  BY DEF IInv, TypeOK, ChunkFits
<1> QED
  BY <1>1, <1>2, <1>3, <1>4 DEF IInv

\* A call that returns without a chunk and without touching the slot.
LEMMA ReturnInvariant ==
  ASSUME NEW c \in Callers, IInv,
         NEW how \in {"Value", "Null", "InvalidJson", "Transport", "Rejected", "InvalidRequest"},
         Return(c, how),
         pc[c] \in {"idle", "done", "reading"} \/ (pc[c] = "answered" /\ reply[c].status # "accepted"),
         UNCHANGED <<clientVars, request, used, reply, bytes, minted>>
  PROVE  IInv'
<1> USE DEF Return, clientVars
<1>1. TypeOK'
  BY DEF IInv, TypeOK
<1>2. RepliesAreFresh' /\ TokensAreMintedOnce' /\ slot' \in held'
  BY DEF IInv, TypeOK, RepliesAreFresh, TokensAreMintedOnce
<1>3. RenewedIsHeld'
  BY DEF IInv, TypeOK, RepliesAreFresh, RenewedIsHeld, NoReply
<1>4. RangeIsExact' /\ ChunkFits'
  BY DEF IInv, TypeOK, RangeIsExact, ChunkFits
<1> QED
  BY <1>1, <1>2, <1>3, <1>4 DEF IInv

LEMMA RenewInvariant ==
  ASSUME NEW c \in Callers, IInv, Renew(c)
  PROVE  IInv'
<1> USE DEF Renew, clientVars
<1>0. reply[c].renewed \in Tokens \cup {NoToken} /\ reply[c].status = "accepted" /\ pc[c] = "answered"
  BY DEF IInv, TypeOK, Replies
<1>1. TypeOK'
  <2>1. slot' \in Tokens /\ held' \subseteq Tokens
    BY <1>0 DEF IInv, TypeOK
  <2> QED
    BY <2>1 DEF IInv, TypeOK
<1>2. RepliesAreFresh' /\ slot' \in held'
  BY DEF IInv, TypeOK, RepliesAreFresh
<1>3. TokensAreMintedOnce'
  <2>1. held' \subseteq held \cup ({reply[c].renewed} \ {NoToken})
    OBVIOUS
  <2>2. \A token \in held' : token <= minted'
    BY <2>1 DEF IInv, TokensAreMintedOnce
  <2>3. \A d \in Callers : reply[d].renewed <= minted /\ reply' = reply /\ minted' = minted
    BY DEF IInv, TokensAreMintedOnce
  <2>4. ASSUME NEW d \in Callers, pc'[d] = "answered" \/ reply'[d].status # "accepted"
        PROVE  reply'[d].renewed \notin held'
    <3>1. d # c /\ (pc[d] = "answered" \/ reply[d].status # "accepted")
      BY <1>0, <2>4 DEF IInv, TypeOK
    <3>2. reply[d].renewed \notin held
      BY <3>1 DEF IInv, TokensAreMintedOnce
    <3>3. reply[d].renewed \notin {reply[c].renewed} \ {NoToken}
      BY <3>1 DEF IInv, TokensAreMintedOnce
    <3> QED
      BY <3>2, <3>3, <2>1
  <2> QED
    BY <2>2, <2>3, <2>4 DEF IInv, TokensAreMintedOnce
<1>4. RenewedIsHeld'
  BY DEF IInv, TypeOK, RenewedIsHeld
<1>5. RangeIsExact' /\ ChunkFits'
  BY DEF IInv, TypeOK, RangeIsExact, ChunkFits
<1> QED
  BY <1>1, <1>2, <1>3, <1>4, <1>5 DEF IInv

\* A chunk is returned only if it is not longer than what was asked for.
LEMMA ReadBytesInvariant ==
  ASSUME NEW c \in Callers, NEW size \in 0..(MaxChunk + 2), IInv, ReadBytes(c, size)
  PROVE  IInv'
<1> DEFINE limit == (request[c].length + 1) % Word
           read == IF size < limit THEN size ELSE limit
<1>1. request[c].kind = "chunk" /\ request[c].length \in Nat /\ pc[c] = "reading"
  BY PlatformClientAssumption DEF IInv, TypeOK, ReadBytes, JsonCall, ChunkCall
<1>2. limit \in Nat
  BY <1>1, PlatformClientAssumption, Z3
<1>3. read \in Nat
  BY <1>2, PlatformClientAssumption
<1>4. CASE read > request[c].length
  <2>1. Return(c, "Transport") /\ UNCHANGED <<clientVars, request, used, reply, bytes, minted>>
    <3> HIDE DEF read
    <3> QED
      BY <1>1, <1>3, <1>4 DEF ReadBytes, read
  <2> QED
    BY <1>1, <2>1, ReturnInvariant
<1>5. CASE read <= request[c].length
  <2> HIDE DEF read
  <2>1. Return(c, "Chunk") /\ bytes' = [bytes EXCEPT ![c] = read]
        /\ UNCHANGED <<clientVars, request, used, reply, minted>>
    BY <1>1, <1>3, <1>5 DEF ReadBytes, read
  <2> USE DEF Return, clientVars
  <2>2. TypeOK'
    BY <2>1, <1>3 DEF IInv, TypeOK
  <2>3. RepliesAreFresh' /\ TokensAreMintedOnce' /\ RenewedIsHeld' /\ slot' \in held'
    BY <2>1, <1>1 DEF IInv, TypeOK, RepliesAreFresh, TokensAreMintedOnce, RenewedIsHeld
  <2>4. RangeIsExact' /\ ChunkFits'
    BY <2>1, <1>1, <1>3, <1>5 DEF IInv, TypeOK, RangeIsExact, ChunkFits
  <2> QED
    BY <2>2, <2>3, <2>4 DEF IInv
<1> QED
  BY <1>1, <1>3, <1>4, <1>5

\* The platform's tokens are new when they are minted.
LEMMA PlatformInvariant ==
  ASSUME NEW c \in Callers, IInv, PlatformAnswers(c)
  PROVE  IInv'
<1> USE DEF PlatformAnswers, clientVars
<1>1. TypeOK'
  BY PlatformClientAssumption DEF IInv, TypeOK, Replies, Tokens, NoToken
<1>2. RepliesAreFresh' /\ RenewedIsHeld' /\ slot' \in held'
  BY DEF IInv, TypeOK, RepliesAreFresh, RenewedIsHeld
<1>3. TokensAreMintedOnce'
  <2>1. reply[c].renewed = NoToken /\ pc[c] = "sent"
    BY DEF IInv, RepliesAreFresh, NoReply
  <2>2. PICK status \in {"accepted", "rejected", "lost"}, token \in {NoToken, minted'} :
          /\ reply' = [reply EXCEPT ![c] = [status |-> status, renewed |-> token]]
          /\ \/ token = NoToken /\ minted' = minted
             \/ token = minted + 1 /\ minted' = minted + 1
    OBVIOUS
  <2>3. minted \in Nat /\ minted' \in Nat /\ held' = held /\ held \subseteq Nat /\ minted <= minted'
    BY <2>2 DEF IInv, TypeOK, Tokens
  <2>4. /\ reply'[c].renewed = token
        /\ \A d \in Callers \ {c} : reply'[d] = reply[d] /\ reply[d].renewed \in Nat
                                   /\ reply[d].renewed <= minted /\ pc'[d] = pc[d]
    BY <2>2, <2>3 DEF IInv, TypeOK, Replies, Tokens, NoToken, TokensAreMintedOnce
  <2>5. token \notin held /\ NoToken \notin held
    BY <2>2, <2>3 DEF IInv, TypeOK, Tokens, NoToken, TokensAreMintedOnce
  <2>6. \A x \in held' : x <= minted'
    BY <2>3 DEF IInv, TokensAreMintedOnce
  <2>7. \A d \in Callers : reply'[d].renewed <= minted'
    BY <2>2, <2>3, <2>4 DEF NoToken
  <2>8. \A d, e \in Callers :
          reply'[d].renewed # NoToken /\ reply'[d].renewed = reply'[e].renewed => d = e
    BY <2>2, <2>3, <2>4 DEF IInv, NoToken, TokensAreMintedOnce
  <2>9. \A d \in Callers :
          pc'[d] = "answered" \/ reply'[d].status # "accepted" => reply'[d].renewed \notin held'
    BY <2>3, <2>4, <2>5 DEF IInv, TokensAreMintedOnce
  <2> QED
    BY <2>6, <2>7, <2>8, <2>9 DEF TokensAreMintedOnce
<1>4. RangeIsExact' /\ ChunkFits'
  BY DEF IInv, TypeOK, RangeIsExact, ChunkFits
<1> QED
  BY <1>1, <1>2, <1>3, <1>4 DEF IInv

LEMMA NextInvariant == IInv /\ [Next]_vars => IInv'
<1> SUFFICES ASSUME IInv, [Next]_vars PROVE IInv'
  OBVIOUS
<1>1. ASSUME NEW c \in Callers, Call(c) PROVE IInv'
  BY <1>1, SendInvariant DEF Call, JsonCall
<1>2. ASSUME NEW c \in Callers, ReadFileChunk(c) PROVE IInv'
  <2> PICK offset \in Offsets, length \in Lengths :
         \/ AcceptedRange(offset, length) /\ Send(c, ChunkCall(offset, length))
         \/ /\ ~AcceptedRange(offset, length)
            /\ pc[c] \in {"idle", "done"}
            /\ Return(c, "InvalidRequest")
            /\ UNCHANGED <<clientVars, request, used, reply, bytes, minted>>
    BY <1>2 DEF ReadFileChunk
  <2>1. CASE AcceptedRange(offset, length) /\ Send(c, ChunkCall(offset, length))
    <3> DEFINE what == ChunkCall(offset, length)
    <3>1. /\ what.first <= what.last
          /\ what.last - what.first + 1 = what.length
          /\ what.length <= MaxChunk
      BY <2>1, LastByte
    <3>2. what \in {JsonCall} \cup {ChunkCall(o, l) : o \in Offsets, l \in Lengths}
      OBVIOUS
    <3> HIDE DEF what
    <3>3. Send(c, what)
      BY <2>1 DEF what
    <3> QED
      BY <3>1, <3>2, <3>3, SendInvariant
  <2>2. CASE ~AcceptedRange(offset, length)
    <3>1. /\ pc[c] \in {"idle", "done", "reading"}
          /\ Return(c, "InvalidRequest")
          /\ UNCHANGED <<clientVars, request, used, reply, bytes, minted>>
      BY <2>2
    <3> QED
      BY <3>1, ReturnInvariant
  <2> QED
    BY <2>1, <2>2
<1>3. ASSUME NEW c \in Callers, NoResponse(c) \/ Rejected(c) \/ ReadText(c) \/ BrokenBytes(c) PROVE IInv'
  <2>1. PICK how \in {"Value", "Null", "InvalidJson", "Transport", "Rejected"} : Return(c, how)
    BY <1>3 DEF NoResponse, Rejected, ReadText, BrokenBytes
  <2>2. /\ pc[c] \in {"idle", "done", "reading"} \/ (pc[c] = "answered" /\ reply[c].status # "accepted")
        /\ UNCHANGED <<clientVars, request, used, reply, bytes, minted>>
    BY <1>3 DEF NoResponse, Rejected, ReadText, BrokenBytes
  <2> QED
    BY <2>1, <2>2, ReturnInvariant
<1>4. CASE UNCHANGED vars
  BY <1>4 DEF vars, clientVars, IInv, TypeOK, RepliesAreFresh, TokensAreMintedOnce, RenewedIsHeld,
     RangeIsExact, ChunkFits
<1> QED
  BY <1>1, <1>2, <1>3, <1>4, RenewInvariant, ReadBytesInvariant, PlatformInvariant DEF Next, CallerStep

\* IInv holds in every reachable state.
THEOREM Invariance == Spec => []IInv
  BY InitInvariant, NextInvariant, PTL DEF Spec

\* Every variable of the platform client keeps its type.
THEOREM TypeCorrect == Spec => []TypeOK
<1>1. IInv => TypeOK
  BY DEF IInv
<1> QED
  BY <1>1, Invariance, PTL

\* A renewal that came with an accepted response has been in the slot by the
\* time the call is over, however the call ends and whoever else calls.
THEOREM RenewalsAreNotLost == Spec => []RenewalOutlivesTheBody
<1>1. IInv => RenewalOutlivesTheBody
  BY DEF IInv, RenewedIsHeld, RenewalOutlivesTheBody
<1> QED
  BY <1>1, Invariance, PTL

\* Tokens of rejected and lost responses never get into the slot.
THEOREM OnlyAcceptedTokensAreHeld == Spec => []RejectionKeepsTheSlot
<1>1. IInv => RejectionKeepsTheSlot
  BY DEF IInv, TokensAreMintedOnce, RejectionKeepsTheSlot
<1> QED
  BY <1>1, Invariance, PTL

\* The range header asks for exactly the bytes wanted, for every offset and
\* length of the word, whatever the word size.
THEOREM RangesAreExact == Spec => []RangeIsExact
<1>1. IInv => RangeIsExact
  BY DEF IInv
<1> QED
  BY <1>1, Invariance, PTL

\* A chunk is never longer than what was asked for.
THEOREM ChunksFit == Spec => []ChunkFits
<1>1. IInv => ChunkFits
  BY DEF IInv
<1> QED
  BY <1>1, Invariance, PTL

-----------------------------------------------------------------------------
(* One caller at a time. *)

\* What the single caller is about to put into the slot is newer than it.
RenewalIsNewer ==
  \A c \in Callers : pc[c] = "answered" /\ reply[c].renewed # NoToken => slot < reply[c].renewed

LEMMA SingleCallerStep ==
  ASSUME \A c, d \in Callers : c = d, IInv, RenewalIsNewer, [Next]_vars
  PROVE  RenewalIsNewer' /\ slot <= slot'
<1> USE DEF clientVars
<1>1. slot \in Nat /\ slot <= minted /\ minted \in Nat
  BY DEF IInv, TypeOK, Tokens, TokensAreMintedOnce
<1>2. ASSUME NEW c \in Callers, Renew(c) PROVE RenewalIsNewer' /\ slot <= slot'
  BY <1>1, <1>2 DEF Renew, IInv, TypeOK, Replies, Tokens, NoToken, RenewalIsNewer
<1>3. ASSUME NEW c \in Callers, PlatformAnswers(c) PROVE RenewalIsNewer' /\ slot <= slot'
  BY <1>1, <1>3 DEF PlatformAnswers, IInv, TypeOK, NoToken, RenewalIsNewer
<1>4. ASSUME NEW c \in Callers, CallerStep(c), ~Renew(c) PROVE RenewalIsNewer' /\ slot <= slot'
  <2>1. UNCHANGED slot /\ pc' \in [Callers -> {"sent", "done"}]
    BY <1>4 DEF CallerStep, Call, ReadFileChunk, Send, Return, NoResponse, Rejected, ReadText,
       ReadBytes, BrokenBytes, IInv, TypeOK
  <2> QED
    BY <1>1, <2>1 DEF RenewalIsNewer
<1>5. CASE UNCHANGED vars
  BY <1>1, <1>5 DEF vars, RenewalIsNewer
<1> QED
  BY <1>2, <1>3, <1>4, <1>5 DEF Next

\* With one caller the slot never goes back to an older token; with two it
\* can, which is what the run of SlotNeverGoesBack with two callers shows.
THEOREM SingleCallerKeepsTheNewest ==
  ASSUME \A c, d \in Callers : c = d
  PROVE  Spec => SlotNeverGoesBack
<1>1. Init => RenewalIsNewer
  BY DEF Init, RenewalIsNewer
<1>2. IInv /\ RenewalIsNewer /\ [Next]_vars => RenewalIsNewer' /\ [slot <= slot']_slot
  BY SingleCallerStep
<1> QED
  BY <1>1, <1>2, Invariance, PTL DEF Spec, SlotNeverGoesBack

-----------------------------------------------------------------------------
(* Calls that overlap. *)

\* The token a call was sent with is older than the one its response brings.
UsedIsOlder ==
  \A c \in Callers :
    /\ used[c] <= minted
    /\ reply[c].renewed # NoToken => used[c] < reply[c].renewed

LEMMA UsedIsOlderStep == IInv /\ UsedIsOlder /\ [Next]_vars => UsedIsOlder'
<1> SUFFICES ASSUME IInv, UsedIsOlder, [Next]_vars PROVE UsedIsOlder'
  OBVIOUS
<1>1. slot \in Nat /\ slot <= minted /\ minted \in Nat
  BY DEF IInv, TypeOK, Tokens, TokensAreMintedOnce
<1>2. ASSUME NEW c \in Callers, NEW what, Send(c, what) PROVE UsedIsOlder'
  BY <1>1, <1>2 DEF Send, IInv, TypeOK, NoReply, UsedIsOlder
<1>3. ASSUME NEW c \in Callers, PlatformAnswers(c) PROVE UsedIsOlder'
  <2>1. PICK token \in {NoToken, minted'} :
          /\ \A d \in Callers : reply'[d].renewed = IF d = c THEN token ELSE reply[d].renewed
          /\ \/ token = NoToken /\ minted' = minted
             \/ token = minted + 1 /\ minted' = minted + 1
          /\ used' = used
    BY <1>3 DEF PlatformAnswers, IInv, TypeOK
  <2>2. \A d \in Callers : used[d] \in Nat
    BY DEF IInv, TypeOK, Tokens, NoToken
  <2> QED
    BY <1>1, <2>1, <2>2 DEF UsedIsOlder, NoToken
<1>4. ASSUME UNCHANGED <<used, reply, minted>> PROVE UsedIsOlder'
  BY <1>4 DEF UsedIsOlder
<1>5. ASSUME NEW c \in Callers, CallerStep(c) PROVE UsedIsOlder'
  <2>1. (\E what : Send(c, what)) \/ UNCHANGED <<used, reply, minted>>
    BY <1>5 DEF CallerStep, Call, ReadFileChunk, NoResponse, Rejected, Renew, ReadText, ReadBytes,
       BrokenBytes
  <2> QED
    BY <1>2, <1>4, <2>1
<1> QED
  BY <1>3, <1>4, <1>5 DEF Next, vars

\* The slot only ever goes back to the renewal of a call that was overtaken,
\* for any number of callers: what SingleCallerKeepsTheNewest needs of the
\* callers is only that their calls do not overlap.
THEOREM OnlyOverlapLosesTheNewest == Spec => OnlyOvertakenCallsGoBack
<1> DEFINE Overtaken ==
       \E c \in Callers :
         /\ pc[c] = "answered" /\ reply[c].status = "accepted"
         /\ reply[c].renewed = slot'
         /\ used[c] # slot
<1>1. Init => UsedIsOlder
  <2> SUFFICES ASSUME Init, NEW c \in Callers
               PROVE  used[c] <= minted /\ reply[c].renewed = NoToken
    BY DEF UsedIsOlder
  <2>1. used[c] = 0 /\ minted = 1
    BY DEF Init, NoToken, LaunchToken
  <2>2. reply[c].renewed = NoToken
    BY DEF Init, NoReply
  <2> QED
    BY <2>1, <2>2
<1>2. IInv /\ UsedIsOlder /\ [Next]_vars => [slot' < slot => Overtaken]_slot
  <2> SUFFICES ASSUME IInv, UsedIsOlder, [Next]_vars, slot' # slot, slot' < slot PROVE Overtaken
    OBVIOUS
  <2>1. PICK c \in Callers : Renew(c)
    BY DEF Next, vars, CallerStep, Call, ReadFileChunk, Send, NoResponse, Rejected, ReadText,
       ReadBytes, BrokenBytes, PlatformAnswers, clientVars
  <2>2. /\ pc[c] = "answered" /\ reply[c].status = "accepted"
        /\ reply[c].renewed = slot' /\ slot' # NoToken
    BY <2>1 DEF Renew, clientVars
  <2>3. used[c] # slot
    <3>1. used[c] < slot'
      BY <2>2 DEF UsedIsOlder
    <3>2. used[c] \in Nat /\ slot \in Nat /\ slot' \in Nat
      BY <2>2 DEF IInv, TypeOK, Tokens, Replies, NoToken
    <3> QED
      BY <3>1, <3>2
  <2> QED
    BY <2>2, <2>3
<1> QED
  BY <1>1, <1>2, UsedIsOlderStep, Invariance, PTL DEF Spec, OnlyOvertakenCallsGoBack
=============================================================================
