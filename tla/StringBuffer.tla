---------------------------- MODULE StringBuffer ----------------------------
(***************************************************************************)
(* The growing string buffer (kmblack/stringbuffer.c), used for every      *)
(* message, file and datagram: how it grows, what it refuses, how it       *)
(* breaks.  Contents are abstracted to their length and to the place of    *)
(* the terminating zero byte.  One step is one pass of a loop or one call  *)
(* of malloc, realloc or vsnprintf.                                        *)
(***************************************************************************)
EXTENDS Integers

CONSTANTS
  IntMax,    \* INT_MAX
  Initial,   \* INITIAL_EXPBUFFER_SIZE
  Headroom,  \* 16: with less room than that vsnprintf is not tried
  Guess,     \* 32: what is asked for instead
  Lengths,   \* bound: lengths of what callers append
  Faults,    \* "malloc" (and realloc), "format" (vsnprintf)
  NoCall

ASSUME SizeAssumption ==
  /\ {IntMax, Initial, Headroom, Guess} \subseteq Nat
  /\ 0 < Initial /\ Initial <= IntMax
  /\ Lengths \subseteq Nat
  /\ NoCall \notin [kind : {"append", "format", "enlarge"}, n : Lengths]

VARIABLES
  data,      \* "null" (no buffer), "heap", or "oom" (the shared empty string)
  len,       \* str->len
  maxlen,    \* str->maxlen
  nul,       \* index of the last zero byte stored behind the text
  blocks,    \* data blocks malloc'ed and not freed
  pc,        \* where the call in progress is
  call,      \* its kind and the length of what it appends
  needed,    \* the local variables of enlargeStringBuffer
  newlen

vars == <<data, len, maxlen, nul, blocks, pc, call, needed, newlen>>
locals == <<needed, newlen>>

Call == [kind : {"append", "format", "enlarge"}, n : Lengths]

Init ==
  /\ data = "null"
  /\ len = 0 /\ maxlen = 0 /\ nul = 0
  /\ blocks = 0
  /\ pc = "idle"
  /\ call = NoCall
  /\ needed = 0 /\ newlen = 0

Broken == maxlen = 0       \* StringBufferBroken; true of NULL as well

-----------------------------------------------------------------------------
\* initStringBuffer
Initialise ==
  \/ /\ data' = "heap"
     /\ maxlen' = Initial
     /\ len' = 0 /\ nul' = 0
     /\ blocks' = blocks + 1
  \/ /\ "malloc" \in Faults
     /\ data' = "oom"
     /\ maxlen' = 0
     /\ len' = 0 /\ nul' = 0
     /\ UNCHANGED blocks

\* Mutant: the shared empty string is freed too.
Abandon_FreesAll(d) ==
  /\ blocks' = blocks - 1
  /\ data' = d
  /\ len' = 0 /\ maxlen' = 0 /\ nul' = 0

\* markStringBufferBroken and termStringBuffer
Abandon(d) ==
  /\ blocks' = IF data = "heap" THEN blocks - 1 ELSE blocks
  /\ data' = d
  /\ len' = 0 /\ maxlen' = 0 /\ nul' = 0

\* Mutant: only the length is cleared.
Empty_LengthOnly ==
  IF data = "heap"
  THEN len' = 0 /\ UNCHANGED <<data, maxlen, nul, blocks>>
  ELSE Initialise

\* resetStringBuffer
Empty ==
  IF data = "heap"
  THEN len' = 0 /\ nul' = 0 /\ UNCHANGED <<data, maxlen, blocks>>
  ELSE Initialise

Idle   == pc = "idle"
NoLocals == needed' = 0 /\ newlen' = 0
Return == pc' = "idle" /\ call' = NoCall /\ NoLocals
Stay   == UNCHANGED <<data, len, maxlen, nul, blocks>>

-----------------------------------------------------------------------------
(***************************************************************************)
(* Calls.                                                                  *)
(***************************************************************************)
createStringBuffer ==
  /\ Idle /\ data = "null"
  /\ Initialise
  /\ UNCHANGED <<pc, call, locals>>

destroyStringBuffer ==
  /\ Idle /\ data # "null"
  /\ Abandon("null")
  /\ UNCHANGED <<pc, call, locals>>

resetStringBuffer ==
  /\ Idle /\ data # "null"
  /\ Empty
  /\ UNCHANGED <<pc, call, locals>>

\* enlargeStringBuffer, and appendStringBufferBinary, to which
\* appendStringBufferStr and appendStringBufferChar come down.
Append ==
  /\ Idle
  /\ call' \in {c \in Call : c.kind # "format"}
  /\ needed' = call'.n
  /\ pc' = "enlarge"
  /\ Stay /\ UNCHANGED newlen

appendStringBuffer ==
  /\ Idle /\ ~Broken
  /\ call' \in {c \in Call : c.kind = "format" /\ c.n <= IntMax}
  /\ pc' = "format"
  /\ Stay /\ UNCHANGED locals

printfStringBuffer ==
  /\ Idle /\ data # "null"
  /\ Empty
  /\ IF maxlen' = 0
     THEN UNCHANGED <<pc, call>>
     ELSE /\ call' \in {c \in Call : c.kind = "format" /\ c.n <= IntMax}
          /\ pc' = "format"
  /\ UNCHANGED locals

-----------------------------------------------------------------------------
(***************************************************************************)
(* enlargeStringBuffer                                                     *)
(***************************************************************************)
EnlargeIgnored ==
  /\ pc = "enlarge" /\ Broken
  /\ Return
  /\ Stay

EnlargeRefused ==
  /\ pc = "enlarge" /\ ~Broken
  /\ needed >= IntMax - len
  /\ Abandon("oom")
  /\ Return

\* Where the caller goes on after a 1.
GoOn ==
  \/ call.kind = "append"  /\ pc' = "copy"   /\ UNCHANGED call /\ NoLocals
  \/ call.kind = "format"  /\ pc' = "format" /\ UNCHANGED call /\ NoLocals
  \/ call.kind = "enlarge" /\ Return

\* Mutant: no room is kept for the terminating zero byte.
Total_NoTerminator == needed + len

Total == needed + len + 1

EnlargeFits ==
  /\ pc = "enlarge" /\ ~Broken
  /\ needed < IntMax - len
  /\ Total <= maxlen
  /\ GoOn
  /\ Stay

\* Mutant: ridiculous demands are not guarded against.
EnlargeGrows_Unguarded ==
  /\ pc = "enlarge" /\ ~Broken
  /\ Total > maxlen
  /\ needed' = Total
  /\ newlen' = 2 * maxlen
  /\ pc' = "double"
  /\ Stay /\ UNCHANGED call

\* maxlen > 0 here, so the code's 64 for an empty buffer is never used.
EnlargeGrows ==
  /\ pc = "enlarge" /\ ~Broken
  /\ needed < IntMax - len
  /\ Total > maxlen
  /\ needed' = Total
  /\ newlen' = 2 * maxlen
  /\ pc' = "double"
  /\ Stay /\ UNCHANGED call

Double ==
  /\ pc = "double" /\ needed > newlen
  /\ newlen' = 2 * newlen
  /\ Stay /\ UNCHANGED <<pc, call, needed>>

\* Mutant: the size is not limited to INT_MAX.
Clamped_Not == newlen

Clamped == IF newlen > IntMax THEN IntMax ELSE newlen

Realloc ==
  /\ pc = "double" /\ needed <= newlen
  /\ maxlen' = Clamped
  /\ GoOn
  /\ UNCHANGED <<data, len, nul, blocks>>

\* Mutant: the old block, which realloc leaves alone, is not freed.
ReallocFails_Leaks ==
  /\ "malloc" \in Faults
  /\ pc = "double" /\ needed <= newlen
  /\ data' = "oom" /\ len' = 0 /\ maxlen' = 0 /\ nul' = 0
  /\ Return
  /\ UNCHANGED blocks

ReallocFails ==
  /\ "malloc" \in Faults
  /\ pc = "double" /\ needed <= newlen
  /\ Abandon("oom")
  /\ Return

\* The rest of appendStringBufferBinary.
Copy ==
  /\ pc = "copy"
  /\ len' = len + call.n
  /\ nul' = len'
  /\ Return
  /\ UNCHANGED <<data, maxlen, blocks>>

-----------------------------------------------------------------------------
(***************************************************************************)
(* appendStringBufferVA, in its callers' loop                              *)
(***************************************************************************)
Avail == maxlen - len

\* vsnprintf is given all the room there is.
Printed ==
  /\ pc = "format" /\ maxlen > len + Headroom
  /\ call.n < Avail
  /\ len' = len + call.n
  /\ nul' = len'
  /\ Return
  /\ UNCHANGED <<data, maxlen, blocks>>

\* Mutant: one byte is asked for, whatever vsnprintf said.
PrintTruncated_AsksOne ==
  /\ pc = "format" /\ maxlen > len + Headroom
  /\ call.n >= Avail /\ call.n < IntMax
  /\ nul' = maxlen - 1
  /\ needed' = 0
  /\ pc' = "enlarge"
  /\ UNCHANGED <<data, len, maxlen, blocks, call, newlen>>

\* Mutant: the truncated attempt stays in the text and is printed again.
PrintTruncated_KeepsPart ==
  /\ pc = "format" /\ maxlen > len + Headroom
  /\ call.n >= Avail /\ call.n < IntMax
  /\ len' = maxlen - 1
  /\ nul' = len'
  /\ needed' = call.n + 1
  /\ pc' = "enlarge"
  /\ UNCHANGED <<data, maxlen, blocks, call, newlen>>

PrintTruncated ==
  /\ pc = "format" /\ maxlen > len + Headroom
  /\ call.n >= Avail /\ call.n < IntMax
  /\ nul' = maxlen - 1
  /\ needed' = call.n + 1
  /\ pc' = "enlarge"
  /\ UNCHANGED <<data, len, maxlen, blocks, call, newlen>>

PrintRefused ==
  /\ pc = "format" /\ maxlen > len + Headroom
  /\ call.n >= Avail /\ call.n >= IntMax
  /\ Abandon("oom")
  /\ Return

PrintFails ==
  /\ "format" \in Faults
  /\ pc = "format" /\ maxlen > len + Headroom
  /\ Abandon("oom")
  /\ Return

\* Mutant: formatting is tried although there may be no room at all.
NoHeadroom_Ignored ==
  /\ pc = "format" /\ maxlen <= len + Headroom
  /\ len' = len + call.n
  /\ nul' = len'
  /\ Return
  /\ UNCHANGED <<data, maxlen, blocks>>

NoHeadroom ==
  /\ pc = "format" /\ maxlen <= len + Headroom
  /\ needed' = Guess
  /\ pc' = "enlarge"
  /\ Stay /\ UNCHANGED <<call, newlen>>

-----------------------------------------------------------------------------
Step ==
  \/ EnlargeIgnored \/ EnlargeRefused \/ EnlargeFits \/ EnlargeGrows
  \/ Double \/ Realloc \/ ReallocFails \/ Copy
  \/ Printed \/ PrintTruncated \/ PrintRefused \/ PrintFails \/ NoHeadroom

Next ==
  \/ createStringBuffer \/ destroyStringBuffer \/ resetStringBuffer
  \/ Append \/ appendStringBuffer \/ printfStringBuffer
  \/ Step

Spec     == Init /\ [][Next]_vars
FairSpec == Spec /\ WF_vars(Step)

-----------------------------------------------------------------------------
\* Every variable keeps its type.
TypeOK ==
  /\ data \in {"null", "heap", "oom"}
  /\ {len, maxlen, nul, blocks, needed, newlen} \subseteq Nat
  /\ pc \in {"idle", "enlarge", "double", "copy", "format"}
  /\ call \in Call \cup {NoCall}

\* "There is guaranteed to be a terminating '\0' at data[len]": between calls
\* the text is shorter than its buffer and terminated.
Terminated == Idle /\ data = "heap" => len < maxlen /\ nul = len

\* "We must always have maxlen > len", also within a call; the size fits an
\* int; what is not on the heap is empty.
SizeBounds ==
  /\ maxlen <= IntMax
  /\ IF data = "heap" THEN len < maxlen ELSE len = 0 /\ maxlen = 0

\* Exactly the buffers on the heap have a block: none leaks, none is freed
\* twice.
NoLeak == blocks = IF data = "heap" THEN 1 ELSE 0

\* What callers of stringbuffer.c rely on: a terminated text within a buffer of
\* the size it says, and one block for it.
Sound == Terminated /\ SizeBounds /\ NoLeak

\* The bytes a call is about to store, and the zero byte behind them, have
\* room.
NoOverrun == pc = "copy" => len + call.n < maxlen

\* "the above loop could overflow": no size ever exceeds twice INT_MAX, so
\* size_t arithmetic does not wrap, and the clamp leaves enough.
NoWrap ==
  pc = "double" =>
    /\ newlen <= 2 * IntMax
    /\ needed <= newlen => needed <= Clamped

\* What enlargeStringBuffer computes is enough for what is stored, and no
\* intermediate size wraps.
StoresFit == NoOverrun /\ NoWrap

\* Every call returns: neither the doubling nor the retries of vsnprintf go
\* on for ever.
CallsReturn == pc # "idle" ~> pc = "idle"

-----------------------------------------------------------------------------
BufferState == [null |-> "null", heap |-> "text", oom |-> "broken"][data]
FaultsOccur == Faults # {}

Text == INSTANCE TextBuffer WITH
  MayFail <- FaultsOccur, state <- BufferState, size <- len

\* Growing, retrying and giving up amount to an append that happens at once.
ImplementsText == Text!Spec
=============================================================================
