----------------------------- MODULE TextBuffer -----------------------------
(***************************************************************************)
(* What a StringBuffer promises its callers (kmblack/stringbuffer.h): a    *)
(* text that grows by exactly what is appended, or the broken state, which *)
(* only a reset or a new buffer leaves.  Without failures of memory or of  *)
(* the format, an append breaks the buffer only at the limit of its size.  *)
(***************************************************************************)
EXTENDS Integers

CONSTANTS
  IntMax,    \* the size of the largest buffer
  Guess,     \* room a formatted append may ask for before it knows its need
  Lengths,   \* lengths of what callers append
  MayFail,   \* memory or the format may fail
  NoCall

VARIABLES
  state,     \* "null", "text" or "broken"
  size,      \* length of the text
  call       \* the append in progress

vars == <<state, size, call>>

Call == [kind : {"append", "format", "enlarge"}, n : Lengths]

Init == state = "null" /\ size = 0 /\ call = NoCall

Create ==
  /\ state = "null" /\ call = NoCall
  /\ state' \in {"text"} \cup {s \in {"broken"} : MayFail}
  /\ UNCHANGED <<size, call>>

Destroy ==
  /\ state # "null" /\ call = NoCall
  /\ state' = "null"
  /\ size' = 0
  /\ UNCHANGED call

\* A reset also heals.
Reset ==
  /\ state # "null" /\ call = NoCall
  /\ state' \in {"text"} \cup {s \in {"broken"} : MayFail /\ state = "broken"}
  /\ size' = 0
  /\ UNCHANGED call

Invoke ==
  /\ call = NoCall
  /\ call' \in Call
  /\ UNCHANGED <<state, size>>

\* The reset that printfStringBuffer begins with.
InvokeAfterReset ==
  /\ call = NoCall /\ state # "null"
  /\ state' = "text"
  /\ size' = 0
  /\ call' \in Call

\* What asks for more than this breaks the buffer.
Demand ==
  IF call.kind # "format" THEN call.n
  ELSE IF call.n + 1 > Guess THEN call.n + 1 ELSE Guess

Complete ==
  /\ call # NoCall /\ state = "text"
  /\ size' = IF call.kind = "enlarge" THEN size ELSE size + call.n
  /\ size' < IntMax
  /\ call' = NoCall
  /\ UNCHANGED state

Break ==
  /\ call # NoCall /\ state = "text"
  /\ MayFail \/ size + Demand >= IntMax
  /\ state' = "broken"
  /\ size' = 0
  /\ call' = NoCall

\* A buffer that is broken, or does not exist, ignores the append.
Ignore ==
  /\ call # NoCall /\ state # "text"
  /\ call' = NoCall
  /\ UNCHANGED <<state, size>>

Next ==
  \/ Create \/ Destroy \/ Reset \/ Invoke \/ InvokeAfterReset
  \/ Complete \/ Break \/ Ignore

Spec == Init /\ [][Next]_vars
=============================================================================
