------------------------- MODULE StringBufferProofs -------------------------
(***************************************************************************)
(* Proofs about StringBuffer, for every INT_MAX, initial size, headroom,   *)
(* guess, set of lengths and set of faults.                                *)
(***************************************************************************)
EXTENDS StringBuffer, TLAPS

\* What each place in the code knows: at "double" the demand includes the
\* text and its zero byte and is not above INT_MAX, at "copy" it has been met;
\* only vsnprintf, within a formatted append, moves the zero byte.
PlacesInv ==
  /\ (pc = "idle") <=> (call = NoCall)
  /\ pc \in {"double", "copy", "format"} => data = "heap"
  /\ data = "heap" /\ pc # "idle" /\ call.kind # "format" => nul = len
  /\ pc = "enlarge" =>
       IF call.kind = "format" THEN needed = Guess \/ needed = call.n + 1
                               ELSE needed = call.n
  /\ pc = "double" =>
       /\ len < needed /\ needed <= IntMax
       /\ newlen <= 2 * IntMax
       /\ maxlen <= newlen
       /\ call.kind = "append" => needed = len + call.n + 1
  /\ pc = "copy" => call.kind = "append" /\ len + call.n < maxlen
  /\ pc = "format" => call.kind = "format"

IInv == TypeOK /\ SizeBounds /\ Terminated /\ NoLeak /\ PlacesInv

\* The invariant holds in the initial state, where no buffer exists.
LEMMA InitIInv == Init => IInv
  BY SizeAssumption
  DEF Init, IInv, TypeOK, SizeBounds, Terminated, NoLeak, PlacesInv, Idle

\* Making or emptying a buffer leaves it empty, terminated and accounted for.
LEMMA InitialiseIInv ==
  ASSUME IInv, data # "heap", Initialise
  PROVE  /\ data' \in {"heap", "oom"} /\ {len', maxlen', nul', blocks'} \subseteq Nat
         /\ SizeBounds' /\ NoLeak'
         /\ len' = 0 /\ nul' = 0 /\ (data' = "heap" <=> maxlen' > 0)
  BY SizeAssumption
  DEF IInv, TypeOK, SizeBounds, NoLeak, Initialise

LEMMA EmptyIInv ==
  ASSUME IInv, Empty
  PROVE  /\ data' \in {"heap", "oom"} /\ {len', maxlen', nul', blocks'} \subseteq Nat
         /\ SizeBounds' /\ NoLeak'
         /\ len' = 0 /\ nul' = 0 /\ (data' = "heap" <=> maxlen' > 0)
  BY SizeAssumption, InitialiseIInv
  DEF IInv, TypeOK, SizeBounds, NoLeak, Empty

\* So does giving one up.
LEMMA AbandonIInv ==
  ASSUME IInv, NEW d \in {"null", "oom"}, Abandon(d)
  PROVE  /\ data' = d /\ {len', maxlen', nul', blocks'} \subseteq Nat
         /\ SizeBounds' /\ NoLeak' /\ data' # "heap"
  BY SizeAssumption
  DEF IInv, TypeOK, SizeBounds, NoLeak, Abandon

\* What a call in progress appends has a length.
LEMMA CallType ==
  ASSUME IInv, pc # "idle"
  PROVE  call.kind \in {"append", "format", "enlarge"} /\ call.n \in Nat
  BY SizeAssumption DEF IInv, TypeOK, PlacesInv, Call

\* Every step preserves the invariant.
LEMMA NextIInv == IInv /\ [Next]_vars => IInv'
<1> SUFFICES ASSUME IInv, [Next]_vars PROVE IInv'
  OBVIOUS
<1> USE SizeAssumption
<1>0. pc # "idle" => call.kind \in {"append", "format", "enlarge"} /\ call.n \in Nat
  BY CallType
<1>1. CASE createStringBuffer
  BY <1>1, InitialiseIInv
  DEF createStringBuffer, IInv, TypeOK, Terminated, PlacesInv, Idle, locals,
      SizeBounds
<1>2. CASE destroyStringBuffer
  BY <1>2, AbandonIInv
  DEF destroyStringBuffer, IInv, TypeOK, Terminated, PlacesInv, Idle, locals
<1>3. CASE resetStringBuffer
  BY <1>3, EmptyIInv
  DEF resetStringBuffer, IInv, TypeOK, Terminated, PlacesInv, Idle, locals,
      SizeBounds
<1>4. CASE Append
  BY <1>4
  DEF Append, Stay, Call, IInv, TypeOK, SizeBounds, Terminated, NoLeak,
      PlacesInv, Idle
<1>5. CASE appendStringBuffer
  BY <1>5
  DEF appendStringBuffer, Broken, Stay, locals, Call, IInv, TypeOK, SizeBounds,
      Terminated, NoLeak, PlacesInv, Idle
<1>6. CASE printfStringBuffer
  BY <1>6, EmptyIInv
  DEF printfStringBuffer, locals, Call, IInv, TypeOK, Terminated, PlacesInv,
      Idle, SizeBounds
<1>7. CASE EnlargeIgnored
  BY <1>7
  DEF EnlargeIgnored, Broken, Return, NoLocals, Stay, IInv, TypeOK, SizeBounds,
      Terminated, NoLeak, PlacesInv, Idle
<1>8. CASE EnlargeRefused
  BY <1>8, AbandonIInv
  DEF EnlargeRefused, Return, NoLocals, IInv, TypeOK, Terminated, PlacesInv, Idle
<1>9. CASE EnlargeFits
  <2>1. data = "heap" /\ (call.kind = "append" => len + call.n < maxlen)
    BY <1>0, <1>9
    DEF EnlargeFits, Broken, Total, IInv, TypeOK, SizeBounds, PlacesInv
  <2>2. \/ pc' = "idle" /\ call' = NoCall /\ call.kind = "enlarge"
        \/ pc' = "copy" /\ call' = call /\ call.kind = "append"
        \/ pc' = "format" /\ call' = call /\ call.kind = "format"
    BY <1>9 DEF EnlargeFits, GoOn, Return
  <2>3. needed' = 0 /\ newlen' = 0
    BY <1>9 DEF EnlargeFits, GoOn, Return, NoLocals
  <2>4. TypeOK' /\ SizeBounds' /\ NoLeak'
    BY <1>9, <2>2, <2>3
    DEF EnlargeFits, Stay, IInv, TypeOK, SizeBounds, NoLeak
  <2>5. Terminated' /\ PlacesInv'
    BY <1>9, <2>1, <2>2
    DEF EnlargeFits, Stay, IInv, TypeOK, SizeBounds, Terminated, PlacesInv, Idle
  <2> QED
    BY <2>4, <2>5 DEF IInv
<1>10. CASE EnlargeGrows
  BY <1>10
  DEF EnlargeGrows, Broken, Total, Stay, Call, IInv, TypeOK, SizeBounds,
      Terminated, NoLeak, PlacesInv, Idle
<1>11. CASE Double
  BY <1>11
  DEF Double, Stay, Call, IInv, TypeOK, SizeBounds, Terminated, NoLeak,
      PlacesInv, Idle
<1>12. CASE Realloc
  <2>1. /\ data = "heap" /\ len < maxlen' /\ maxlen' <= IntMax /\ maxlen' \in Nat
        /\ call.kind = "append" => len + call.n < maxlen'
    BY <1>0, <1>12 DEF Realloc, Clamped, IInv, TypeOK, PlacesInv
  <2>2. \/ pc' = "idle" /\ call' = NoCall /\ call.kind = "enlarge"
        \/ pc' = "copy" /\ call' = call /\ call.kind = "append"
        \/ pc' = "format" /\ call' = call /\ call.kind = "format"
    BY <1>12 DEF Realloc, GoOn, Return
  <2>3. needed' = 0 /\ newlen' = 0
    BY <1>12 DEF Realloc, GoOn, Return, NoLocals
  <2>4. TypeOK' /\ SizeBounds' /\ NoLeak'
    BY <1>12, <2>1, <2>2, <2>3
    DEF Realloc, IInv, TypeOK, SizeBounds, NoLeak
  <2>5. Terminated' /\ PlacesInv'
    BY <1>12, <2>1, <2>2
    DEF Realloc, IInv, TypeOK, SizeBounds, Terminated, PlacesInv, Idle
  <2> QED
    BY <2>4, <2>5 DEF IInv
<1>13. CASE ReallocFails
  BY <1>13, AbandonIInv
  DEF ReallocFails, Return, NoLocals, IInv, TypeOK, Terminated, PlacesInv, Idle
<1>14. CASE Copy
  BY <1>0, <1>14
  DEF Copy, Return, NoLocals, IInv, TypeOK, SizeBounds, Terminated,
      NoLeak, PlacesInv, Idle
<1>15. CASE Printed
  BY <1>0, <1>15
  DEF Printed, Avail, Return, NoLocals, IInv, TypeOK, SizeBounds,
      Terminated, NoLeak, PlacesInv, Idle
<1>16. CASE PrintTruncated
  BY <1>0, <1>16
  DEF PrintTruncated, Avail, IInv, TypeOK, SizeBounds, Terminated,
      NoLeak, PlacesInv, Idle
<1>17. CASE PrintRefused
  BY <1>17, AbandonIInv
  DEF PrintRefused, Return, NoLocals, IInv, TypeOK, Terminated, PlacesInv, Idle
<1>18. CASE PrintFails
  BY <1>18, AbandonIInv
  DEF PrintFails, Return, NoLocals, IInv, TypeOK, Terminated, PlacesInv, Idle
<1>19. CASE NoHeadroom
  BY <1>19
  DEF NoHeadroom, Stay, Call, IInv, TypeOK, SizeBounds, Terminated, NoLeak,
      PlacesInv, Idle
<1>20. CASE UNCHANGED vars
  BY <1>20
  DEF vars, IInv, TypeOK, SizeBounds, Terminated, NoLeak, PlacesInv, Idle
<1> QED
  BY <1>1, <1>2, <1>3, <1>4, <1>5, <1>6, <1>7, <1>8, <1>9, <1>10, <1>11,
     <1>12, <1>13, <1>14, <1>15, <1>16, <1>17, <1>18, <1>19, <1>20
  DEF Next, Step

THEOREM Invariance == Spec => []IInv
  BY InitIInv, NextIInv, PTL DEF Spec

\* Every variable keeps its type: in particular no size becomes negative.
THEOREM BufferTypeCorrect == Spec => []TypeOK
<1>1. IInv => TypeOK
  BY DEF IInv
<1> QED
  BY <1>1, Invariance, PTL

\* Between calls a text is shorter than its buffer and terminated; the size
\* never exceeds INT_MAX; nothing leaks.
THEOREM BufferIsSound == Spec => []Sound
<1>1. IInv => Sound
  BY DEF IInv, Sound
<1> QED
  BY <1>1, Invariance, PTL

\* No append stores a byte outside its buffer; the doubling loop stays below
\* twice INT_MAX and the clamp is enough.
THEOREM StoresAlwaysFit == Spec => []StoresFit
<1>1. IInv => NoOverrun
  BY DEF IInv, PlacesInv, NoOverrun
<1>2. IInv => NoWrap
  BY SizeAssumption DEF IInv, PlacesInv, TypeOK, NoWrap, Clamped
<1>3. IInv => StoresFit
  BY <1>1, <1>2 DEF StoresFit
<1> QED
  BY <1>3, Invariance, PTL

-----------------------------------------------------------------------------
\* The buffer implements TextBuffer: initial states map to initial states.
LEMMA InitRefines == Init => Text!Init
  BY DEF Init, Text!Init, BufferState

\* How the three states of the code appear to its callers.
LEMMA BufferStates ==
  ASSUME IInv
  PROVE  /\ data = "null" <=> BufferState = "null"
         /\ data = "heap" <=> BufferState = "text"
         /\ data = "oom"  <=> BufferState = "broken"
         /\ BufferState \in {"null", "text", "broken"}
         /\ Broken <=> data # "heap"
  BY DEF IInv, TypeOK, SizeBounds, BufferState, Broken

\* Whatever makes or heals a buffer ends in an empty text, or in the broken
\* state if memory may fail.
LEMMA EmptyRefines ==
  ASSUME IInv, IInv', data # "null", Empty
  PROVE  /\ len' = 0
         /\ \/ BufferState' = "text" /\ maxlen' # 0
            \/ /\ BufferState = "broken" /\ BufferState' = "broken"
               /\ maxlen' = 0 /\ FaultsOccur
  BY BufferStates
  DEF Empty, Initialise, IInv, TypeOK, SizeBounds, BufferState, FaultsOccur

\* A call that gives up appears as a break.
LEMMA BreakRefines ==
  ASSUME IInv, IInv', data = "heap", pc # "idle", Abandon("oom"), Return,
         FaultsOccur \/ len + Text!Demand >= IntMax
  PROVE  Text!Break
  BY BufferStates
  DEF Abandon, Return, Text!Break, IInv, PlacesInv, BufferState

\* A call that has done its work appears as its completion.
LEMMA CompleteRefines ==
  ASSUME IInv, IInv', data = "heap", data' = "heap", pc # "idle", Return,
         len' = IF call.kind = "enlarge" THEN len ELSE len + call.n
  PROVE  Text!Complete
<1>1. len' < IntMax
  BY SizeAssumption DEF IInv, TypeOK, SizeBounds
<1> QED
  BY <1>1, BufferStates DEF Return, Text!Complete, IInv, PlacesInv, BufferState

\* Every step of the code is a step of TextBuffer or changes nothing there.
LEMMA NextRefines ==
  IInv /\ IInv' /\ [Next]_vars => [Text!Next]_(Text!vars)
<1> SUFFICES ASSUME IInv, IInv', [Next]_vars
             PROVE  Text!Next \/ UNCHANGED <<BufferState, len, call>>
  BY DEF Text!vars
<1> USE SizeAssumption
<1>0. pc # "idle" => call.kind \in {"append", "format", "enlarge"} /\ call.n \in Nat
  BY CallType
<1>a. len \in Nat /\ maxlen \in Nat /\ needed \in Nat
  BY DEF IInv, TypeOK
<1>1. CASE createStringBuffer
  <2>1. BufferState = "null" /\ call = NoCall /\ len' = len /\ call' = call
    BY <1>1, BufferStates
    DEF createStringBuffer, Initialise, Idle, IInv, PlacesInv, TypeOK, SizeBounds
  <2>2. BufferState' = "text" \/ (BufferState' = "broken" /\ FaultsOccur)
    BY <1>1 DEF createStringBuffer, Initialise, BufferState, FaultsOccur
  <2> QED
    BY <2>1, <2>2 DEF Text!Next, Text!Create
<1>2. CASE destroyStringBuffer
  BY <1>2, BufferStates
  DEF destroyStringBuffer, Abandon, Idle, IInv, PlacesInv, BufferState,
      Text!Next, Text!Destroy
<1>3. CASE resetStringBuffer
  BY <1>3, BufferStates, EmptyRefines
  DEF resetStringBuffer, Idle, IInv, PlacesInv, Text!Next, Text!Reset
<1>4. CASE Append
  BY <1>4
  DEF Append, Call, Stay, Idle, IInv, PlacesInv, BufferState, Text!Next,
      Text!Invoke, Text!Call
<1>5. CASE appendStringBuffer
  BY <1>5
  DEF appendStringBuffer, Call, Stay, Idle, IInv, PlacesInv, BufferState,
      Text!Next, Text!Invoke, Text!Call
<1>6. CASE printfStringBuffer
  <2>1. BufferState # "null" /\ call = NoCall
    BY <1>6, BufferStates DEF printfStringBuffer, Idle, IInv, PlacesInv
  <2>2. CASE maxlen' = 0
    BY <1>6, <2>1, <2>2, EmptyRefines
    DEF printfStringBuffer, Text!Next, Text!Reset
  <2>3. CASE maxlen' # 0
    BY <1>6, <2>1, <2>3, EmptyRefines
    DEF printfStringBuffer, Call, Text!Next, Text!InvokeAfterReset, Text!Call
  <2> QED
    BY <2>2, <2>3
<1>7. CASE EnlargeIgnored
  BY <1>7, BufferStates
  DEF EnlargeIgnored, Return, Stay, IInv, PlacesInv, BufferState, Text!Next,
      Text!Ignore
<1>8. CASE EnlargeRefused
  <2>1. data = "heap" /\ pc # "idle"
    BY <1>8, BufferStates DEF EnlargeRefused
  <2>2. needed <= Text!Demand
    BY <1>0, <1>8, <1>a DEF EnlargeRefused, Text!Demand, IInv, PlacesInv
  <2>3. len + Text!Demand >= IntMax
    BY <1>0, <1>8, <1>a, <2>1, <2>2 DEF EnlargeRefused, Text!Demand
  <2> QED
    BY <1>8, <2>1, <2>3, BreakRefines DEF EnlargeRefused, Text!Next
<1>9. CASE EnlargeFits
  <2>1. data = "heap" /\ data' = data /\ len' = len /\ pc # "idle"
    BY <1>9, BufferStates DEF EnlargeFits, Stay
  <2>2. CASE call.kind = "enlarge" /\ Return
    BY <2>1, <2>2, CompleteRefines DEF Text!Next
  <2>3. CASE UNCHANGED call
    BY <2>1, <2>3 DEF BufferState
  <2> QED
    BY <1>9, <2>2, <2>3 DEF EnlargeFits, GoOn
<1>10. CASE EnlargeGrows \/ Double \/ PrintTruncated \/ NoHeadroom
  BY <1>10
  DEF EnlargeGrows, Double, PrintTruncated, NoHeadroom, Stay, BufferState
<1>11. CASE Realloc
  <2>1. data = "heap" /\ data' = data /\ len' = len /\ pc # "idle"
    BY <1>11 DEF Realloc, IInv, PlacesInv
  <2>2. CASE call.kind = "enlarge" /\ Return
    BY <2>1, <2>2, CompleteRefines DEF Text!Next
  <2>3. CASE UNCHANGED call
    BY <2>1, <2>3 DEF BufferState
  <2> QED
    BY <1>11, <2>2, <2>3 DEF Realloc, GoOn
<1>12. CASE ReallocFails
  BY <1>12, BreakRefines
  DEF ReallocFails, FaultsOccur, IInv, PlacesInv, Text!Next
<1>13. CASE PrintFails
  BY <1>13, BreakRefines
  DEF PrintFails, FaultsOccur, IInv, PlacesInv, Text!Next
<1>14. CASE PrintRefused
  <2>1. len + Text!Demand >= IntMax
    BY <1>0, <1>14, <1>a DEF PrintRefused, Text!Demand, IInv, PlacesInv
  <2> QED
    BY <1>14, <2>1, BreakRefines
    DEF PrintRefused, IInv, PlacesInv, Text!Next
<1>15. CASE Copy
  BY <1>15, CompleteRefines DEF Copy, IInv, PlacesInv, Text!Next
<1>16. CASE Printed
  BY <1>16, CompleteRefines DEF Printed, IInv, PlacesInv, Text!Next
<1>17. CASE UNCHANGED vars
  BY <1>17 DEF vars, BufferState
<1> QED
  BY <1>1, <1>2, <1>3, <1>4, <1>5, <1>6, <1>7, <1>8, <1>9, <1>10, <1>11,
     <1>12, <1>13, <1>14, <1>15, <1>16, <1>17
  DEF Next, Step

\* For its callers an append happens at once: it adds what it was given, or
\* breaks the buffer because something failed or the limit was reached.
THEOREM BufferImplementsText == Spec => ImplementsText
  BY InitRefines, NextRefines, Invariance, PTL
  DEF Spec, ImplementsText, Text!Spec
=============================================================================
