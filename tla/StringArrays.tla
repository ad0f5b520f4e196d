----------------------------- MODULE StringArrays -----------------------------
(***************************************************************************)
(* stack_dynamic_string_array/main.c: an array of arrays of texts as one   *)
(* sequence of bytes in a string buffer.  A text is a sequence of bytes.   *)
(***************************************************************************)
EXTENDS Conversions

\* What createStringBuffer allocates, and resetStringBuffer keeps.
INITIAL_EXPBUFFER_SIZE == 256

\* Bytes are written behind the buffer, or into one that realloc may have moved:
\* undefined behaviour, of which nothing more is said.
Overrun == [overrun |-> TRUE]

\* KC_VAL32_TO_BYTES and KC_VAL32_FROM_BYTES, for numbers below 2^16.
Val32ToBytes(val) == <<0, 0, val \div 256, val % 256>>
Val32FromBytes(bytes) == bytes[3] * 256 + bytes[4]

Element(text) == Val32ToBytes(Len(text)) \o text \o <<0>>

\* Mutant: every text is taken, and half of them counted.
EvenOnes_All(strObjects) == strObjects

\* Counted from 0, the texts with an even index.
EvenOnes(strObjects) ==
  [k \in 1 .. (Len(strObjects) + 1) \div 2 |-> strObjects[2 * k - 1]]

\* The second array, "abc\0".
SecondArray == <<<<97, 98, 99>>>>

ArrayBytes(count, texts) ==
  LET bytes[k \in 0 .. Len(texts)] ==
        IF k = 0 THEN Val32ToBytes(count) ELSE bytes[k - 1] \o Element(texts[k])
  IN bytes[Len(texts)]

\* What enlargeStringBuffer is asked for.  str->len stays 0, so no call counts what
\* has been written before.
Needed(strObjects) ==
  {8, 12} \cup {5 + Len(EvenOnes(strObjects)[k]) : k \in DOMAIN EvenOnes(strObjects)}

\* No call reallocates: ptmp, kept from the first one, still points into the buffer.
InPlace(strObjects) == \A needed \in Needed(strObjects) : needed + 1 <= INITIAL_EXPBUFFER_SIZE

TwoArrays(strObjects) ==
  Val32ToBytes(2) \o ArrayBytes((Len(strObjects) + 1) \div 2, EvenOnes(strObjects))
    \o ArrayBytes(1, SecondArray)

\* Mutant: only a single text must not be too long.
dynamicStringArray_InPlace(strObjects) ==
  IF InPlace(strObjects) THEN KC_OK(TwoArrays(strObjects)) ELSE Overrun

dynamicStringArray(strObjects) ==
  IF InPlace(strObjects) /\ Len(TwoArrays(strObjects)) <= INITIAL_EXPBUFFER_SIZE
  THEN KC_OK(TwoArrays(strObjects)) ELSE Overrun

-----------------------------------------------------------------------------
\* The number at a position.
Number(bytes, at) == Val32FromBytes(SubSeq(bytes, at, at + 3))

\* Where each element ends of an array whose first element starts at begin.
Ends(bytes, begin, count) ==
  LET after[k \in 0 .. count] ==
        IF k = 0 THEN begin ELSE after[k - 1] + 5 + Number(bytes, after[k - 1])
  IN after

Texts(bytes, begin, count) ==
  [k \in 1 .. count |->
     LET at == Ends(bytes, begin, count)[k - 1]
     IN SubSeq(bytes, at + 4, at + 3 + Number(bytes, at))]

\* printDynamicStringArray: the texts that it prints of each array.
printDynamicStringArray(bytes) ==
  LET first  == Number(bytes, 5)
      second == Ends(bytes, 9, first)[first]
  IN <<Texts(bytes, 9, first), Texts(bytes, second + 4, Number(bytes, second))>>
=============================================================================
