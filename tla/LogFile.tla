-------------------------------- MODULE LogFile --------------------------------
(***************************************************************************)
(* kcSaveLog of kmblack/KcLog.c: the entry that it appends to the log.     *)
(***************************************************************************)
EXTENDS Integers, Sequences

\* Mutant: a full buffer is not written.
Wanted_Less(binLen, bufferSize) == IF binLen >= bufferSize THEN bufferSize - 1 ELSE binLen

\* What a turn of the loop asks fwrite for.
Wanted(binLen, bufferSize) == IF binLen > bufferSize THEN bufferSize ELSE binLen

\* A turn of the loop, when fwrite takes all it is asked for but fails at turn
\* number failsAt: every piece starts at context->data again.
WithPiece(text, context, bufferSize, failsAt, turn) ==
  IF Len(text) >= Len(context) \/ turn >= failsAt THEN text
  ELSE text \o SubSeq(context, 1, Wanted(Len(context) - Len(text), bufferSize))

\* The text after each turn.
Pieces(context, bufferSize, failsAt) ==
  LET text[turn \in 0 .. Len(context)] ==
        IF turn = 0 THEN <<>>
        ELSE WithPiece(text[turn - 1], context, bufferSize, failsAt, turn)
  IN text

\* An entry ends with two line feeds, unless fwrite has failed.
kcSaveLog(context, bufferSize, failsAt) ==
  LET text == Pieces(context, bufferSize, failsAt)[Len(context)]
  IN [text |-> text, ended |-> Len(text) >= Len(context)]
=============================================================================
