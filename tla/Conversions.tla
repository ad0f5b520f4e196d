------------------------------ MODULE Conversions ------------------------------
(***************************************************************************)
(* The conversions of texts in kmblack: hexadecimal numbers and            *)
(* kcStringReplace (KcString.c), base64 (base64.c) and random texts        *)
(* (KcRandomString.c).  A character is its code; a result [ok, text] is    *)
(* the return code with what the function has given back.                  *)
(***************************************************************************)
EXTENDS Integers, Sequences

KC_OK(text) == [ok |-> TRUE, text |-> text]
KC_FAIL == [ok |-> FALSE, text |-> <<>>]

Digits == 48 .. 57
Upper == 65 .. 90
Lower == 97 .. 122

Flatten(parts) ==
  LET joined[k \in 0 .. Len(parts)] ==
        IF k = 0 THEN <<>> ELSE joined[k - 1] \o parts[k]
  IN joined[Len(parts)]

-----------------------------------------------------------------------------
(***************************************************************************)
(* Hexadecimal numbers.                                                    *)
(***************************************************************************)
isxdigit(c) == c \in Digits \cup (65 .. 70) \cup (97 .. 102)

HexValue(c) == IF c \in Digits THEN c - 48 ELSE IF c \in Upper THEN c - 55 ELSE c - 87

HexPrefix == <<48, 120>>  \* "0x"

StartsWith(text, prefix) ==
  Len(text) >= Len(prefix) /\ SubSeq(text, 1, Len(prefix)) = prefix

\* Mutant: a letter counts from zero.
kcHexStringToBytes_Letters(hex) ==
  LET src == IF StartsWith(hex, HexPrefix) THEN SubSeq(hex, 3, Len(hex)) ELSE hex
      Value(c) == IF c \in Digits THEN c - 48 ELSE (c % 16) - 1
  IN IF /\ Len(hex) > 0
        /\ Len(src) % 2 = 0
        /\ \A k \in DOMAIN src : isxdigit(src[k])
     THEN KC_OK([k \in 1 .. Len(src) \div 2 |-> 16 * Value(src[2 * k - 1]) + Value(src[2 * k])])
     ELSE KC_FAIL

kcHexStringToBytes(hex) ==
  LET src == IF StartsWith(hex, HexPrefix) THEN SubSeq(hex, 3, Len(hex)) ELSE hex
  IN IF /\ Len(hex) > 0
        /\ Len(src) % 2 = 0
        /\ \A k \in DOMAIN src : isxdigit(src[k])
     THEN KC_OK([k \in 1 .. Len(src) \div 2 |->
                   16 * HexValue(src[2 * k - 1]) + HexValue(src[2 * k])])
     ELSE KC_FAIL

HEX_CHARS(value) == IF value < 10 THEN 48 + value ELSE 55 + value

kcHexStringFromBytes(bytes, isFlag) ==
  IF bytes = <<>> THEN KC_FAIL
  ELSE KC_OK((IF isFlag THEN HexPrefix ELSE <<>>)
               \o Flatten([k \in DOMAIN bytes |->
                             <<HEX_CHARS(bytes[k] \div 16), HEX_CHARS(bytes[k] % 16)>>]))

-----------------------------------------------------------------------------
\* kcStringReplace, for a substr that is not empty (an empty one is found for
\* ever), character by character: the text so far, and where the search for the
\* next occurrence goes on.  A result without characters is refused by
\* kcStringCopyV2.
Occurs(source, substr, k) ==
  k + Len(substr) - 1 <= Len(source) /\ SubSeq(source, k, k + Len(substr) - 1) = substr

\* Mutant: the search goes on behind the first character of what was found.
Searched_Overlaps(s, source, substr, dest, k) ==
  CASE s.ptmp > k -> s
    [] s.ptmp <= k /\ Occurs(source, substr, k) -> [text |-> s.text \o dest, ptmp |-> k + 1]
    [] OTHER -> [text |-> Append(s.text, source[k]), ptmp |-> k + 1]

Searched(s, source, substr, dest, k) ==
  CASE s.ptmp > k -> s
    [] s.ptmp <= k /\ Occurs(source, substr, k) ->
         [text |-> s.text \o dest, ptmp |-> k + Len(substr)]
    [] OTHER -> [text |-> Append(s.text, source[k]), ptmp |-> k + 1]

Searches(source, substr, dest) ==
  LET s[k \in 0 .. Len(source)] ==
        IF k = 0 THEN [text |-> <<>>, ptmp |-> 1]
        ELSE Searched(s[k - 1], source, substr, dest, k)
  IN s

kcStringReplace(source, substr, dest) ==
  LET text == Searches(source, substr, dest)[Len(source)].text
  IN IF text = <<>> THEN KC_FAIL ELSE KC_OK(text)

-----------------------------------------------------------------------------
(***************************************************************************)
(* Base64.                                                                 *)
(***************************************************************************)
base64Char(value) ==
  CASE value < 26 -> 65 + value
    [] value \in 26 .. 51 -> 71 + value
    [] value \in 52 .. 61 -> value - 4
    [] value = 62 -> 43
    [] value = 63 -> 47

b64lookup(c) ==
  CASE c \in Upper -> c - 65
    [] c \in Lower -> c - 71
    [] c \in Digits -> c + 4
    [] c = 43 -> 62
    [] c = 47 -> 63
    [] OTHER -> -1

Pad == 61  \* '='

\* One, two or three bytes as four characters.
Encoded(bytes) ==
  LET n == Len(bytes)
      Byte(k) == IF k <= n THEN bytes[k] ELSE 0
  IN <<base64Char(Byte(1) \div 4),
       base64Char((Byte(1) % 4) * 16 + (Byte(2) \div 16)),
       IF n = 1 THEN Pad ELSE base64Char((Byte(2) % 16) * 4 + (Byte(3) \div 64)),
       IF n < 3 THEN Pad ELSE base64Char(Byte(3) % 64)>>

\* Each group of four is written only when there is room for it.
pg_b64_encode(src, dstlen) ==
  LET groups == (Len(src) + 2) \div 3
      Group(g) == SubSeq(src, 3 * g - 2, IF 3 * g > Len(src) THEN Len(src) ELSE 3 * g)
  IN IF 4 * groups > dstlen THEN KC_FAIL
     ELSE KC_OK(Flatten([g \in 1 .. groups |-> Encoded(Group(g))]))

\* Mutant: the padding of a group is not taken off.
Decoded_KeepsPadding(buf, end) ==
  <<(buf \div 65536) % 256, (buf \div 256) % 256, buf % 256>>

\* The bytes of four characters; end tells how many of them are padding, and
\* stays set: groups behind a padded one lose as many bytes as this one.
Decoded(buf, end) ==
  <<(buf \div 65536) % 256>>
    \o (IF end = 0 \/ end > 1 THEN <<(buf \div 256) % 256>> ELSE <<>>)
    \o (IF end = 0 \/ end > 2 THEN <<buf % 256>> ELSE <<>>)

\* One turn of the loop; a character outside the alphabet, or padding in front of
\* the third character of a group, ends it.
DecodeStep(s, c, dstlen) ==
  LET end == IF c # Pad \/ s.end # 0 THEN s.end ELSE s.pos - 1
      b   == IF c = Pad THEN 0 ELSE b64lookup(c)
      buf == s.buf * 64 + b
      isRefused == b < 0 \/ (c = Pad /\ s.end = 0 /\ s.pos < 2)
  IN IF ~s.ok THEN s
     ELSE IF isRefused THEN [s EXCEPT !.ok = FALSE]
     ELSE IF s.pos < 3 THEN
       [ok |-> TRUE, end |-> end, buf |-> buf, pos |-> s.pos + 1, text |-> s.text]
     ELSE [ok   |-> Len(s.text) + Len(Decoded(buf, end)) <= dstlen,
           end  |-> end, buf |-> 0, pos |-> 0,
           text |-> s.text \o Decoded(buf, end)]

\* The loop's variables after each character.
DecodeStates(src, dstlen) ==
  LET state[k \in 0 .. Len(src)] ==
        IF k = 0 THEN [ok |-> TRUE, end |-> 0, buf |-> 0, pos |-> 0, text |-> <<>>]
        ELSE DecodeStep(state[k - 1], src[k], dstlen)
  IN state

pg_b64_decode(src, dstlen) ==
  LET last == DecodeStates(src, dstlen)[Len(src)]
  IN IF last.ok /\ last.pos = 0 THEN KC_OK(last.text) ELSE KC_FAIL

\* Mutant: the bytes are rounded down to whole groups.
pg_b64_enc_len_Down(srclen) == (srclen * 4) \div 3

pg_b64_enc_len(srclen) == ((srclen + 2) * 4) \div 3

pg_b64_dec_len(srclen) == (srclen * 3) \div 4

-----------------------------------------------------------------------------
(***************************************************************************)
(* Random texts.  rand may return anything: an operator is the set of what *)
(* its function may return.                                                *)
(***************************************************************************)
KC_RANDOM(kmin, kmax) == kmin .. kmax

\* The kinds of characters, 0 for any, that a flag with the bits digits (1),
\* upper case (2), lower case (4) and Chinese (8) allows.
kcCkeckFlag(flag) ==
  CASE flag = 1 -> {1}
    [] flag = 2 -> {2}
    [] flag = 3 -> KC_RANDOM(1, 2)
    [] flag = 4 -> {3}
    [] flag = 5 -> {1, 3}
    [] flag = 6 -> KC_RANDOM(2, 3)
    [] flag = 7 -> KC_RANDOM(1, 3)
    [] flag = 8 -> {4}
    [] flag = 9 -> {1, 4}
    [] flag = 10 -> {2, 4}
    [] flag = 11 -> KC_RANDOM(1, 2) \cup {4}
    [] flag = 12 -> KC_RANDOM(3, 4)
    [] flag = 13 -> {1} \cup KC_RANDOM(3, 4)
    [] flag = 14 -> KC_RANDOM(2, 4)
    [] OTHER -> {0}

\* Mutant: a character of three bytes begins like one of two.
kcUtf8ZhRandom_Lead(code) ==
  IF code <= 127 THEN <<code>>
  ELSE <<192 + (code \div 4096), 128 + ((code \div 64) % 64), 128 + (code % 64)>>

IsSurrogate(code) == 55296 <= code /\ code <= 57343

Sextet(code) == 128 + (code % 64)
TwoBytes(code) == <<192 + (code \div 64), Sextet(code)>>
ThreeBytes(code) == <<224 + (code \div 4096), Sextet(code \div 64), Sextet(code)>>
FourBytes(code) ==
  <<240 + (code \div 262144), Sextet(code \div 4096), Sextet(code \div 64), Sextet(code)>>

\* The bytes of a character; none for a surrogate or what is no character.
kcUtf8ZhRandom(code) ==
  CASE code <= 127 -> <<code>>
    [] 127 < code /\ code <= 2047 -> TwoBytes(code)
    [] 2047 < code /\ code <= 65535 /\ ~IsSurrogate(code) -> ThreeBytes(code)
    [] 65535 < code /\ code <= 1114111 -> FourBytes(code)
    [] OTHER -> <<>>

\* The codes of the characters of a kind; 19968 is the first Chinese one.
kcNumAbcZhRandomV1(kind) ==
  CASE kind = 1 -> KC_RANDOM(48, 57)
    [] kind = 2 -> KC_RANDOM(65, 90)
    [] kind = 3 -> KC_RANDOM(97, 122)
    [] kind = 4 -> KC_RANDOM(19968, 20901)
    [] OTHER -> KC_RANDOM(48, 57) \cup KC_RANDOM(65, 90) \cup KC_RANDOM(97, 122)
                  \cup KC_RANDOM(19968, 20901)

\* The text of these characters.  It is written from the begin of the buffer,
\* whose length it is added to: the callers reset the buffer before.
kcNumAbcZhRandom(codes) == Flatten([k \in DOMAIN codes |-> kcUtf8ZhRandom(codes[k])])

\* The counts of characters that kcRandomString may choose, none when it fails.
CharacterCounts(min, max) ==
  IF min < 1 \/ max < 1 \/ min > 32768 \/ max > 32768 THEN {}
  ELSE IF min > max THEN KC_RANDOM(max, min) ELSE KC_RANDOM(min, max)

\* The bytes for which kcRandomString enlarges the buffer, beyond its length.
RandomRoom(characterCount) == characterCount * 4 + 1
=============================================================================
