---------------------------- MODULE FunctionCallsProofs ----------------------------
(***************************************************************************)
(* What one function has converted, its counterpart turns back into the    *)
(* same, checksums and searches are as defined, receivers accept the       *)
(* replies, and main does what the command line says, for every            *)
(* input.                                                                  *)
(***************************************************************************)
EXTENDS FunctionCalls, FunctionsProofs, FiniteSetTheorems

-----------------------------------------------------------------------------
(***************************************************************************)
(* Texts that are joined from parts.                                       *)
(***************************************************************************)
\* The k-th text is the one before it with the k-th part appended.
Joined(text, n, parts) ==
  /\ text \in [0 .. n -> Seq(Byte8)]
  /\ \A k \in 1 .. n : parts[k] \in Seq(Byte8) /\ text[k] = text[k - 1] \o parts[k]

\* Appending keeps what lies in a text.
LEMMA LiesBefore ==
  ASSUME NEW s \in Seq(Byte8), NEW t \in Seq(Byte8), NEW part \in Seq(Byte8), NEW n \in Nat,
         n + Len(part) <= Len(s), Lies(s, n, part)
  PROVE  Lies(s \o t, n, part)
<1>1. Len(s) \in Nat /\ Len(part) \in Nat
  BY LenProperties
<1>2. \A i \in 1 .. Len(s) : (s \o t)[i] = s[i]
  BY ConcatBytes
<1>3. ASSUME NEW i \in 1 .. Len(part) PROVE (s \o t)[n + i] = part[i]
  <2>1. n + i \in 1 .. Len(s)
    BY <1>1
  <2> QED BY <1>2, <2>1 DEF Lies
<1> QED BY <1>3 DEF Lies

\* Every part lies behind the parts before it.
LEMMA PartsLie ==
  ASSUME NEW n \in Nat, NEW text, NEW parts, Joined(text, n, parts)
  PROVE  /\ \A k \in 1 .. n : /\ Len(text[k]) = Len(text[k - 1]) + Len(parts[k])
                              /\ Len(text[k]) <= Len(text[n])
                              /\ Lies(text[n], Len(text[k - 1]), parts[k])
         /\ Lies(text[n], 0, text[0]) /\ Len(text[0]) <= Len(text[n])
<1>1. /\ \A k \in 0 .. n : text[k] \in Seq(Byte8) /\ Len(text[k]) \in Nat
      /\ \A k \in 1 .. n : parts[k] \in Seq(Byte8) /\ Len(parts[k]) \in Nat
                           /\ text[k] = text[k - 1] \o parts[k]
  BY LenProperties DEF Joined
<1>2. \A k \in 1 .. n : k - 1 \in 0 .. n /\ k \in 0 .. n
  OBVIOUS
<1> DEFINE len(k) == Len(text[k])
<1>3. ASSUME NEW k \in 1 .. n
      PROVE  len(k) = len(k - 1) + Len(parts[k]) /\ len(k - 1) <= len(k)
  <2>1. text[k - 1] \in Seq(Byte8) /\ parts[k] \in Seq(Byte8) /\ text[k] = text[k - 1] \o parts[k]
    BY <1>1, <1>2
  <2>2. len(k) = len(k - 1) + Len(parts[k])
    BY <2>1, ConcatBytes
  <2>3. len(k - 1) \in Nat /\ Len(parts[k]) \in Nat
    BY <2>1, LenProperties
  <2> HIDE DEF len
  <2> QED BY <2>2, <2>3
<1>4. \A k \in 1 .. n : /\ Len(text[k]) = Len(text[k - 1]) + Len(parts[k])
                       /\ Len(text[k - 1]) <= Len(text[k])
  BY <1>3
<1> DEFINE Good(m, k) == /\ Len(text[k]) <= Len(text[m])
                         /\ Lies(text[m], Len(text[k - 1]), parts[k])
           First(m) == Lies(text[m], 0, text[0]) /\ Len(text[0]) <= Len(text[m])
           S == {m \in 0 .. n : First(m) /\ \A k \in 1 .. n : k <= m => Good(m, k)}
<1>5. 0 \in S
  <2>1. First(0)
    <3>1. \A i \in 1 .. Len(text[0]) : 0 + i = i
      BY <1>1
    <3> QED BY <1>1, <3>1 DEF Lies
  <2>2. \A k \in 1 .. n : ~(k <= 0)
    OBVIOUS
  <2> QED BY <2>1, <2>2
<1>6. ASSUME NEW m \in 1 .. n, m - 1 \in S PROVE m \in S
  <2>1. /\ text[m] = text[m - 1] \o parts[m] /\ text[m - 1] \in Seq(Byte8)
        /\ parts[m] \in Seq(Byte8) /\ Len(text[m - 1]) <= Len(text[m])
        /\ Len(text[m - 1]) \in Nat /\ Len(text[m]) \in Nat /\ m \in 0 .. n
    BY <1>1, <1>2, <1>4
  <2>2. First(m)
    <3>1. Lies(text[m - 1], 0, text[0]) /\ Len(text[0]) <= Len(text[m - 1])
      BY <1>6
    <3>2. text[0] \in Seq(Byte8) /\ Len(text[0]) \in Nat
      BY <1>1
    <3>3. 0 \in Nat /\ 0 + Len(text[0]) <= Len(text[m - 1])
      BY <3>1, <3>2
    <3>4. Lies(text[m - 1] \o parts[m], 0, text[0])
      BY <2>1, <3>1, <3>2, <3>3, LiesBefore
    <3>5. Len(text[0]) <= Len(text[m])
      <4> DEFINE a == Len(text[0])  b == Len(text[m - 1])  c == Len(text[m])
      <4>1. a \in Nat /\ b \in Nat /\ c \in Nat /\ a <= b /\ b <= c
        BY <2>1, <3>1, <3>2
      <4> HIDE DEF a, b, c
      <4>2. a <= c
        BY <4>1
      <4> QED BY <4>2 DEF a, c
    <3> QED BY <2>1, <3>4, <3>5
  <2>3. ASSUME NEW k \in 1 .. n, k <= m PROVE Good(m, k)
    <3>1. CASE k = m
      <4>1. Lies(text[m], Len(text[m - 1]), parts[m])
        <5>1. \A i \in 1 .. Len(parts[m]) :
                (text[m - 1] \o parts[m])[Len(text[m - 1]) + i] = parts[m][i]
          BY <2>1, ConcatBytes
        <5> QED BY <2>1, <5>1 DEF Lies
      <4>2. Good(m, m)
        BY <2>1, <4>1
      <4> QED BY <3>1, <4>2
    <3>2. CASE k # m
      <4>1. k <= m - 1
        BY <2>3, <3>2
      <4>2. Len(text[k]) <= Len(text[m - 1]) /\ Lies(text[m - 1], Len(text[k - 1]), parts[k])
        BY <1>6, <4>1
      <4>3. /\ Len(text[k - 1]) \in Nat /\ parts[k] \in Seq(Byte8)
            /\ Len(text[k - 1]) + Len(parts[k]) <= Len(text[m - 1])
        BY <1>1, <1>2, <1>4, <4>2
      <4>4. Lies(text[m - 1] \o parts[m], Len(text[k - 1]), parts[k])
        BY <2>1, <4>2, <4>3, LiesBefore
      <4>5. Len(text[k]) <= Len(text[m])
        <5> DEFINE a == Len(text[k])  b == Len(text[m - 1])  c == Len(text[m])
        <5>1. a \in Nat /\ b \in Nat /\ c \in Nat /\ a <= b /\ b <= c
          BY <1>1, <1>2, <2>1, <4>2
        <5> HIDE DEF a, b, c
        <5>2. a <= c
          BY <5>1
        <5> QED BY <5>2 DEF a, c
      <4> QED BY <2>1, <4>4, <4>5
    <3> QED BY <3>1, <3>2
  <2> QED BY <2>1, <2>2, <2>3
<1> HIDE DEF S
<1>7. n \in S
  <2>1. \A m \in 0 .. n : m \in S
    BY <1>5, <1>6, BoundedInduction
  <2> QED BY <2>1
<1>8. First(n) /\ \A k \in 1 .. n : Good(n, k)
  <2>1. \A k \in 1 .. n : k <= n
    OBVIOUS
  <2> QED BY <1>7, <2>1 DEF S
<1> QED BY <1>4, <1>8

\* What Flatten has joined after each part.
FlattenTexts(parts) ==
  LET joined[k \in 0 .. Len(parts)] ==
        IF k = 0 THEN <<>> ELSE joined[k - 1] \o parts[k]
  IN joined

\* What Flatten joins, part by part.
PartsJoined(S, text, parts) ==
  /\ text \in [0 .. Len(parts) -> Seq(S)]
  /\ text[0] = <<>>
  /\ \A k \in 1 .. Len(parts) : text[k] = text[k - 1] \o parts[k]
  /\ Flatten(parts) = text[Len(parts)]

\* Flatten joins them so.
LEMMA FlattenJoinsAny ==
  ASSUME NEW S, NEW parts \in Seq(Seq(S))
  PROVE  PartsJoined(S, FlattenTexts(parts), parts)
<1> DEFINE n == Len(parts)
           T == Seq(S)
           first == <<>>
           g == [k \in 1 .. n |-> [s \in T |-> s \o parts[k]]]
           r == FlattenTexts(parts)
<1>1. n \in Nat /\ \A k \in 1 .. n : parts[k] \in T
  BY ElementOfSeq, LenProperties
<1>2. first \in T
  BY EmptySeq
<1>3. \A s \in T, t \in T : s \o t \in T
  BY ConcatProperties
<1>4. Flatten(parts) = r[n]
  BY DEF Flatten, FlattenTexts
<1> HIDE DEF n, first, T, r
<1>5. g \in [1 .. n -> [T -> T]] /\ \A k \in 1 .. n : \A s \in T : g[k][s] = s \o parts[k]
  BY <1>1, <1>3
<1> HIDE DEF g
<1>6. PICK f \in [0 .. n -> T] : f[0] = first /\ \A k \in 1 .. n : f[k] = g[k][f[k - 1]]
  <2>1. CanRecurse(n, T, first, g)
    BY <1>1, <1>2, <1>5, Recursion
  <2> QED BY <2>1 DEF CanRecurse, Recursive
<1>7. f = [k \in 0 .. n |-> IF k = 0 THEN first ELSE f[k - 1] \o parts[k]]
  <2>1. \A k \in 0 .. n : k # 0 => k \in 1 .. n
    BY <1>1
  <2>2. \A k \in 1 .. n : k - 1 \in 0 .. n
    BY <1>1
  <2>3. \A k \in 0 .. n : f[k] = IF k = 0 THEN first ELSE f[k - 1] \o parts[k]
    BY <1>5, <1>6, <2>1, <2>2
  <2> QED BY <1>6, <2>3
<1>8. r = [k \in 0 .. n |-> IF k = 0 THEN first ELSE r[k - 1] \o parts[k]]
  BY <1>7, Zenon DEF FlattenTexts, n, r, first
<1>9. r[0] = first
  BY <1>1, <1>8
<1>10. \A k \in 1 .. n : r[k] = r[k - 1] \o parts[k]
  <2>1. \A k \in 1 .. n : k \in 0 .. n /\ k # 0
    BY <1>1
  <2> QED BY <1>8, <2>1
<1> DEFINE I == {k \in 0 .. n : r[k] \in T}
<1>11. 0 \in I
  BY <1>1, <1>2, <1>9
<1>12. ASSUME NEW k \in 1 .. n, k - 1 \in I PROVE k \in I
  <2>1. k \in 0 .. n
    BY <1>1
  <2> QED BY <1>1, <1>3, <1>10, <1>12, <2>1
<1> HIDE DEF I
<1>13. \A k \in 0 .. n : k \in I
  BY <1>1, <1>11, <1>12, BoundedInduction
<1>14. r \in [0 .. n -> T]
  <2>1. \A k \in 0 .. n : r[k] \in T
    BY <1>13 DEF I
  <2> QED BY <1>8, <2>1
<1> QED BY <1>4, <1>9, <1>10, <1>14 DEF n, r, first, T, PartsJoined

\* Flatten joins its parts of bytes.
LEMMA FlattenJoins ==
  ASSUME NEW parts \in Seq(Seq(Byte8))
  PROVE  /\ Joined(FlattenTexts(parts), Len(parts), parts)
         /\ FlattenTexts(parts)[0] = <<>>
         /\ Flatten(parts) = FlattenTexts(parts)[Len(parts)]
<1> DEFINE n == Len(parts)
           text == FlattenTexts(parts)
<1>1. n \in Nat /\ \A k \in 1 .. n : parts[k] \in Seq(Byte8)
  BY ElementOfSeq, LenProperties
<1>2. PartsJoined(Byte8, text, parts)
  BY FlattenJoinsAny
<1> HIDE DEF n, text
<1>3. /\ text \in [0 .. n -> Seq(Byte8)] /\ text[0] = <<>> /\ Flatten(parts) = text[n]
      /\ \A k \in 1 .. n : text[k] = text[k - 1] \o parts[k]
  BY ONLY <1>2, Zenon DEF PartsJoined, n
<1>4. Joined(text, n, parts)
  BY ONLY <1>1, <1>3, Zenon DEF Joined
<1> QED BY ONLY <1>3, <1>4, Zenon DEF n, text

\* at tells where each part ends.
Ending(at, text, n, parts) ==
  /\ at \in [0 .. n -> Nat]
  /\ at[0] = Len(text[0])
  /\ \A k \in 1 .. n : at[k] = at[k - 1] + Len(parts[k])

\* Where the parts lie, told by their lengths.
LEMMA PartsAt ==
  ASSUME NEW n \in Nat, NEW text, NEW parts, Joined(text, n, parts),
         NEW at, Ending(at, text, n, parts)
  PROVE  /\ \A k \in 0 .. n : Len(text[k]) = at[k]
         /\ \A k \in 1 .. n : \A i \in 1 .. Len(parts[k]) : text[n][at[k - 1] + i] = parts[k][i]
<1>1. \A k \in 1 .. n : /\ Len(text[k]) = Len(text[k - 1]) + Len(parts[k])
                        /\ Len(text[k]) <= Len(text[n])
                        /\ Lies(text[n], Len(text[k - 1]), parts[k])
  BY ONLY n \in Nat, Joined(text, n, parts), PartsLie, Zenon
<1>2. 0 \in 0 .. n /\ \A k \in 1 .. n : k - 1 \in 0 .. n /\ k \in 0 .. n
  OBVIOUS
<1> DEFINE S == {k \in 0 .. n : Len(text[k]) = at[k]}
<1>3. 0 \in S
  BY <1>2 DEF Ending
<1>4. ASSUME NEW k \in 1 .. n, k - 1 \in S PROVE k \in S
  BY <1>1, <1>2, <1>4 DEF Ending
<1> HIDE DEF S
<1>5. \A k \in 0 .. n : k \in S
  BY <1>3, <1>4, BoundedInduction
<1>6. \A k \in 0 .. n : Len(text[k]) = at[k]
  BY <1>5 DEF S
<1> QED BY <1>1, <1>2, <1>6 DEF Lies

\* Parts of one width, joined.
LEMMA FlattenWidth ==
  ASSUME NEW parts \in Seq(Seq(Byte8)), NEW width \in {2, 4},
         \A k \in 1 .. Len(parts) : Len(parts[k]) = width
  PROVE  /\ Flatten(parts) \in Seq(Byte8)
         /\ Len(Flatten(parts)) = width * Len(parts)
         /\ \A k \in 1 .. Len(parts), i \in 1 .. width :
              Flatten(parts)[width * (k - 1) + i] = parts[k][i]
<1> DEFINE n == Len(parts)
           text == FlattenTexts(parts)
           at == [k \in 0 .. n |-> width * k]
<1>1. n \in Nat
  BY LenProperties
<1>2. Joined(text, n, parts) /\ text[0] = <<>> /\ Flatten(parts) = text[n]
  BY FlattenJoins
<1> HIDE DEF n, text
<1>3. at \in [0 .. n -> Nat]
  BY <1>1
<1>4. at[0] = 0 /\ Len(text[0]) = 0
  BY <1>1, <1>2, EmptySeq
<1>5. \A k \in 1 .. n : at[k] = at[k - 1] + width
  <2>1. ASSUME NEW k \in 1 .. n PROVE at[k] = at[k - 1] + width
    <3>1. k \in 0 .. n /\ k - 1 \in 0 .. n
      BY <1>1
    <3>2. CASE width = 2
      BY <1>1, <3>1, <3>2
    <3>3. CASE width = 4
      BY <1>1, <3>1, <3>3
    <3> QED BY <3>2, <3>3
  <2> QED BY <2>1
<1>6. \A k \in 1 .. n : at[k] = at[k - 1] + Len(parts[k])
  BY <1>5 DEF n
<1>7. n \in 0 .. n /\ at[n] = width * n /\ \A k \in 1 .. n : at[k - 1] = width * (k - 1)
  BY <1>1
<1> HIDE DEF at
<1>8. /\ \A k \in 0 .. n : Len(text[k]) = at[k]
      /\ \A k \in 1 .. n : \A i \in 1 .. Len(parts[k]) : text[n][at[k - 1] + i] = parts[k][i]
  <2>1. Ending(at, text, n, parts)
    BY <1>3, <1>4, <1>6 DEF Ending
  <2>2. Joined(text, n, parts)
    BY <1>2
  <2>3. \A k \in 0 .. n : Len(text[k]) = at[k]
    BY ONLY <1>1, <2>1, <2>2, PartsAt
  <2>4. \A k \in 1 .. n : \A i \in 1 .. Len(parts[k]) : text[n][at[k - 1] + i] = parts[k][i]
    BY ONLY <1>1, <2>1, <2>2, PartsAt
  <2> QED BY <2>3, <2>4
<1>9. text[n] \in Seq(Byte8)
  BY <1>2, <1>7 DEF Joined
<1>10. Len(text[n]) = width * n
  BY <1>7, <1>8
<1>11. ASSUME NEW k \in 1 .. n, NEW i \in 1 .. width
       PROVE  text[n][width * (k - 1) + i] = parts[k][i]
  <2>1. Len(parts[k]) = width
    BY DEF n
  <2> QED BY <1>7, <1>8, <2>1
<1> QED BY <1>2, <1>9, <1>10, <1>11 DEF n

-----------------------------------------------------------------------------
(***************************************************************************)
(* Hexadecimal texts.                                                      *)
(***************************************************************************)
\* Each digit is read as the value it has been written for, and none is the "x".
LEMMA HexDigits ==
  ASSUME NEW v \in 0 .. 15
  PROVE  /\ HEX_CHARS(v) \in Byte8 /\ HEX_CHARS(v) # 120
         /\ isxdigit(HEX_CHARS(v)) /\ HexValue(HEX_CHARS(v)) = v
BY SMT DEF HEX_CHARS, Byte8, isxdigit, HexValue, Digits, Upper

\* A byte is its two digits.
LEMMA Nibbles ==
  ASSUME NEW b \in Byte8
  PROVE  b \div 16 \in 0 .. 15 /\ b % 16 \in 0 .. 15 /\ 16 * (b \div 16) + (b % 16) = b
BY SMT DEF Byte8

\* kcHexStringToBytes reads what kcHexStringFromBytes has written, with or
\* without "0x".
THEOREM HexComesBack ==
  ASSUME NEW bytes \in Seq(Byte8), bytes # <<>>, NEW isFlag \in BOOLEAN
  PROVE  kcHexStringToBytes(kcHexStringFromBytes(bytes, isFlag).text) = KC_OK(bytes)
<1> DEFINE n == Len(bytes)
           parts == [k \in DOMAIN bytes |->
                       <<HEX_CHARS(bytes[k] \div 16), HEX_CHARS(bytes[k] % 16)>>]
           body == Flatten(parts)
           hex == (IF isFlag THEN HexPrefix ELSE <<>>) \o body
           src == IF StartsWith(hex, HexPrefix) THEN SubSeq(hex, 3, Len(hex)) ELSE hex
<1>1. n \in Nat /\ n > 0 /\ DOMAIN bytes = 1 .. n /\ \A k \in 1 .. n : bytes[k] \in Byte8
  BY EmptySeq, LenProperties, ElementOfSeq
<1>2. kcHexStringFromBytes(bytes, isFlag).text = hex
  BY DEF kcHexStringFromBytes, KC_OK
<1> HIDE DEF n
<1>3. ASSUME NEW k \in 1 .. n
      PROVE  /\ parts[k] \in Seq(Byte8) /\ Len(parts[k]) = 2
             /\ parts[k][1] = HEX_CHARS(bytes[k] \div 16)
             /\ parts[k][2] = HEX_CHARS(bytes[k] % 16)
  <2> DEFINE x == HEX_CHARS(bytes[k] \div 16)
             y == HEX_CHARS(bytes[k] % 16)
  <2>1. x \in Byte8 /\ y \in Byte8
    BY <1>1, Nibbles, HexDigits
  <2>2. parts[k] = <<x, y>>
    BY <1>1
  <2> HIDE DEF x, y, parts
  <2>3. <<x, y>> \in Seq(Byte8) /\ Len(<<x, y>>) = 2
    BY <2>1
  <2> QED BY <2>2, <2>3 DEF x, y
<1>4. parts \in Seq(Seq(Byte8)) /\ Len(parts) = n
  BY <1>1, <1>3
<1> HIDE DEF parts
<1>5. /\ body \in Seq(Byte8) /\ Len(body) = 2 * n
      /\ \A k \in 1 .. n, i \in 1 .. 2 : body[2 * (k - 1) + i] = parts[k][i]
  BY <1>3, <1>4, FlattenWidth
<1> HIDE DEF body
<1>6. ASSUME NEW k \in 1 .. n
      PROVE  /\ body[2 * k - 1] = HEX_CHARS(bytes[k] \div 16)
             /\ body[2 * k] = HEX_CHARS(bytes[k] % 16)
  <2>1. 2 * (k - 1) + 1 = 2 * k - 1 /\ 2 * (k - 1) + 2 = 2 * k
    OBVIOUS
  <2> QED BY <1>3, <1>5, <2>1
<1>7. src = body
  <2>1. HexPrefix \in Seq(Byte8) /\ Len(HexPrefix) = 2 /\ HexPrefix[2] = 120
    BY DEF HexPrefix, Byte8
  <2>2. CASE isFlag
    <3>1. hex = HexPrefix \o body
      BY <2>2
    <3>0. HexPrefix \in Seq(Byte8) /\ body \in Seq(Byte8)
      BY ONLY <1>5, <2>1
    <3>2. SubSeq(HexPrefix \o body, 1, Len(HexPrefix)) = HexPrefix
      BY ONLY <3>0, FirstPart
    <3>3. SubSeq(HexPrefix \o body, Len(HexPrefix) + 1, Len(HexPrefix) + Len(body)) = body
      BY ONLY <3>0, LastPart
    <3>4. Len(HexPrefix \o body) = Len(HexPrefix) + Len(body)
      BY ONLY <3>0, ConcatBytes
    <3>5. Len(HexPrefix) + 1 = 3 /\ Len(HexPrefix \o body) >= Len(HexPrefix)
      BY <1>1, <1>5, <2>1, <3>4
    <3> HIDE DEF hex
    <3>6. StartsWith(hex, HexPrefix)
      BY <3>1, <3>2, <3>5 DEF StartsWith
    <3> QED BY <3>1, <3>3, <3>4, <3>5, <3>6
  <2>3. CASE ~isFlag
    <3>1. hex = body
      BY <1>5, <2>3
    <3> HIDE DEF hex
    <3>2. ~StartsWith(hex, HexPrefix)
      <4>1. SUFFICES ASSUME SubSeq(body, 1, 2) = HexPrefix PROVE FALSE
        BY <2>1, <3>1 DEF StartsWith
      <4>2. 1 \in Nat \ {0} /\ 2 \in Nat /\ 1 <= 2 + 1 /\ 2 <= Len(body)
            /\ 2 \in 1 .. 2 + 1 - 1 /\ 1 + 2 - 1 = 2
        BY <1>1, <1>5
      <4>3. SubSeq(body, 1, 2)[2] = body[2]
        BY <1>5, <4>2, SubBytes
      <4>4. body[2 * 1] = HEX_CHARS(bytes[1] % 16) /\ 1 \in 1 .. n /\ 2 * 1 = 2
        BY <1>1, <1>6
      <4>5. HEX_CHARS(bytes[1] % 16) # 120
        BY <1>1, <4>4, Nibbles, HexDigits
      <4> QED BY <2>1, <4>1, <4>3, <4>4, <4>5
    <3> QED BY <3>1, <3>2
  <2> QED BY <2>2, <2>3
<1>8. Len(hex) > 0
  <2>1. CASE isFlag
    <3>1. HexPrefix \in Seq(Byte8) /\ Len(HexPrefix) = 2
      BY DEF HexPrefix, Byte8
    <3>2. Len(HexPrefix \o body) = Len(HexPrefix) + Len(body)
      BY <1>5, <3>1, ConcatBytes
    <3> QED BY <1>1, <1>5, <2>1, <3>1, <3>2
  <2>2. CASE ~isFlag
    <3>1. hex = body
      BY <1>5, <2>2
    <3> QED BY <1>1, <1>5, <3>1
  <2> QED BY <2>1, <2>2
<1> HIDE DEF hex, src
<1>9. Len(src) % 2 = 0 /\ Len(src) \div 2 = n
  <2>1. Len(src) = 2 * n
    BY <1>5, <1>7
  <2>2. (2 * n) % 2 = 0 /\ (2 * n) \div 2 = n
    BY <1>1, SMT
  <2> QED BY <2>1, <2>2
<1>10. \A k \in DOMAIN src : isxdigit(src[k])
  <2>1. ASSUME NEW j \in 1 .. 2 * n PROVE isxdigit(body[j])
    <3> DEFINE k == (j + 1) \div 2
    <3>1. k \in 1 .. n /\ (j = 2 * k - 1 \/ j = 2 * k)
      BY <1>1, <2>1, SMT
    <3> HIDE DEF k
    <3>2. isxdigit(body[2 * k - 1]) /\ isxdigit(body[2 * k])
      BY ONLY <1>1, <1>6, <3>1, Nibbles, HexDigits, ZenonT(40)
    <3> QED BY <3>1, <3>2
  <2>2. DOMAIN src = 1 .. 2 * n
    BY <1>5, <1>7, LenProperties
  <2> QED BY <1>7, <2>1, <2>2
<1> DEFINE back == [k \in 1 .. Len(src) \div 2 |->
                      16 * HexValue(src[2 * k - 1]) + HexValue(src[2 * k])]
<1>11. back = bytes
  <2>1. ASSUME NEW k \in 1 .. n
        PROVE  16 * HexValue(src[2 * k - 1]) + HexValue(src[2 * k]) = bytes[k]
    <3> DEFINE b == bytes[k]
    <3>1. b \in Byte8
      BY <1>1
    <3>2. src[2 * k - 1] = HEX_CHARS(b \div 16) /\ src[2 * k] = HEX_CHARS(b % 16)
      BY <1>6, <1>7
    <3> HIDE DEF b
    <3>3. HexValue(src[2 * k - 1]) = b \div 16 /\ HexValue(src[2 * k]) = b % 16
      BY <3>1, <3>2, Nibbles, HexDigits
    <3> QED BY <3>1, <3>3, Nibbles DEF b
  <2>2. bytes = [k \in 1 .. n |-> bytes[k]]
    BY <1>1, LenProperties
  <2>3. back = [k \in 1 .. n |-> 16 * HexValue(src[2 * k - 1]) + HexValue(src[2 * k])]
    BY <1>9
  <2> QED BY <2>1, <2>2, <2>3
<1>12. kcHexStringToBytes(hex) = KC_OK(back)
  BY <1>8, <1>9, <1>10 DEF kcHexStringToBytes, src
<1> QED BY <1>2, <1>11, <1>12

-----------------------------------------------------------------------------
(***************************************************************************)
(* Times.                                                                  *)
(***************************************************************************)
\* A number of units below, within or above the first second.
LEMMA Seconds ==
  ASSUME NEW unit \in Nat \ {0}, NEW a \in Int
  PROVE  /\ 0 <= a /\ a < unit => a \div unit = 0 /\ a % unit = a
         /\ unit <= a /\ a < unit + unit => a \div unit = 1 /\ a % unit = a - unit
         /\ a < 0 /\ -unit <= a => a \div unit = -1 /\ a % unit = a + unit
BY SMT

\* Sums and differences of times are times, a sum without its second part is the
\* first, and INSTR_TIME_ACCUM_DIFF adds what INSTR_TIME_SUBTRACT gives.
THEOREM TimesAddUp ==
  ASSUME NEW unit \in Nat \ {0},
         NEW x \in [sec : Int, frac : 0 .. unit - 1],
         NEW y \in [sec : Int, frac : 0 .. unit - 1],
         NEW z \in [sec : Int, frac : 0 .. unit - 1]
  PROVE  LET sum  == INSTR_TIME_ADD(x, y, unit)
             diff == INSTR_TIME_SUBTRACT(y, z, unit)
         IN /\ IsTime(sum, unit) /\ IsTime(diff, unit)
            /\ INSTR_TIME_SUBTRACT(sum, y, unit) = x
            /\ INSTR_TIME_ACCUM_DIFF(x, y, z, unit) = INSTR_TIME_ADD(x, diff, unit)
<1> DEFINE sum == INSTR_TIME_ADD(x, y, unit)
           diff == INSTR_TIME_SUBTRACT(y, z, unit)
           a == x.frac + y.frac
           b == y.frac - z.frac
<1>1. /\ x.sec \in Int /\ y.sec \in Int /\ z.sec \in Int
      /\ x.frac \in 0 .. unit - 1 /\ y.frac \in 0 .. unit - 1 /\ z.frac \in 0 .. unit - 1
      /\ x = [sec |-> x.sec, frac |-> x.frac]
  OBVIOUS
<1>2. /\ sum.sec = x.sec + y.sec + (IF a >= unit THEN 1 ELSE 0)
      /\ sum.frac = (IF a >= unit THEN a - unit ELSE a)
  <2>1. a \in Int /\ 0 <= a /\ a < unit + unit
    BY <1>1
  <2> HIDE DEF a
  <2>2. CASE a >= unit
    <3>1. a \div unit = 1 /\ a % unit = a - unit
      BY <2>1, <2>2, Seconds
    <3> QED BY <2>2, <3>1 DEF INSTR_TIME_ADD, CarryUp, a
  <2>3. CASE ~(a >= unit)
    BY <1>1, <2>3 DEF INSTR_TIME_ADD, a
  <2> QED BY <2>2, <2>3
<1>3. /\ diff.sec = y.sec - z.sec - (IF b < 0 THEN 1 ELSE 0)
      /\ diff.frac = (IF b < 0 THEN b + unit ELSE b)
  <2>1. b \in Int /\ -unit <= b /\ b < unit
    BY <1>1
  <2> HIDE DEF b
  <2>2. CASE b < 0
    <3>1. b \div unit = -1 /\ b % unit = b + unit
      BY <2>1, <2>2, Seconds
    <3> QED BY <1>1, <2>2, <3>1 DEF INSTR_TIME_SUBTRACT, BorrowDown, CarryUp, b
  <2>3. CASE ~(b < 0)
    BY <1>1, <2>3 DEF INSTR_TIME_SUBTRACT, BorrowDown, b
  <2> QED BY <2>2, <2>3
<1> HIDE DEF sum, diff
<1>4. sum.frac \in 0 .. unit - 1 /\ diff.frac \in 0 .. unit - 1 /\ sum.sec \in Int /\ diff.sec \in Int
  BY <1>1, <1>2, <1>3
<1>5. INSTR_TIME_SUBTRACT(sum, y, unit) = x
  <2> DEFINE c == sum.frac - y.frac
  <2>1. IF a >= unit THEN c < 0 /\ c = x.frac - unit ELSE c >= 0 /\ c = x.frac
    BY <1>1, <1>2
  <2>2. c \in Int /\ -unit <= c
    BY <1>1, <1>4
  <2>3. CASE a >= unit
    <3>1. sum.sec - y.sec = x.sec + 1 /\ c < 0 /\ c + unit = x.frac
      BY <1>1, <1>2, <2>1, <2>3
    <3> HIDE DEF c
    <3>2. c \div unit = -1 /\ c % unit = c + unit
      BY <2>2, <3>1, Seconds
    <3>3. INSTR_TIME_SUBTRACT(sum, y, unit)
            = [sec |-> sum.sec - y.sec + (c \div unit), frac |-> c % unit]
      BY <3>1 DEF INSTR_TIME_SUBTRACT, BorrowDown, CarryUp, c
    <3>4. sum.sec - y.sec + (-1) = x.sec
      BY <1>1, <1>4, <3>1
    <3> QED BY <1>1, <3>1, <3>2, <3>3, <3>4
  <2>4. CASE ~(a >= unit)
    <3>1. sum.sec - y.sec = x.sec /\ ~(c < 0) /\ c = x.frac
      BY <1>1, <1>2, <2>1, <2>4
    <3> HIDE DEF c
    <3>2. INSTR_TIME_SUBTRACT(sum, y, unit) = [sec |-> sum.sec - y.sec, frac |-> c]
      BY <3>1 DEF INSTR_TIME_SUBTRACT, BorrowDown, c
    <3> QED BY <1>1, <3>1, <3>2
  <2> QED BY <2>3, <2>4
<1>6. INSTR_TIME_ACCUM_DIFF(x, y, z, unit) = INSTR_TIME_ADD(x, diff, unit)
  <2> DEFINE d == x.frac + b
             e == x.frac + diff.frac
             f == x.sec + (y.sec - z.sec)
             g == x.sec + diff.sec
  <2>1. INSTR_TIME_ACCUM_DIFF(x, y, z, unit) = [sec |-> f + (d \div unit), frac |-> d % unit]
    BY DEF INSTR_TIME_ACCUM_DIFF, CarryUp
  <2>2. INSTR_TIME_ADD(x, diff, unit) = IF e >= unit THEN [sec |-> g + (e \div unit), frac |-> e % unit]
                                        ELSE [sec |-> g, frac |-> e]
    BY DEF INSTR_TIME_ADD, CarryUp
  <2>3. /\ d \in Int /\ e \in Int /\ f \in Int /\ g \in Int
        /\ IF b < 0 THEN e = d + unit /\ g = f - 1 ELSE e = d /\ g = f
        /\ -unit <= d /\ d < unit + unit /\ 0 <= e /\ e < unit + unit
    BY <1>1, <1>3, <1>4
  <2> HIDE DEF b, d, e, f, g
  <2>4. IF e >= unit THEN e \div unit = 1 /\ e % unit = e - unit
                     ELSE e \div unit = 0 /\ e % unit = e
    <3>1. unit <= e \/ e < unit
      BY <2>3
    <3>2. ~(e >= unit) <=> e < unit
      BY <2>3
    <3> QED BY <2>3, <3>1, <3>2, Seconds
  <2>5. CASE e >= unit
    <3>1. g + (e \div unit) = f + (d \div unit) /\ e % unit = d % unit
      <4>1. CASE b < 0
        <5>1. 0 <= d /\ d < unit
          BY <2>3, <2>5, <4>1
        <5>2. d \div unit = 0 /\ d % unit = d
          BY <2>3, <5>1, Seconds
        <5>3. e \div unit = 1 /\ e % unit = e - unit
          BY <2>4, <2>5
        <5>4. e - unit = d /\ g + 1 = f + 0
          BY <2>3, <4>1
        <5> QED BY <5>2, <5>3, <5>4
      <4>2. CASE ~(b < 0)
        BY <2>3, <4>2
      <4> QED BY <4>1, <4>2
    <3> QED BY <2>1, <2>2, <2>5, <3>1
  <2>6. CASE ~(e >= unit)
    <3>1. f + (d \div unit) = g /\ d % unit = e
      <4>1. CASE b < 0
        <5>1. d < 0 /\ -unit <= d
          BY <2>3, <2>6, <4>1
        <5>2. d \div unit = -1 /\ d % unit = d + unit
          BY <2>3, <5>1, Seconds
        <5>3. d + unit = e /\ f + (-1) = g
          BY <2>3, <4>1
        <5> QED BY <5>2, <5>3
      <4>2. CASE ~(b < 0)
        <5>1. d = e /\ f = g /\ d \div unit = 0 /\ d % unit = d
          BY <2>3, <2>4, <2>6, <4>2
        <5> QED BY <2>3, <5>1
      <4> QED BY <4>1, <4>2
    <3> QED BY <2>1, <2>2, <2>6, <3>1
  <2> QED BY <2>5, <2>6
<1> QED BY <1>4, <1>5, <1>6 DEF sum, diff, IsTime

\* A time's part of a second is below one.
LEMMA TimeBelow ==
  ASSUME NEW unit \in Nat, NEW t, t.frac \in Nat, t.frac < unit
  PROVE  IsTime(t, unit)
BY DEF IsTime

\* The fields of what kcMilliseconds2String prints.
LEMMA PrintedFields ==
  ASSUME NEW a, NEW b, NEW c, NEW d, NEW e
  PROVE  LET printed == [msec |-> a, days |-> b, hours |-> c, minutes |-> d, seconds |-> e]
         IN /\ printed.msec = a /\ printed.days = b /\ printed.hours = c
            /\ printed.minutes = d /\ printed.seconds = e
OBVIOUS

\* The parts of a printed time add up to it, but for the seconds' rounding, and
\* keep their ranges; the end of a wait is as many milliseconds later as asked.
THEOREM WaitsAddUp ==
  ASSUME NEW elapsed \in Nat, NEW tv \in TimeVal, NEW msec \in Nat
  PROVE  LET printed == kcMilliseconds2String(elapsed)
             abs == KC_TIMEVAL2TIMESPEC(tv, msec)
             minutes == (printed.days * 24 + printed.hours) * 60 + printed.minutes
         IN /\ (printed.msec + 5) \div 10 = minutes * 60000 + printed.seconds
            /\ printed.hours < 24 /\ printed.minutes < 60 /\ printed.seconds <= 60000
            /\ IsTime(abs, 1000000000)
            /\ abs.sec * 1000 + (abs.frac \div 1000000) = TIMEVAL2MSEC(tv) + msec
<1> DEFINE printed == kcMilliseconds2String(elapsed)
           m == elapsed \div 600000
           r == elapsed % 600000
           h == m \div 60
           minutes == (printed.days * 24 + printed.hours) * 60 + printed.minutes
<1>1. /\ printed.msec = elapsed /\ printed.days = h \div 24 /\ printed.hours = h % 24
      /\ printed.minutes = m % 60 /\ printed.seconds = (r + 5) \div 10
  <2>1. printed = [msec |-> elapsed, days |-> h \div 24, hours |-> h % 24,
                   minutes |-> m % 60, seconds |-> (r + 5) \div 10]
    BY SMT DEF kcMilliseconds2String
  <2> HIDE DEF m, r, h, printed
  <2> QED BY <2>1, PrintedFields
<1>2. m \in Nat /\ r \in Nat /\ r < 600000 /\ elapsed = 600000 * m + r
  BY SMT
<1> HIDE DEF m, r, printed
<1>3. h \in Nat /\ m = 60 * h + (m % 60) /\ m % 60 \in 0 .. 59
  BY <1>2, SMT
<1> HIDE DEF h
<1>4. h = 24 * (h \div 24) + (h % 24) /\ h \div 24 \in Nat /\ h % 24 \in 0 .. 23
  BY <1>3, SMT
<1>5. minutes = m
  BY <1>1, <1>2, <1>3, <1>4
<1>6. (elapsed + 5) \div 10 = m * 60000 + ((r + 5) \div 10) /\ (r + 5) \div 10 <= 60000
  BY <1>2, SMT
<1>7. /\ (printed.msec + 5) \div 10 = minutes * 60000 + printed.seconds
      /\ printed.hours < 24 /\ printed.minutes < 60 /\ printed.seconds <= 60000
  BY <1>1, <1>3, <1>4, <1>5, <1>6
<1> DEFINE s == tv.sec
           f == tv.frac
           usec == f + msec * 1000
           abs == KC_TIMEVAL2TIMESPEC(tv, msec)
           x == usec % 1000000
           y == usec \div 1000000
<1>8. s \in Nat /\ f \in Nat /\ f < 1000000
  BY DEF TimeVal
<1>9. /\ abs = [sec |-> s + y, frac |-> x * 1000]
      /\ TIMEVAL2MSEC(tv) = s * 1000 + (f \div 1000)
  BY SMT DEF KC_TIMEVAL2TIMESPEC, TIMEVAL2MSEC
<1> HIDE DEF s, f, abs
<1>10. usec \in Nat
  BY <1>8
<1>11. usec \div 1000 = (f \div 1000) + msec /\ f \div 1000 \in Int
  BY <1>8, SMT
<1> HIDE DEF usec
<1>12. x \in Nat /\ x < 1000000 /\ y \in Nat /\ usec = 1000000 * y + x
  BY <1>10, SMT
<1> HIDE DEF x, y
<1>13. abs.sec = s + y /\ abs.frac = x * 1000
  BY <1>9
<1>14. IsTime(abs, 1000000000)
  <2>1. abs.frac \in Nat /\ abs.frac < 1000000000 /\ 1000000000 \in Nat
    BY <1>12, <1>13
  <2> QED BY ONLY <2>1, TimeBelow, SMT
<1>15. abs.sec * 1000 + (abs.frac \div 1000000) = TIMEVAL2MSEC(tv) + msec
  <2>1. (x * 1000) \div 1000000 = x \div 1000 /\ x \div 1000 \in Int
    BY <1>12, SMT
  <2>2. usec \div 1000 = 1000 * y + (x \div 1000)
    BY <1>12, SMT
  <2>3. (s + y) * 1000 + (x \div 1000) = s * 1000 + (1000 * y + (x \div 1000))
    BY <1>8, <1>12, <2>1
  <2>4. s * 1000 + ((f \div 1000) + msec) = (s * 1000 + (f \div 1000)) + msec
    BY <1>8, <1>11
  <2> HIDE DEF usec, x, y, f
  <2> QED BY <1>9, <1>11, <1>13, <2>1, <2>2, <2>3, <2>4
<1> QED BY <1>7, <1>14, <1>15 DEF printed, abs

-----------------------------------------------------------------------------
(***************************************************************************)
(* Characters.                                                             *)
(***************************************************************************)
\* A sequence of one to four bytes.
LEMMA FewBytes ==
  ASSUME NEW a \in Byte8, NEW b \in Byte8, NEW c \in Byte8, NEW d \in Byte8
  PROVE  /\ <<a>> \in Seq(Byte8) /\ Len(<<a>>) = 1
         /\ <<a, b>> \in Seq(Byte8) /\ Len(<<a, b>>) = 2
         /\ <<a, b, c>> \in Seq(Byte8) /\ Len(<<a, b, c>>) = 3
         /\ <<a, b, c, d>> \in Seq(Byte8) /\ Len(<<a, b, c, d>>) = 4
OBVIOUS

\* The digits of a code in base 64.
LEMMA Sextets ==
  ASSUME NEW code \in Nat
  PROVE  /\ code = (code \div 64) * 64 + (code % 64)
         /\ code = (code \div 4096) * 4096 + ((code \div 64) % 64) * 64 + (code % 64)
         /\ code = (code \div 262144) * 262144 + ((code \div 4096) % 64) * 4096
                     + ((code \div 64) % 64) * 64 + (code % 64)
         /\ code \div 64 \in Nat /\ code \div 4096 \in Nat /\ code \div 262144 \in Nat
         /\ code % 64 \in 0 .. 63
         /\ (code \div 64) % 64 \in 0 .. 63 /\ (code \div 4096) % 64 \in 0 .. 63
<1> DEFINE a == code \div 64
           b == code % 64
<1>1. a \in Nat /\ b \in 0 .. 63 /\ code = a * 64 + b
  BY SMT
<1>2. code \div 4096 = a \div 64 /\ code \div 262144 = a \div 4096
  BY SMT
<1> HIDE DEF a, b
<1> DEFINE c == a \div 64
           d == a % 64
<1>3. c \in Nat /\ d \in 0 .. 63 /\ a = c * 64 + d
  BY <1>1, SMT
<1>4. a \div 4096 = c \div 64
  BY <1>1, SMT
<1> HIDE DEF c, d
<1> DEFINE e == c \div 64
           f == c % 64
<1>5. e \in Nat /\ f \in 0 .. 63 /\ c = e * 64 + f
  BY <1>3, SMT
<1> HIDE DEF e, f
<1>6. /\ code = c * 4096 + d * 64 + b
      /\ code = e * 262144 + f * 4096 + d * 64 + b
  BY <1>1, <1>3, <1>5
<1> QED BY <1>1, <1>2, <1>3, <1>4, <1>5, <1>6 DEF a, b, c, d, e, f

\* The bytes of the codes that have so many.
LEMMA CharacterBytes ==
  ASSUME NEW code \in Nat
  PROVE  /\ code <= 127 => kcUtf8ZhRandom(code) = <<code>>
         /\ 127 < code /\ code <= 2047 => kcUtf8ZhRandom(code) = TwoBytes(code)
         /\ 2047 < code /\ code <= 65535 /\ ~IsSurrogate(code) =>
              kcUtf8ZhRandom(code) = ThreeBytes(code)
         /\ 65535 < code /\ code <= 1114111 => kcUtf8ZhRandom(code) = FourBytes(code)
         /\ IsSurrogate(code) \/ code > 1114111 => kcUtf8ZhRandom(code) = <<>>
BY SMT DEF kcUtf8ZhRandom, IsSurrogate

\* n bytes that are decoded to a code.
Decodes(bytes, n, code) ==
  bytes \in Seq(Byte8) /\ Len(bytes) = n /\ Utf8Code(bytes) = code

\* They are not empty.
LEMMA DecodesSomething ==
  ASSUME NEW bytes, NEW n \in 1 .. 4, NEW code, Decodes(bytes, n, code)
  PROVE  bytes \in Seq(Byte8) /\ bytes # <<>> /\ Len(bytes) <= 4 /\ Utf8Code(bytes) = code
<1>1. Len(<<>>) = 0
  BY EmptySeq
<1>2. n # 0 /\ n <= 4
  OBVIOUS
<1> QED BY ONLY <1>1, <1>2, Decodes(bytes, n, code), Zenon DEF Decodes

\* A sextet is what it adds to 128.
LEMMA SextetBytes ==
  ASSUME NEW code \in Nat
  PROVE  Sextet(code) \in Byte8 /\ Sextet(code) - 128 = code % 64
<1>1. code % 64 \in 0 .. 63
  BY SMT
<1> QED BY <1>1 DEF Byte8, Sextet

\* The codes up to the greatest of one byte are decoded.
LEMMA OneByteDecodes ==
  ASSUME NEW code \in Nat, code <= 127
  PROVE  Decodes(<<code>>, 1, code)
<1>1. code \in Byte8
  BY DEF Byte8
<1>2. <<code>> \in Seq(Byte8) /\ Len(<<code>>) = 1
  BY <1>1, FewBytes
<1>3. Utf8Code(<<code>>) = code
  BY <1>2 DEF Utf8Code
<1> QED BY ONLY <1>2, <1>3, Zenon DEF Decodes

\* The codes up to the greatest of two bytes are decoded.
LEMMA TwoBytesDecode ==
  ASSUME NEW code \in Nat, code <= 2047
  PROVE  Decodes(TwoBytes(code), 2, code)
<1> DEFINE q == code \div 64
           x == Sextet(code)
           a == 192 + q
<1>1. q \in Nat /\ code = q * 64 + (code % 64) /\ code % 64 \in 0 .. 63
  BY Sextets
<1>2. x \in Byte8 /\ x - 128 = code % 64
  BY <1>1, SextetBytes
<1>3. a \in Byte8 /\ a - 192 = q
  BY <1>1 DEF Byte8
<1>4. TwoBytes(code) = <<a, x>>
  BY DEF TwoBytes
<1> HIDE DEF q, x, a
<1>5. <<a, x>> \in Seq(Byte8) /\ Len(<<a, x>>) = 2
  BY <1>2, <1>3, FewBytes
<1>6. Utf8Code(<<a, x>>) = (a - 192) * 64 + (x - 128)
  BY <1>5 DEF Utf8Code
<1>7. (a - 192) * 64 + (x - 128) = code
  BY ONLY <1>1, <1>2, <1>3
<1>8. Utf8Code(<<a, x>>) = code
  BY ONLY <1>6, <1>7
<1> QED BY ONLY <1>4, <1>5, <1>8, Zenon DEF Decodes

\* The codes up to the greatest of three bytes are decoded.
LEMMA ThreeBytesDecode ==
  ASSUME NEW code \in Nat, code <= 65535
  PROVE  Decodes(ThreeBytes(code), 3, code)
<1> DEFINE q == code \div 64
           r == code \div 4096
           x == Sextet(code)
           y == Sextet(q)
           a == 224 + r
<1>1. /\ q \in Nat /\ r \in Nat
      /\ code = r * 4096 + (q % 64) * 64 + (code % 64)
      /\ code % 64 \in 0 .. 63 /\ q % 64 \in 0 .. 63
  BY Sextets
<1>2. /\ x \in Byte8 /\ x - 128 = code % 64
      /\ y \in Byte8 /\ y - 128 = q % 64
  BY <1>1, SextetBytes
<1>3. a \in Byte8 /\ a - 224 = r
  BY <1>1 DEF Byte8
<1>4. ThreeBytes(code) = <<a, y, x>>
  BY DEF ThreeBytes
<1> HIDE DEF q, r, x, y, a
<1>5. <<a, y, x>> \in Seq(Byte8) /\ Len(<<a, y, x>>) = 3
  BY <1>2, <1>3, FewBytes
<1>6. Utf8Code(<<a, y, x>>) = (a - 224) * 4096 + (y - 128) * 64 + (x - 128)
  BY <1>5 DEF Utf8Code
<1>7. (a - 224) * 4096 + (y - 128) * 64 + (x - 128) = code
  BY ONLY <1>1, <1>2, <1>3
<1>8. Utf8Code(<<a, y, x>>) = code
  BY ONLY <1>6, <1>7
<1> QED BY ONLY <1>4, <1>5, <1>8, Zenon DEF Decodes

\* The codes up to the greatest of four bytes are decoded.
LEMMA FourBytesDecode ==
  ASSUME NEW code \in Nat, code <= 1114111
  PROVE  Decodes(FourBytes(code), 4, code)
<1> DEFINE q == code \div 64
           r == code \div 4096
           t == code \div 262144
           x == Sextet(code)
           y == Sextet(q)
           z == Sextet(r)
           a == 240 + t
<1>1. /\ q \in Nat /\ r \in Nat /\ t \in Nat
      /\ code = t * 262144 + (r % 64) * 4096 + (q % 64) * 64 + (code % 64)
      /\ code % 64 \in 0 .. 63 /\ q % 64 \in 0 .. 63 /\ r % 64 \in 0 .. 63
  BY Sextets
<1>2. /\ x \in Byte8 /\ x - 128 = code % 64
      /\ y \in Byte8 /\ y - 128 = q % 64
      /\ z \in Byte8 /\ z - 128 = r % 64
  BY <1>1, SextetBytes
<1>3. a \in Byte8 /\ a - 240 = t
  BY <1>1 DEF Byte8
<1>4. FourBytes(code) = <<a, z, y, x>>
  BY DEF FourBytes
<1> HIDE DEF q, r, t, x, y, z, a
<1>5. <<a, z, y, x>> \in Seq(Byte8) /\ Len(<<a, z, y, x>>) = 4
  BY <1>2, <1>3, FewBytes
<1>6. Utf8Code(<<a, z, y, x>>) = (a - 240) * 262144 + (z - 128) * 4096 + (y - 128) * 64 + (x - 128)
  BY <1>5 DEF Utf8Code
<1>7. (a - 240) * 262144 + (z - 128) * 4096 + (y - 128) * 64 + (x - 128) = code
  BY ONLY <1>1, <1>2, <1>3
<1>8. Utf8Code(<<a, z, y, x>>) = code
  BY ONLY <1>6, <1>7
<1> QED BY ONLY <1>4, <1>5, <1>8, Zenon DEF Decodes

\* Up to four bytes that are decoded to a code; only surrogates and what is behind
\* the last character have none.
IsCharacter(bytes, code) ==
  /\ bytes \in Seq(Byte8) /\ Len(bytes) <= 4
  /\ IF bytes = <<>> THEN NoCharacter(code) ELSE Utf8Code(bytes) = code

\* What kcUtf8ZhRandom writes of any code is decoded to it.
THEOREM CharactersDecode ==
  ASSUME NEW code \in Nat
  PROVE  IsCharacter(kcUtf8ZhRandom(code), code)
<1> DEFINE bytes == kcUtf8ZhRandom(code)
<1>1. 1 \in 1 .. 4 /\ 2 \in 1 .. 4 /\ 3 \in 1 .. 4 /\ 4 \in 1 .. 4
  OBVIOUS
<1>2. ASSUME NEW n \in 1 .. 4, Decodes(bytes, n, code)
      PROVE  IsCharacter(bytes, code)
  <2>1. bytes \in Seq(Byte8) /\ bytes # <<>> /\ Len(bytes) <= 4 /\ Utf8Code(bytes) = code
    BY ONLY n \in 1 .. 4, <1>2, DecodesSomething
  <2> QED BY ONLY <2>1, Zenon DEF IsCharacter
<1>3. CASE code <= 127
  <2>1. Decodes(bytes, 1, code)
    BY <1>3, CharacterBytes, OneByteDecodes
  <2> QED BY <1>1, <1>2, <2>1
<1>4. CASE 127 < code /\ code <= 2047
  <2>1. bytes = TwoBytes(code)
    BY <1>4, CharacterBytes
  <2>2. code <= 2047
    BY <1>4
  <2>3. Decodes(TwoBytes(code), 2, code)
    BY <2>2, TwoBytesDecode
  <2>4. Decodes(bytes, 2, code)
    BY ONLY <2>1, <2>3, Zenon
  <2> QED BY <1>1, <1>2, <2>4
<1>5. CASE 2047 < code /\ code <= 65535 /\ ~IsSurrogate(code)
  <2>1. bytes = ThreeBytes(code)
    BY <1>5, CharacterBytes
  <2>2. code <= 65535
    BY <1>5
  <2>3. Decodes(ThreeBytes(code), 3, code)
    BY <2>2, ThreeBytesDecode
  <2>4. Decodes(bytes, 3, code)
    BY ONLY <2>1, <2>3, Zenon
  <2> QED BY <1>1, <1>2, <2>4
<1>6. CASE 65535 < code /\ code <= 1114111
  <2>1. bytes = FourBytes(code)
    BY <1>6, CharacterBytes
  <2>2. code <= 1114111
    BY <1>6
  <2>3. Decodes(FourBytes(code), 4, code)
    BY <2>2, FourBytesDecode
  <2>4. Decodes(bytes, 4, code)
    BY ONLY <2>1, <2>3, Zenon
  <2> QED BY <1>1, <1>2, <2>4
<1>7. CASE NoCharacter(code)
  <2>1. bytes = <<>>
    BY <1>7, CharacterBytes DEF NoCharacter
  <2>2. <<>> \in Seq(Byte8) /\ Len(<<>>) <= 4
    BY EmptySeq
  <2> QED BY ONLY <1>7, <2>1, <2>2, Zenon DEF IsCharacter
<1>8. \/ code <= 127 \/ (127 < code /\ code <= 2047)
      \/ (2047 < code /\ code <= 65535 /\ ~IsSurrogate(code))
      \/ (65535 < code /\ code <= 1114111) \/ NoCharacter(code)
  BY DEF IsSurrogate, NoCharacter
<1> QED BY <1>3, <1>4, <1>5, <1>6, <1>7, <1>8

\* Parts of up to four bytes, joined.
LEMMA FlattenRoom ==
  ASSUME NEW parts \in Seq(Seq(Byte8)), \A k \in 1 .. Len(parts) : Len(parts[k]) <= 4
  PROVE  Len(Flatten(parts)) \in Nat /\ Len(Flatten(parts)) <= 4 * Len(parts)
<1> DEFINE n == Len(parts)
           text == FlattenTexts(parts)
           S == {k \in 0 .. n : Len(text[k]) <= 4 * k}
<1>1. n \in Nat
  BY LenProperties
<1>2. Joined(text, n, parts) /\ text[0] = <<>> /\ Flatten(parts) = text[n]
  BY FlattenJoins
<1> HIDE DEF n, text
<1>3. \A k \in 1 .. n : Len(text[k]) = Len(text[k - 1]) + Len(parts[k])
  <2>1. Joined(text, n, parts)
    BY <1>2
  <2>2. \A k \in 1 .. n : /\ Len(text[k]) = Len(text[k - 1]) + Len(parts[k])
                          /\ Len(text[k]) <= Len(text[n])
                          /\ Lies(text[n], Len(text[k - 1]), parts[k])
    BY ONLY <1>1, <2>1, PartsLie, Zenon
  <2> QED BY <2>2
<1>4. \A k \in 0 .. n : Len(text[k]) \in Nat
  BY <1>2, LenProperties DEF Joined
<1>5. 0 \in S
  BY <1>1, <1>2, EmptySeq
<1>6. ASSUME NEW k \in 1 .. n, k - 1 \in S PROVE k \in S
  <2>1. k - 1 \in 0 .. n /\ k \in 0 .. n
    BY <1>1
  <2>2. Len(text[k - 1]) <= 4 * (k - 1) /\ Len(text[k - 1]) \in Nat /\ Len(text[k]) \in Nat
    BY <1>4, <1>6, <2>1
  <2>3. Len(parts[k]) <= 4 /\ Len(parts[k]) \in Nat
    <3>1. parts[k] \in Seq(Byte8)
      BY <1>2 DEF Joined
    <3> QED BY <3>1, LenProperties DEF n
  <2>4. Len(text[k]) = Len(text[k - 1]) + Len(parts[k])
    BY <1>3
  <2> DEFINE a == Len(text[k])  b == Len(text[k - 1])  c == Len(parts[k])
  <2>5. a = b + c /\ b <= 4 * (k - 1) /\ c <= 4 /\ a \in Nat /\ b \in Nat /\ c \in Nat
    BY <2>2, <2>3, <2>4
  <2> HIDE DEF a, b, c
  <2>6. a <= 4 * k
    BY <1>1, <2>5
  <2> QED BY <2>1, <2>6 DEF a
<1> HIDE DEF S
<1>7. n \in S
  <2>1. \A k \in 0 .. n : k \in S
    BY <1>1, <1>5, <1>6, BoundedInduction
  <2> QED BY <1>1, <2>1
<1>8. n \in 0 .. n
  BY <1>1
<1> QED BY <1>2, <1>4, <1>7, <1>8 DEF n, S

\* The room kcRandomString makes suffices for characters of any kind.
THEOREM RandomTextsFit ==
  ASSUME NEW codes \in Seq(Nat)
  PROVE  Len(kcNumAbcZhRandom(codes)) < RandomRoom(Len(codes))
<1> DEFINE n == Len(codes)
           parts == [k \in DOMAIN codes |-> kcUtf8ZhRandom(codes[k])]
<1>1. n \in Nat /\ DOMAIN codes = 1 .. n /\ \A k \in 1 .. n : codes[k] \in Nat
  BY LenProperties, ElementOfSeq
<1>2. \A k \in 1 .. n : kcUtf8ZhRandom(codes[k]) \in Seq(Byte8) /\ Len(kcUtf8ZhRandom(codes[k])) <= 4
  <2>1. ASSUME NEW code \in Nat
        PROVE  kcUtf8ZhRandom(code) \in Seq(Byte8) /\ Len(kcUtf8ZhRandom(code)) <= 4
    BY CharactersDecode DEF IsCharacter
  <2> QED BY ONLY <1>1, <2>1, Zenon
<1>3. parts \in Seq(Seq(Byte8)) /\ Len(parts) = n
  BY <1>1, <1>2
<1>4. \A k \in 1 .. n : Len(parts[k]) <= 4
  BY <1>1, <1>2
<1>5. kcNumAbcZhRandom(codes) = Flatten(parts)
  BY DEF kcNumAbcZhRandom
<1> HIDE DEF parts, n
<1>6. Len(Flatten(parts)) \in Nat /\ Len(Flatten(parts)) <= 4 * n
  BY ONLY <1>3, <1>4, FlattenRoom
<1> QED BY <1>1, <1>5, <1>6 DEF n, RandomRoom

-----------------------------------------------------------------------------
(***************************************************************************)
(* Base64.                                                                 *)
(***************************************************************************)
\* Each character is looked up as the value it stands for, and none is the padding.
LEMMA Base64Characters ==
  ASSUME NEW v \in 0 .. 63
  PROVE  base64Char(v) \in Byte8 /\ base64Char(v) # Pad /\ b64lookup(base64Char(v)) = v
<1>1. CASE v < 26
  BY <1>1, SMT DEF base64Char, b64lookup, Byte8, Pad, Upper, Lower, Digits
<1>2. CASE v \in 26 .. 51
  BY <1>2, SMT DEF base64Char, b64lookup, Byte8, Pad, Upper, Lower, Digits
<1>3. CASE v \in 52 .. 61
  BY <1>3, SMT DEF base64Char, b64lookup, Byte8, Pad, Upper, Lower, Digits
<1>4. CASE v = 62
  BY <1>4, SMT DEF base64Char, b64lookup, Byte8, Pad, Upper, Lower, Digits
<1>5. CASE v = 63
  BY <1>5, SMT DEF base64Char, b64lookup, Byte8, Pad, Upper, Lower, Digits
<1> QED BY <1>1, <1>2, <1>3, <1>4, <1>5

\* What the loop looks up is a value of six bits, or nothing.
LEMMA LookupType ==
  ASSUME NEW c \in Byte8
  PROVE  b64lookup(c) \in -1 .. 63
BY SMT DEF b64lookup, Byte8, Upper, Lower, Digits

DecodeState ==
  [ok : BOOLEAN, end : 0 .. 2, buf : Nat, pos : 0 .. 3, text : Seq(Byte8)]

\* The state of a loop that has not failed.
Decoding(end, buf, pos, text) ==
  [ok |-> TRUE, end |-> end, buf |-> buf, pos |-> pos, text |-> text]

\* The bytes of four characters are one to three.
LEMMA DecodedType ==
  ASSUME NEW buf \in Nat, NEW end \in 0 .. 2
  PROVE  /\ Decoded(buf, end) \in Seq(Byte8)
         /\ Len(Decoded(buf, end)) \in 1 .. 3
<1> DEFINE a == (buf \div 65536) % 256
           b == (buf \div 256) % 256
           c == buf % 256
           B == IF end = 0 \/ end > 1 THEN <<b>> ELSE <<>>
           C == IF end = 0 \/ end > 2 THEN <<c>> ELSE <<>>
<1>1. a \in Byte8 /\ b \in Byte8 /\ c \in Byte8
  BY SMT DEF Byte8
<1>2. Decoded(buf, end) = <<a>> \o B \o C
  BY DEF Decoded
<1> HIDE DEF a, b, c
<1>3. <<a>> \in Seq(Byte8) /\ Len(<<a>>) = 1
  BY <1>1, FewBytes
<1>4. B \in Seq(Byte8) /\ Len(B) \in 0 .. 1
  BY <1>1, FewBytes, EmptySeq
<1>5. C \in Seq(Byte8) /\ Len(C) \in 0 .. 1
  BY <1>1, FewBytes, EmptySeq
<1> HIDE DEF B, C
<1>6. <<a>> \o B \in Seq(Byte8) /\ Len(<<a>> \o B) = 1 + Len(B)
  BY <1>3, <1>4, ConcatBytes
<1>7. <<a>> \o B \o C \in Seq(Byte8) /\ Len(<<a>> \o B \o C) = 1 + Len(B) + Len(C)
  BY <1>5, <1>6, ConcatBytes
<1> QED BY ONLY <1>2, <1>4, <1>5, <1>7, SMTT(30)

\* What one turn of the loop reads, and what it may leave.
StepEnd(s, c) == IF c # Pad \/ s.end # 0 THEN s.end ELSE s.pos - 1
StepValue(c) == IF c = Pad THEN 0 ELSE b64lookup(c)
StepBuf(s, c) == s.buf * 64 + StepValue(c)
StepRefuses(s, c) == StepValue(c) < 0 \/ (c = Pad /\ s.end = 0 /\ s.pos < 2)
StepFails(s) == [s EXCEPT !.ok = FALSE]
StepStores(s, c) ==
  [ok |-> TRUE, end |-> StepEnd(s, c), buf |-> StepBuf(s, c), pos |-> s.pos + 1, text |-> s.text]
StepWrites(s, c) == Decoded(StepBuf(s, c), StepEnd(s, c))
StepCloses(s, c, dstlen) ==
  [ok |-> Len(s.text) + Len(StepWrites(s, c)) <= dstlen, end |-> StepEnd(s, c), buf |-> 0,
   pos |-> 0, text |-> s.text \o StepWrites(s, c)]

\* One turn of the loop is one of four.
LEMMA StepCases ==
  ASSUME NEW s, NEW c, NEW dstlen
  PROVE  \/ ~s.ok /\ DecodeStep(s, c, dstlen) = s
         \/ s.ok /\ StepRefuses(s, c) /\ DecodeStep(s, c, dstlen) = StepFails(s)
         \/ s.ok /\ ~StepRefuses(s, c) /\ s.pos < 3 /\ DecodeStep(s, c, dstlen) = StepStores(s, c)
         \/ /\ s.ok /\ ~StepRefuses(s, c) /\ ~(s.pos < 3)
            /\ DecodeStep(s, c, dstlen) = StepCloses(s, c, dstlen)
<1>1. ASSUME ~s.ok PROVE DecodeStep(s, c, dstlen) = s
  BY ONLY <1>1 DEF DecodeStep
<1>2. ASSUME s.ok, StepRefuses(s, c) PROVE DecodeStep(s, c, dstlen) = StepFails(s)
  BY ONLY <1>2 DEF DecodeStep, StepValue, StepRefuses, StepFails
<1>3. ASSUME s.ok, ~StepRefuses(s, c), s.pos < 3
      PROVE  DecodeStep(s, c, dstlen) = StepStores(s, c)
  BY ONLY <1>3 DEF DecodeStep, StepEnd, StepValue, StepBuf, StepRefuses, StepStores
<1>4. ASSUME s.ok, ~StepRefuses(s, c), ~(s.pos < 3)
      PROVE  DecodeStep(s, c, dstlen) = StepCloses(s, c, dstlen)
  BY ONLY <1>4 DEF DecodeStep, StepEnd, StepValue, StepBuf, StepRefuses, StepWrites, StepCloses
<1> QED BY ONLY <1>1, <1>2, <1>3, <1>4, Zenon

\* One turn of the loop keeps the ranges of its variables.
LEMMA DecodeStepType ==
  ASSUME NEW s \in DecodeState, NEW c \in Byte8, NEW dstlen \in Nat
  PROVE  DecodeStep(s, c, dstlen) \in DecodeState
<1> DEFINE end == IF c # Pad \/ s.end # 0 THEN s.end ELSE s.pos - 1
           b   == IF c = Pad THEN 0 ELSE b64lookup(c)
           buf == s.buf * 64 + b
           isRefused == b < 0 \/ (c = Pad /\ s.end = 0 /\ s.pos < 2)
           written == Decoded(buf, end)
           stored == [ok |-> TRUE, end |-> end, buf |-> buf, pos |-> s.pos + 1, text |-> s.text]
           group == [ok |-> Len(s.text) + Len(written) <= dstlen, end |-> end, buf |-> 0,
                     pos |-> 0, text |-> s.text \o written]
           failed == [s EXCEPT !.ok = FALSE]
<1>1. DecodeStep(s, c, dstlen) \in {s, failed}
        \/ (~isRefused /\ s.pos < 3 /\ DecodeStep(s, c, dstlen) = stored)
        \/ (~isRefused /\ ~(s.pos < 3) /\ DecodeStep(s, c, dstlen) = group)
  BY ONLY ZenonT(40) DEF DecodeStep
<1>2. /\ s.ok \in BOOLEAN /\ s.end \in 0 .. 2 /\ s.buf \in Nat /\ s.pos \in 0 .. 3
      /\ s.text \in Seq(Byte8)
  BY DEF DecodeState
<1>3. failed \in DecodeState
  BY DEF DecodeState
<1>4. b \in -1 .. 63
  BY LookupType
<1>5. ASSUME ~isRefused PROVE end \in 0 .. 2 /\ buf \in Nat
  <2>1. b \in 0 .. 63
    BY <1>4, <1>5
  <2>2. end \in 0 .. 2
    BY <1>2, <1>5
  <2> HIDE DEF b, end
  <2> QED BY ONLY <1>2, <2>1, <2>2, SMTT(30)
<1> HIDE DEF b, end, buf, isRefused, failed
<1>6. ASSUME ~isRefused, s.pos < 3 PROVE stored \in DecodeState
  <2>1. end \in 0 .. 2 /\ buf \in Nat /\ s.pos + 1 \in 0 .. 3
    BY <1>2, <1>5, <1>6
  <2> QED BY <1>2, <2>1 DEF DecodeState
<1>7. ASSUME ~isRefused PROVE group \in DecodeState
  <2>1. end \in 0 .. 2 /\ buf \in Nat
    BY <1>5, <1>7
  <2>2. written \in Seq(Byte8)
    BY <2>1, DecodedType
  <2>3. s.text \o written \in Seq(Byte8)
    BY <1>2, <2>2, ConcatBytes
  <2> HIDE DEF written
  <2> QED BY <2>1, <2>3 DEF DecodeState
<1> HIDE DEF stored, group
<1> QED BY <1>1, <1>3, <1>6, <1>7

\* The character c is not refused and gives these values of b and end.
Reads(s, c, b, end) ==
  /\ s.ok
  /\ b = (IF c = Pad THEN 0 ELSE b64lookup(c))
  /\ end = (IF c # Pad \/ s.end # 0 THEN s.end ELSE s.pos - 1)
  /\ ~(b < 0 \/ (c = Pad /\ s.end = 0 /\ s.pos < 2))

\* A character that is not the fourth of a group.
LEMMA CharacterIsRead ==
  ASSUME NEW s, NEW c, NEW dstlen, NEW b, NEW end, Reads(s, c, b, end), s.pos < 3
  PROVE  DecodeStep(s, c, dstlen) = Decoding(end, s.buf * 64 + b, s.pos + 1, s.text)
BY Zenon DEF DecodeStep, Decoding, Reads

\* The state behind the fourth one: the bytes of the group are written.
GroupWritten(text, buf, end, dstlen) ==
  [ok |-> Len(text) + Len(Decoded(buf, end)) <= dstlen, end |-> end, buf |-> 0, pos |-> 0,
   text |-> text \o Decoded(buf, end)]

\* The fourth character of a group closes it.
LEMMA FourthIsRead ==
  ASSUME NEW s, NEW c, NEW dstlen, NEW b, NEW end, Reads(s, c, b, end), ~(s.pos < 3)
  PROVE  DecodeStep(s, c, dstlen) = GroupWritten(s.text, s.buf * 64 + b, end, dstlen)
BY Zenon DEF DecodeStep, GroupWritten, Reads

\* The fields of a state.
LEMMA DecodingFields ==
  ASSUME NEW end, NEW buf, NEW pos, NEW text
  PROVE  LET s == Decoding(end, buf, pos, text)
         IN s.ok /\ s.end = end /\ s.buf = buf /\ s.pos = pos /\ s.text = text
BY DEF Decoding

\* A turn of the loop adds the value of a character.
DigitRead(end, buf, pos, text, v, dstlen) ==
  DecodeStep(Decoding(end, buf, pos, text), base64Char(v), dstlen)
    = Decoding(end, buf * 64 + v, pos + 1, text)

\* The first three characters of a group, when they have a value.
LEMMA DigitIsRead ==
  ASSUME NEW end \in 0 .. 2, NEW buf \in Nat, NEW pos \in 0 .. 2, NEW text \in Seq(Byte8),
         NEW v \in 0 .. 63, NEW dstlen \in Nat
  PROVE  DigitRead(end, buf, pos, text, v, dstlen)
<1> DEFINE c == base64Char(v)
           s == Decoding(end, buf, pos, text)
<1>1. c # Pad /\ b64lookup(c) = v
  BY Base64Characters
<1>2. s.ok /\ s.end = end /\ s.buf = buf /\ s.pos = pos /\ s.text = text
  BY DecodingFields
<1>3. ~(v < 0) /\ pos < 3
  OBVIOUS
<1> HIDE DEF c, s
<1>4. Reads(s, c, v, end)
  BY ONLY <1>1, <1>2, <1>3, Zenon DEF Reads
<1>5. DecodeStep(s, c, dstlen) = Decoding(end, s.buf * 64 + v, s.pos + 1, s.text)
  <2>1. s.pos < 3
    BY ONLY <1>2, <1>3, Zenon
  <2> QED BY ONLY <1>4, <2>1, CharacterIsRead
<1> QED BY ONLY <1>2, <1>5, Zenon DEF DigitRead, c, s

\* The padding in front of the last character.
LEMMA PaddingIsRead ==
  ASSUME NEW buf \in Nat, NEW text \in Seq(Byte8), NEW dstlen \in Nat
  PROVE  DecodeStep(Decoding(0, buf, 2, text), Pad, dstlen) = Decoding(1, buf * 64 + 0, 3, text)
<1> DEFINE s == Decoding(0, buf, 2, text)
<1>1. s.ok /\ s.end = 0 /\ s.buf = buf /\ s.pos = 2 /\ s.text = text
  BY DecodingFields
<1> HIDE DEF s
<1>2. ~(0 < 0) /\ ~(2 < 2) /\ 2 < 3 /\ 2 - 1 = 1 /\ 2 + 1 = 3
  OBVIOUS
<1>3. Reads(s, Pad, 0, 1)
  BY ONLY <1>1, <1>2, Zenon DEF Reads
<1>4. DecodeStep(s, Pad, dstlen) = Decoding(1, s.buf * 64 + 0, s.pos + 1, s.text)
  <2>1. s.pos < 3
    BY ONLY <1>1, <1>2, Zenon
  <2> QED BY ONLY <1>3, <2>1, CharacterIsRead
<1> QED BY ONLY <1>1, <1>2, <1>4, Zenon DEF s

\* The last character of a group: its value and what end becomes.
Last(end, c, v, last) ==
  \/ c = base64Char(v) /\ last = end
  \/ c = Pad /\ v = 0 /\ last = (IF end = 0 THEN 2 ELSE end)

GroupRead(end, buf, text, c, v, last, dstlen) ==
  DecodeStep(Decoding(end, buf, 3, text), c, dstlen)
    = Decoding(last, 0, 0, text \o Decoded(buf * 64 + v, last))

\* When there is room for the bytes, they are written.
LEMMA GroupIsRead ==
  ASSUME NEW end \in 0 .. 2, NEW buf \in Nat, NEW text \in Seq(Byte8), NEW dstlen \in Nat,
         NEW v \in 0 .. 63, NEW c, NEW last \in 0 .. 2, Last(end, c, v, last),
         Len(text) + Len(Decoded(buf * 64 + v, last)) <= dstlen
  PROVE  GroupRead(end, buf, text, c, v, last, dstlen)
<1> DEFINE s == Decoding(end, buf, 3, text)
<1>1. base64Char(v) # Pad /\ b64lookup(base64Char(v)) = v
  BY Base64Characters
<1>2. s.ok /\ s.end = end /\ s.buf = buf /\ s.pos = 3 /\ s.text = text
  BY DecodingFields
<1> HIDE DEF s
<1>3. ~(v < 0) /\ ~(3 < 3) /\ ~(3 < 2) /\ 3 - 1 = 2
  OBVIOUS
<1>4. Reads(s, c, v, last)
  <2>1. CASE c = base64Char(v) /\ last = end
    BY ONLY <1>1, <1>2, <1>3, <2>1, Zenon DEF Reads
  <2>2. CASE c = Pad /\ v = 0 /\ last = (IF end = 0 THEN 2 ELSE end)
    BY ONLY <1>2, <1>3, <2>2, Zenon DEF Reads
  <2> QED BY <2>1, <2>2 DEF Last
<1>5. DecodeStep(s, c, dstlen) = GroupWritten(s.text, s.buf * 64 + v, last, dstlen)
  <2>1. ~(s.pos < 3)
    BY ONLY <1>2, <1>3, Zenon
  <2> QED BY ONLY <1>4, <2>1, FourthIsRead
<1>6. DecodeStep(s, c, dstlen) = GroupWritten(text, buf * 64 + v, last, dstlen)
  BY ONLY <1>2, <1>5, Zenon
<1>7. (Len(text) + Len(Decoded(buf * 64 + v, last)) <= dstlen) = TRUE
  OBVIOUS
<1>8. GroupWritten(text, buf * 64 + v, last, dstlen)
        = Decoding(last, 0, 0, text \o Decoded(buf * 64 + v, last))
  BY ONLY <1>7 DEF Decoding, GroupWritten
<1> QED BY ONLY <1>6, <1>8, Zenon DEF GroupRead, s

\* The values of six bits of three bytes, and their bytes again.
LEMMA SextetsOfBytes ==
  ASSUME NEW a \in Byte8, NEW b \in Byte8, NEW c \in Byte8
  PROVE  LET v1 == a \div 4
             v2 == (a % 4) * 16 + (b \div 16)
             v3 == (b % 16) * 4 + (c \div 64)
             v4 == c % 64
         IN /\ v1 \in 0 .. 63 /\ v2 \in 0 .. 63 /\ v3 \in 0 .. 63 /\ v4 \in 0 .. 63
            /\ ((v1 * 64 + v2) * 64 + v3) * 64 + v4 = a * 65536 + b * 256 + c
<1> DEFINE v1 == a \div 4
           a2 == a % 4
           b1 == b \div 16
           b2 == b % 16
           c1 == c \div 64
           v4 == c % 64
<1>1. a \in 0 .. 255 /\ b \in 0 .. 255 /\ c \in 0 .. 255
  BY DEF Byte8
<1>2. v1 \in 0 .. 63 /\ a2 \in 0 .. 3 /\ a = 4 * v1 + a2
  BY <1>1, SMT
<1>3. b1 \in 0 .. 15 /\ b2 \in 0 .. 15 /\ b = 16 * b1 + b2
  BY <1>1, SMT
<1>4. c1 \in 0 .. 3 /\ v4 \in 0 .. 63 /\ c = 64 * c1 + v4
  BY <1>1, SMT
<1> HIDE DEF v1, a2, b1, b2, c1, v4
<1>5. a2 * 16 + b1 \in 0 .. 63 /\ b2 * 4 + c1 \in 0 .. 63
  BY <1>2, <1>3, <1>4
<1>6. ((v1 * 64 + (a2 * 16 + b1)) * 64 + (b2 * 4 + c1)) * 64 + v4 = a * 65536 + b * 256 + c
  BY <1>2, <1>3, <1>4
<1> QED BY <1>2, <1>4, <1>5, <1>6 DEF v1, a2, b1, b2, c1, v4

\* A group of one byte.
LEMMA OneByte ==
  ASSUME NEW group \in Seq(Byte8), Len(group) = 1
  PROVE  group = <<group[1]>> /\ group[1] \in Byte8
OBVIOUS

\* A group of two bytes.
LEMMA BytePair ==
  ASSUME NEW group \in Seq(Byte8), Len(group) = 2
  PROVE  group = <<group[1], group[2]>> /\ group[1] \in Byte8 /\ group[2] \in Byte8
OBVIOUS

\* A group of three bytes.
LEMMA ByteTriple ==
  ASSUME NEW group \in Seq(Byte8), Len(group) = 3
  PROVE  /\ group = <<group[1], group[2], group[3]>>
         /\ group[1] \in Byte8 /\ group[2] \in Byte8 /\ group[3] \in Byte8
<1> DEFINE a == group[1]
           b == group[2]
           c == group[3]
           t == <<a, b, c>>
<1>1. a \in Byte8 /\ b \in Byte8 /\ c \in Byte8
  <2>1. 1 \in 1 .. Len(group) /\ 2 \in 1 .. Len(group) /\ 3 \in 1 .. Len(group)
    OBVIOUS
  <2> QED BY ONLY group \in Seq(Byte8), <2>1, ElementOfSeq
<1> HIDE DEF a, b, c
<1>2. t \in Seq(Byte8) /\ Len(t) = 3
  BY <1>1, FewBytes
<1>3. t[1] = a /\ t[2] = b /\ t[3] = c
  OBVIOUS
<1> HIDE DEF t
<1>4. \A i \in 1 .. 3 : group[i] = t[i]
  <2>1. \A i \in 1 .. 3 : i = 1 \/ i = 2 \/ i = 3
    OBVIOUS
  <2> QED BY ONLY <1>3, <2>1, Zenon DEF a, b, c
<1>5. group = t
  BY <1>2, <1>4, SeqEqual
<1> QED BY <1>1, <1>5 DEF a, b, c, t

\* Bytes that are joined one by one.
LEMMA JoinedBytes ==
  ASSUME NEW a \in Byte8, NEW b \in Byte8, NEW c \in Byte8
  PROVE  /\ <<a>> \o <<>> \o <<>> = <<a>>
         /\ <<a>> \o <<b>> \o <<>> = <<a, b>>
         /\ <<a>> \o <<b>> \o <<c>> = <<a, b, c>>
<1> DEFINE e == <<>>
           x == <<a>>
           y == <<b>>
           z == <<c>>
           p == x \o y
           q == p \o z
<1>1. /\ e \in Seq(Byte8) /\ x \in Seq(Byte8) /\ y \in Seq(Byte8) /\ z \in Seq(Byte8)
      /\ Len(e) = 0 /\ Len(x) = 1 /\ Len(y) = 1 /\ Len(z) = 1
      /\ x[1] = a /\ y[1] = b /\ z[1] = c
  BY FewBytes, EmptySeq
<1>2. \A s \in Seq(Byte8) : s \o e = s
  OBVIOUS
<1> HIDE DEF e, x, y, z
<1>3. p \in Seq(Byte8) /\ Len(p) = 2 /\ p[1] = a /\ p[2] = b
  <2>1. p \in Seq(Byte8) /\ Len(p) = 1 + 1 /\ (\A i \in 1 .. 1 : p[i] = x[i])
          /\ \A i \in 1 .. 1 : p[1 + i] = y[i]
    BY <1>1, ConcatBytes
  <2> QED BY <1>1, <2>1
<1> HIDE DEF p
<1>4. q \in Seq(Byte8) /\ Len(q) = 3 /\ q[1] = a /\ q[2] = b /\ q[3] = c
  <2>1. /\ q \in Seq(Byte8) /\ Len(q) = Len(p) + Len(z)
        /\ \A i \in 1 .. Len(p) : q[i] = p[i]
        /\ \A i \in 1 .. Len(z) : q[Len(p) + i] = z[i]
    BY ONLY <1>1, <1>3, ConcatBytes, Zenon
  <2>2. 1 \in 1 .. 2 /\ 2 \in 1 .. 2 /\ 1 \in 1 .. 1 /\ 2 + 1 = 3
    OBVIOUS
  <2> QED BY ONLY <1>1, <1>3, <2>1, <2>2
<1> HIDE DEF q
<1>5. p = <<a, b>> /\ q = <<a, b, c>>
  <2>2. p = <<p[1], p[2]>>
    BY ONLY <1>3, BytePair, Zenon
  <2>3. q = <<q[1], q[2], q[3]>>
    BY ONLY <1>4, ByteTriple, Zenon
  <2> QED BY ONLY <1>3, <1>4, <2>2, <2>3, Zenon
<1>6. x \o e = x /\ p \o e = p
  BY <1>1, <1>2, <1>3
<1> QED BY ONLY <1>5, <1>6, Zenon DEF e, x, y, z, p, q

\* The bytes of a buffer.
LEMMA DecodedBytes ==
  ASSUME NEW a \in Byte8, NEW b \in Byte8, NEW c \in Byte8,
         NEW buf, buf = a * 65536 + b * 256 + c
  PROVE  /\ Decoded(buf, 0) = <<a, b, c>>
         /\ Decoded(buf, 1) = <<a>>
         /\ Decoded(buf, 2) = <<a, b>>
<1> DEFINE x == (buf \div 65536) % 256
           y == (buf \div 256) % 256
           z == buf % 256
<1>1. a \in 0 .. 255 /\ b \in 0 .. 255 /\ c \in 0 .. 255
  BY DEF Byte8
<1>2. x = a /\ y = b /\ z = c
  <2>1. buf \div 256 = a * 256 + b /\ buf % 256 = c
    BY <1>1, SMT
  <2>2. (a * 256 + b) % 256 = b
    BY <1>1, SMT
  <2>3. buf \div 65536 = a /\ a % 256 = a
    BY <1>1, SMT
  <2> QED BY <2>1, <2>2, <2>3
<1> DEFINE B(end) == IF end = 0 \/ end > 1 THEN <<y>> ELSE <<>>
           C(end) == IF end = 0 \/ end > 2 THEN <<z>> ELSE <<>>
<1>3. \A end : Decoded(buf, end) = <<x>> \o B(end) \o C(end)
  BY DEF Decoded
<1>4. B(0) = <<y>> /\ C(0) = <<z>> /\ B(1) = <<>> /\ C(1) = <<>> /\ B(2) = <<y>> /\ C(2) = <<>>
  OBVIOUS
<1> HIDE DEF x, y, z, B, C
<1>5. /\ Decoded(buf, 0) = <<a>> \o <<b>> \o <<c>>
      /\ Decoded(buf, 1) = <<a>> \o <<>> \o <<>>
      /\ Decoded(buf, 2) = <<a>> \o <<b>> \o <<>>
  BY ONLY <1>2, <1>3, <1>4, Zenon
<1> QED BY ONLY <1>5, JoinedBytes, Zenon

\* Four turns of the loop.
FourSteps(s, e, dstlen) ==
  DecodeStep(DecodeStep(DecodeStep(DecodeStep(s, e[1], dstlen), e[2], dstlen), e[3], dstlen),
             e[4], dstlen)

\* A group's bytes, with zeros behind them.
ByteOf(group, k) == IF k <= Len(group) THEN group[k] ELSE 0

\* The four values of a group.
Sextet1(group) == ByteOf(group, 1) \div 4
Sextet2(group) == (ByteOf(group, 1) % 4) * 16 + (ByteOf(group, 2) \div 16)
Sextet3(group) == (ByteOf(group, 2) % 16) * 4 + (ByteOf(group, 3) \div 64)
Sextet4(group) == ByteOf(group, 3) % 64

\* What is written for a group.
LEMMA EncodedGroup ==
  ASSUME NEW group \in Seq(Byte8), Len(group) \in 1 .. 3
  PROVE  LET e == Encoded(group)
         IN /\ e \in Seq(Byte8) /\ Len(e) = 4
            /\ e[1] = base64Char(Sextet1(group)) /\ e[2] = base64Char(Sextet2(group))
            /\ e[3] = (IF Len(group) = 1 THEN Pad ELSE base64Char(Sextet3(group)))
            /\ e[4] = (IF Len(group) < 3 THEN Pad ELSE base64Char(Sextet4(group)))
            /\ Sextet1(group) \in 0 .. 63 /\ Sextet2(group) \in 0 .. 63
            /\ Sextet3(group) \in 0 .. 63 /\ Sextet4(group) \in 0 .. 63
<1> DEFINE c1 == base64Char(Sextet1(group))
           c2 == base64Char(Sextet2(group))
           c3 == IF Len(group) = 1 THEN Pad ELSE base64Char(Sextet3(group))
           c4 == IF Len(group) < 3 THEN Pad ELSE base64Char(Sextet4(group))
<1>1. \A k \in 1 .. 3 : ByteOf(group, k) \in Byte8
  <2>1. ASSUME NEW k \in 1 .. 3 PROVE ByteOf(group, k) \in Byte8
    <3>1. CASE k <= Len(group)
      <4>1. k \in 1 .. Len(group)
        BY <3>1
      <4> QED BY <3>1, <4>1, ElementOfSeq DEF ByteOf
    <3>2. CASE ~(k <= Len(group))
      BY <3>2 DEF ByteOf, Byte8
    <3> QED BY <3>1, <3>2
  <2> QED BY <2>1
<1>2. /\ Sextet1(group) \in 0 .. 63 /\ Sextet2(group) \in 0 .. 63
      /\ Sextet3(group) \in 0 .. 63 /\ Sextet4(group) \in 0 .. 63
  <2>1. ByteOf(group, 1) \in Byte8 /\ ByteOf(group, 2) \in Byte8 /\ ByteOf(group, 3) \in Byte8
    BY <1>1
  <2> QED BY ONLY <2>1, SextetsOfBytes DEF Sextet1, Sextet2, Sextet3, Sextet4
<1>3. Encoded(group) = <<c1, c2, c3, c4>>
  BY Zenon DEF Encoded, ByteOf, Sextet1, Sextet2, Sextet3, Sextet4
<1>4. c1 \in Byte8 /\ c2 \in Byte8 /\ c3 \in Byte8 /\ c4 \in Byte8
  <2>1. Pad \in Byte8
    BY DEF Pad, Byte8
  <2> QED BY <1>2, <2>1, Base64Characters
<1> HIDE DEF c1, c2, c3, c4
<1>5. <<c1, c2, c3, c4>> \in Seq(Byte8) /\ Len(<<c1, c2, c3, c4>>) = 4
  BY <1>4, FewBytes
<1>6. <<c1, c2, c3, c4>>[1] = c1 /\ <<c1, c2, c3, c4>>[2] = c2
        /\ <<c1, c2, c3, c4>>[3] = c3 /\ <<c1, c2, c3, c4>>[4] = c4
  OBVIOUS
<1> QED BY ONLY <1>2, <1>3, <1>5, <1>6, Zenon DEF c1, c2, c3, c4

\* The buffer behind the fourth character holds the bytes, zeros for those not there.
LEMMA GroupBuffer ==
  ASSUME NEW group \in Seq(Byte8), Len(group) \in 1 .. 3, NEW end \in 0 .. 2,
         end = (IF Len(group) = 3 THEN 0 ELSE Len(group))
  PROVE  /\ Decoded(((Sextet1(group) * 64 + Sextet2(group)) * 64 + Sextet3(group)) * 64
                      + Sextet4(group), end) = group
         /\ Len(group) = 1 => Sextet3(group) = 0 /\ Sextet4(group) = 0
         /\ Len(group) = 2 => Sextet4(group) = 0
<1> DEFINE a == ByteOf(group, 1)
           b == ByteOf(group, 2)
           c == ByteOf(group, 3)
           buf == ((Sextet1(group) * 64 + Sextet2(group)) * 64 + Sextet3(group)) * 64 + Sextet4(group)
<1>1. 0 \in Byte8 /\ 0 % 16 = 0 /\ 0 \div 64 = 0 /\ 0 % 64 = 0 /\ 0 * 4 + 0 = 0
  BY SMT DEF Byte8
<1>2. ASSUME a \in Byte8, b \in Byte8, c \in Byte8
      PROVE  Decoded(buf, 0) = <<a, b, c>> /\ Decoded(buf, 1) = <<a>> /\ Decoded(buf, 2) = <<a, b>>
  <2>1. buf = a * 65536 + b * 256 + c
    BY ONLY <1>2, SextetsOfBytes DEF Sextet1, Sextet2, Sextet3, Sextet4
  <2> HIDE DEF a, b, c, buf
  <2> QED BY ONLY <1>2, <2>1, DecodedBytes
<1> HIDE DEF buf
<1>3. CASE Len(group) = 1
  <2>1. group = <<group[1]>> /\ group[1] \in Byte8
    BY ONLY group \in Seq(Byte8), <1>3, OneByte
  <2>2. a = group[1] /\ b = 0 /\ c = 0
    BY <1>3 DEF ByteOf
  <2>3. Sextet3(group) = 0 /\ Sextet4(group) = 0
    BY ONLY <1>1, <2>2, Zenon DEF Sextet3, Sextet4
  <2>4. end = 1
    BY <1>3
  <2> HIDE DEF a, b, c
  <2>5. Decoded(buf, end) = group
    BY ONLY <1>1, <1>2, <2>1, <2>2, <2>4, Zenon
  <2> QED BY <1>3, <2>3, <2>5 DEF buf
<1>4. CASE Len(group) = 2
  <2>1. group = <<group[1], group[2]>> /\ group[1] \in Byte8 /\ group[2] \in Byte8
    BY ONLY group \in Seq(Byte8), <1>4, BytePair
  <2>2. a = group[1] /\ b = group[2] /\ c = 0
    BY <1>4 DEF ByteOf
  <2>3. Sextet4(group) = 0
    BY ONLY <1>1, <2>2, Zenon DEF Sextet4
  <2>4. end = 2
    BY <1>4
  <2> HIDE DEF a, b, c
  <2>5. Decoded(buf, end) = group
    BY ONLY <1>1, <1>2, <2>1, <2>2, <2>4, Zenon
  <2> QED BY <1>4, <2>3, <2>5 DEF buf
<1>5. CASE Len(group) = 3
  <2>1. /\ group = <<group[1], group[2], group[3]>>
        /\ group[1] \in Byte8 /\ group[2] \in Byte8 /\ group[3] \in Byte8
    BY ONLY group \in Seq(Byte8), <1>5, ByteTriple
  <2>2. a = group[1] /\ b = group[2] /\ c = group[3]
    BY <1>5 DEF ByteOf
  <2>3. end = 0
    BY <1>5
  <2> HIDE DEF a, b, c
  <2>4. Decoded(buf, end) = group
    BY ONLY <1>2, <2>1, <2>2, <2>3, Zenon
  <2> QED BY <1>5, <2>4 DEF buf
<1>6. Len(group) = 1 \/ Len(group) = 2 \/ Len(group) = 3
  OBVIOUS
<1> QED BY <1>3, <1>4, <1>5, <1>6

\* Four turns of the loop read a group, and write its bytes.
LEMMA GroupComesBack ==
  ASSUME NEW group \in Seq(Byte8), Len(group) \in 1 .. 3, NEW text \in Seq(Byte8),
         NEW dstlen \in Nat, Len(text) + Len(group) <= dstlen
  PROVE  FourSteps(Decoding(0, 0, 0, text), Encoded(group), dstlen)
           = Decoding(IF Len(group) = 3 THEN 0 ELSE Len(group), 0, 0, text \o group)
<1> DEFINE n == Len(group)
           end == IF n = 3 THEN 0 ELSE n
           v1 == Sextet1(group)
           v2 == Sextet2(group)
           v3 == Sextet3(group)
           v4 == Sextet4(group)
           e == Encoded(group)
           s0 == Decoding(0, 0, 0, text)
           s1 == DecodeStep(s0, e[1], dstlen)
           s2 == DecodeStep(s1, e[2], dstlen)
           s3 == DecodeStep(s2, e[3], dstlen)
           s4 == DecodeStep(s3, e[4], dstlen)
           b3 == (v1 * 64 + v2) * 64 + v3
           buf == b3 * 64 + v4
<1>1. /\ e[1] = base64Char(v1) /\ e[2] = base64Char(v2)
      /\ e[3] = (IF n = 1 THEN Pad ELSE base64Char(v3))
      /\ e[4] = (IF n < 3 THEN Pad ELSE base64Char(v4))
      /\ v1 \in 0 .. 63 /\ v2 \in 0 .. 63 /\ v3 \in 0 .. 63 /\ v4 \in 0 .. 63
  BY EncodedGroup
<1>2. end \in 0 .. 2
  OBVIOUS
<1>3. Decoded(buf, end) = group /\ (n = 1 => v3 = 0 /\ v4 = 0) /\ (n = 2 => v4 = 0)
  <2>1. end = (IF Len(group) = 3 THEN 0 ELSE Len(group))
    OBVIOUS
  <2> QED BY ONLY group \in Seq(Byte8), Len(group) \in 1 .. 3, <1>2, <2>1, GroupBuffer, ZenonT(40)
<1>4. n = 1 \/ n = 2 \/ n = 3
  OBVIOUS
<1>0. text \in Seq(Byte8) /\ dstlen \in Nat /\ 0 \in Nat /\ 0 \in 0 .. 2 /\ 1 \in 0 .. 2 /\ 2 \in 0 .. 2
  OBVIOUS
<1> HIDE DEF n, v1, v2, v3, v4, e
<1>5. s1 = Decoding(0, v1, 1, text)
  <2>1. v1 \in 0 .. 63 /\ e[1] = base64Char(v1)
    BY <1>1
  <2>2. DigitRead(0, 0, 0, text, v1, dstlen)
    BY ONLY <1>0, <2>1, DigitIsRead
  <2>3. 0 * 64 + v1 = v1 /\ 0 + 1 = 1
    BY <1>1
  <2> QED BY ONLY <2>1, <2>2, <2>3, Zenon DEF DigitRead
<1> HIDE DEF s1
<1>6. s2 = Decoding(0, v1 * 64 + v2, 2, text) /\ v1 * 64 + v2 \in Nat
  <2>1. v2 \in 0 .. 63 /\ e[2] = base64Char(v2) /\ v1 \in Nat /\ 1 + 1 = 2
    <3>1. v1 \in 0 .. 63 => v1 \in Nat
      OBVIOUS
    <3>2. 1 + 1 = 2
      OBVIOUS
    <3> QED BY ONLY <1>1, <3>1, <3>2, Zenon
  <2>2. DigitRead(0, v1, 1, text, v2, dstlen)
    BY ONLY <1>0, <2>1, DigitIsRead
  <2>3. v1 * 64 + v2 \in Nat
    BY <1>1
  <2> QED BY ONLY <1>5, <2>1, <2>2, <2>3, Zenon DEF DigitRead
<1> HIDE DEF s2
<1>7. b3 \in Nat /\ (v3 = 0 => b3 = (v1 * 64 + v2) * 64 + 0)
  BY <1>1
<1>8. s3 = Decoding(IF n = 1 THEN 1 ELSE 0, b3, 3, text)
  <2>1. CASE n = 1
    <3>1. e[3] = Pad /\ v3 = 0
      BY <1>1, <1>3, <2>1
    <3>2. s3 = Decoding(1, (v1 * 64 + v2) * 64 + 0, 3, text)
      BY <1>6, <3>1, PaddingIsRead
    <3> QED BY ONLY <1>7, <2>1, <3>1, <3>2, Zenon
  <2>2. CASE n # 1
    <3>1. e[3] = base64Char(v3)
      BY <1>1, <2>2
    <3>2. v3 \in 0 .. 63 /\ v1 * 64 + v2 \in Nat /\ 2 + 1 = 3
      BY <1>1, <1>6
    <3>3. DigitRead(0, v1 * 64 + v2, 2, text, v3, dstlen)
      BY ONLY <1>0, <3>2, DigitIsRead
    <3> QED BY ONLY <1>6, <2>2, <3>1, <3>2, <3>3, Zenon DEF DigitRead
  <2> QED BY <2>1, <2>2
<1> HIDE DEF s3, b3
<1>9. s4 = Decoding(end, 0, 0, text \o Decoded(buf, end))
  <2> DEFINE last == IF n = 1 THEN 1 ELSE 0
  <2>1. last \in 0 .. 2
    OBVIOUS
  <2>2. Last(last, e[4], v4, end)
    <3>1. CASE n = 1
      BY ONLY <1>1, <1>3, <3>1 DEF Last
    <3>2. CASE n = 2
      BY ONLY <1>1, <1>3, <3>2 DEF Last
    <3>3. CASE n = 3
      BY ONLY <1>1, <1>3, <3>3 DEF Last
    <3> QED BY <1>4, <3>1, <3>2, <3>3
  <2>3. Len(text) + Len(Decoded(buf, end)) <= dstlen
    BY <1>3 DEF n
  <2> HIDE DEF last, end
  <2>4. s3 = Decoding(last, b3, 3, text)
    BY ONLY <1>8, Zenon DEF last
  <2>5. v4 \in 0 .. 63 /\ b3 \in Nat
    BY <1>1, <1>7
  <2>6. GroupRead(last, b3, text, e[4], v4, end, dstlen)
    BY ONLY <1>0, <1>2, <2>1, <2>2, <2>3, <2>5, GroupIsRead
  <2> QED BY ONLY <2>4, <2>6, Zenon DEF GroupRead
<1>10. s4 = Decoding(end, 0, 0, text \o group)
  BY ONLY <1>3, <1>9, Zenon
<1> QED BY ONLY <1>10, Zenon DEF FourSteps, n, e, s1, s2, s3

\* The states of the loop, one for each character read.
LEMMA DecodeRuns ==
  ASSUME NEW src \in Seq(Byte8), NEW dstlen \in Nat
  PROVE  LET r == DecodeStates(src, dstlen)
         IN /\ r \in [0 .. Len(src) -> DecodeState]
            /\ r[0] = Decoding(0, 0, 0, <<>>)
            /\ \A k \in 1 .. Len(src) : r[k] = DecodeStep(r[k - 1], src[k], dstlen)
<1> DEFINE n == Len(src)
           T == DecodeState
           first == Decoding(0, 0, 0, <<>>)
           g == [k \in 1 .. n |-> [s \in T |-> DecodeStep(s, src[k], dstlen)]]
           r == DecodeStates(src, dstlen)
<1>1. n \in Nat /\ \A k \in 1 .. n : src[k] \in Byte8
  BY ElementOfSeq, LenProperties
<1>2. first \in T
  <2>1. <<>> \in Seq(Byte8)
    BY EmptySeq
  <2> QED BY <2>1 DEF Decoding, DecodeState
<1>3. \A k \in 1 .. n : \A s \in T : DecodeStep(s, src[k], dstlen) \in T
  BY <1>1, DecodeStepType
<1> HIDE DEF n, T
<1>4. g \in [1 .. n -> [T -> T]]
      /\ \A k \in 1 .. n : \A s \in T : g[k][s] = DecodeStep(s, src[k], dstlen)
  BY <1>3
<1> HIDE DEF g, first, r
<1>5. PICK f \in [0 .. n -> T] : f[0] = first /\ \A k \in 1 .. n : f[k] = g[k][f[k - 1]]
  <2>1. CanRecurse(n, T, first, g)
    BY ONLY <1>1, <1>2, <1>4, Recursion, Zenon
  <2> QED BY <2>1 DEF CanRecurse, Recursive
<1>6. f = [k \in 0 .. n |-> IF k = 0 THEN first ELSE DecodeStep(f[k - 1], src[k], dstlen)]
  <2>1. \A k \in 0 .. n : k # 0 => k \in 1 .. n
    BY <1>1
  <2>2. \A k \in 1 .. n : k - 1 \in 0 .. n
    BY <1>1
  <2>3. \A k \in 0 .. n : f[k] = IF k = 0 THEN first ELSE DecodeStep(f[k - 1], src[k], dstlen)
    BY <1>4, <1>5, <2>1, <2>2
  <2> QED BY <1>5, <2>3
<1>7. r = [k \in 0 .. n |-> IF k = 0 THEN first ELSE DecodeStep(r[k - 1], src[k], dstlen)]
  BY <1>6, Zenon DEF DecodeStates, Decoding, n, r, first
<1>8. 0 \in 0 .. n /\ \A k \in 1 .. n : k \in 0 .. n /\ k # 0 /\ k - 1 \in 0 .. n
  BY <1>1
<1>9. r[0] = first /\ \A k \in 1 .. n : r[k] = DecodeStep(r[k - 1], src[k], dstlen)
  BY ONLY <1>7, <1>8, Zenon
<1> DEFINE S == {k \in 0 .. n : r[k] \in T}
<1>10. 0 \in S
  BY <1>2, <1>8, <1>9
<1>11. ASSUME NEW k \in 1 .. n, k - 1 \in S PROVE k \in S
  BY <1>3, <1>8, <1>9, <1>11
<1> HIDE DEF S
<1>12. \A k \in 0 .. n : k \in S
  BY <1>1, <1>10, <1>11, BoundedInduction
<1>13. r \in [0 .. n -> T]
  <2>1. \A k \in 0 .. n : r[k] \in T
    BY <1>12 DEF S
  <2> QED BY <1>7, <2>1
<1> QED BY ONLY <1>9, <1>13, Zenon DEF n, T, first, r

\* The four characters behind g groups, and the loop's run over them.
LiesBehind(src, g, e) == 4 * g + 4 <= Len(src) /\ \A i \in 1 .. 4 : src[4 * g + i] = e[i]
RunBehind(src, g, e, dstlen) ==
  DecodeStates(src, dstlen)[4 * g + 4] = FourSteps(DecodeStates(src, dstlen)[4 * g], e, dstlen)

\* Four turns from the begin of a group.
LEMMA DecodeGroup ==
  ASSUME NEW src \in Seq(Byte8), NEW dstlen \in Nat, NEW g \in Nat, NEW e, LiesBehind(src, g, e)
  PROVE  RunBehind(src, g, e, dstlen)
<1> USE DEF LiesBehind
<1> DEFINE r == DecodeStates(src, dstlen)
           n == Len(src)
<1>1. n \in Nat
  BY LenProperties
<1>2. \A k \in 1 .. n : r[k] = DecodeStep(r[k - 1], src[k], dstlen)
  BY DecodeRuns
<1> HIDE DEF r, n
<1>3. ASSUME NEW i \in 1 .. 4
      PROVE  r[4 * g + i] = DecodeStep(r[4 * g + (i - 1)], e[i], dstlen)
  <2>1. 4 * g + i \in 1 .. n /\ (4 * g + i) - 1 = 4 * g + (i - 1)
    BY <1>1 DEF n
  <2>2. r[4 * g + i] = DecodeStep(r[(4 * g + i) - 1], src[4 * g + i], dstlen)
    BY ONLY <1>2, <2>1, Zenon
  <2>3. \A j \in 1 .. 4 : src[4 * g + j] = e[j]
    OBVIOUS
  <2> QED BY ONLY <2>1, <2>2, <2>3, Zenon, i \in 1 .. 4
<1>4. /\ 1 \in 1 .. 4 /\ 2 \in 1 .. 4 /\ 3 \in 1 .. 4 /\ 4 \in 1 .. 4
      /\ 1 - 1 = 0 /\ 2 - 1 = 1 /\ 3 - 1 = 2 /\ 4 - 1 = 3 /\ 4 * g + 0 = 4 * g
  OBVIOUS
<1>5. /\ r[4 * g + 1] = DecodeStep(r[4 * g], e[1], dstlen)
      /\ r[4 * g + 2] = DecodeStep(r[4 * g + 1], e[2], dstlen)
      /\ r[4 * g + 3] = DecodeStep(r[4 * g + 2], e[3], dstlen)
      /\ r[4 * g + 4] = DecodeStep(r[4 * g + 3], e[4], dstlen)
  BY ONLY <1>3, <1>4, Zenon
<1> QED BY ONLY <1>5, Zenon DEF FourSteps, RunBehind, r

\* Two parts that follow each other.
LEMMA PartsFollow ==
  ASSUME NEW s \in Seq(Byte8), NEW a \in Nat, NEW b \in Nat, a <= b, b <= Len(s)
  PROVE  SubSeq(s, 1, a) \o SubSeq(s, a + 1, b) = SubSeq(s, 1, b)
<1> DEFINE x == SubSeq(s, 1, a)
           y == SubSeq(s, a + 1, b)
           z == SubSeq(s, 1, b)
<1>1. Len(s) \in Nat /\ 1 \in Nat \ {0} /\ a + 1 \in Nat \ {0} /\ 1 <= a + 1 /\ a <= Len(s)
      /\ a + 1 <= b + 1 /\ 1 <= b + 1 /\ a + 1 - 1 = a /\ b + 1 - (a + 1) = b - a /\ b + 1 - 1 = b
  BY LenProperties
<1>2. x \in Seq(Byte8) /\ Len(x) = a /\ \A i \in 1 .. a : x[i] = s[1 + i - 1]
  BY ONLY s \in Seq(Byte8), a \in Nat, <1>1, SubBytes
<1>3. y \in Seq(Byte8) /\ Len(y) = b - a /\ \A i \in 1 .. b - a : y[i] = s[a + 1 + i - 1]
  BY ONLY s \in Seq(Byte8), a \in Nat, b \in Nat, b <= Len(s), <1>1, SubBytes
<1>4. z \in Seq(Byte8) /\ Len(z) = b /\ \A i \in 1 .. b : z[i] = s[1 + i - 1]
  BY ONLY s \in Seq(Byte8), b \in Nat, b <= Len(s), <1>1, SubBytes
<1> HIDE DEF x, y, z
<1>5. /\ x \o y \in Seq(Byte8) /\ Len(x \o y) = Len(x) + Len(y)
      /\ \A i \in 1 .. Len(x) : (x \o y)[i] = x[i]
      /\ \A i \in 1 .. Len(y) : (x \o y)[Len(x) + i] = y[i]
  BY ONLY <1>2, <1>3, ConcatBytes, Zenon
<1>6. Len(x \o y) = b
  BY <1>2, <1>3, <1>5
<1>7. ASSUME NEW i \in 1 .. b PROVE (x \o y)[i] = z[i]
  <2>1. z[i] = s[i]
    <3>1. 1 + i - 1 = i
      OBVIOUS
    <3> QED BY ONLY i \in 1 .. b, <1>4, <3>1, Zenon
  <2>2. CASE i <= a
    <3>1. i \in 1 .. a /\ 1 + i - 1 = i
      BY <2>2
    <3> QED BY ONLY <1>2, <1>5, <2>1, <3>1, Zenon
  <2>3. CASE ~(i <= a)
    <3> DEFINE j == i - a
    <3>1. j \in 1 .. b - a /\ a + 1 + j - 1 = i /\ a + j = i
      BY <2>3
    <3> HIDE DEF j
    <3>2. j \in 1 .. Len(y) /\ Len(x) + j = i
      BY ONLY <1>2, <1>3, <3>1
    <3>3. (x \o y)[i] = y[j]
      BY ONLY <1>5, <3>2, Zenon
    <3>4. y[j] = s[i]
      BY ONLY <1>3, <3>1, Zenon
    <3> QED BY ONLY <2>1, <3>3, <3>4, Zenon
  <2> QED BY <2>2, <2>3
<1> QED BY ONLY <1>4, <1>5, <1>6, <1>7, SeqEqual DEF x, y, z

\* pg_b64_decode reads what pg_b64_encode has written, each with the room that its
\* function tells.
THEOREM Base64ComesBack ==
  ASSUME NEW bytes \in Seq(Byte8)
  PROVE  LET text == pg_b64_encode(bytes, pg_b64_enc_len(Len(bytes))).text
         IN pg_b64_decode(text, pg_b64_dec_len(Len(text))) = KC_OK(bytes)
<1> DEFINE n == Len(bytes)
           G == (n + 2) \div 3
           end(g) == IF 3 * g > n THEN n ELSE 3 * g
           group(g) == SubSeq(bytes, 3 * g - 2, end(g))
           parts == [g \in 1 .. G |-> Encoded(group(g))]
           text == Flatten(parts)
           dstlen == pg_b64_dec_len(Len(text))
           r == DecodeStates(text, dstlen)
           done(g) == SubSeq(bytes, 1, end(g))
           last(g) == IF 3 * g > n THEN n - 3 * (g - 1) ELSE 0
           S == {g \in 0 .. G : r[4 * g] = Decoding(last(g), 0, 0, done(g))}
<1>1. n \in Nat
  BY LenProperties
<1>2. G \in Nat /\ n <= 3 * G /\ 3 * G < n + 3 /\ 4 * G <= pg_b64_enc_len(n)
  BY <1>1, SMT DEF pg_b64_enc_len
<1>3. pg_b64_encode(bytes, pg_b64_enc_len(n)).text = text
  <2>1. ~(4 * G > pg_b64_enc_len(n))
    <3>1. pg_b64_enc_len(n) \in Int
      BY <1>1, SMT DEF pg_b64_enc_len
    <3> QED BY <1>2, <3>1
  <2>2. pg_b64_encode(bytes, pg_b64_enc_len(n)) = KC_OK(text)
    BY ONLY <2>1, Zenon DEF pg_b64_encode
  <2>3. \A t : KC_OK(t).text = t
    BY DEF KC_OK
  <2> QED BY ONLY <2>2, <2>3, Zenon
<1> HIDE DEF n, G
<1>4. ASSUME NEW g \in 1 .. G
      PROVE  /\ 3 * g - 2 \in Nat \ {0} /\ end(g) \in Nat /\ 3 * g - 2 <= end(g) + 1
             /\ end(g) <= n /\ end(g) + 1 - (3 * g - 2) \in 1 .. 3
             /\ end(g - 1) = 3 * (g - 1) /\ end(g - 1) + 1 = 3 * g - 2 /\ last(g - 1) = 0
             /\ end(g - 1) <= end(g) /\ end(g - 1) \in Nat
             /\ last(g) = (IF end(g) + 1 - (3 * g - 2) = 3 THEN 0 ELSE end(g) + 1 - (3 * g - 2))
             /\ end(g) <= 3 * G
  <2>1. 3 * g - 2 <= n /\ ~(3 * (g - 1) > n)
    BY <1>1, <1>2
  <2>2. end(g - 1) = 3 * (g - 1) /\ last(g - 1) = 0
    BY ONLY <2>1, Zenon
  <2>3. CASE 3 * g > n
    <3>1. end(g) = n /\ last(g) = n - 3 * (g - 1)
      BY ONLY <2>3, Zenon
    <3> HIDE DEF end, last
    <3> QED BY <1>1, <1>2, <2>1, <2>2, <2>3, <3>1
  <2>4. CASE ~(3 * g > n)
    <3>1. end(g) = 3 * g /\ last(g) = 0
      BY ONLY <2>4, Zenon
    <3> HIDE DEF end, last
    <3> QED BY <1>1, <1>2, <2>1, <2>2, <2>4, <3>1
  <2> QED BY <2>3, <2>4
<1> HIDE DEF end, last
<1>5. ASSUME NEW g \in 1 .. G
      PROVE  /\ group(g) \in Seq(Byte8) /\ Len(group(g)) = end(g) + 1 - (3 * g - 2)
             /\ Len(group(g)) \in 1 .. 3
  BY <1>4, SubBytes, ZenonT(40) DEF n
<1> HIDE DEF group
<1>6. parts \in Seq(Seq(Byte8)) /\ Len(parts) = G
      /\ \A g \in 1 .. G : parts[g] = Encoded(group(g)) /\ Len(parts[g]) = 4
  BY <1>2, <1>5, EncodedGroup
<1>7. /\ text \in Seq(Byte8) /\ Len(text) = 4 * G
      /\ \A g \in 1 .. G, i \in 1 .. 4 : text[4 * (g - 1) + i] = Encoded(group(g))[i]
  <2> HIDE DEF parts
  <2>1. 4 \in {2, 4} /\ \A k \in 1 .. Len(parts) : Len(parts[k]) = 4
    BY <1>6
  <2>2. /\ Flatten(parts) \in Seq(Byte8) /\ Len(Flatten(parts)) = 4 * Len(parts)
        /\ \A k \in 1 .. Len(parts), i \in 1 .. 4 : Flatten(parts)[4 * (k - 1) + i] = parts[k][i]
    BY ONLY <1>6, <2>1, FlattenWidth
  <2> QED BY <1>6, <2>2
<1> HIDE DEF parts, text
<1>8. dstlen = 3 * G
  BY <1>2, <1>7, SMT DEF pg_b64_dec_len
<1> HIDE DEF dstlen
<1>9. /\ r \in [0 .. Len(text) -> DecodeState] /\ r[0] = Decoding(0, 0, 0, <<>>)
      /\ dstlen \in Nat
  <2>1. dstlen \in Nat
    BY <1>2, <1>8
  <2> QED BY ONLY <1>7, <2>1, DecodeRuns
<1> HIDE DEF r
<1>10. 0 \in S
  <2>1. ~(3 * 0 > n) /\ 3 * 0 = 0 /\ 4 * 0 = 0 /\ 0 \in 0 .. G
    BY <1>1, <1>2
  <2>2. end(0) = 0 /\ last(0) = 0
    BY ONLY <2>1, Zenon DEF end, last
  <2>3. SubSeq(bytes, 1, 0) = <<>>
    OBVIOUS
  <2> QED BY ONLY <1>9, <2>1, <2>2, <2>3, Zenon
<1>11. ASSUME NEW g \in 1 .. G, g - 1 \in S PROVE g \in S
  <2>1. g - 1 \in Nat /\ 4 * (g - 1) + 4 = 4 * g /\ 4 * (g - 1) + 4 <= Len(text) /\ g \in 0 .. G
    BY <1>2, <1>7
  <2>2. \A i \in 1 .. 4 : text[4 * (g - 1) + i] = Encoded(group(g))[i]
    BY <1>7
  <2>3. r[4 * (g - 1)] = Decoding(0, 0, 0, done(g - 1))
    BY ONLY <1>4, <1>11, Zenon
  <2>4. r[4 * g] = FourSteps(r[4 * (g - 1)], Encoded(group(g)), dstlen)
    <3> DEFINE h == g - 1
    <3>1. h \in Nat /\ LiesBehind(text, h, Encoded(group(g)))
      BY ONLY <2>1, <2>2, Zenon DEF LiesBehind, h
    <3> HIDE DEF h
    <3>2. RunBehind(text, h, Encoded(group(g)), dstlen)
      BY ONLY <1>7, <1>9, <3>1, DecodeGroup
    <3> QED BY ONLY <2>1, <3>2, Zenon DEF RunBehind, r, h
  <2>5. /\ done(g - 1) \in Seq(Byte8) /\ Len(done(g - 1)) = 3 * (g - 1)
        /\ done(g - 1) \o group(g) = done(g)
    <3> DEFINE a == end(g - 1)
               b == end(g)
    <3>1. a \in Nat /\ b \in Nat /\ a <= b /\ b <= Len(bytes) /\ a + 1 = 3 * g - 2
          /\ a = 3 * (g - 1) /\ 1 \in Nat \ {0} /\ 1 <= a + 1 /\ a <= Len(bytes) /\ a + 1 - 1 = a
      BY <1>1, <1>4 DEF n
    <3> HIDE DEF a, b
    <3>2. SubSeq(bytes, 1, a) \o SubSeq(bytes, a + 1, b) = SubSeq(bytes, 1, b)
      BY ONLY bytes \in Seq(Byte8), <3>1, PartsFollow
    <3>3. SubSeq(bytes, 1, a) \in Seq(Byte8) /\ Len(SubSeq(bytes, 1, a)) = a + 1 - 1
      BY ONLY bytes \in Seq(Byte8), <3>1, SubBytes
    <3> QED BY ONLY <3>1, <3>2, <3>3, Zenon DEF group, a, b
  <2>6. Len(done(g - 1)) + Len(group(g)) <= dstlen
    <3> DEFINE b == end(g)
               l == Len(group(g))
               m == Len(done(g - 1))
    <3>1. b \in Nat /\ b <= 3 * G
      BY ONLY <1>4, Zenon
    <3>2. l = b + 1 - (3 * g - 2)
      BY ONLY <1>5, Zenon
    <3>3. m = 3 * (g - 1)
      BY ONLY <2>5, Zenon
    <3> HIDE DEF b, l, m
    <3>4. m + l <= 3 * G
      BY ONLY <1>2, <3>1, <3>2, <3>3, g \in 1 .. G
    <3> QED BY ONLY <1>8, <3>4, Zenon DEF l, m
  <2>7. FourSteps(Decoding(0, 0, 0, done(g - 1)), Encoded(group(g)), dstlen)
          = Decoding(IF Len(group(g)) = 3 THEN 0 ELSE Len(group(g)), 0, 0, done(g - 1) \o group(g))
    BY ONLY <1>5, <1>9, <2>5, <2>6, GroupComesBack
  <2>8. last(g) = (IF Len(group(g)) = 3 THEN 0 ELSE Len(group(g)))
    BY ONLY <1>4, <1>5, Zenon
  <2> QED BY ONLY <2>1, <2>3, <2>4, <2>5, <2>7, <2>8, Zenon
<1> HIDE DEF S
<1>12. G \in S
  <2>1. \A g \in 0 .. G : g \in S
    BY <1>2, <1>10, <1>11, BoundedInduction
  <2> QED BY <1>2, <2>1
<1>13. r[4 * G] = Decoding(last(G), 0, 0, bytes)
  <2>1. end(G) = n
    BY <1>1, <1>2 DEF end
  <2>2. SubSeq(bytes, 1, n) = bytes
    <3> DEFINE z == SubSeq(bytes, 1, n)
    <3>1. z \in Seq(Byte8) /\ Len(z) = n + 1 - 1 /\ \A i \in 1 .. n + 1 - 1 : z[i] = bytes[1 + i - 1]
      <4>1. 1 \in Nat \ {0} /\ 1 <= n + 1 /\ n <= Len(bytes)
        BY <1>1 DEF n
      <4> QED BY ONLY bytes \in Seq(Byte8), <1>1, <4>1, SubBytes
    <3> HIDE DEF z
    <3>2. Len(z) = Len(bytes) /\ \A i \in 1 .. Len(z) : z[i] = bytes[i]
      <4>1. n + 1 - 1 = n /\ \A i \in 1 .. n : 1 + i - 1 = i
        BY <1>1
      <4>2. n = Len(bytes)
        BY DEF n
      <4>3. Len(z) = n /\ \A i \in 1 .. n : z[i] = bytes[1 + i - 1]
        BY ONLY <3>1, <4>1, Zenon
      <4>4. ASSUME NEW i \in 1 .. n PROVE z[i] = bytes[i]
        BY ONLY <4>1, <4>3, i \in 1 .. n, Zenon
      <4> QED BY ONLY <4>2, <4>3, <4>4, Zenon
    <3> QED BY ONLY bytes \in Seq(Byte8), <3>1, <3>2, SeqEqual DEF z
  <2> QED BY ONLY <1>12, <2>1, <2>2, Zenon DEF S
<1>14. pg_b64_decode(text, dstlen) = KC_OK(bytes)
  <2>1. r[Len(text)] = Decoding(last(G), 0, 0, bytes)
    BY ONLY <1>7, <1>13, Zenon
  <2> DEFINE s == Decoding(last(G), 0, 0, bytes)
  <2>2. s.ok /\ s.pos = 0 /\ s.text = bytes
    BY DecodingFields
  <2> HIDE DEF s
  <2> QED BY ONLY <2>1, <2>2, Zenon DEF pg_b64_decode, r, s
<1> QED BY ONLY <1>3, <1>14, Zenon DEF n, dstlen

\* The room for three bytes of every four characters.
HasRoom(n, dstlen) == dstlen \in Nat /\ (3 * n) \div 4 <= dstlen

\* Four characters have given three bytes at most.
FitsBytes(s, k) == s.ok => 4 * Len(s.text) + 3 * s.pos <= 3 * k
FitsBefore(s, k) == FitsBytes(s, k - 1)

\* One turn of the loop does not reach the end of the room.
LEMMA StepFits ==
  ASSUME NEW s \in DecodeState, NEW c \in Byte8, NEW n \in Nat, NEW k \in 1 .. n,
         FitsBefore(s, k), NEW d1, NEW d2, HasRoom(n, d1), HasRoom(n, d2)
  PROVE  DecodeStep(s, c, d1) = DecodeStep(s, c, d2) /\ FitsBytes(DecodeStep(s, c, d1), k)
<1> DEFINE end == StepEnd(s, c)
           b   == StepValue(c)
           buf == StepBuf(s, c)
           isRefused == StepRefuses(s, c)
           written == StepWrites(s, c)
           fits(d) == Len(s.text) + Len(written) <= d
           stored == StepStores(s, c)
           group(d) == StepCloses(s, c, d)
           failed == StepFails(s)
<1> USE DEF FitsBefore
<1>1. ASSUME NEW d
      PROVE  \/ ~s.ok /\ DecodeStep(s, c, d) = s
             \/ s.ok /\ isRefused /\ DecodeStep(s, c, d) = failed
             \/ s.ok /\ ~isRefused /\ s.pos < 3 /\ DecodeStep(s, c, d) = stored
             \/ s.ok /\ ~isRefused /\ ~(s.pos < 3) /\ DecodeStep(s, c, d) = group(d)
  BY StepCases
<1>2. /\ s.ok \in BOOLEAN /\ s.end \in 0 .. 2 /\ s.buf \in Nat /\ s.pos \in 0 .. 3
      /\ s.text \in Seq(Byte8) /\ Len(s.text) \in Nat
  BY LenProperties DEF DecodeState
<1>3. ~failed.ok
  BY <1>2 DEF DecodeState, StepFails
<1>4. ASSUME s.ok, ~isRefused, ~(s.pos < 3)
      PROVE  /\ written \in Seq(Byte8) /\ Len(written) \in 1 .. 3
             /\ fits(d1) = TRUE /\ fits(d2) = TRUE /\ 4 * (Len(s.text) + Len(written)) <= 3 * k
  <2>1. b \in 0 .. 63
    <3>1. b \in -1 .. 63
      BY LookupType DEF StepValue
    <3> QED BY <1>4, <3>1 DEF StepRefuses
  <2>2. end \in 0 .. 2
    <3>1. CASE c # Pad \/ s.end # 0
      BY <1>2, <3>1 DEF StepEnd
    <3>2. CASE ~(c # Pad \/ s.end # 0)
      <4>1. end = s.pos - 1
        BY ONLY <3>2, Zenon DEF StepEnd
      <4>2. s.pos = 3
        BY ONLY <1>2, <1>4
      <4> HIDE DEF end
      <4> QED BY ONLY <4>1, <4>2
    <3> QED BY ONLY <3>1, <3>2, Zenon
  <2>3. buf \in Nat
    <3>1. \A x \in Nat, y \in 0 .. 63 : x * 64 + y \in Nat
      OBVIOUS
    <3> QED BY ONLY <1>2, <2>1, <3>1, Zenon DEF StepBuf
  <2> HIDE DEF b, end, buf
  <2>4. written \in Seq(Byte8) /\ Len(written) \in 1 .. 3
    BY <2>2, <2>3, DecodedType DEF written, end, buf, StepWrites
  <2> DEFINE l == Len(s.text)
             m == Len(written)
             p == s.pos
  <2>5. l \in Nat /\ m \in 1 .. 3 /\ p = 3 /\ 4 * l + 3 * p <= 3 * (k - 1)
    BY <1>2, <1>4, <2>4 DEF FitsBytes
  <2> HIDE DEF l, m, p
  <2>6. 4 * (l + m) <= 3 * k
    BY <2>5
  <2>7. ASSUME NEW d, HasRoom(n, d) PROVE (l + m <= d) = TRUE
    <3>1. l + m <= (3 * n) \div 4
      BY <2>5, <2>6, SMT
    <3>2. (3 * n) \div 4 \in Int /\ d \in Nat /\ (3 * n) \div 4 <= d
      BY <2>7 DEF HasRoom
    <3> QED BY <2>5, <3>1, <3>2
  <2> QED BY <2>4, <2>6, <2>7 DEF l, m
<1> HIDE DEF stored, group, failed, fits, isRefused, written, b, buf, end
<1>5. DecodeStep(s, c, d1) = DecodeStep(s, c, d2)
  <2>1. s.ok /\ ~isRefused /\ ~(s.pos < 3) => group(d1) = group(d2)
    <3>1. fits(d1) = fits(d2) => group(d1) = group(d2)
      BY ONLY Zenon DEF group, fits, written, StepCloses
    <3> QED BY ONLY <1>4, <3>1, Zenon
  <2> QED BY ONLY <1>1, <2>1
<1>6. FitsBytes(DecodeStep(s, c, d1), k)
  <2>1. CASE ~s.ok
    BY <1>1, <2>1 DEF FitsBytes
  <2>2. CASE s.ok /\ isRefused
    BY <1>1, <1>3, <2>2 DEF FitsBytes
  <2>3. CASE s.ok /\ ~isRefused /\ s.pos < 3
    <3>1. DecodeStep(s, c, d1) = stored
      BY ONLY <1>1, <2>3
    <3>2. 4 * Len(s.text) + 3 * s.pos <= 3 * (k - 1)
      BY <2>3 DEF FitsBytes
    <3>3. 4 * Len(s.text) + 3 * (s.pos + 1) <= 3 * k
      BY ONLY <1>2, <3>2, Z3T(30)
    <3>4. stored.text = s.text /\ stored.pos = s.pos + 1
      BY DEF stored, StepStores
    <3> QED BY ONLY <3>1, <3>3, <3>4, Zenon DEF FitsBytes
  <2>4. CASE s.ok /\ ~isRefused /\ ~(s.pos < 3)
    <3> DEFINE z == group(d1)
    <3>1. DecodeStep(s, c, d1) = z
      BY ONLY <1>1, <2>4
    <3>2. z.text = s.text \o written /\ z.pos = 0
      BY DEF group, written, StepCloses
    <3> HIDE DEF z
    <3>3. Len(s.text \o written) = Len(s.text) + Len(written)
      BY <1>2, <1>4, <2>4, ConcatBytes
    <3>4. Len(s.text \o written) \in Nat /\ 4 * Len(s.text \o written) <= 3 * k
      <4> DEFINE l == Len(s.text)
                 m == Len(written)
      <4>1. l \in Nat /\ m \in 1 .. 3 /\ 4 * (l + m) <= 3 * k
        BY ONLY <1>2, <1>4, <2>4, Zenon
      <4> HIDE DEF l, m
      <4>2. l + m \in Nat
        BY ONLY <4>1
      <4> QED BY ONLY <3>3, <4>1, <4>2, Zenon DEF l, m
    <3>5. 4 * Len(s.text \o written) + 3 * 0 <= 3 * k
      BY ONLY <3>4, n \in Nat, k \in 1 .. n
    <3> QED BY ONLY <3>1, <3>2, <3>5, Zenon DEF FitsBytes
  <2> QED BY <2>1, <2>2, <2>3, <2>4
<1> QED BY ONLY <1>5, <1>6

\* More room than pg_b64_dec_len tells changes nothing.
THEOREM RoomSuffices ==
  ASSUME NEW text \in Seq(Byte8)
  PROVE  pg_b64_decode(text, pg_b64_dec_len(Len(text))) = pg_b64_decode(text, 3 * Len(text))
<1> DEFINE n == Len(text)
           d1 == pg_b64_dec_len(n)
           d2 == 3 * n
           r1 == DecodeStates(text, d1)
           r2 == DecodeStates(text, d2)
           S == {k \in 0 .. n : r1[k] = r2[k] /\ FitsBytes(r1[k], k)}
<1>1. n \in Nat /\ \A k \in 1 .. n : text[k] \in Byte8
  BY ElementOfSeq, LenProperties
<1>2. HasRoom(n, d1) /\ HasRoom(n, d2) /\ d1 \in Nat /\ d2 \in Nat
  BY <1>1, SMT DEF HasRoom, pg_b64_dec_len
<1> HIDE DEF d1, d2
<1>3. /\ r1 \in [0 .. n -> DecodeState] /\ r1[0] = Decoding(0, 0, 0, <<>>)
      /\ \A k \in 1 .. n : r1[k] = DecodeStep(r1[k - 1], text[k], d1)
  BY <1>2, DecodeRuns
<1>4. /\ r2[0] = Decoding(0, 0, 0, <<>>)
      /\ \A k \in 1 .. n : r2[k] = DecodeStep(r2[k - 1], text[k], d2)
  BY <1>2, DecodeRuns
<1> HIDE DEF r1, r2, n
<1>5. 0 \in S
  <2>1. Decoding(0, 0, 0, <<>>).text = <<>> /\ Decoding(0, 0, 0, <<>>).pos = 0
    BY DecodingFields
  <2>2. FitsBytes(Decoding(0, 0, 0, <<>>), 0)
    BY <2>1, EmptySeq DEF FitsBytes
  <2> QED BY <1>1, <1>3, <1>4, <2>2
<1>6. ASSUME NEW k \in 1 .. n, k - 1 \in S PROVE k \in S
  <2>1. k \in 0 .. n /\ k - 1 \in 0 .. n
    BY <1>1
  <2>2. r1[k - 1] \in DecodeState /\ FitsBytes(r1[k - 1], k - 1) /\ r1[k - 1] = r2[k - 1]
    BY <1>3, <1>6, <2>1
  <2> DEFINE s == r1[k - 1]
             c == text[k]
  <2>3. c \in Byte8
    BY <1>1
  <2>4. DecodeStep(s, c, d1) = DecodeStep(s, c, d2) /\ FitsBytes(DecodeStep(s, c, d1), k)
    <3> HIDE DEF s, c
    <3>1. s \in DecodeState /\ FitsBefore(s, k)
      BY <2>2 DEF s, FitsBefore
    <3> QED BY ONLY <1>1, <1>2, <2>3, <3>1, k \in 1 .. n, StepFits
  <2>5. r1[k] = DecodeStep(s, c, d1) /\ r2[k] = DecodeStep(s, c, d2)
    BY <1>3, <1>4, <2>2
  <2> QED BY ONLY <2>1, <2>4, <2>5, Zenon
<1> HIDE DEF S
<1>7. n \in S
  <2>1. \A k \in 0 .. n : k \in S
    BY <1>1, <1>5, <1>6, BoundedInduction
  <2> QED BY <1>1, <2>1
<1>8. r1[n] = r2[n]
  BY <1>7 DEF S
<1>9. pg_b64_decode(text, d1) = pg_b64_decode(text, d2)
  BY ONLY <1>8, Zenon DEF pg_b64_decode, r1, r2, n
<1> QED BY ONLY <1>9, Zenon DEF d1, d2, n

-----------------------------------------------------------------------------
(***************************************************************************)
(* The array of texts.                                                     *)
(***************************************************************************)
\* What lies in a part that lies.
LEMMA LiesWithin ==
  ASSUME NEW bytes, NEW n \in Nat, NEW part, NEW m \in Nat, NEW inner,
         Len(part) \in Nat, Len(inner) \in Nat,
         Lies(bytes, n, part), Lies(part, m, inner), m + Len(inner) <= Len(part)
  PROVE  Lies(bytes, n + m, inner)
<1>1. ASSUME NEW i \in 1 .. Len(inner) PROVE bytes[(n + m) + i] = inner[i]
  <2>1. m + i \in 1 .. Len(part) /\ n + (m + i) = (n + m) + i
    OBVIOUS
  <2>2. bytes[n + (m + i)] = part[m + i]
    BY <2>1 DEF Lies
  <2>3. part[m + i] = inner[i]
    BY DEF Lies
  <2> QED BY ONLY <2>1, <2>2, <2>3, Zenon
<1> QED BY ONLY <1>1, Zenon DEF Lies

\* The bytes of a number below 2^16 are read as the number.
LEMMA NumberBytes ==
  ASSUME NEW val \in Nat, val < WordMod
  PROVE  /\ Val32ToBytes(val) \in Seq(Byte8) /\ Len(Val32ToBytes(val)) = 4
         /\ Val32FromBytes(Val32ToBytes(val)) = val
<1> DEFINE high == val \div 256
           low == val % 256
<1>1. high \in Int /\ 0 <= high /\ high <= 255 /\ low \in Int /\ 0 <= low /\ low <= 255
      /\ high * 256 + low = val
  BY SMT DEF WordMod
<1>2. Val32ToBytes(val) = <<0, 0, high, low>>
  BY DEF Val32ToBytes
<1> HIDE DEF high, low
<1>3. high \in Byte8 /\ low \in Byte8 /\ 0 \in Byte8
  BY <1>1, ByteRange
<1>4. <<0, 0, high, low>> \in Seq(Byte8) /\ Len(<<0, 0, high, low>>) = 4
  BY ONLY <1>3, FewBytes
<1>5. <<0, 0, high, low>>[3] = high /\ <<0, 0, high, low>>[4] = low
  OBVIOUS
<1>6. Val32FromBytes(<<0, 0, high, low>>) = high * 256 + low
  BY ONLY <1>5, Zenon DEF Val32FromBytes
<1> QED BY ONLY <1>1, <1>2, <1>4, <1>6, Zenon

\* A number is read where its bytes lie.
LEMMA NumberLies ==
  ASSUME NEW bytes \in Seq(Byte8), NEW n \in Nat, NEW val \in Nat, val < WordMod,
         n + 4 <= Len(bytes), Lies(bytes, n, Val32ToBytes(val))
  PROVE  Number(bytes, n + 1) = val
<1> DEFINE part == Val32ToBytes(val)
<1>1. part \in Seq(Byte8) /\ Len(part) = 4 /\ Val32FromBytes(part) = val
  BY NumberBytes
<1> HIDE DEF part
<1>2. n + Len(part) <= Len(bytes) /\ n + Len(part) = (n + 1) + 3
  BY <1>1
<1>3. Lies(bytes, n, part)
  BY DEF part
<1>4. SubSeq(bytes, n + 1, n + Len(part)) = part
  BY ONLY bytes \in Seq(Byte8), n \in Nat, <1>1, <1>2, <1>3, LyingPart
<1> QED BY ONLY <1>1, <1>2, <1>4, Zenon DEF Number

\* A text, with its length in front, is read where its element lies.
LEMMA ElementLies ==
  ASSUME NEW bytes \in Seq(Byte8), NEW n \in Nat, NEW text \in ShortText,
         n + Len(Element(text)) <= Len(bytes), Lies(bytes, n, Element(text))
  PROVE  /\ Element(text) \in Seq(Byte8) /\ Len(Element(text)) = Len(text) + 5
         /\ Number(bytes, n + 1) = Len(text)
         /\ SubSeq(bytes, (n + 1) + 4, (n + 1) + 3 + Number(bytes, n + 1)) = text
<1> DEFINE l == Len(text)
           number == Val32ToBytes(l)
           front == number \o text
           e == Element(text)
<1>1. text \in Seq(Byte8) /\ l \in Nat /\ l < WordMod
  BY LenProperties DEF ShortText
<1>2. number \in Seq(Byte8) /\ Len(number) = 4
  BY <1>1, NumberBytes
<1>3. <<0>> \in Seq(Byte8) /\ Len(<<0>>) = 1
  BY ByteRange, FewBytes
<1>4. e = front \o <<0>>
  BY DEF Element
<1> HIDE DEF number, e
<1>5. /\ front \in Seq(Byte8) /\ Len(front) = 4 + l
      /\ \A i \in 1 .. 4 : front[i] = number[i]
      /\ \A i \in 1 .. l : front[4 + i] = text[i]
  <2>1. /\ front \in Seq(Byte8) /\ Len(front) = Len(number) + Len(text)
        /\ \A i \in 1 .. Len(number) : front[i] = number[i]
        /\ \A i \in 1 .. Len(text) : front[Len(number) + i] = text[i]
    BY ONLY <1>1, <1>2, ConcatBytes
  <2> QED BY ONLY <1>2, <2>1, Zenon DEF l
<1> HIDE DEF front, l
<1>6. /\ e \in Seq(Byte8) /\ Len(e) = l + 5
      /\ \A i \in 1 .. 4 + l : e[i] = front[i]
  <2>1. /\ front \o <<0>> \in Seq(Byte8) /\ Len(front \o <<0>>) = Len(front) + 1
        /\ \A i \in 1 .. Len(front) : (front \o <<0>>)[i] = front[i]
    BY ONLY <1>3, <1>5, ConcatBytes
  <2>2. (4 + l) + 1 = l + 5
    BY <1>1
  <2> QED BY ONLY <1>4, <1>5, <2>1, <2>2, Zenon
<1>7. Lies(e, 0, number) /\ Lies(e, 4, text)
  <2>1. ASSUME NEW i \in 1 .. 4 PROVE e[0 + i] = number[i]
    <3>1. 0 + i = i /\ i \in 1 .. 4 + l
      BY <1>1
    <3> QED BY ONLY <1>5, <1>6, <3>1, i \in 1 .. 4, Zenon
  <2>2. ASSUME NEW i \in 1 .. l PROVE e[4 + i] = text[i]
    <3>1. 4 + i \in 1 .. 4 + l
      BY <1>1
    <3> QED BY ONLY <1>5, <1>6, <3>1, i \in 1 .. l, Zenon
  <2> QED BY <1>2, <2>1, <2>2 DEF Lies, l
<1>8. Lies(bytes, n, e) /\ n + (l + 5) <= Len(bytes)
  <2>1. Lies(bytes, n, e) /\ n + Len(e) <= Len(bytes)
    BY DEF e
  <2> QED BY ONLY <1>6, <2>1, Zenon
<1>9. Lies(bytes, n, number)
  <2>1. Lies(bytes, n + 0, number)
    <3>1. 0 + Len(number) <= Len(e) /\ Len(e) \in Nat /\ Len(number) \in Nat /\ 0 \in Nat
      BY <1>1, <1>2, <1>6
    <3> QED BY ONLY <1>7, <1>8, <3>1, n \in Nat, LiesWithin
  <2>2. n + 0 = n
    OBVIOUS
  <2> QED BY ONLY <2>1, <2>2, Zenon
<1>10. Lies(bytes, n + 4, text)
  <2>1. Len(text) \in Nat /\ 4 + Len(text) <= Len(e) /\ Len(e) \in Nat
    BY <1>1, <1>6 DEF l
  <2> QED BY <1>7, <1>8, <2>1, LiesWithin
<1>11. Number(bytes, n + 1) = l
  <2>1. n + 4 <= Len(bytes)
    <3>1. Len(bytes) \in Nat
      BY LenProperties
    <3> QED BY ONLY <1>1, <1>8, <3>1, n \in Nat
  <2> QED BY <1>1, <1>9, <2>1, NumberLies DEF number
<1>12. SubSeq(bytes, (n + 4) + 1, (n + 4) + l) = text
  <2>1. n + 4 \in Nat /\ (n + 4) + Len(text) <= Len(bytes)
    BY <1>1, <1>8, LenProperties DEF l
  <2> QED BY ONLY bytes \in Seq(Byte8), <1>1, <1>10, <2>1, LyingPart DEF l
<1>13. (n + 4) + 1 = (n + 1) + 4 /\ (n + 4) + l = (n + 1) + 3 + l
  BY <1>1
<1>14. SubSeq(bytes, (n + 1) + 4, (n + 1) + 3 + Number(bytes, n + 1)) = text
  BY ONLY <1>11, <1>12, <1>13, Zenon
<1> QED BY ONLY <1>6, <1>11, <1>14, Zenon DEF e, l

\* What ArrayBytes has written after each element.
ArrayTexts(count, texts) ==
  LET bytes[k \in 0 .. Len(texts)] ==
        IF k = 0 THEN Val32ToBytes(count) ELSE bytes[k - 1] \o Element(texts[k])
  IN bytes

ElementsOf(texts) == [k \in 1 .. Len(texts) |-> Element(texts[k])]

\* An element is its text with five bytes more.
LEMMA ElementType ==
  ASSUME NEW text \in ShortText
  PROVE  Element(text) \in Seq(Byte8)
<1>1. text \in Seq(Byte8) /\ Len(text) \in Nat /\ Len(text) < WordMod
  BY LenProperties DEF ShortText
<1>2. Val32ToBytes(Len(text)) \in Seq(Byte8)
  BY <1>1, NumberBytes
<1>3. <<0>> \in Seq(Byte8)
  BY ByteRange, FewBytes
<1>4. Val32ToBytes(Len(text)) \o text \in Seq(Byte8)
  BY ONLY <1>1, <1>2, ConcatBytes
<1> QED BY ONLY <1>3, <1>4, ConcatBytes DEF Element

\* ArrayBytes joins the elements behind the number.
LEMMA ArrayJoins ==
  ASSUME NEW texts \in Seq(ShortText), NEW count \in Nat, count < WordMod
  PROVE  /\ Joined(ArrayTexts(count, texts), Len(texts), ElementsOf(texts))
         /\ ArrayTexts(count, texts)[0] = Val32ToBytes(count)
         /\ ArrayBytes(count, texts) = ArrayTexts(count, texts)[Len(texts)]
<1> DEFINE n == Len(texts)
           T == Seq(Byte8)
           first == Val32ToBytes(count)
           parts == ElementsOf(texts)
           g == [k \in 1 .. n |-> [s \in T |-> s \o parts[k]]]
           r == ArrayTexts(count, texts)
<1>1. n \in Nat /\ \A k \in 1 .. n : parts[k] = Element(texts[k]) /\ parts[k] \in T
  BY ElementOfSeq, LenProperties, ElementType DEF ElementsOf
<1>2. first \in T
  BY NumberBytes
<1>3. \A s \in T, t \in T : s \o t \in T
  BY ConcatBytes
<1>4. ArrayBytes(count, texts) = r[n]
  BY DEF ArrayBytes, ArrayTexts
<1> HIDE DEF n, first, T, r, parts
<1>5. g \in [1 .. n -> [T -> T]] /\ \A k \in 1 .. n : \A s \in T : g[k][s] = s \o parts[k]
  BY <1>1, <1>3
<1> HIDE DEF g
<1>6. PICK f \in [0 .. n -> T] : f[0] = first /\ \A k \in 1 .. n : f[k] = g[k][f[k - 1]]
  <2>1. CanRecurse(n, T, first, g)
    BY ONLY <1>1, <1>2, <1>5, Recursion, Zenon
  <2> QED BY <2>1 DEF CanRecurse, Recursive
<1>7. f = [k \in 0 .. n |-> IF k = 0 THEN first ELSE f[k - 1] \o Element(texts[k])]
  <2>1. \A k \in 0 .. n : k # 0 => k \in 1 .. n
    BY <1>1
  <2>2. \A k \in 1 .. n : k - 1 \in 0 .. n
    BY <1>1
  <2>3. \A k \in 0 .. n : f[k] = IF k = 0 THEN first ELSE f[k - 1] \o Element(texts[k])
    BY <1>1, <1>5, <1>6, <2>1, <2>2, ZenonT(40)
  <2> QED BY <1>6, <2>3
<1>8. r = [k \in 0 .. n |-> IF k = 0 THEN first ELSE r[k - 1] \o Element(texts[k])]
  BY <1>7, Zenon DEF ArrayTexts, n, r, first
<1>9. r[0] = first
  BY <1>1, <1>8
<1>10. \A k \in 1 .. n : r[k] = r[k - 1] \o parts[k]
  <2>1. \A k \in 1 .. n : k \in 0 .. n /\ k # 0
    BY <1>1
  <2> QED BY <1>1, <1>8, <2>1
<1> DEFINE S == {k \in 0 .. n : r[k] \in T}
<1>11. 0 \in S
  BY <1>1, <1>2, <1>9
<1>12. ASSUME NEW k \in 1 .. n, k - 1 \in S PROVE k \in S
  <2>1. k \in 0 .. n
    BY <1>1
  <2> QED BY <1>1, <1>3, <1>10, <1>12, <2>1
<1> HIDE DEF S
<1>13. \A k \in 0 .. n : k \in S
  BY <1>1, <1>11, <1>12, BoundedInduction
<1>14. r \in [0 .. n -> T]
  <2>1. \A k \in 0 .. n : r[k] \in T
    BY <1>13 DEF S
  <2> QED BY <1>8, <2>1
<1>15. Joined(r, n, parts)
  BY <1>1, <1>10, <1>14 DEF Joined, T
<1> QED BY ONLY <1>4, <1>9, <1>15, Zenon DEF n, r, first, parts

\* The equation of the loop that skips the elements.
AreEnds(f, bytes, begin, n) ==
  f = [k \in 0 .. n |-> IF k = 0 THEN begin ELSE f[k - 1] + 5 + Number(bytes, f[k - 1])]

\* The positions that satisfy the loop's equation are those it computes.
LEMMA EndsAre ==
  ASSUME NEW bytes, NEW begin, NEW n \in Nat, NEW f, AreEnds(f, bytes, begin, n)
  PROVE  Ends(bytes, begin, n) = f
<1> DEFINE r == Ends(bytes, begin, n)
           S == {k \in 0 .. n : r[k] = f[k]}
<1>1. r = [k \in 0 .. n |-> IF k = 0 THEN begin ELSE r[k - 1] + 5 + Number(bytes, r[k - 1])]
  <2>1. f = [k \in 0 .. n |-> IF k = 0 THEN begin ELSE f[k - 1] + 5 + Number(bytes, f[k - 1])]
    BY DEF AreEnds
  <2> QED BY ONLY <2>1, Zenon DEF Ends, r
<1> HIDE DEF r
<1>2. 0 \in 0 .. n /\ \A k \in 1 .. n : k \in 0 .. n /\ k # 0 /\ k - 1 \in 0 .. n
  OBVIOUS
<1>3. 0 \in S
  <2>1. f = [k \in 0 .. n |-> IF k = 0 THEN begin ELSE f[k - 1] + 5 + Number(bytes, f[k - 1])]
    BY DEF AreEnds
  <2> QED BY ONLY <1>1, <1>2, <2>1, Zenon
<1>4. ASSUME NEW k \in 1 .. n, k - 1 \in S PROVE k \in S
  <2>1. r[k - 1] = f[k - 1] /\ k \in 0 .. n /\ k # 0
    BY <1>2, <1>4
  <2>2. r[k] = r[k - 1] + 5 + Number(bytes, r[k - 1])
    BY ONLY <1>1, <2>1, Zenon
  <2>3. f[k] = f[k - 1] + 5 + Number(bytes, f[k - 1])
    <3>1. f = [i \in 0 .. n |-> IF i = 0 THEN begin ELSE f[i - 1] + 5 + Number(bytes, f[i - 1])]
      BY DEF AreEnds
    <3> QED BY ONLY <2>1, <3>1, Zenon
  <2> QED BY ONLY <2>1, <2>2, <2>3, Zenon
<1> HIDE DEF S
<1>5. \A k \in 0 .. n : k \in S
  BY <1>3, <1>4, BoundedInduction
<1>6. \A k \in 0 .. n : r[k] = f[k]
  BY <1>5 DEF S
<1> QED BY <1>1, <1>6 DEF r, AreEnds

\* An array that lies in bytes is printed as its texts, and ends where it ends.
LEMMA ArrayIsRead ==
  ASSUME NEW bytes \in Seq(Byte8), NEW n \in Nat, NEW texts \in ShortArray,
         NEW A, A = ArrayBytes(Len(texts), texts), n + Len(A) <= Len(bytes), Lies(bytes, n, A)
  PROVE  /\ Number(bytes, n + 1) = Len(texts)
         /\ Texts(bytes, n + 5, Len(texts)) = texts
         /\ Ends(bytes, n + 5, Len(texts))[Len(texts)] = (n + Len(A)) + 1
<1> DEFINE c == Len(texts)
           T == ArrayTexts(c, texts)
           parts == ElementsOf(texts)
           f == [k \in 0 .. c |-> (n + Len(T[k])) + 1]
<1>1. c \in Nat /\ c < WordMod /\ texts \in Seq(ShortText)
  BY LenProperties DEF ShortArray
<1>2. Joined(T, c, parts) /\ T[0] = Val32ToBytes(c) /\ A = T[c]
  BY <1>1, ArrayJoins
<1>3. \A k \in 1 .. c : texts[k] \in ShortText /\ parts[k] = Element(texts[k])
  BY <1>1, ElementOfSeq DEF ElementsOf
<1> HIDE DEF T, parts, c
<1>4. /\ \A k \in 1 .. c : /\ Len(T[k]) = Len(T[k - 1]) + Len(parts[k])
                           /\ Len(T[k]) <= Len(A)
                           /\ Lies(A, Len(T[k - 1]), parts[k])
      /\ Lies(A, 0, T[0]) /\ Len(T[0]) <= Len(A)
  <2>1. Joined(T, c, parts)
    BY <1>2
  <2>2. /\ \A k \in 1 .. c : /\ Len(T[k]) = Len(T[k - 1]) + Len(parts[k])
                             /\ Len(T[k]) <= Len(T[c])
                             /\ Lies(T[c], Len(T[k - 1]), parts[k])
        /\ Lies(T[c], 0, T[0]) /\ Len(T[0]) <= Len(T[c])
    BY ONLY <1>1, <2>1, PartsLie, Zenon
  <2> QED BY ONLY <1>2, <2>2, Zenon
<1>5. /\ \A k \in 0 .. c : T[k] \in Seq(Byte8) /\ Len(T[k]) \in Nat
      /\ Len(A) \in Nat /\ Len(bytes) \in Nat /\ c \in 0 .. c
  <2>1. \A k \in 0 .. c : T[k] \in Seq(Byte8)
    BY <1>2 DEF Joined
  <2>2. c \in 0 .. c
    BY <1>1
  <2> QED BY <1>2, <2>1, <2>2, LenProperties
<1>6. \A k \in 1 .. c : k \in 0 .. c /\ k - 1 \in 0 .. c /\ k # 0
  BY <1>1
<1>7. Len(T[0]) = 4
  BY <1>1, <1>2, NumberBytes
<1>8. Number(bytes, n + 1) = c
  <2>1. n + 4 <= Len(bytes)
    BY <1>4, <1>5, <1>7
  <2>2. Lies(bytes, n + 0, T[0])
    <3>1. 0 \in Nat /\ 0 + Len(T[0]) <= Len(A) /\ Len(T[0]) \in Nat /\ Len(A) \in Nat
      BY <1>4, <1>5, <1>7
    <3>2. Lies(bytes, n, A) /\ Lies(A, 0, T[0])
      BY <1>4
    <3> QED BY ONLY <3>1, <3>2, n \in Nat, LiesWithin
  <2>3. n + 0 = n
    OBVIOUS
  <2>4. Lies(bytes, n, Val32ToBytes(c))
    BY ONLY <1>2, <2>2, <2>3, Zenon
  <2> QED BY <1>1, <2>1, <2>4, NumberLies
<1>9. ASSUME NEW k \in 1 .. c
      PROVE  /\ f[k] = f[k - 1] + 5 + Number(bytes, f[k - 1])
             /\ SubSeq(bytes, f[k - 1] + 4, f[k - 1] + 3 + Number(bytes, f[k - 1])) = texts[k]
  <2> DEFINE m == Len(T[k - 1])
             at == n + m
             e == Element(texts[k])
             number == Number(bytes, at + 1)
  <2>1. m \in Nat /\ at \in Nat /\ Len(T[k]) = m + Len(e) /\ Len(T[k]) <= Len(A)
        /\ Lies(A, m, e) /\ texts[k] \in ShortText /\ Len(T[k]) \in Nat
    <3>1. k \in 0 .. c /\ k - 1 \in 0 .. c
      BY <1>6
    <3>2. m \in Nat /\ Len(T[k]) \in Nat
      BY ONLY <1>5, <3>1, Zenon
    <3>3. parts[k] = e /\ texts[k] \in ShortText
      BY <1>3
    <3>4. Len(T[k]) = m + Len(e) /\ Len(T[k]) <= Len(A) /\ Lies(A, m, e)
      BY ONLY <1>4, <3>3, k \in 1 .. c, Zenon
    <3> HIDE DEF m
    <3>5. n + m \in Nat
      BY <3>2
    <3> QED BY ONLY <3>2, <3>3, <3>4, <3>5, Zenon
  <2>2. f[k - 1] = at + 1 /\ f[k] = (n + Len(T[k])) + 1
    BY <1>6
  <2> HIDE DEF m, e, f
  <2>3. e \in Seq(Byte8) /\ Len(e) \in Nat
    BY <2>1, ElementType, LenProperties DEF e
  <2>4. m + Len(e) <= Len(A) /\ at + Len(e) <= Len(bytes)
    <3> DEFINE u == Len(e)
               v == Len(T[k])
               w == Len(A)
    <3>1. u \in Nat /\ v = m + u /\ v <= w /\ w \in Nat /\ n + w <= Len(bytes)
          /\ Len(bytes) \in Nat
      BY <1>5, <2>1, <2>3
    <3> HIDE DEF u, v, w
    <3>2. m + u <= w /\ (n + m) + u <= Len(bytes)
      BY ONLY <2>1, <3>1, n \in Nat
    <3> QED BY ONLY <3>2, Zenon DEF u, w, at
  <2>5. Lies(bytes, at, e)
    <3>1. Lies(bytes, n, A) /\ n \in Nat
      OBVIOUS
    <3> QED BY ONLY <1>5, <2>1, <2>3, <2>4, <3>1, LiesWithin
  <2> HIDE DEF at
  <2>6. /\ Len(e) = Len(texts[k]) + 5 /\ number = Len(texts[k])
        /\ SubSeq(bytes, (at + 1) + 4, (at + 1) + 3 + number) = texts[k]
    BY <2>1, <2>4, <2>5, ElementLies DEF e
  <2>7. f[k] = (at + 1) + 5 + number
    <3>1. Len(texts[k]) \in Nat
      BY <2>1, LenProperties DEF ShortText
    <3> DEFINE l == Len(texts[k])
               u == Len(e)
               v == Len(T[k])
    <3>2. l \in Nat /\ u = l + 5 /\ v = m + u /\ number = l /\ at = n + m /\ f[k] = (n + v) + 1
      BY ONLY <2>1, <2>2, <2>6, <3>1, Zenon DEF at
    <3> HIDE DEF l, u, v, number
    <3> QED BY ONLY <2>1, <3>2, n \in Nat
  <2> QED BY ONLY <2>2, <2>6, <2>7, Zenon
<1>10. f[0] = n + 5 /\ f[c] = (n + Len(A)) + 1
  <2>1. 0 \in 0 .. c
    BY <1>1
  <2>2. f[0] = (n + 4) + 1 /\ f[c] = (n + Len(A)) + 1
    BY ONLY <1>2, <1>5, <1>7, <2>1, Zenon
  <2> QED BY <2>2
<1>11. Ends(bytes, n + 5, c) = f
  <2>1. f = [k \in 0 .. c |-> IF k = 0 THEN n + 5 ELSE f[k - 1] + 5 + Number(bytes, f[k - 1])]
    <3>1. ASSUME NEW k \in 0 .. c
          PROVE  f[k] = IF k = 0 THEN n + 5 ELSE f[k - 1] + 5 + Number(bytes, f[k - 1])
      <4>1. CASE k = 0
        BY ONLY <1>10, <4>1, Zenon
      <4>2. CASE k # 0
        <5>1. k \in 1 .. c
          BY <1>1, <4>2
        <5> QED BY ONLY <1>9, <4>2, <5>1, Zenon
      <4> QED BY <4>1, <4>2
    <3>2. f = [k \in 0 .. c |-> f[k]]
      OBVIOUS
    <3> HIDE DEF f
    <3> QED BY ONLY <3>1, <3>2, Zenon
  <2> DEFINE begin == n + 5
  <2>2. f = [k \in 0 .. c |-> IF k = 0 THEN begin ELSE f[k - 1] + 5 + Number(bytes, f[k - 1])]
    BY ONLY <2>1, Zenon
  <2>3. AreEnds(f, bytes, begin, c)
    BY ONLY <2>2, Zenon DEF AreEnds
  <2> HIDE DEF f, begin
  <2>4. Ends(bytes, begin, c) = f
    BY ONLY <1>1, <2>3, EndsAre, Zenon
  <2> QED BY ONLY <2>4, Zenon DEF begin
<1> HIDE DEF f
<1>12. Texts(bytes, n + 5, c) = texts
  <2>1. Texts(bytes, n + 5, c) = [k \in 1 .. c |->
           SubSeq(bytes, f[k - 1] + 4, f[k - 1] + 3 + Number(bytes, f[k - 1]))]
    BY ONLY <1>11, Zenon DEF Texts
  <2>2. texts = [k \in 1 .. c |-> texts[k]]
    BY <1>1, LenProperties DEF c
  <2>3. \A k \in 1 .. c :
          SubSeq(bytes, f[k - 1] + 4, f[k - 1] + 3 + Number(bytes, f[k - 1])) = texts[k]
    BY <1>9
  <2> QED BY ONLY <2>1, <2>2, <2>3, Zenon
<1>13. Ends(bytes, n + 5, c)[c] = (n + Len(A)) + 1
  BY ONLY <1>10, <1>11, Zenon
<1> QED BY ONLY <1>8, <1>12, <1>13, Zenon DEF c

\* An array is a sequence of bytes.
LEMMA ArrayType ==
  ASSUME NEW texts \in ShortArray
  PROVE  /\ ArrayBytes(Len(texts), texts) \in Seq(Byte8)
         /\ Len(ArrayBytes(Len(texts), texts)) \in Nat
<1> DEFINE c == Len(texts)
           T == ArrayTexts(c, texts)
<1>1. c \in Nat /\ c < WordMod /\ texts \in Seq(ShortText)
  BY LenProperties DEF ShortArray
<1>2. Joined(T, c, ElementsOf(texts)) /\ ArrayBytes(c, texts) = T[c]
  BY <1>1, ArrayJoins
<1> HIDE DEF T
<1>3. T[c] \in Seq(Byte8)
  BY <1>1, <1>2 DEF Joined
<1> QED BY <1>2, <1>3, LenProperties

\* An array takes four bytes, and five bytes more than the text for each of its texts.
AreReached(f, texts, n) ==
  f = [k \in 0 .. n |-> IF k = 0 THEN 8 ELSE f[k - 1] + 5 + Len(texts[2 * k - 1])]

\* What satisfies the equation of ArraySize is what it computes.
LEMMA ReachedAre ==
  ASSUME NEW texts, NEW n \in Nat, n = (Len(texts) + 1) \div 2, NEW f, AreReached(f, texts, n)
  PROVE  ArraySize(texts) = f[n] + 12
<1> DEFINE r == CHOOSE g : AreReached(g, texts, n)
           S == {k \in 0 .. n : r[k] = f[k]}
<1>1. ArraySize(texts) = r[n] + 12
  BY Zenon DEF ArraySize, AreReached
<1>2. AreReached(r, texts, n)
  BY Zenon
<1> HIDE DEF r
<1>3. /\ r = [k \in 0 .. n |-> IF k = 0 THEN 8 ELSE r[k - 1] + 5 + Len(texts[2 * k - 1])]
      /\ f = [k \in 0 .. n |-> IF k = 0 THEN 8 ELSE f[k - 1] + 5 + Len(texts[2 * k - 1])]
  BY <1>2 DEF AreReached
<1>4. 0 \in 0 .. n /\ \A k \in 1 .. n : k \in 0 .. n /\ k # 0 /\ k - 1 \in 0 .. n
  OBVIOUS
<1>5. 0 \in S
  BY ONLY <1>3, <1>4, Zenon
<1>6. ASSUME NEW k \in 1 .. n, k - 1 \in S PROVE k \in S
  <2>1. r[k - 1] = f[k - 1] /\ k \in 0 .. n /\ k # 0
    BY <1>4, <1>6
  <2>2. r[k] = r[k - 1] + 5 + Len(texts[2 * k - 1])
    BY ONLY <1>3, <2>1, Zenon
  <2>3. f[k] = f[k - 1] + 5 + Len(texts[2 * k - 1])
    BY ONLY <1>3, <2>1, Zenon
  <2> QED BY ONLY <2>1, <2>2, <2>3, Zenon
<1> HIDE DEF S
<1>7. \A k \in 0 .. n : k \in S
  BY <1>5, <1>6, BoundedInduction
<1>8. n \in 0 .. n
  OBVIOUS
<1>9. r[n] = f[n]
  BY <1>7, <1>8 DEF S
<1> QED BY ONLY <1>1, <1>9, Zenon

\* An element is five bytes longer than its text.
LEMMA ElementSize ==
  ASSUME NEW text \in ShortText
  PROVE  Len(Element(text)) = Len(text) + 5 /\ Len(text) \in Nat
<1> DEFINE e == Element(text)
<1>1. e \in Seq(Byte8) /\ Len(e) \in Nat /\ Len(text) \in Nat
  BY ElementType, LenProperties DEF ShortText
<1> HIDE DEF e
<1>2. 0 \in Nat /\ 0 + Len(e) <= Len(e) /\ Lies(e, 0, e)
  BY <1>1 DEF Lies
<1> QED BY ONLY <1>1, <1>2, text \in ShortText, ElementLies DEF e

\* An array is as long as what is added up for its texts, and longer than each element.
LEMMA ArrayLength ==
  ASSUME NEW texts \in ShortArray, NEW even, even = EvenOnes(texts), even \in ShortArray,
         NEW n \in Nat, n = (Len(texts) + 1) \div 2, Len(even) = n
  PROVE  /\ ArraySize(texts) = Len(ArrayBytes(n, even)) + 16
         /\ \A k \in 1 .. n : Len(even[k]) + 9 <= Len(ArrayBytes(n, even))
<1> DEFINE T == ArrayTexts(n, even)
           parts == ElementsOf(even)
           f == [k \in 0 .. n |-> Len(T[k]) + 4]
<1>1. even \in Seq(ShortText) /\ n < WordMod
  BY DEF ShortArray
<1>2. Joined(T, n, parts) /\ T[0] = Val32ToBytes(n) /\ ArrayBytes(n, even) = T[n]
  BY <1>1, ArrayJoins
<1>3. ASSUME NEW k \in 1 .. n
      PROVE  /\ even[k] = texts[2 * k - 1] /\ Len(even[k]) \in Nat
             /\ Len(parts[k]) = Len(even[k]) + 5
  <2>1. even[k] = texts[2 * k - 1]
    BY DEF EvenOnes
  <2>2. even[k] \in ShortText /\ parts[k] = Element(even[k])
    BY <1>1, ElementOfSeq DEF ElementsOf
  <2> HIDE DEF parts
  <2> QED BY ONLY <2>1, <2>2, ElementSize, Zenon
<1> HIDE DEF T, parts
<1>4. /\ \A k \in 1 .. n : /\ Len(T[k]) = Len(T[k - 1]) + Len(parts[k])
                           /\ Len(T[k]) <= Len(T[n])
      /\ \A k \in 0 .. n : Len(T[k]) \in Nat
  <2>1. \A k \in 0 .. n : T[k] \in Seq(Byte8)
    BY <1>2 DEF Joined
  <2>2. \A k \in 0 .. n : Len(T[k]) \in Nat
    BY <2>1, LenProperties
  <2>3. Joined(T, n, parts)
    BY <1>2
  <2>4. /\ \A k \in 1 .. n : /\ Len(T[k]) = Len(T[k - 1]) + Len(parts[k])
                             /\ Len(T[k]) <= Len(T[n])
                             /\ Lies(T[n], Len(T[k - 1]), parts[k])
        /\ Lies(T[n], 0, T[0]) /\ Len(T[0]) <= Len(T[n])
    BY ONLY <2>3, n \in Nat, PartsLie, Zenon
  <2> QED BY ONLY <2>2, <2>4, Zenon
<1>5. Len(T[0]) = 4
  BY <1>1, <1>2, NumberBytes
<1>6. /\ \A k \in 1 .. n : k \in 0 .. n /\ k - 1 \in 0 .. n /\ k # 0 /\ 0 \in 0 .. n
      /\ 0 \in 0 .. n /\ n \in 0 .. n
  OBVIOUS
<1>7. AreReached(f, texts, n)
  <2>1. ASSUME NEW k \in 0 .. n
        PROVE  f[k] = IF k = 0 THEN 8 ELSE f[k - 1] + 5 + Len(texts[2 * k - 1])
    <3>1. CASE k = 0
      <4>1. f[0] = Len(T[0]) + 4
        BY ONLY <1>6, Zenon
      <4> HIDE DEF f
      <4>2. f[0] = 8
        BY ONLY <1>5, <4>1
      <4> QED BY ONLY <3>1, <4>2, Zenon
    <3>2. CASE k # 0
      <4>1. k \in 1 .. n
        BY <3>2
      <4>2. f[k] = Len(T[k]) + 4 /\ f[k - 1] = Len(T[k - 1]) + 4
        BY <1>6, <4>1
      <4> DEFINE a == Len(T[k])
                 b == Len(T[k - 1])
                 c == Len(texts[2 * k - 1])
      <4>3. a = b + (c + 5) /\ b \in Nat /\ c \in Nat
        BY ONLY <1>3, <1>4, <1>6, <4>1, Zenon
      <4>4. f[k] = a + 4 /\ f[k - 1] = b + 4
        BY ONLY <4>2, Zenon
      <4> HIDE DEF a, b, c, f
      <4>5. f[k] = f[k - 1] + 5 + c
        BY ONLY <4>3, <4>4
      <4> QED BY ONLY <3>2, <4>5, Zenon DEF c
    <3> QED BY <3>1, <3>2
  <2>2. f = [k \in 0 .. n |-> f[k]]
    OBVIOUS
  <2> HIDE DEF f
  <2> QED BY ONLY <2>1, <2>2, Zenon DEF AreReached
<1>8. f[n] = Len(T[n]) + 4 /\ Len(T[n]) \in Nat
  BY <1>4, <1>6
<1> HIDE DEF f
<1>9. ArraySize(texts) = f[n] + 12
  BY ONLY <1>7, n \in Nat, n = (Len(texts) + 1) \div 2, ReachedAre
<1>10. ASSUME NEW k \in 1 .. n PROVE Len(even[k]) + 9 <= Len(T[n])
  <2>1. Len(T[0]) <= Len(T[k - 1])
    <3> DEFINE S == {i \in 0 .. n : 4 <= Len(T[i])}
    <3>1. 0 \in S
      <4>1. 4 <= Len(T[0])
        BY ONLY <1>5
      <4> QED BY ONLY <1>6, <4>1, Zenon
    <3>2. ASSUME NEW i \in 1 .. n, i - 1 \in S PROVE i \in S
      <4>1. /\ Len(T[i]) = Len(T[i - 1]) + (Len(even[i]) + 5) /\ 4 <= Len(T[i - 1])
            /\ Len(T[i - 1]) \in Nat /\ Len(even[i]) \in Nat
        BY <1>3, <1>4, <1>6, <3>2
      <4> DEFINE a == Len(T[i])
                 b == Len(T[i - 1])
                 c == Len(even[i])
      <4> HIDE DEF a, b, c
      <4>2. 4 <= a
        <5>1. a = b + (c + 5) /\ 4 <= b /\ b \in Nat /\ c \in Nat
          BY ONLY <4>1, Zenon DEF a, b, c
        <5> QED BY ONLY <5>1
      <4> QED BY ONLY <1>6, <4>2, Zenon DEF a
    <3> HIDE DEF S
    <3>3. \A i \in 0 .. n : i \in S
      BY <3>1, <3>2, BoundedInduction
    <3> QED BY <1>5, <1>6, <3>3 DEF S
  <2> DEFINE a == Len(T[k])
             b == Len(T[k - 1])
             c == Len(even[k])
             d == Len(T[n])
  <2>2. a = b + (c + 5) /\ 4 <= b /\ a <= d /\ b \in Nat /\ c \in Nat /\ d \in Nat
    BY ONLY <1>3, <1>4, <1>5, <1>6, <2>1, Zenon
  <2> HIDE DEF a, b, c, d
  <2>3. c + 9 <= d
    BY ONLY <2>2
  <2> QED BY ONLY <2>3, Zenon DEF c, d
<1>11. ArraySize(texts) = Len(T[n]) + 16
  BY <1>8, <1>9
<1> QED BY ONLY <1>2, <1>10, <1>11, Zenon

\* An array within the 256 bytes of its buffer is written, and printDynamicStringArray
\* prints of it the texts with an even index, and the second array; a larger one
\* overruns the buffer.
THEOREM ArrayComesBack ==
  ASSUME NEW texts \in ShortArray
  PROVE  IF ArraySize(texts) > INITIAL_EXPBUFFER_SIZE THEN dynamicStringArray(texts) = Overrun
         ELSE /\ dynamicStringArray(texts) = KC_OK(TwoArrays(texts))
              /\ printDynamicStringArray(TwoArrays(texts)) = <<EvenOnes(texts), SecondArray>>
<1> DEFINE even == EvenOnes(texts)
           count == (Len(texts) + 1) \div 2
           head == Val32ToBytes(2)
           A == ArrayBytes(count, even)
           Z == ArrayBytes(1, SecondArray)
           B == head \o A \o Z
<1>1. even \in ShortArray /\ Len(even) = count
  <2>1. Len(texts) \in Nat /\ Len(texts) < WordMod /\ texts \in Seq(ShortText)
    BY LenProperties DEF ShortArray
  <2>2. count \in Nat /\ count < WordMod
    BY <2>1, SMT DEF WordMod
  <2>3. ASSUME NEW k \in 1 .. count PROVE texts[2 * k - 1] \in ShortText
    <3>1. 2 * k - 1 \in 1 .. Len(texts)
      BY <2>1
    <3> QED BY <2>1, <3>1, ElementOfSeq
  <2>4. even = [k \in 1 .. count |-> texts[2 * k - 1]]
    BY DEF EvenOnes
  <2> HIDE DEF even, count
  <2>5. even \in Seq(ShortText) /\ Len(even) = count
    BY <2>2, <2>3, <2>4
  <2> QED BY <2>2, <2>5 DEF ShortArray
<1>2. SecondArray \in ShortArray /\ Len(SecondArray) = 1
  <2>1. <<97, 98, 99>> \in Seq(Byte8) /\ Len(<<97, 98, 99>>) = 3
    BY ByteRange, FewBytes
  <2>2. <<97, 98, 99>> \in ShortText
    BY <2>1, SMT DEF ShortText, WordMod
  <2>3. SecondArray \in Seq(ShortText) /\ Len(SecondArray) = 1
    BY <2>2 DEF SecondArray
  <2>4. Len(SecondArray) < WordMod
    BY <2>3, SMT DEF WordMod
  <2> QED BY ONLY <2>3, <2>4, Zenon DEF ShortArray
<1>3. TwoArrays(texts) = B
  BY DEF TwoArrays
<1> HIDE DEF even, count
<1>4. A = ArrayBytes(Len(even), even) /\ A \in Seq(Byte8) /\ Len(A) \in Nat
  BY <1>1, ArrayType
<1>5. Z = ArrayBytes(Len(SecondArray), SecondArray) /\ Z \in Seq(Byte8) /\ Len(Z) \in Nat
  BY <1>2, ArrayType
<1>6. head \in Seq(Byte8) /\ Len(head) = 4
  <2>1. 2 \in Nat /\ 2 < WordMod
    BY SMT DEF WordMod
  <2> QED BY ONLY <2>1, NumberBytes
<1> HIDE DEF A, Z, head
<1> DEFINE m == 4 + Len(A)
<1>7. B \in Seq(Byte8) /\ Len(B) = m + Len(Z) /\ Lies(B, 4, A) /\ Lies(B, m, Z)
  <2> DEFINE front == head \o A
             one == {<<0, head>>} \cup {<<4, A>>}
             all == one \cup {<<m, Z>>}
  <2>1. Laid(head, {<<0, head>>}) /\ 4 = Len(head)
    BY <1>6, LaidAlone
  <2>2. Laid(front, one) /\ Len(front) = m
    BY ONLY <1>4, <2>1, Appended, ZenonT(40)
  <2> HIDE DEF front, one, m
  <2>3. Laid(front \o Z, all) /\ Len(front \o Z) = m + Len(Z)
    BY ONLY <1>5, <2>2, Appended
  <2>4. <<m, Z>> \in all /\ <<4, A>> \in all
    BY DEF one
  <2> HIDE DEF all
  <2>5. Lies(front \o Z, 4, A) /\ Lies(front \o Z, m, Z) /\ front \o Z \in Seq(Byte8)
    BY ONLY <2>3, <2>4, LaidPart DEF Laid
  <2> QED BY <2>3, <2>5 DEF front
<1> HIDE DEF B
<1>71. Len(Z) = 12
  <2> DEFINE abc == <<97, 98, 99>>
  <2>1. SecondArray = <<abc>> /\ Len(SecondArray) = 1 /\ Len(abc) = 3 /\ abc \in ShortText
    <3>1. SecondArray \in Seq(ShortText) /\ SecondArray = <<abc>>
      BY <1>2 DEF ShortArray, SecondArray
    <3>2. SecondArray[1] = abc /\ 1 \in 1 .. Len(SecondArray)
      BY <1>2, <3>1
    <3>3. abc \in ShortText
      BY ONLY <3>1, <3>2, ElementOfSeq
    <3> QED BY <1>2, <3>1, <3>3
  <2>2. Joined(ArrayTexts(1, SecondArray), 1, ElementsOf(SecondArray))
        /\ ArrayTexts(1, SecondArray)[0] = Val32ToBytes(1)
        /\ Z = ArrayTexts(1, SecondArray)[1]
    <3>1. 1 \in Nat /\ 1 < WordMod /\ SecondArray \in Seq(ShortText)
      BY <1>2, SMT DEF ShortArray, WordMod
    <3> QED BY <2>1, <3>1, ArrayJoins DEF Z
  <2>3. Len(Val32ToBytes(1)) = 4
    <3>1. 1 \in Nat /\ 1 < WordMod
      BY SMT DEF WordMod
    <3> QED BY ONLY <3>1, NumberBytes
  <2>4. ElementsOf(SecondArray)[1] = Element(abc) /\ Len(Element(abc)) = 8
    <3>1. Len(Element(abc)) = Len(abc) + 5
      BY ONLY <2>1, ElementSize
    <3>2. ElementsOf(SecondArray)[1] = Element(abc)
      BY <2>1 DEF ElementsOf
    <3> QED BY <2>1, <3>1, <3>2
  <2> DEFINE t == ArrayTexts(1, SecondArray)
             p == ElementsOf(SecondArray)
  <2>5. Joined(t, 1, p) /\ Len(t[0]) = 4 /\ Len(p[1]) = 8 /\ Z = t[1]
    BY ONLY <2>2, <2>3, <2>4, Zenon
  <2> HIDE DEF t, p
  <2>6. Len(t[1]) = Len(t[0]) + Len(p[1])
    <3> DEFINE n == 1
    <3>1. n \in Nat /\ n \in 1 .. n /\ n - 1 = 0 /\ Joined(t, n, p)
      BY ONLY <2>5
    <3> HIDE DEF n
    <3>2. /\ \A k \in 1 .. n : /\ Len(t[k]) = Len(t[k - 1]) + Len(p[k])
                               /\ Len(t[k]) <= Len(t[n])
                               /\ Lies(t[n], Len(t[k - 1]), p[k])
          /\ Lies(t[n], 0, t[0]) /\ Len(t[0]) <= Len(t[n])
      BY ONLY <3>1, PartsLie, Zenon
    <3>3. Len(t[n]) = Len(t[0]) + Len(p[n])
      BY ONLY <3>1, <3>2, Zenon
    <3> QED BY ONLY <3>3, Zenon DEF n
  <2> DEFINE u == Len(t[0])
             v == Len(p[1])
  <2>7. u = 4 /\ v = 8 /\ Len(Z) = u + v
    BY ONLY <2>5, <2>6, Zenon
  <2> HIDE DEF u, v
  <2> QED BY ONLY <2>7
<1>72. /\ ArraySize(texts) = Len(B)
       /\ \A k \in 1 .. count : Len(even[k]) + 25 <= Len(B)
  <2>1. even = EvenOnes(texts) /\ count = (Len(texts) + 1) \div 2
    BY DEF even, count
  <2>2. count \in Nat
    BY <1>1, LenProperties
  <2>3. A = ArrayBytes(count, even)
    BY DEF A
  <2>4. /\ ArraySize(texts) = Len(ArrayBytes(count, even)) + 16
        /\ \A k \in 1 .. count : Len(even[k]) + 9 <= Len(ArrayBytes(count, even))
    BY ONLY <1>1, <2>1, <2>2, texts \in ShortArray, ArrayLength
  <2> DEFINE a == Len(A)
             b == Len(B)
  <2>5. a \in Nat /\ b = a + 16
    BY <1>4, <1>7, <1>71
  <2>6. ArraySize(texts) = a + 16 /\ \A k \in 1 .. count : Len(even[k]) + 9 <= a
    BY ONLY <2>3, <2>4, Zenon
  <2>7. \A k \in 1 .. count : Len(even[k]) \in Nat
    <3>1. ASSUME NEW k \in 1 .. count PROVE Len(even[k]) \in Nat
      <4>1. even[k] \in ShortText
        BY <1>1, ElementOfSeq DEF ShortArray
      <4> QED BY <4>1, ElementSize
    <3> QED BY <3>1
  <2> HIDE DEF a, b
  <2>8. ASSUME NEW k \in 1 .. count PROVE Len(even[k]) + 25 <= b
    <3> DEFINE l == Len(even[k])
    <3>1. l + 9 <= a /\ l \in Nat
      BY <2>6, <2>7
    <3> HIDE DEF l
    <3>2. l + 25 <= b
      BY <2>5, <3>1
    <3> QED BY <3>2 DEF l
  <2>9. ArraySize(texts) = b
    BY <2>5, <2>6
  <2> QED BY ONLY <2>8, <2>9, Zenon DEF b
<1>73. Len(B) <= INITIAL_EXPBUFFER_SIZE => InPlace(texts)
  <2> SUFFICES ASSUME Len(B) <= 256 PROVE InPlace(texts)
    BY DEF INITIAL_EXPBUFFER_SIZE
  <2>1. DOMAIN even = 1 .. count
    BY <1>1, LenProperties DEF ShortArray
  <2>2. ASSUME NEW k \in 1 .. count PROVE (5 + Len(even[k])) + 1 <= 256
    <3> DEFINE l == Len(even[k])
               b == Len(B)
    <3>1. l + 25 <= b /\ b <= 256 /\ b \in Nat /\ l \in Nat
      <4>1. even[k] \in ShortText
        BY <1>1, ElementOfSeq DEF ShortArray
      <4>2. l \in Nat
        BY <4>1, ElementSize
      <4>3. b \in Nat
        BY <1>7, LenProperties
      <4> QED BY <1>72, <4>2, <4>3
    <3> HIDE DEF l, b
    <3>2. (5 + l) + 1 <= 256
      BY ONLY <3>1
    <3> QED BY ONLY <3>2, Zenon DEF l
  <2>3. 8 + 1 <= 256 /\ 12 + 1 <= 256
    OBVIOUS
  <2>4. Needed(texts) = {8, 12} \cup {5 + Len(even[k]) : k \in 1 .. count}
    BY ONLY <2>1, Zenon DEF Needed, even
  <2>5. \A needed \in Needed(texts) : needed + 1 <= 256
    BY ONLY <2>2, <2>3, <2>4, Zenon
  <2> QED BY ONLY <2>5, Zenon DEF InPlace, INITIAL_EXPBUFFER_SIZE
<1>74. IF ArraySize(texts) > INITIAL_EXPBUFFER_SIZE THEN dynamicStringArray(texts) = Overrun
       ELSE dynamicStringArray(texts) = KC_OK(B)
  <2> DEFINE b == Len(B)
             size == ArraySize(texts)
             limit == INITIAL_EXPBUFFER_SIZE
  <2>1. b \in Nat /\ size = b /\ limit \in Nat
    BY <1>7, <1>72, LenProperties DEF INITIAL_EXPBUFFER_SIZE
  <2>2. dynamicStringArray(texts) =
          IF InPlace(texts) /\ b <= limit THEN KC_OK(B) ELSE Overrun
    BY ONLY <1>3, Zenon DEF dynamicStringArray
  <2>3. b <= limit => InPlace(texts)
    BY ONLY <1>73, Zenon
  <2> HIDE DEF b, size, limit
  <2>4. (size > limit) <=> ~(b <= limit)
    BY ONLY <2>1
  <2> QED BY ONLY <2>2, <2>3, <2>4, Zenon DEF size, limit
<1>8. m \in Nat /\ 4 \in Nat /\ 4 + Len(A) <= Len(B) /\ m + Len(Z) <= Len(B)
  BY <1>4, <1>5, <1>7
<1>9. Number(B, 5) = count /\ Texts(B, 9, count) = even /\ Ends(B, 9, count)[count] = m + 1
  <2>1. /\ Number(B, 4 + 1) = Len(even) /\ Texts(B, 4 + 5, Len(even)) = even
        /\ Ends(B, 4 + 5, Len(even))[Len(even)] = (4 + Len(A)) + 1
    BY ONLY <1>1, <1>4, <1>7, <1>8, ArrayIsRead, SMTT(30)
  <2>2. 4 + 1 = 5 /\ 4 + 5 = 9
    OBVIOUS
  <2> QED BY ONLY <1>1, <2>1, <2>2, Zenon DEF m
<1>10. Number(B, m + 1) = 1 /\ Texts(B, (m + 1) + 4, 1) = SecondArray
  <2>1. Number(B, m + 1) = Len(SecondArray) /\ Texts(B, m + 5, Len(SecondArray)) = SecondArray
    <3> HIDE DEF m
    <3> QED BY ONLY <1>2, <1>5, <1>7, <1>8, ArrayIsRead, ZenonT(40)
  <2>2. m + 5 = (m + 1) + 4
    BY <1>8
  <2> QED BY ONLY <1>2, <2>1, <2>2, Zenon
<1> HIDE DEF m
<1>11. printDynamicStringArray(B) = <<even, SecondArray>>
  BY ONLY <1>9, <1>10, Zenon DEF printDynamicStringArray
<1> QED BY ONLY <1>3, <1>74, <1>11, Zenon DEF even

-----------------------------------------------------------------------------
(***************************************************************************)
(* CRCs of 32 and 64 bits.                                                 *)
(***************************************************************************)
\* With the remainder of each single byte in the table, one turn of the loop is
\* one byte of the division, and so is the whole loop.
Remainders(n, poly, table) ==
  \A byte \in 0 .. 255 : Entry(table, n, byte) = EightBits(poly, Alone(n, byte))

Agree(n, poly, table, start, data) ==
  /\ WideRegisters(table, start, data)[Len(data)] = RemainderOf(poly, start, data)
  /\ RemainderOf(poly, start, data) \in Numbers(n)

\* A table of such remainders divides byte by byte.
LEMMA TableDivides ==
  ASSUME NEW n \in Nat \ {0}, NEW poly \in Numbers(n), NEW start \in Numbers(n),
         NEW table, Remainders(n, poly, table), NEW data \in Seq(Byte8)
  PROVE  Agree(n, poly, table, start, data)
<1> DEFINE m == Len(data)
           r == RemaindersOf(poly, start, data)
           w == WideRegisters(table, start, data)
<1>1. m \in Nat /\ \A k \in 1 .. m : data[k] \in 0 .. 255
  <2>1. m \in Nat /\ \A k \in 1 .. m : data[k] \in Byte8
    OBVIOUS
  <2> QED BY <2>1 DEF Byte8
<1>2. /\ r \in [0 .. m -> Numbers(n)] /\ r[0] = start
      /\ \A k \in 1 .. m : r[k] = Divided(poly, r[k - 1], data[k])
  BY RemaindersAreDivided DEF IsDivision
<1> HIDE DEF r, m
<1>3. ASSUME NEW crc \in Numbers(n), NEW byte \in 0 .. 255
      PROVE  NextCrc(table, crc, byte) = Divided(poly, crc, byte)
  <2> DEFINE index == XorByte[crc[n]][byte]
  <2>1. index \in 0 .. 255
        /\ Divided(poly, crc, byte) = XorBytes(EightBits(poly, Alone(n, index)), ByteOn(crc))
    <3>1. ByTable(n, poly, crc, byte)
      BY DividedByTable
    <3> QED BY <3>1 DEF ByTable
  <2>2. NextCrc(table, crc, byte) = XorBytes(Entry(table, n, index), ByteOn(crc))
    BY NumberLength DEF NextCrc
  <2> HIDE DEF index
  <2>3. Entry(table, n, index) = EightBits(poly, Alone(n, index))
    BY <2>1 DEF Remainders
  <2> QED BY <2>1, <2>2, <2>3
<1>4. \A k \in 1 .. m : r[k] = NextCrc(table, r[k - 1], data[k])
  <2>1. \A k \in 1 .. m : k - 1 \in 0 .. m
    BY <1>1
  <2>2. \A k \in 1 .. m : r[k - 1] \in Numbers(n)
    BY <1>2, <2>1
  <2> QED BY <1>1, <1>2, <1>3, <2>2
<1>5. r = [i \in 0 .. Len(data) |-> IF i = 0 THEN start ELSE NextCrc(table, r[i - 1], data[i])]
  <2>1. \A k \in 0 .. m : k # 0 => k \in 1 .. m
    BY <1>1
  <2>2. \A k \in 0 .. m : r[k] = IF k = 0 THEN start ELSE NextCrc(table, r[k - 1], data[k])
    BY <1>2, <1>4, <2>1
  <2>3. r = [i \in 0 .. m |-> IF i = 0 THEN start ELSE NextCrc(table, r[i - 1], data[i])]
    BY <1>2, <2>2
  <2> QED BY <2>3 DEF m
<1>6. WideRegisters(table, start, data) = [i \in 0 .. Len(data) |->
        IF i = 0 THEN start ELSE NextCrc(table, WideRegisters(table, start, data)[i - 1], data[i])]
  BY <1>5, Zenon DEF WideRegisters
<1> HIDE DEF w
<1>7. w = [i \in 0 .. m |-> IF i = 0 THEN start ELSE NextCrc(table, w[i - 1], data[i])]
  BY <1>6 DEF w, m
<1>8. \A k \in 0 .. m : w[k] = r[k]
  <2> DEFINE S == {k \in 0 .. m : w[k] = r[k]}
  <2>1. 0 \in S
    BY <1>1, <1>2, <1>7
  <2>2. ASSUME NEW k \in 1 .. m, k - 1 \in S PROVE k \in S
    <3>1. k \in 0 .. m /\ k # 0
      BY <1>1
    <3>2. w[k] = NextCrc(table, w[k - 1], data[k])
      BY <1>7, <3>1
    <3> QED BY <1>4, <2>2, <3>1, <3>2
  <2> HIDE DEF S
  <2>3. \A k \in 0 .. m : k \in S
    BY <1>1, <2>1, <2>2, BoundedInduction
  <2> QED BY <2>3 DEF S
<1>9. w[m] = r[m] /\ r[m] \in Numbers(n)
  <2>1. m \in 0 .. m
    BY <1>1
  <2> QED BY <1>2, <1>8, <2>1
<1> QED BY <1>9 DEF w, r, m, RemainderOf, Agree

\* kcCrc32 with its table computes the remainder of the division by its
\* polynomial, from a register of ones and with the result inverted, for every
\* sequence of bytes.
THEOREM Crc32IsRemainder ==
  ASSUME NEW data \in Seq(Byte8)
  PROVE  kcCrc32(data) = XorBytes(RemainderOf(Poly32, AllOnes, data), AllOnes)
<1>1. 4 \in Nat \ {0} /\ Poly32 \in Numbers(4) /\ AllOnes \in Numbers(4)
  BY SMT DEF Numbers, Poly32, AllOnes
<1>2. Remainders(4, Poly32, crc32_tab)
  BY WideTablesAssumption DEF Remainders
<1>3. Agree(4, Poly32, crc32_tab, AllOnes, data)
  BY <1>1, <1>2, TableDivides
<1> QED BY <1>3 DEF Agree, kcCrc32

\* kcCrc64 with its table computes the remainder of the division by its
\* polynomial, from zero, for every sequence of bytes.
THEOREM Crc64IsRemainder ==
  ASSUME NEW data \in Seq(Byte8)
  PROVE  kcCrc64(data) = RemainderOf(Poly64, AllZeros, data)
<1>1. 8 \in Nat \ {0} /\ Poly64 \in Numbers(8) /\ AllZeros \in Numbers(8)
  BY SMT DEF Numbers, Poly64, AllZeros
<1>2. Remainders(8, Poly64, crc64_tab)
  BY WideTablesAssumption DEF Remainders
<1>3. Agree(8, Poly64, crc64_tab, AllZeros, data)
  BY <1>1, <1>2, TableDivides
<1> QED BY <1>3 DEF Agree, kcCrc64

-----------------------------------------------------------------------------
(***************************************************************************)
(* The entries of the log, and the kinds of characters.                    *)
(***************************************************************************)
\* Nothing more than the message, and in one piece the message itself.
Fits(text, context, bufferSize) ==
  /\ text \in Seq(Byte8) /\ Len(text) <= Len(context)
  /\ Len(context) <= bufferSize => text \in {<<>>, context}

\* A piece keeps the entry within the message.
LEMMA PieceFits ==
  ASSUME NEW context \in Seq(Byte8), NEW bufferSize \in Nat \ {0}, NEW failsAt \in Nat,
         NEW turn \in Nat, NEW text \in Seq(Byte8)
  PROVE  /\ WithPiece(text, context, bufferSize, failsAt, turn) \in Seq(Byte8)
         /\ Fits(text, context, bufferSize) =>
              Fits(WithPiece(text, context, bufferSize, failsAt, turn), context, bufferSize)
<1>1. CASE Len(text) >= Len(context) \/ turn >= failsAt
  BY <1>1 DEF WithPiece
<1>2. CASE ~(Len(text) >= Len(context) \/ turn >= failsAt)
  <2> DEFINE wanted == Wanted(Len(context) - Len(text), bufferSize)
             piece == SubSeq(context, 1, wanted)
  <2>1. Len(text) \in Nat /\ Len(context) \in Nat /\ Len(text) < Len(context)
    BY <1>2, LenProperties
  <2>2. wanted \in Nat /\ wanted <= Len(context) - Len(text) /\ wanted <= bufferSize
    BY <2>1 DEF Wanted
  <2>3. Len(context) <= bufferSize /\ text = <<>> => wanted = Len(context)
    BY <2>1, EmptySeq DEF Wanted
  <2> HIDE DEF wanted
  <2>4. piece \in Seq(Byte8) /\ Len(piece) = wanted
    BY <2>1, <2>2, SubBytes
  <2>5. wanted = Len(context) => piece = context
    BY <2>1, SubSeqProperties
  <2>6. WithPiece(text, context, bufferSize, failsAt, turn) = text \o piece
    BY <1>2 DEF WithPiece, wanted
  <2> HIDE DEF piece
  <2>7. text \o piece \in Seq(Byte8) /\ Len(text \o piece) = Len(text) + Len(piece)
    BY <2>4, ConcatBytes
  <2>8. <<>> \o piece = piece
    BY <2>4
  <2>9. Len(context) <= bufferSize /\ Fits(text, context, bufferSize) => text \o piece = context
    BY <2>1, <2>3, <2>5, <2>8 DEF Fits
  <2> QED BY <2>1, <2>2, <2>4, <2>6, <2>7, <2>9 DEF Fits
<1> QED BY <1>1, <1>2

\* The entry is the text after the last turn.
LEMMA PiecesAreTurns ==
  ASSUME NEW context \in Seq(Byte8), NEW bufferSize \in Nat \ {0}, NEW failsAt \in Nat
  PROVE  Fits(Pieces(context, bufferSize, failsAt)[Len(context)], context, bufferSize)
<1> DEFINE n == Len(context)
           T == Seq(Byte8)
           Turn(text, turn) == WithPiece(text, context, bufferSize, failsAt, turn)
           g == [turn \in 1 .. n |-> [text \in T |-> Turn(text, turn)]]
           r == Pieces(context, bufferSize, failsAt)
<1>1. n \in Nat
  BY LenProperties
<1>2. <<>> \in T /\ Len(<<>>) = 0
  BY EmptySeq
<1>3. \A turn \in 1 .. n, text \in T :
        Turn(text, turn) \in T /\
        (Fits(text, context, bufferSize) => Fits(Turn(text, turn), context, bufferSize))
  <2>1. \A turn \in 1 .. n : turn \in Nat
    OBVIOUS
  <2> QED BY <2>1, PieceFits
<1> HIDE DEF T, Turn
<1>6. g \in [1 .. n -> [T -> T]] /\ \A turn \in 1 .. n : \A text \in T : g[turn][text] = Turn(text, turn)
  BY <1>3
<1> HIDE DEF g
<1>7. PICK f \in [0 .. n -> T] : f[0] = <<>> /\ \A k \in 1 .. n : f[k] = g[k][f[k - 1]]
  <2>1. CanRecurse(n, T, <<>>, g)
    BY <1>1, <1>2, <1>6, Recursion
  <2> QED BY <2>1 DEF CanRecurse, Recursive
<1>8. f = [turn \in 0 .. n |-> IF turn = 0 THEN <<>> ELSE Turn(f[turn - 1], turn)]
  <2>1. \A k \in 0 .. n : k # 0 => k \in 1 .. n
    BY <1>1
  <2>2. \A k \in 1 .. n : k - 1 \in 0 .. n
    BY <1>1
  <2>3. \A k \in 0 .. n : f[k] = IF k = 0 THEN <<>> ELSE Turn(f[k - 1], k)
    BY <1>6, <1>7, <2>1, <2>2
  <2> QED BY <1>7, <2>3
<1>9. r = [turn \in 0 .. n |-> IF turn = 0 THEN <<>> ELSE Turn(r[turn - 1], turn)]
  BY <1>8, Zenon DEF Pieces, Turn
<1> HIDE DEF r
<1>10. r[0] = <<>>
  BY <1>1, <1>9
<1> DEFINE S == {k \in 0 .. n : r[k] \in T /\ Fits(r[k], context, bufferSize)}
<1>11. 0 \in S
  <2>1. Len(context) \in Nat /\ 0 <= Len(context)
    BY LenProperties
  <2>2. r[0] \in T /\ r[0] \in Seq(Byte8) /\ Len(r[0]) <= Len(context) /\ r[0] \in {<<>>, context}
    BY ONLY <1>2, <1>10, <2>1 DEF T
  <2>3. Fits(r[0], context, bufferSize)
    BY ONLY <2>2, Zenon DEF Fits
  <2> QED BY <1>1, <2>2, <2>3
<1>12. ASSUME NEW k \in 1 .. n, k - 1 \in S PROVE k \in S
  <2>1. k \in 0 .. n /\ k # 0
    BY <1>1
  <2>2. r[k - 1] \in T /\ Fits(r[k - 1], context, bufferSize)
    BY <1>12
  <2>3. r[k] = Turn(r[k - 1], k)
    BY <1>9, <2>1
  <2> QED BY <1>3, <2>1, <2>2, <2>3
<1> HIDE DEF S
<1>13. \A k \in 0 .. n : k \in S
  BY <1>1, <1>11, <1>12, BoundedInduction
<1>14. n \in S
  BY <1>1, <1>13
<1> QED BY <1>14 DEF S

\* An entry that is ended has the length of the message, and when this fits one
\* write it is the message.
LEMMA EntryIsWhole ==
  ASSUME NEW context \in Seq(Byte8), NEW bufferSize \in Nat \ {0}, NEW failsAt \in Nat,
         kcSaveLog(context, bufferSize, failsAt).ended
  PROVE  /\ Len(kcSaveLog(context, bufferSize, failsAt).text) = Len(context)
         /\ Len(context) <= bufferSize => kcSaveLog(context, bufferSize, failsAt).text = context
<1> DEFINE text == Pieces(context, bufferSize, failsAt)[Len(context)]
<1>1. Fits(text, context, bufferSize)
  BY PiecesAreTurns
<1>2. kcSaveLog(context, bufferSize, failsAt).text = text /\ Len(text) >= Len(context)
  BY DEF kcSaveLog
<1> HIDE DEF text
<1>3. Len(text) \in Nat /\ Len(context) \in Nat
  BY <1>1, LenProperties DEF Fits
<1>4. text = <<>> => Len(text) = 0
  BY EmptySeq
<1>5. Len(context) = 0 => context = <<>>
  BY EmptySeq
<1> QED BY <1>1, <1>2, <1>3, <1>4, <1>5 DEF Fits

\* The cases of kcCkeckFlag are the bits of its flag.
LEMMA KindsByBits ==
  ASSUME NEW flag \in Nat
  PROVE  kcCkeckFlag(flag) = IF flag \in 1 .. 14
                             THEN {kind \in 1 .. 4 : (flag \div <<1, 2, 4, 8>>[kind]) % 2 = 1}
                             ELSE {0}
<1>1. {kind \in 1 .. 4 : (flag \div <<1, 2, 4, 8>>[kind]) % 2 = 1}
        = {kind \in 1 .. 4 : \/ kind = 1 /\ flag % 2 = 1
                             \/ kind = 2 /\ (flag \div 2) % 2 = 1
                             \/ kind = 3 /\ (flag \div 4) % 2 = 1
                             \/ kind = 4 /\ (flag \div 8) % 2 = 1}
  <2>1. \A kind \in 1 .. 4 : kind = 1 \/ kind = 2 \/ kind = 3 \/ kind = 4
    OBVIOUS
  <2>2. <<1, 2, 4, 8>>[1] = 1 /\ <<1, 2, 4, 8>>[2] = 2 /\ <<1, 2, 4, 8>>[3] = 4 /\ <<1, 2, 4, 8>>[4] = 8
    OBVIOUS
  <2>3. flag \div 1 = flag
    OBVIOUS
  <2> QED BY <2>1, <2>2, <2>3
<1>2. CASE flag \in 1 .. 14
  <2>1. flag \in {1, 2, 3, 4, 5, 6, 7, 8, 9, 10, 11, 12, 13, 14}
    BY <1>2
  <2> QED BY <1>1, <1>2, <2>1 DEF kcCkeckFlag, KC_RANDOM
<1>3. CASE flag \notin 1 .. 14
  BY <1>3 DEF kcCkeckFlag
<1> QED BY <1>2, <1>3

-----------------------------------------------------------------------------
(***************************************************************************)
(* Texts with replacements.                                                *)
(***************************************************************************)
\* The states of kcStringReplace, one after each character.
LEMMA SearchesAreTurns ==
  ASSUME NEW source \in Seq(Byte8), NEW substr \in Seq(Byte8), NEW dest \in Seq(Byte8)
  PROVE  LET s == Searches(source, substr, dest)
         IN /\ s \in [0 .. Len(source) -> [text : Seq(Byte8), ptmp : Nat]]
            /\ s[0] = [text |-> <<>>, ptmp |-> 1]
            /\ \A k \in 1 .. Len(source) : s[k] = Searched(s[k - 1], source, substr, dest, k)
<1> DEFINE n == Len(source)
           T == [text : Seq(Byte8), ptmp : Nat]
           first == [text |-> <<>>, ptmp |-> 1]
           Turn(s, k) == Searched(s, source, substr, dest, k)
           g == [k \in 1 .. n |-> [s \in T |-> Turn(s, k)]]
           r == Searches(source, substr, dest)
<1>1. n \in Nat /\ Len(substr) \in Nat
  BY LenProperties
<1>2. first \in T
  BY EmptySeq
<1>3. ASSUME NEW k \in 1 .. n, NEW s \in T PROVE Turn(s, k) \in T
  <2>1. s.text \in Seq(Byte8) /\ s.ptmp \in Nat
    OBVIOUS
  <2>2. source[k] \in Byte8
    BY <1>3, ElementOfSeq
  <2>3. s.text \o dest \in Seq(Byte8) /\ Append(s.text, source[k]) \in Seq(Byte8)
    BY <2>1, <2>2, ConcatBytes, AppendProperties
  <2>4. k + Len(substr) \in Nat /\ k + 1 \in Nat
    BY <1>1
  <2> QED BY <2>1, <2>3, <2>4 DEF Searched
<1> HIDE DEF T, Turn, first
<1>4. g \in [1 .. n -> [T -> T]] /\ \A k \in 1 .. n : \A s \in T : g[k][s] = Turn(s, k)
  BY <1>3
<1> HIDE DEF g
<1>5. PICK f \in [0 .. n -> T] : f[0] = first /\ \A k \in 1 .. n : f[k] = g[k][f[k - 1]]
  <2>1. CanRecurse(n, T, first, g)
    BY <1>1, <1>2, <1>4, Recursion
  <2> QED BY <2>1 DEF CanRecurse, Recursive
<1>6. \A k \in 0 .. n : k # 0 => k \in 1 .. n
  BY <1>1
<1>7. \A k \in 1 .. n : k - 1 \in 0 .. n /\ k \in 0 .. n /\ k # 0
  BY <1>1
<1>8. f = [k \in 0 .. n |-> IF k = 0 THEN first ELSE Turn(f[k - 1], k)]
  <2>1. \A k \in 0 .. n : f[k] = IF k = 0 THEN first ELSE Turn(f[k - 1], k)
    BY <1>4, <1>5, <1>6, <1>7
  <2> QED BY <1>5, <2>1
<1>9. r = [k \in 0 .. n |-> IF k = 0 THEN first ELSE Turn(r[k - 1], k)]
  BY <1>8, Zenon DEF Searches, Turn, first
<1> HIDE DEF r
<1>10. r[0] = first /\ \A k \in 1 .. n : r[k] = Turn(r[k - 1], k)
  BY <1>1, <1>7, <1>9
<1> DEFINE S == {k \in 0 .. n : r[k] \in T}
<1>11. 0 \in S
  BY <1>1, <1>2, <1>10
<1>12. ASSUME NEW k \in 1 .. n, k - 1 \in S PROVE k \in S
  BY <1>3, <1>7, <1>10, <1>12
<1> HIDE DEF S
<1>13. \A k \in 0 .. n : k \in S
  BY <1>1, <1>11, <1>12, BoundedInduction
<1>14. r \in [0 .. n -> T]
  <2>1. \A k \in 0 .. n : r[k] \in T
    BY <1>13 DEF S
  <2> QED BY <1>9, <2>1
<1> QED BY <1>10, <1>14 DEF r, T, Turn, first

\* The three cases of a turn.
IsSearched(next, s, source, substr, dest, k) ==
  /\ s.ptmp > k => next = s
  /\ s.ptmp <= k /\ Occurs(source, substr, k) =>
       next.text = s.text \o dest /\ next.ptmp = k + Len(substr)
  /\ s.ptmp <= k /\ ~Occurs(source, substr, k) =>
       next.text = Append(s.text, source[k]) /\ next.ptmp = k + 1

\* A turn is one of the cases.
LEMMA SearchedCases ==
  ASSUME NEW s, s.ptmp \in Nat, NEW source, NEW substr, NEW dest, NEW k \in Nat
  PROVE  IsSearched(Searched(s, source, substr, dest, k), s, source, substr, dest, k)
<1>1. s.ptmp > k <=> ~(s.ptmp <= k)
  OBVIOUS
<1>2. s.ptmp > k => Searched(s, source, substr, dest, k) = s
  BY <1>1, Zenon DEF Searched
<1>3. s.ptmp <= k /\ Occurs(source, substr, k) =>
        Searched(s, source, substr, dest, k) = [text |-> s.text \o dest, ptmp |-> k + Len(substr)]
  BY <1>1, Zenon DEF Searched
<1>4. s.ptmp <= k /\ ~Occurs(source, substr, k) =>
        Searched(s, source, substr, dest, k) = [text |-> Append(s.text, source[k]), ptmp |-> k + 1]
  BY <1>1, Zenon DEF Searched
<1> QED BY <1>2, <1>3, <1>4 DEF IsSearched

\* What stands in the result for the k-th character.
Part(places, source, substr, dest, k) ==
  CASE k \in places -> dest
    [] k \notin places /\ Overlapped(places, substr, k) -> <<>>
    [] OTHER -> <<source[k]>>

\* After k characters the search goes on behind the last place in front of them, or
\* at the next character.
Behind(s, places, size, k) ==
  /\ s.ptmp \in Nat /\ s.ptmp >= k + 1
  /\ \A j \in places : j <= k => j + size <= s.ptmp
  /\ s.ptmp # k + 1 => \E j \in places : j <= k /\ j + size = s.ptmp

\* The texts after each character are joined from the parts.
LEMMA ReplacesPlaces ==
  ASSUME NEW source \in Seq(Byte8), NEW substr \in Seq(Byte8), substr # <<>>,
         NEW dest \in Seq(Byte8)
  PROVE  \E places \in SUBSET DOMAIN source :
           /\ ArePlaces(places, source, substr)
           /\ Searches(source, substr, dest)[Len(source)].text
                = Replaced(places, source, substr, dest)
<1> DEFINE n == Len(source)
           size == Len(substr)
           r == Searches(source, substr, dest)
           places == {k \in 1 .. n : r[k - 1].ptmp <= k /\ Occurs(source, substr, k)}
           parts == [k \in 1 .. n |-> Part(places, source, substr, dest, k)]
           text == FlattenTexts(parts)
<1>1. n \in Nat /\ size \in Nat /\ size > 0 /\ DOMAIN source = 1 .. n
  BY LenProperties, EmptySeq
<1>2. /\ r \in [0 .. n -> [text : Seq(Byte8), ptmp : Nat]]
      /\ r[0] = [text |-> <<>>, ptmp |-> 1]
      /\ \A k \in 1 .. n : r[k] = Searched(r[k - 1], source, substr, dest, k)
  BY SearchesAreTurns
<1> HIDE DEF n, r
<1>3. places \subseteq 1 .. n /\ \A k \in 1 .. n : k \in places <=> r[k - 1].ptmp <= k /\ Occurs(source, substr, k)
  OBVIOUS
<1> HIDE DEF places
<1>4. \A k \in 1 .. n : k - 1 \in 0 .. n /\ k \in 0 .. n
  BY <1>1
<1>5. \A k \in 0 .. n : r[k].text \in Seq(Byte8) /\ r[k].ptmp \in Nat
  BY <1>2
<1>6. ASSUME NEW k \in 1 .. n
      PROVE  /\ r[k - 1].ptmp > k => r[k] = r[k - 1]
             /\ k \in places => r[k].text = r[k - 1].text \o dest /\ r[k].ptmp = k + size
             /\ r[k - 1].ptmp <= k /\ k \notin places =>
                  r[k].text = Append(r[k - 1].text, source[k]) /\ r[k].ptmp = k + 1
  <2>1. r[k] = Searched(r[k - 1], source, substr, dest, k)
    BY <1>2
  <2>2. r[k - 1].ptmp \in Nat /\ k \in Nat
    BY <1>4, <1>5
  <2>3. k \in places <=> r[k - 1].ptmp <= k /\ Occurs(source, substr, k)
    BY <1>3
  <2>4. IsSearched(r[k], r[k - 1], source, substr, dest, k)
    BY <2>1, <2>2, SearchedCases
  <2> QED BY <2>3, <2>4 DEF IsSearched, size
<1> HIDE DEF size
<1> DEFINE S == {k \in 0 .. n : Behind(r[k], places, size, k)}
<1>7. 0 \in S
  <2>1. r[0].ptmp = 1 /\ 0 \in 0 .. n
    BY <1>1, <1>2
  <2>2. \A j \in places : ~(j <= 0)
    BY <1>3
  <2> QED BY <2>1, <2>2 DEF Behind
<1>8. ASSUME NEW k \in 1 .. n, k - 1 \in S PROVE k \in S
  <2>1. Behind(r[k - 1], places, size, k - 1)
    BY <1>8
  <2>2. k \in 0 .. n /\ k \in Nat /\ places \subseteq Int
    BY <1>1, <1>3
  <2> DEFINE p == r[k - 1].ptmp
             q == r[k].ptmp
  <2>3. /\ p \in Nat /\ p >= k
        /\ \A j \in places : j <= k - 1 => j + size <= p
        /\ p # k => \E j \in places : j <= k - 1 /\ j + size = p
    BY <2>1, <2>2 DEF Behind
  <2>4. q \in Nat
    BY <1>5, <2>2
  <2>5. /\ p > k => q = p
        /\ k \in places => q = k + size
        /\ p <= k /\ k \notin places => q = k + 1
    BY <1>6
  <2>6. k \in places => p <= k
    BY <1>3
  <2> HIDE DEF p, q
  <2>7. \A j \in places : j <= k => j <= k - 1 \/ j = k
    BY <2>2
  <2>8. CASE p > k
    <3>1. k \notin places /\ q = p
      BY <2>2, <2>3, <2>5, <2>6, <2>8
    <3>2. \A j \in places : j <= k => j + size <= q
      BY <2>3, <2>7, <3>1
    <3>3. \E j \in places : j <= k /\ j + size = q
      BY <2>2, <2>3, <2>8, <3>1
    <3> QED BY <2>2, <2>4, <2>8, <3>1, <3>2, <3>3 DEF Behind, q
  <2>9. CASE p = k /\ k \in places
    <3>1. q = k + size
      BY <2>5, <2>9
    <3>2. \A j \in places : j <= k => j + size <= q
      BY <1>1, <2>2, <2>3, <2>7, <2>9, <3>1
    <3>3. \E j \in places : j <= k /\ j + size = q
      BY <2>2, <2>9, <3>1
    <3> QED BY <1>1, <2>2, <2>4, <3>1, <3>2, <3>3 DEF Behind, q
  <2>10. CASE p = k /\ k \notin places
    <3>1. q = k + 1
      BY <2>2, <2>5, <2>10
    <3>2. \A j \in places : j <= k => j + size <= q
      BY <1>1, <2>2, <2>3, <2>7, <2>10, <3>1
    <3> QED BY <2>2, <2>4, <3>1, <3>2 DEF Behind, q
  <2> QED BY <2>2, <2>3, <2>8, <2>9, <2>10
<1> HIDE DEF S
<1>9. \A k \in 0 .. n : Behind(r[k], places, size, k)
  <2>1. \A k \in 0 .. n : k \in S
    BY <1>1, <1>7, <1>8, BoundedInduction
  <2> QED BY <2>1 DEF S
<1>10. \A k \in 1 .. n : Overlapped(places, substr, k) <=> r[k - 1].ptmp > k
  <2>1. ASSUME NEW k \in 1 .. n PROVE Overlapped(places, substr, k) <=> r[k - 1].ptmp > k
    <3> DEFINE p == r[k - 1].ptmp
    <3>1. Behind(r[k - 1], places, size, k - 1) /\ k \in Nat /\ places \subseteq Int
      BY <1>1, <1>3, <1>4, <1>9
    <3>2. /\ p \in Nat /\ p >= k
          /\ \A j \in places : j <= k - 1 => j + size <= p
          /\ p # k => \E j \in places : j <= k - 1 /\ j + size = p
      BY <3>1 DEF Behind
    <3> HIDE DEF p
    <3>3. Overlapped(places, substr, k) <=> \E j \in places : j < k /\ k < j + size
      BY DEF Overlapped, size
    <3>4. ASSUME NEW j \in places, j < k, k < j + size PROVE p > k
      BY <1>1, <3>1, <3>2, <3>4
    <3>5. ASSUME p > k PROVE \E j \in places : j < k /\ k < j + size
      BY <1>1, <3>1, <3>2, <3>5
    <3> QED BY <3>3, <3>4, <3>5 DEF p
  <2> QED BY <2>1
<1>11. ArePlaces(places, source, substr)
  <2>1. \A k \in 1 .. n : k \in places <=> Occurs(source, substr, k) /\ ~Overlapped(places, substr, k)
    <3>1. \A k \in 1 .. n : r[k - 1].ptmp \in Nat
      BY <1>4, <1>5
    <3> QED BY <1>3, <1>10, <3>1
  <2> QED BY <1>1, <1>3, <2>1 DEF ArePlaces
<1>12. ASSUME NEW k \in 1 .. n
       PROVE  /\ Part(places, source, substr, dest, k) \in Seq(Byte8)
              /\ r[k].text = r[k - 1].text \o Part(places, source, substr, dest, k)
  <2> DEFINE part == Part(places, source, substr, dest, k)
             s == r[k - 1].text
  <2>1. s \in Seq(Byte8) /\ r[k - 1].ptmp \in Nat /\ k \in Nat
    BY <1>4, <1>5
  <2>2. source[k] \in Byte8 /\ <<source[k]>> \in Seq(Byte8) /\ <<>> \in Seq(Byte8)
    BY <1>1, ElementOfSeq, EmptySeq
  <2>3. k \in places => r[k - 1].ptmp <= k
    BY <1>3
  <2>4. CASE k \in places
    <3>1. part = dest
      BY <2>4 DEF Part
    <3> QED BY <1>6, <2>4, <3>1
  <2>5. CASE k \notin places /\ Overlapped(places, substr, k)
    <3>1. part = <<>>
      BY <2>5 DEF Part
    <3>2. r[k] = r[k - 1]
      BY <1>6, <1>10, <2>5
    <3>3. s \o <<>> = s
      BY <2>1
    <3> QED BY <2>2, <3>1, <3>2, <3>3
  <2>6. CASE k \notin places /\ ~Overlapped(places, substr, k)
    <3>1. part = <<source[k]>>
      BY <2>6 DEF Part
    <3>2. r[k].text = Append(s, source[k])
      BY <1>6, <1>10, <2>1, <2>6
    <3>3. Append(s, source[k]) = s \o <<source[k]>>
      BY <2>1, <2>2, AppendIsConcat
    <3> QED BY <2>2, <3>1, <3>2, <3>3
  <2> QED BY <2>4, <2>5, <2>6
<1>13. parts \in Seq(Seq(Byte8)) /\ Len(parts) = n /\ \A k \in 1 .. n : parts[k] = Part(places, source, substr, dest, k)
  BY <1>1, <1>12
<1>14. Replaced(places, source, substr, dest) = Flatten(parts)
  BY <1>1 DEF Replaced, Part, n
<1> HIDE DEF parts
<1>15. /\ Joined(text, n, parts) /\ text[0] = <<>> /\ Flatten(parts) = text[n]
  BY <1>13, FlattenJoins
<1> HIDE DEF text
<1> DEFINE E == {k \in 0 .. n : r[k].text = text[k]}
<1>16. 0 \in E
  BY <1>1, <1>2, <1>15
<1>17. ASSUME NEW k \in 1 .. n, k - 1 \in E PROVE k \in E
  <2>1. text[k] = text[k - 1] \o parts[k]
    BY <1>15 DEF Joined
  <2> QED BY <1>4, <1>12, <1>13, <1>17, <2>1
<1> HIDE DEF E
<1>18. \A k \in 0 .. n : k \in E
  BY <1>1, <1>16, <1>17, BoundedInduction
<1>19. r[n].text = Replaced(places, source, substr, dest)
  <2>1. n \in E
    BY <1>1, <1>18
  <2> QED BY <1>14, <1>15, <2>1 DEF E
<1>20. places \in SUBSET DOMAIN source
  BY <1>1, <1>3
<1> QED BY <1>11, <1>19, <1>20 DEF r, n

-----------------------------------------------------------------------------
(***************************************************************************)
(* The command line: the tables of options, Linux's and Windows's alike.   *)
(***************************************************************************)
\* The loop over the options finds the one there is, or none.
LEMMA FirstOfOne ==
  ASSUME NEW k \in Nat
  PROVE  FirstOption({k}) = k
<1>1. \A l \in {k} : k <= l
  OBVIOUS
<1>2. \A x : x \in {k} /\ (\A l \in {k} : x <= l) => x = k
  OBVIOUS
<1>3. (CHOOSE x \in {k} : \A l \in {k} : x <= l) = k
  BY <1>1, <1>2
<1> QED BY <1>3 DEF FirstOption

\* The loop over the options finds none.
LEMMA FirstOfNone == FirstOption({}) = 0
BY DEF FirstOption

\* An option's fields.
IsOption(o, type, short, long, noneg) ==
  o.type = type /\ o.short_name = short /\ o.long_name = long /\ o.noneg = noneg

\* Option makes them.
LEMMA OptionFields ==
  ASSUME NEW type, NEW short, NEW long, NEW noneg
  PROVE  IsOption(Option(type, short, long, noneg), type, short, long, noneg)
BY DEF Option, IsOption

\* The options of Linux.
LEMMA LinuxTable ==
  /\ DOMAIN LinuxOptions = {1, 2, 3}
  /\ IsOption(LinuxOptions[1], "help", "h", "help", TRUE)
  /\ IsOption(LinuxOptions[2], "boolean", "s", "start", FALSE)
  /\ IsOption(LinuxOptions[3], "boolean", "r", "run", FALSE)
<1>1. /\ DOMAIN LinuxOptions = 1 .. 3 /\ LinuxOptions[1] = Option("help", "h", "help", TRUE)
      /\ LinuxOptions[2] = Option("boolean", "s", "start", FALSE)
      /\ LinuxOptions[3] = Option("boolean", "r", "run", FALSE)
  BY DEF LinuxOptions, OPT_HELP
<1>2. 1 .. 3 = {1, 2, 3}
  OBVIOUS
<1> QED BY ONLY <1>1, <1>2, OptionFields, Zenon

\* The options of Windows.
LEMMA WindowsTable ==
  /\ DOMAIN WindowsOptions = {1, 2, 3, 4, 5, 6, 7, 8}
  /\ IsOption(WindowsOptions[1], "help", "h", "help", TRUE)
  /\ IsOption(WindowsOptions[2], "boolean", "i", "install", FALSE)
  /\ IsOption(WindowsOptions[3], "string", "d", "depend", FALSE)
  /\ IsOption(WindowsOptions[4], "string", "e", "description", FALSE)
  /\ IsOption(WindowsOptions[5], "boolean", "u", "uninstall", FALSE)
  /\ IsOption(WindowsOptions[6], "boolean", "s", "start", FALSE)
  /\ IsOption(WindowsOptions[7], "boolean", "k", "stop", FALSE)
  /\ IsOption(WindowsOptions[8], "boolean", "r", "run", FALSE)
<1>1. \A o, type, short, long, noneg : o = Option(type, short, long, noneg) =>
        IsOption(o, type, short, long, noneg)
  BY OptionFields
<1>2. IsOption(WindowsOptions[1], "help", "h", "help", TRUE)
  BY <1>1 DEF WindowsOptions, OPT_HELP
<1>3. IsOption(WindowsOptions[2], "boolean", "i", "install", FALSE)
  BY <1>1 DEF WindowsOptions
<1>4. IsOption(WindowsOptions[3], "string", "d", "depend", FALSE)
  BY <1>1 DEF WindowsOptions
<1>5. IsOption(WindowsOptions[4], "string", "e", "description", FALSE)
  BY <1>1 DEF WindowsOptions
<1>6. IsOption(WindowsOptions[5], "boolean", "u", "uninstall", FALSE)
  BY <1>1 DEF WindowsOptions
<1>7. IsOption(WindowsOptions[6], "boolean", "s", "start", FALSE)
  BY <1>1 DEF WindowsOptions
<1>8. IsOption(WindowsOptions[7], "boolean", "k", "stop", FALSE)
  BY <1>1 DEF WindowsOptions
<1>9. IsOption(WindowsOptions[8], "boolean", "r", "run", FALSE)
  BY <1>1 DEF WindowsOptions
<1>10. DOMAIN WindowsOptions = 1 .. 8 /\ 1 .. 8 = {1, 2, 3, 4, 5, 6, 7, 8}
  BY DEF WindowsOptions
<1>11. DOMAIN WindowsOptions = {1, 2, 3, 4, 5, 6, 7, 8}
  BY ONLY <1>10, Zenon
<1> QED BY ONLY <1>2, <1>3, <1>4, <1>5, <1>6, <1>7, <1>8, <1>9, <1>11, Zenon

\* A table of options: help, one option for each switch and each option with a
\* text, and no two of one letter or of one name.
IsTable(sys) ==
  LET Is(l, type, short, long, noneg) == IsOption(sys.options[l], type, short, long, noneg)
      known == DOMAIN sys.options
  IN /\ known \subseteq Nat \ {0}
     /\ \A l \in known :
          \/ Is(l, "help", "h", "help", TRUE)
          \/ \E o \in DOMAIN sys.switch : Is(l, "boolean", sys.switch[o], o, FALSE)
          \/ \E o \in DOMAIN sys.text : Is(l, "string", sys.text[o], o, FALSE)
     /\ \E l \in known : Is(l, "help", "h", "help", TRUE)
     /\ \A o \in DOMAIN sys.switch : \E l \in known : Is(l, "boolean", sys.switch[o], o, FALSE)
     /\ \A o \in DOMAIN sys.text : \E l \in known : Is(l, "string", sys.text[o], o, FALSE)
     /\ \A k, l \in known : \/ sys.options[k].short_name = sys.options[l].short_name
                            \/ sys.options[k].long_name = sys.options[l].long_name
                            => k = l

\* The table of Linux.
LEMMA LinuxIsTable == IsTable(Linux)
<1> DEFINE D == {1, 2, 3}
<1>1. /\ Linux.options = LinuxOptions /\ DOMAIN Linux.switch = {"start", "run"}
      /\ Linux.switch["start"] = "s" /\ Linux.switch["run"] = "r" /\ DOMAIN Linux.text = {}
  BY DEF Linux
<1>2. D \subseteq Nat \ {0}
  OBVIOUS
<1>3. \A k, l \in D :
        \/ LinuxOptions[k].short_name = LinuxOptions[l].short_name
        \/ LinuxOptions[k].long_name = LinuxOptions[l].long_name
        => k = l
  BY LinuxTable DEF IsOption
<1>4. \A l \in D :
        \/ IsOption(LinuxOptions[l], "help", "h", "help", TRUE)
        \/ \E o \in DOMAIN Linux.switch :
             IsOption(LinuxOptions[l], "boolean", Linux.switch[o], o, FALSE)
  BY <1>1, LinuxTable
<1>5. \A o \in DOMAIN Linux.switch :
        \E l \in D : IsOption(LinuxOptions[l], "boolean", Linux.switch[o], o, FALSE)
  BY <1>1, LinuxTable
<1>6. \E l \in D : IsOption(LinuxOptions[l], "help", "h", "help", TRUE)
  BY LinuxTable
<1>7. DOMAIN LinuxOptions = D
  BY LinuxTable
<1>8. Linux.options = LinuxOptions /\ \A o : ~(o \in DOMAIN Linux.text)
  BY <1>1
<1> HIDE DEF D
<1> QED BY ONLY <1>2, <1>3, <1>4, <1>5, <1>6, <1>7, <1>8, Zenon DEF IsTable

\* The table of Windows.
LEMMA WindowsIsTable == IsTable(Windows)
<1> DEFINE D == {1, 2, 3, 4, 5, 6, 7, 8}
           shorts == <<"h", "i", "d", "e", "u", "s", "k", "r">>
           longs == <<"help", "install", "depend", "description", "uninstall", "start", "stop", "run">>
<1>1. /\ Windows.options = WindowsOptions
      /\ DOMAIN Windows.switch = {"install", "uninstall", "start", "stop", "run"}
      /\ Windows.switch["install"] = "i" /\ Windows.switch["uninstall"] = "u"
      /\ Windows.switch["start"] = "s" /\ Windows.switch["stop"] = "k" /\ Windows.switch["run"] = "r"
      /\ DOMAIN Windows.text = {"depend", "description"}
      /\ Windows.text["depend"] = "d" /\ Windows.text["description"] = "e"
  BY DEF Windows
<1>2. DOMAIN WindowsOptions = D /\ D \subseteq Nat \ {0}
  BY WindowsTable
<1>3. \A l \in D : WindowsOptions[l].short_name = shorts[l] /\ WindowsOptions[l].long_name = longs[l]
  BY WindowsTable DEF IsOption
<1>4. \A k, l \in D : shorts[k] = shorts[l] \/ longs[k] = longs[l] => k = l
  OBVIOUS
<1> HIDE DEF shorts, longs
<1>5. \A k, l \in D :
        \/ WindowsOptions[k].short_name = WindowsOptions[l].short_name
        \/ WindowsOptions[k].long_name = WindowsOptions[l].long_name
        => k = l
  <2> HIDE DEF D
  <2> QED BY ONLY <1>3, <1>4, Zenon
<1>6. \A l \in D :
        \/ IsOption(WindowsOptions[l], "help", "h", "help", TRUE)
        \/ \E o \in DOMAIN Windows.switch :
             IsOption(WindowsOptions[l], "boolean", Windows.switch[o], o, FALSE)
        \/ \E o \in DOMAIN Windows.text :
             IsOption(WindowsOptions[l], "string", Windows.text[o], o, FALSE)
  <2>1. /\ IsOption(WindowsOptions[2], "boolean", Windows.switch["install"], "install", FALSE)
        /\ IsOption(WindowsOptions[3], "string", Windows.text["depend"], "depend", FALSE)
        /\ IsOption(WindowsOptions[4], "string", Windows.text["description"], "description", FALSE)
        /\ IsOption(WindowsOptions[5], "boolean", Windows.switch["uninstall"], "uninstall", FALSE)
        /\ IsOption(WindowsOptions[6], "boolean", Windows.switch["start"], "start", FALSE)
        /\ IsOption(WindowsOptions[7], "boolean", Windows.switch["stop"], "stop", FALSE)
        /\ IsOption(WindowsOptions[8], "boolean", Windows.switch["run"], "run", FALSE)
    BY <1>1, WindowsTable
  <2>2. /\ "install" \in DOMAIN Windows.switch /\ "uninstall" \in DOMAIN Windows.switch
        /\ "start" \in DOMAIN Windows.switch /\ "stop" \in DOMAIN Windows.switch
        /\ "run" \in DOMAIN Windows.switch
        /\ "depend" \in DOMAIN Windows.text /\ "description" \in DOMAIN Windows.text
    BY <1>1
  <2> QED BY ONLY <2>1, <2>2, WindowsTable, Zenon
<1>7. \E l \in D : IsOption(WindowsOptions[l], "help", "h", "help", TRUE)
  BY WindowsTable
<1>8. \A o \in DOMAIN Windows.switch :
        \E l \in D : IsOption(WindowsOptions[l], "boolean", Windows.switch[o], o, FALSE)
  BY <1>1, WindowsTable
<1>9. \A o \in DOMAIN Windows.text :
        \E l \in D : IsOption(WindowsOptions[l], "string", Windows.text[o], o, FALSE)
  BY <1>1, WindowsTable
<1> HIDE DEF D
<1>10. Windows.options = WindowsOptions
  BY <1>1
<1> QED BY ONLY <1>2, <1>5, <1>6, <1>7, <1>8, <1>9, <1>10, Zenon DEF IsTable

\* The option of a letter.
LetterOption(options, letter) ==
  FirstOption({l \in DOMAIN options : options[l].short_name = letter})

\* The option of a letter, by what the letter is.
LEMMA OptionOfLetter ==
  ASSUME NEW sys, IsTable(sys), NEW letter
  PROVE  LET k == LetterOption(sys.options, letter)
         IN /\ letter = "h" => k # 0 /\ sys.options[k].type = "help"
            /\ \A o \in DOMAIN sys.switch : letter = sys.switch[o] =>
                 k # 0 /\ sys.options[k].type = "boolean" /\ sys.options[k].long_name = o
            /\ \A o \in DOMAIN sys.text : letter = sys.text[o] =>
                 k # 0 /\ sys.options[k].type = "string" /\ sys.options[k].long_name = o
            /\ letter \notin SwitchLetters(sys) \cup TextLetters(sys) \cup {"h"} => k = 0
<1> DEFINE known == DOMAIN sys.options
           S == {l \in known : sys.options[l].short_name = letter}
           k == LetterOption(sys.options, letter)
<1>1. k = FirstOption(S)
  BY DEF LetterOption
<1>2. ASSUME NEW l \in known, sys.options[l].short_name = letter PROVE k = l /\ k # 0
  <2>1. S = {l}
    BY <1>2 DEF IsTable
  <2>2. l \in Nat \ {0}
    BY DEF IsTable
  <2> QED BY <1>1, <2>1, <2>2, FirstOfOne
<1> DEFINE Is(l, type, o) == sys.options[l].type = type /\ sys.options[l].long_name = o
<1>3. \A l \in known : sys.options[l].short_name = letter => k = l /\ k # 0
  BY ONLY <1>2
<1>4. ASSUME letter \notin SwitchLetters(sys) \cup TextLetters(sys) \cup {"h"} PROVE k = 0
  <2>1. \A l \in known : sys.options[l].short_name # letter
    BY <1>4 DEF IsTable, IsOption, SwitchLetters, TextLetters
  <2>2. S = {}
    BY <2>1
  <2> QED BY <1>1, <2>2, FirstOfNone
<1> HIDE DEF k
<1>5. ASSUME letter = "h" PROVE k # 0 /\ sys.options[k].type = "help"
  <2>1. PICK l \in known : sys.options[l].short_name = "h" /\ sys.options[l].type = "help"
    BY DEF IsTable, IsOption
  <2> QED BY ONLY <1>3, <1>5, <2>1, Zenon
<1>6. ASSUME NEW o \in DOMAIN sys.switch, letter = sys.switch[o] PROVE k # 0 /\ Is(k, "boolean", o)
  <2>1. PICK l \in known : sys.options[l].short_name = sys.switch[o] /\ Is(l, "boolean", o)
    BY DEF IsTable, IsOption
  <2> HIDE DEF Is
  <2> QED BY ONLY <1>3, <1>6, <2>1, Zenon
<1>7. ASSUME NEW o \in DOMAIN sys.text, letter = sys.text[o] PROVE k # 0 /\ Is(k, "string", o)
  <2>1. PICK l \in known : sys.options[l].short_name = sys.text[o] /\ Is(l, "string", o)
    BY DEF IsTable, IsOption
  <2> HIDE DEF Is
  <2> QED BY ONLY <1>3, <1>7, <2>1, Zenon
<1> QED BY ONLY <1>4, <1>5, <1>6, <1>7, Zenon DEF k, Is

\* No letter is of two options, and no name.
LEMMA NothingTwice ==
  ASSUME NEW sys, IsTable(sys)
  PROVE  /\ "h" \notin SwitchLetters(sys) \cup TextLetters(sys)
         /\ SwitchLetters(sys) \cap TextLetters(sys) = {}
         /\ \A o, p \in DOMAIN sys.switch : sys.switch[o] = sys.switch[p] => o = p
         /\ \A o, p \in DOMAIN sys.text : sys.text[o] = sys.text[p] => o = p
         /\ "help" \notin DOMAIN sys.switch \cup DOMAIN sys.text
         /\ DOMAIN sys.switch \cap DOMAIN sys.text = {}
<1>1. \A letter :
        LET k == LetterOption(sys.options, letter)
        IN /\ letter = "h" => k # 0 /\ sys.options[k].type = "help"
           /\ \A o \in DOMAIN sys.switch : letter = sys.switch[o] =>
                k # 0 /\ sys.options[k].type = "boolean" /\ sys.options[k].long_name = o
           /\ \A o \in DOMAIN sys.text : letter = sys.text[o] =>
                k # 0 /\ sys.options[k].type = "string" /\ sys.options[k].long_name = o
  BY OptionOfLetter
<1>2. /\ "h" \notin SwitchLetters(sys) \cup TextLetters(sys)
      /\ SwitchLetters(sys) \cap TextLetters(sys) = {}
  BY <1>1 DEF SwitchLetters, TextLetters
<1>8. ASSUME NEW o \in DOMAIN sys.switch, NEW p \in DOMAIN sys.switch, sys.switch[o] = sys.switch[p]
      PROVE  o = p
  <2> DEFINE k == LetterOption(sys.options, sys.switch[o])
  <2>1. sys.options[k].long_name = o /\ sys.options[k].long_name = p
    BY ONLY <1>1, <1>8
  <2> QED BY ONLY <2>1
<1>9. ASSUME NEW o \in DOMAIN sys.text, NEW p \in DOMAIN sys.text, sys.text[o] = sys.text[p]
      PROVE  o = p
  <2> DEFINE k == LetterOption(sys.options, sys.text[o])
  <2>1. sys.options[k].long_name = o /\ sys.options[k].long_name = p
    BY ONLY <1>1, <1>9
  <2> QED BY ONLY <2>1
<1>3. \E l \in DOMAIN sys.options : sys.options[l].long_name = "help" /\ sys.options[l].type = "help"
  BY DEF IsTable, IsOption
<1>4. \A o \in DOMAIN sys.switch : \E l \in DOMAIN sys.options :
        sys.options[l].long_name = o /\ sys.options[l].type = "boolean"
  BY DEF IsTable, IsOption
<1>5. \A o \in DOMAIN sys.text : \E l \in DOMAIN sys.options :
        sys.options[l].long_name = o /\ sys.options[l].type = "string"
  BY DEF IsTable, IsOption
<1>6. \A k, l \in DOMAIN sys.options : sys.options[k].long_name = sys.options[l].long_name => k = l
  BY DEF IsTable
<1>7. "help" \notin DOMAIN sys.switch \cup DOMAIN sys.text /\ DOMAIN sys.switch \cap DOMAIN sys.text = {}
  BY ONLY <1>3, <1>4, <1>5, <1>6
<1> QED BY <1>2, <1>7, <1>8, <1>9

\* The option of a long argument.
LongOption(options, arg) ==
  FirstOption({l \in DOMAIN options :
                 /\ options[l].long_name = arg.name
                 /\ arg.neg => options[l].type = "boolean" /\ ~options[l].noneg})

\* The option of a long argument, by its name; only switches may be negated.
LEMMA OptionOfName ==
  ASSUME NEW sys, IsTable(sys), NEW arg, arg.neg \in BOOLEAN
  PROVE  LET k == LongOption(sys.options, arg)
         IN /\ arg.name = "help" /\ ~arg.neg => k # 0 /\ sys.options[k].type = "help"
            /\ arg.name \in DOMAIN sys.switch =>
                 k # 0 /\ sys.options[k].type = "boolean" /\ sys.options[k].long_name = arg.name
            /\ arg.name \in DOMAIN sys.text /\ ~arg.neg =>
                 k # 0 /\ sys.options[k].type = "string" /\ sys.options[k].long_name = arg.name
            /\ arg.name \notin DOMAIN sys.switch
                    \cup (IF arg.neg THEN {} ELSE DOMAIN sys.text \cup {"help"}) => k = 0
<1> DEFINE known == DOMAIN sys.options
           name == arg.name
           neg == arg.neg
           Takes(o) == o.long_name = name /\ (neg => o.type = "boolean" /\ ~o.noneg)
           S == {l \in known : Takes(sys.options[l])}
           k == LongOption(sys.options, arg)
<1>1. k = FirstOption(S)
  BY DEF LongOption
<1>2. ASSUME NEW l \in known, Takes(sys.options[l]) PROVE k = l /\ k # 0
  <2>1. S = {l}
    BY <1>2 DEF IsTable
  <2>2. l \in Nat \ {0}
    BY DEF IsTable
  <2> QED BY <1>1, <2>1, <2>2, FirstOfOne
<1> DEFINE Is(l, type) == sys.options[l].type = type /\ sys.options[l].long_name = name
<1>3. \A l \in known : Takes(sys.options[l]) => k = l /\ k # 0
  BY ONLY <1>2
<1>4. ASSUME name \notin DOMAIN sys.switch \cup (IF neg THEN {} ELSE DOMAIN sys.text \cup {"help"})
      PROVE  k = 0
  <2>1. \A l \in known : ~Takes(sys.options[l])
    BY <1>4 DEF IsTable, IsOption
  <2>2. S = {}
    BY <2>1
  <2> QED BY <1>1, <2>2, FirstOfNone
<1> HIDE DEF k
<1>5. ASSUME name = "help", ~neg PROVE k # 0 /\ sys.options[k].type = "help"
  <2>1. PICK l \in known : sys.options[l].long_name = "help" /\ sys.options[l].type = "help"
    BY DEF IsTable, IsOption
  <2>2. Takes(sys.options[l])
    BY <1>5, <2>1
  <2> HIDE DEF Takes
  <2> QED BY ONLY <1>3, <2>1, <2>2, Zenon
<1>6. ASSUME name \in DOMAIN sys.switch PROVE k # 0 /\ Is(k, "boolean")
  <2>1. PICK l \in known : Is(l, "boolean") /\ ~sys.options[l].noneg
    BY <1>6 DEF IsTable, IsOption
  <2>2. Takes(sys.options[l])
    BY <2>1
  <2> HIDE DEF Is, Takes
  <2> QED BY ONLY <1>3, <2>1, <2>2, Zenon
<1>7. ASSUME name \in DOMAIN sys.text, ~neg PROVE k # 0 /\ Is(k, "string")
  <2>1. PICK l \in known : Is(l, "string")
    BY <1>7 DEF IsTable, IsOption
  <2>2. Takes(sys.options[l])
    BY <1>7, <2>1
  <2> HIDE DEF Is, Takes
  <2> QED BY ONLY <1>3, <2>1, <2>2, Zenon
<1> QED BY ONLY <1>4, <1>5, <1>6, <1>7, Zenon DEF k, Is, name, neg

-----------------------------------------------------------------------------
(***************************************************************************)
(* What one option does.                                                   *)
(***************************************************************************)
\* struct argparse has these fields.
IsParser(self) ==
  DOMAIN self = {"options", "argv", "out", "optvalue", "value", "usages", "exit"}

\* The program goes on.
Running(self) == self.exit = ""

\* A program that has ended does not go on.
LEMMA EndedStops ==
  ASSUME NEW self, self.exit \in {"success", "failure"}
  PROVE  ~Running(self)
<1>1. "success" # "" /\ "failure" # ""
  BY Zenon
<1> QED BY <1>1, Zenon DEF Running

\* An option turned on or off.
Plus(count, gain) == IF count + gain < 0 THEN 0 ELSE count + gain

\* The options that have a value.
Valued(sys) == {"help"} \cup DOMAIN sys.switch \cup DOMAIN sys.text

\* The state of a command line.
IsState(sys, t) ==
  /\ IsParser(t) /\ t.options = sys.options /\ DOMAIN t.value = Valued(sys)
  /\ \A o \in DOMAIN sys.switch : t.value[o] \in Nat

\* A state with the same arguments, words and end.
IsLike(sys, s, t) == IsState(sys, t) /\ t.argv = s.argv /\ t.out = s.out /\ t.exit = s.exit

SameCounts(sys, s, t) == \A o \in DOMAIN sys.switch : t.value[o] = s.value[o]
SameTexts(sys, s, t) == \A o \in DOMAIN sys.text : t.value[o] = s.value[o]

\* optvalue alone is set.
LEMMA OptvalueSet ==
  ASSUME NEW sys, NEW s, IsState(sys, s), NEW text
  PROVE  LET t == [s EXCEPT !.optvalue = text]
         IN /\ IsLike(sys, s, t) /\ t.optvalue = text /\ t.usages = s.usages
            /\ SameCounts(sys, s, t) /\ SameTexts(sys, s, t)
<1> DEFINE t == [s EXCEPT !.optvalue = text]
<1>1. /\ IsParser(t) /\ t.options = s.options /\ t.argv = s.argv /\ t.out = s.out
      /\ t.optvalue = text /\ t.exit = s.exit /\ t.value = s.value /\ t.usages = s.usages
  BY DEF IsParser, IsState
<1> HIDE DEF t
<1>2. IsLike(sys, s, t) /\ SameCounts(sys, s, t) /\ SameTexts(sys, s, t)
  BY <1>1 DEF IsState, IsLike, SameCounts, SameTexts
<1> QED BY ONLY <1>1, <1>2, Zenon DEF t

\* An unknown option is reported.
IsReported(sys, s, t) ==
  /\ IsLike(sys, s, t) /\ t.optvalue = s.optvalue /\ t.usages = s.usages + 1
  /\ SameCounts(sys, s, t) /\ SameTexts(sys, s, t)

\* An unknown option is reported, and no more.
LEMMA UnknownIsReported ==
  ASSUME NEW sys, NEW s, IsState(sys, s)
  PROVE  IsReported(sys, s, Unknown(s))
<1> DEFINE t == Unknown(s)
<1>1. /\ IsParser(t) /\ t.options = s.options /\ t.argv = s.argv /\ t.out = s.out
      /\ t.optvalue = s.optvalue /\ t.exit = s.exit /\ t.value = s.value
      /\ t.usages = s.usages + 1
  BY DEF IsParser, IsState, Unknown, argparse_usage
<1> HIDE DEF t
<1>2. IsLike(sys, s, t) /\ SameCounts(sys, s, t) /\ SameTexts(sys, s, t)
  BY <1>1 DEF IsState, IsLike, SameCounts, SameTexts
<1> QED BY ONLY <1>1, <1>2, Zenon DEF t, IsReported

\* Help ends the program.
IsHelped(s, t) == IsParser(t) /\ t.exit = "success" /\ t.usages = s.usages + 1

\* The callback of help ends the program.
LEMMA HelpEnds ==
  ASSUME NEW sys, NEW s, IsState(sys, s), NEW opt, opt.type = "help", NEW unset
  PROVE  IsHelped(s, argparse_getvalue(s, opt, unset))
BY DEF argparse_getvalue, argparse_help_cb, argparse_usage, IsParser, IsState, IsHelped

\* A switch moves its own count, and nothing else.
IsSwitched(sys, s, t, name, gain) ==
  /\ IsLike(sys, s, t) /\ t.optvalue = s.optvalue /\ t.usages = s.usages /\ SameTexts(sys, s, t)
  /\ \A o \in DOMAIN sys.switch : t.value[o] = IF o = name THEN Plus(s.value[o], gain) ELSE s.value[o]

\* Turning a switch on or off does so.
LEMMA SwitchCounts ==
  ASSUME NEW sys, IsTable(sys), NEW s, IsState(sys, s), NEW name \in DOMAIN sys.switch,
         NEW opt, opt.type = "boolean", opt.long_name = name, NEW unset \in BOOLEAN
  PROVE  IsSwitched(sys, s, argparse_getvalue(s, opt, unset), name, IF unset THEN -1 ELSE 1)
<1> DEFINE t == [s EXCEPT !.value[name] = Counted(@, unset)]
           gain == IF unset THEN -1 ELSE 1
<1>1. argparse_getvalue(s, opt, unset) = t
  BY DEF argparse_getvalue
<1>2. /\ IsParser(t) /\ t.options = s.options /\ t.argv = s.argv /\ t.out = s.out
      /\ t.optvalue = s.optvalue /\ t.exit = s.exit /\ t.usages = s.usages
      /\ t.value = [s.value EXCEPT ![name] = Counted(@, unset)]
  BY DEF IsState, IsParser
<1> HIDE DEF t
<1>3. name \in DOMAIN s.value /\ DOMAIN s.value = Valued(sys) /\ s.value[name] \in Nat
  BY DEF IsState, Valued
<1>4. Counted(s.value[name], unset) = Plus(s.value[name], gain)
      /\ Plus(s.value[name], gain) \in Nat
  BY <1>3 DEF Counted, Plus
<1>5. /\ DOMAIN t.value = Valued(sys) /\ t.value[name] = Plus(s.value[name], gain)
      /\ \A o \in Valued(sys) : o # name => t.value[o] = s.value[o]
  BY <1>2, <1>3, <1>4
<1> HIDE DEF gain
<1>6. DOMAIN sys.switch \subseteq Valued(sys) /\ DOMAIN sys.text \subseteq Valued(sys)
  BY DEF Valued
<1>7. SameTexts(sys, s, t)
  <2>1. \A o \in DOMAIN sys.text : o # name
    BY NothingTwice
  <2> QED BY <1>5, <1>6, <2>1 DEF SameTexts
<1>8. \A o \in DOMAIN sys.switch :
        t.value[o] = IF o = name THEN Plus(s.value[o], gain) ELSE s.value[o]
  BY <1>5, <1>6
<1>9. \A o \in DOMAIN sys.switch : t.value[o] \in Nat
  BY <1>4, <1>8 DEF IsState
<1>10. IsLike(sys, s, t)
  BY <1>2, <1>5, <1>9 DEF IsState, IsLike
<1> QED BY ONLY <1>1, <1>2, <1>7, <1>8, <1>10, Zenon DEF IsSwitched, gain

\* An option takes this text, or else the next argument, or fails without one.
NoMore(s) == ~(Len(s.argv) > 1)

TakesText(sys, s, t, name, text) ==
  IF text = <<>> /\ NoMore(s) THEN IsParser(t) /\ t.exit = "failure" /\ t.usages = s.usages
  ELSE /\ IsState(sys, t) /\ t.out = s.out /\ t.exit = s.exit /\ t.usages = s.usages
       /\ t.optvalue = <<>> /\ SameCounts(sys, s, t)
       /\ t.argv = IF text = <<>> THEN Tail(s.argv) ELSE s.argv
       /\ \A o \in DOMAIN sys.text :
            t.value[o] = IF o # name THEN s.value[o]
                         ELSE IF text = <<>> THEN Text(s.argv[2]) ELSE text

\* The value of an option with a text is set, and no other.
SetsText(s, t, name, text) ==
  IsParser(t) /\ t.options = s.options /\ t.value = [s.value EXCEPT ![name] = text]

\* A value that is set leaves all others.
LEMMA TextIsSet ==
  ASSUME NEW sys, IsTable(sys), NEW s, IsState(sys, s), NEW name \in DOMAIN sys.text, NEW text,
         NEW t, SetsText(s, t, name, text)
  PROVE  /\ IsState(sys, t) /\ SameCounts(sys, s, t)
         /\ \A o \in DOMAIN sys.text : t.value[o] = IF o # name THEN s.value[o] ELSE text
<1>1. name \in DOMAIN s.value /\ DOMAIN s.value = Valued(sys)
  BY DEF IsState, Valued
<1>2. /\ DOMAIN t.value = Valued(sys) /\ t.value[name] = text
      /\ \A o \in Valued(sys) : o # name => t.value[o] = s.value[o]
  BY <1>1 DEF SetsText
<1>3. DOMAIN sys.switch \subseteq Valued(sys) /\ DOMAIN sys.text \subseteq Valued(sys)
  BY DEF Valued
<1>4. \A o \in DOMAIN sys.switch : o # name
  BY NothingTwice
<1>5. \A o \in DOMAIN sys.switch : t.value[o] = s.value[o]
  BY <1>2, <1>3, <1>4
<1>6. \A o \in DOMAIN sys.text : t.value[o] = IF o # name THEN s.value[o] ELSE text
  BY ONLY <1>2, <1>3, Zenon
<1>7. IsParser(t) /\ t.options = sys.options /\ \A o \in DOMAIN sys.switch : t.value[o] \in Nat
  BY <1>5 DEF IsState, SetsText
<1>8. IsState(sys, t)
  BY ONLY <1>2, <1>7, Zenon DEF IsState
<1> QED BY ONLY <1>5, <1>6, <1>8, Zenon DEF SameCounts

\* An option takes the text in optvalue, or the next argument.
LEMMA TextIsTaken ==
  ASSUME NEW sys, IsTable(sys), NEW s, IsState(sys, s), NEW name \in DOMAIN sys.text,
         NEW opt, opt.type = "string", opt.long_name = name, NEW unset
  PROVE  TakesText(sys, s, argparse_getvalue(s, opt, unset), name, s.optvalue)
<1> DEFINE t == argparse_getvalue(s, opt, unset)
<1>1. IsParser(s)
  BY DEF IsState
<1>2. CASE s.optvalue # <<>>
  <2> DEFINE u == [s EXCEPT !.value[name] = s.optvalue, !.optvalue = <<>>]
  <2>1. t = u
    BY <1>2 DEF argparse_getvalue
  <2> HIDE DEF t
  <2>4. /\ IsParser(u) /\ u.options = s.options /\ u.argv = s.argv /\ u.out = s.out
        /\ u.exit = s.exit /\ u.usages = s.usages /\ u.optvalue = <<>>
        /\ u.value = [s.value EXCEPT ![name] = s.optvalue]
    BY ONLY <1>1 DEF IsParser
  <2> HIDE DEF u
  <2>2. /\ IsParser(t) /\ t.options = s.options /\ t.argv = s.argv /\ t.out = s.out
        /\ t.exit = s.exit /\ t.usages = s.usages /\ t.optvalue = <<>>
        /\ t.value = [s.value EXCEPT ![name] = s.optvalue]
    BY ONLY <2>1, <2>4, Zenon
  <2>3. /\ IsState(sys, t) /\ SameCounts(sys, s, t)
        /\ \A o \in DOMAIN sys.text : t.value[o] = IF o # name THEN s.value[o] ELSE s.optvalue
    <3>1. SetsText(s, t, name, s.optvalue)
      BY ONLY <2>2, Zenon DEF SetsText
    <3> QED BY ONLY IsTable(sys), IsState(sys, s), name \in DOMAIN sys.text, <3>1, TextIsSet
  <2> QED BY ONLY <1>2, <2>2, <2>3, Zenon DEF TakesText, t
<1>3. CASE s.optvalue = <<>> /\ ~NoMore(s)
  <2> DEFINE u == [s EXCEPT !.value[name] = Text(s.argv[2]), !.argv = Tail(@)]
  <2>1. t = u
    BY <1>3 DEF argparse_getvalue, NoMore
  <2> HIDE DEF t
  <2>4. /\ IsParser(u) /\ u.options = s.options /\ u.argv = Tail(s.argv) /\ u.out = s.out
        /\ u.exit = s.exit /\ u.usages = s.usages /\ u.optvalue = s.optvalue
        /\ u.value = [s.value EXCEPT ![name] = Text(s.argv[2])]
    BY ONLY <1>1 DEF IsParser
  <2> HIDE DEF u
  <2>2. /\ IsParser(t) /\ t.options = s.options /\ t.argv = Tail(s.argv) /\ t.out = s.out
        /\ t.exit = s.exit /\ t.usages = s.usages /\ t.optvalue = <<>>
        /\ t.value = [s.value EXCEPT ![name] = Text(s.argv[2])]
    BY ONLY <1>3, <2>1, <2>4, Zenon
  <2>3. /\ IsState(sys, t) /\ SameCounts(sys, s, t)
        /\ \A o \in DOMAIN sys.text : t.value[o] = IF o # name THEN s.value[o] ELSE Text(s.argv[2])
    <3>1. SetsText(s, t, name, Text(s.argv[2]))
      BY ONLY <2>2, Zenon DEF SetsText
    <3> QED BY ONLY IsTable(sys), IsState(sys, s), name \in DOMAIN sys.text, <3>1, TextIsSet
  <2> QED BY ONLY <1>3, <2>2, <2>3, Zenon DEF TakesText, t
<1>4. CASE s.optvalue = <<>> /\ NoMore(s)
  <2>1. t = argparse_error(s)
    BY <1>4 DEF argparse_getvalue, NoMore
  <2> HIDE DEF t
  <2>2. IsParser(t) /\ t.exit = "failure" /\ t.usages = s.usages
    BY <1>1, <2>1 DEF argparse_error, IsParser
  <2> QED BY ONLY <1>4, <2>2, Zenon DEF TakesText, t
<1> QED BY <1>2, <1>3, <1>4

\* A text is taken alike by a state that differs only in optvalue.
LEMMA TakenAlike ==
  ASSUME NEW sys, NEW r, NEW s, NEW t, NEW name, NEW text, IsLike(sys, r, s),
         s.usages = r.usages, SameCounts(sys, r, s), SameTexts(sys, r, s),
         TakesText(sys, s, t, name, text)
  PROVE  TakesText(sys, r, t, name, text)
<1>1. s.argv = r.argv /\ s.out = r.out /\ s.exit = r.exit
  BY DEF IsLike
<1>2. NoMore(r) <=> NoMore(s)
  BY <1>1 DEF NoMore
<1>3. CASE text = <<>> /\ NoMore(s)
  BY ONLY <1>2, <1>3, s.usages = r.usages, TakesText(sys, s, t, name, text), Zenon DEF TakesText
<1>4. CASE ~(text = <<>> /\ NoMore(s))
  <2>1. /\ IsState(sys, t) /\ t.out = s.out /\ t.exit = s.exit /\ t.usages = s.usages
        /\ t.optvalue = <<>> /\ SameCounts(sys, s, t)
        /\ t.argv = IF text = <<>> THEN Tail(s.argv) ELSE s.argv
        /\ \A o \in DOMAIN sys.text :
             t.value[o] = IF o # name THEN s.value[o]
                          ELSE IF text = <<>> THEN Text(s.argv[2]) ELSE text
    BY ONLY <1>4, TakesText(sys, s, t, name, text), Zenon DEF TakesText
  <2>2. SameCounts(sys, r, t)
    BY <2>1 DEF SameCounts
  <2>3. \A o \in DOMAIN sys.text :
          t.value[o] = IF o # name THEN r.value[o]
                       ELSE IF text = <<>> THEN Text(r.argv[2]) ELSE text
    BY <1>1, <2>1 DEF SameTexts
  <2> QED BY ONLY <1>1, <1>2, <1>4, <2>1, <2>2, <2>3, s.usages = r.usages, Zenon DEF TakesText
<1> QED BY <1>3, <1>4

-----------------------------------------------------------------------------
(***************************************************************************)
(* A cluster of letters.                                                   *)
(***************************************************************************)
\* The turns of the loop over a cluster, one after another.
LEMMA LetterTurnsFollow ==
  ASSUME NEW self, NEW letters, Len(letters) \in Nat
  PROVE  LET turn == LetterTurns(self, letters)
         IN /\ turn[0] = [self EXCEPT !.optvalue = letters]
            /\ \A k \in 1 .. Len(letters) :
                 turn[k] = LetterTurn(turn[k - 1], SubSeq(letters, k, Len(letters)))
<1> DEFINE n == Len(letters)
           first == [self EXCEPT !.optvalue = letters]
           Turn(s, k) == LetterTurn(s, SubSeq(letters, k, n))
           AreTurns(f, m) == f = [k \in 0 .. m |-> IF k = 0 THEN first ELSE Turn(f[k - 1], k)]
           S == {m \in 0 .. n : \E f : AreTurns(f, m)}
           turn == LetterTurns(self, letters)
<1>1. n \in Nat
  OBVIOUS
<1>2. turn = CHOOSE f : AreTurns(f, n)
  BY DEF LetterTurns
<1> HIDE DEF n, first, Turn
<1>3. 0 \in S
  <2>1. [k \in 0 .. 0 |-> first] = [k \in 0 .. 0 |-> IF k = 0 THEN first
                                      ELSE Turn([j \in 0 .. 0 |-> first][k - 1], k)]
    OBVIOUS
  <2>2. AreTurns([k \in 0 .. 0 |-> first], 0)
    BY ONLY <2>1
  <2> HIDE DEF AreTurns
  <2> QED BY <1>1, <2>2
<1>4. ASSUME NEW m \in 1 .. n, m - 1 \in S PROVE m \in S
  <2>1. PICK f : AreTurns(f, m - 1)
    BY <1>4
  <2> DEFINE g == [k \in 0 .. m |-> IF k = m THEN Turn(f[m - 1], m) ELSE f[k]]
  <2>2. \A k \in 0 .. m - 1 : f[k] = IF k = 0 THEN first ELSE Turn(f[k - 1], k)
    BY <2>1
  <2>3. \A k \in 0 .. m - 1 : g[k] = f[k]
    BY <1>1
  <2>4. g[m] = Turn(f[m - 1], m)
    BY <1>1
  <2> HIDE DEF g
  <2>5. ASSUME NEW k \in 0 .. m
        PROVE  g[k] = IF k = 0 THEN first ELSE Turn(g[k - 1], k)
    <3>1. CASE k = m
      <4>1. m # 0 /\ m - 1 \in 0 .. m - 1
        BY <1>1
      <4> QED BY <2>3, <2>4, <3>1, <4>1
    <3>2. CASE k # m
      <4>1. k \in 0 .. m - 1 /\ (k # 0 => k - 1 \in 0 .. m - 1)
        BY <1>1, <3>2
      <4> QED BY <2>2, <2>3, <4>1
    <3> QED BY <3>1, <3>2
  <2>6. g = [k \in 0 .. m |-> IF k = 0 THEN first ELSE Turn(g[k - 1], k)]
    <3>1. g = [k \in 0 .. m |-> g[k]]
      BY DEF g
    <3> QED BY ONLY <2>5, <3>1
  <2>7. AreTurns(g, m)
    BY ONLY <2>6
  <2> HIDE DEF AreTurns
  <2> QED BY <1>1, <2>7
<1>5. n \in S
  <2> HIDE DEF S
  <2>1. \A k \in 0 .. n : k \in S
    BY ONLY <1>1, <1>3, <1>4, BoundedInduction
  <2> QED BY <1>1, <2>1
<1>6. AreTurns(turn, n)
  <2>1. \E f : AreTurns(f, n)
    BY <1>5
  <2> HIDE DEF AreTurns, turn
  <2> QED BY ONLY <1>2, <2>1, Zenon
<1>7. \A k \in 0 .. n : turn[k] = IF k = 0 THEN first ELSE Turn(turn[k - 1], k)
  <2> HIDE DEF turn
  <2> QED BY <1>6
<1>8. \A k \in 1 .. n : k \in 0 .. n /\ k # 0
  BY <1>1
<1> QED BY <1>1, <1>7, <1>8 DEF n, first, Turn

\* An argument of each kind.
LEMMA ArgKinds ==
  ASSUME NEW arg \in Arg
  PROVE  /\ arg.kind \in {"word", "short", "long", "end"}
         /\ arg.kind = "word" => arg.text \in STRING
         /\ arg.kind = "short" => arg.letters \in Seq(STRING) /\ arg.letters # <<>>
         /\ arg.kind = "long" => /\ arg.neg \in BOOLEAN /\ arg.name \in STRING
                                 /\ arg.own \in Seq(STRING) /\ Len(arg.own) <= 1
<1>1. CASE arg \in [kind : {"word"}, text : STRING]
  BY <1>1
<1>2. CASE arg \in [kind : {"short"}, letters : Seq(STRING) \ {<<>>}]
  BY <1>2
<1>3. CASE arg \in [kind : {"long"}, neg : BOOLEAN, name : STRING, own : {s \in Seq(STRING) : Len(s) <= 1}]
  BY <1>3
<1>4. CASE arg \in [kind : {"end"}]
  BY <1>4
<1> QED BY <1>1, <1>2, <1>3, <1>4 DEF Arg

\* A cluster has one letter or more.
LEMMA ClusterLetters ==
  ASSUME NEW arg \in Arg, arg.kind = "short"
  PROVE  /\ arg.letters \in Seq(STRING) /\ Len(arg.letters) \in Nat \ {0}
         /\ DOMAIN arg.letters = 1 .. Len(arg.letters)
<1>1. arg.letters \in Seq(STRING) /\ arg.letters # <<>>
  BY ArgKinds
<1> DEFINE letters == arg.letters
<1> HIDE DEF letters
<1>2. Len(letters) \in Nat /\ DOMAIN letters = 1 .. Len(letters) /\ Len(letters) # 0
  BY <1>1, LenProperties, EmptySeq DEF letters
<1> QED BY <1>1, <1>2 DEF letters

\* What is left of a sequence from the k-th element on.
LEMMA Suffixes ==
  ASSUME NEW S, NEW s \in Seq(S), NEW k \in 1 .. Len(s)
  PROVE  LET left == SubSeq(s, k, Len(s))
         IN /\ left \in Seq(S) /\ Len(left) = Len(s) - k + 1 /\ left # <<>>
            /\ Head(left) = s[k] /\ Tail(left) = SubSeq(s, k + 1, Len(s))
            /\ \A i \in 1 .. Len(s) - k + 1 : left[i] = s[k + i - 1]
<1> DEFINE n == Len(s)
           left == SubSeq(s, k, n)
<1>1. n \in Nat /\ k \in Int /\ n \in Int /\ k <= n /\ n \in k .. n
  BY LenProperties
<1>2. \A i \in k .. n : s[i] \in S
  BY LenProperties, ElementOfSeq
<1>3. Head(left) = s[k] /\ Tail(left) = SubSeq(s, k + 1, n)
  BY ONLY <1>1, HeadTailOfSubSeq
<1> HIDE DEF n
<1>4. /\ left \in Seq(S) /\ Len(left) = IF k <= n THEN n - k + 1 ELSE 0
      /\ \A i \in 1 .. n - k + 1 : left[i] = s[k + i - 1]
  BY ONLY <1>1, <1>2, SubSeqProperties
<1> HIDE DEF left
<1>5. Len(left) = n - k + 1 /\ left # <<>>
  BY <1>1, <1>4, EmptySeq
<1> QED BY <1>3, <1>4, <1>5 DEF n, left

\* What is left differs from what is left later; at first all is left, and behind
\* the last nothing.
LEMMA SuffixesDiffer ==
  ASSUME NEW S, NEW s \in Seq(S)
  PROVE  /\ SubSeq(s, 1, Len(s)) = s
         /\ SubSeq(s, Len(s) + 1, Len(s)) = <<>>
         /\ \A k \in 1 .. Len(s) : \A j \in k + 1 .. Len(s) :
              SubSeq(s, k, Len(s)) # SubSeq(s, j, Len(s))
<1>1. Len(s) \in Nat
  BY LenProperties
<1>2. SubSeq(s, 1, Len(s)) = s
  BY SubSeqFull
<1>3. SubSeq(s, Len(s) + 1, Len(s)) = <<>>
  BY <1>1, SubSeqEmpty
<1>4. ASSUME NEW k \in 1 .. Len(s), NEW j \in k + 1 .. Len(s)
      PROVE  SubSeq(s, k, Len(s)) # SubSeq(s, j, Len(s))
  <2>1. j \in 1 .. Len(s)
    BY <1>1
  <2>2. Len(SubSeq(s, k, Len(s))) = Len(s) - k + 1 /\ Len(SubSeq(s, j, Len(s))) = Len(s) - j + 1
    BY <2>1, Suffixes
  <2>3. Len(s) - k + 1 # Len(s) - j + 1
    BY <1>1
  <2> QED BY ONLY <2>2, <2>3, Zenon
<1> QED BY <1>2, <1>3, <1>4

\* A letter's turn, when it is its turn.
LEMMA LetterTurnCases ==
  ASSUME NEW self, NEW rest
  PROVE  /\ Running(self) /\ self.optvalue = rest => LetterTurn(self, rest) = argparse_short_opt(self)
         /\ ~Running(self) => LetterTurn(self, rest) = self
         /\ self.optvalue # rest => LetterTurn(self, rest) = self
BY Zenon DEF LetterTurn, Running

\* The letter of a switch counts, for its own option.
LetterCounts(sys, s, t, letter) ==
  /\ IsLike(sys, s, t) /\ t.optvalue = Tail(s.optvalue) /\ t.usages = s.usages
  /\ SameTexts(sys, s, t)
  /\ \A o \in DOMAIN sys.switch :
       t.value[o] = s.value[o] + (IF letter = sys.switch[o] THEN 1 ELSE 0)

\* What a letter does.
LEMMA LetterDoes ==
  ASSUME NEW sys, IsTable(sys), NEW s, IsState(sys, s), NEW letter, letter = Head(s.optvalue)
  PROVE  LET t == argparse_short_opt(s)
         IN /\ letter = "h" => IsHelped(s, t)
            /\ letter \in SwitchLetters(sys) => LetterCounts(sys, s, t, letter)
            /\ \A o \in DOMAIN sys.text : letter = sys.text[o] =>
                 TakesText(sys, s, t, o, Tail(s.optvalue))
            /\ letter \notin SwitchLetters(sys) \cup TextLetters(sys) \cup {"h"} =>
                 IsReported(sys, s, t)
<1> DEFINE t == argparse_short_opt(s)
           u == [s EXCEPT !.optvalue = Tail(@)]
           k == LetterOption(sys.options, letter)
           opt == sys.options[k]
<1>1. s.options = sys.options
  BY DEF IsState
<1>2. t = IF k = 0 THEN Unknown(s) ELSE argparse_getvalue(u, opt, FALSE)
  BY <1>1 DEF argparse_short_opt, LetterOption
<1>3. /\ IsLike(sys, s, u) /\ u.optvalue = Tail(s.optvalue) /\ u.usages = s.usages
      /\ SameCounts(sys, s, u) /\ SameTexts(sys, s, u)
  BY OptvalueSet
<1>4. /\ letter = "h" => k # 0 /\ opt.type = "help"
      /\ \A o \in DOMAIN sys.switch : letter = sys.switch[o] =>
           k # 0 /\ opt.type = "boolean" /\ opt.long_name = o
      /\ \A o \in DOMAIN sys.text : letter = sys.text[o] =>
           k # 0 /\ opt.type = "string" /\ opt.long_name = o
      /\ letter \notin SwitchLetters(sys) \cup TextLetters(sys) \cup {"h"} => k = 0
  BY OptionOfLetter
<1> HIDE DEF t, u, k, opt
<1>5. IsState(sys, u)
  BY <1>3 DEF IsLike
<1>6. ASSUME letter = "h" PROVE IsHelped(s, t)
  <2>1. t = argparse_getvalue(u, opt, FALSE) /\ opt.type = "help"
    BY <1>2, <1>4, <1>6
  <2>2. IsHelped(u, t)
    BY ONLY <1>5, <2>1, HelpEnds, Zenon
  <2> QED BY <1>3, <2>2 DEF IsHelped
<1>7. ASSUME NEW name \in DOMAIN sys.switch, letter = sys.switch[name]
      PROVE  LetterCounts(sys, s, t, letter)
  <2>1. t = argparse_getvalue(u, opt, FALSE) /\ opt.type = "boolean" /\ opt.long_name = name
    BY <1>2, <1>4, <1>7
  <2>2. IsSwitched(sys, u, t, name, 1)
    <3>1. FALSE \in BOOLEAN /\ (IF FALSE THEN -1 ELSE 1) = 1
      OBVIOUS
    <3>2. IsSwitched(sys, u, argparse_getvalue(u, opt, FALSE), name, IF FALSE THEN -1 ELSE 1)
      BY ONLY <1>5, <2>1, <3>1, IsTable(sys), name \in DOMAIN sys.switch, SwitchCounts
    <3> QED BY ONLY <2>1, <3>1, <3>2, Zenon
  <2>3. /\ IsLike(sys, u, t) /\ t.optvalue = u.optvalue /\ t.usages = u.usages /\ SameTexts(sys, u, t)
        /\ \A o \in DOMAIN sys.switch : t.value[o] = IF o = name THEN Plus(u.value[o], 1) ELSE u.value[o]
    BY <2>2 DEF IsSwitched
  <2>4. IsLike(sys, s, t) /\ SameTexts(sys, s, t)
    BY <1>3, <2>3 DEF IsLike, SameTexts
  <2>5. \A o \in DOMAIN sys.switch : letter = sys.switch[o] <=> o = name
    BY <1>7, NothingTwice
  <2>6. \A o \in DOMAIN sys.switch : u.value[o] = s.value[o] /\ s.value[o] \in Nat
    BY <1>3 DEF SameCounts, IsState
  <2>7. \A o \in DOMAIN sys.switch :
          t.value[o] = s.value[o] + (IF letter = sys.switch[o] THEN 1 ELSE 0)
    BY <2>3, <2>5, <2>6 DEF Plus
  <2> QED BY ONLY <1>3, <2>3, <2>4, <2>7, Zenon DEF LetterCounts
<1>8. ASSUME NEW o \in DOMAIN sys.text, letter = sys.text[o]
      PROVE  TakesText(sys, s, t, o, Tail(s.optvalue))
  <2>1. t = argparse_getvalue(u, opt, FALSE) /\ opt.type = "string" /\ opt.long_name = o
    BY <1>2, <1>4, <1>8
  <2>2. TakesText(sys, u, t, o, u.optvalue)
    <3>1. TakesText(sys, u, argparse_getvalue(u, opt, FALSE), o, u.optvalue)
      BY ONLY <1>5, <2>1, IsTable(sys), o \in DOMAIN sys.text, TextIsTaken
    <3> QED BY ONLY <2>1, <3>1, Zenon
  <2> QED BY ONLY <1>3, <2>2, TakenAlike, Zenon
<1>9. ASSUME letter \notin SwitchLetters(sys) \cup TextLetters(sys) \cup {"h"}
      PROVE  IsReported(sys, s, t)
  <2>1. t = Unknown(s)
    BY <1>2, <1>4, <1>9
  <2> QED BY <2>1, UnknownIsReported
<1>10. ASSUME letter \in SwitchLetters(sys) PROVE LetterCounts(sys, s, t, letter)
  <2>1. PICK name \in DOMAIN sys.switch : letter = sys.switch[name]
    BY <1>10 DEF SwitchLetters
  <2> QED BY ONLY <1>7, <2>1
<1> QED BY ONLY <1>6, <1>8, <1>9, <1>10, Zenon DEF t

\* The first k letters that are a switch's.
Hits(sys, name, letters, k) == {i \in 1 .. k : letters[i] = sys.switch[name]}

\* One letter more.
LEMMA HitsGrow ==
  ASSUME NEW sys, NEW name, NEW letters, NEW k \in Nat \ {0}
  PROVE  /\ Cardinality(Hits(sys, name, letters, k)) \in Nat
         /\ Cardinality(Hits(sys, name, letters, k)) =
              Cardinality(Hits(sys, name, letters, k - 1))
                + (IF letters[k] = sys.switch[name] THEN 1 ELSE 0)
<1> DEFINE new == Hits(sys, name, letters, k)
           old == Hits(sys, name, letters, k - 1)
           more == letters[k] = sys.switch[name]
<1>1. IsFiniteSet(new) /\ IsFiniteSet(old)
  <2>1. new \subseteq 1 .. k /\ old \subseteq 1 .. k - 1
    BY DEF Hits
  <2>2. IsFiniteSet(1 .. k) /\ IsFiniteSet(1 .. k - 1)
    BY FS_Interval
  <2> QED BY ONLY <2>1, <2>2, FS_Subset
<1>2. Cardinality(new) \in Nat /\ Cardinality(old) \in Nat
  BY ONLY <1>1, FS_CardinalityType
<1>3. 1 .. k = 1 .. k - 1 \cup {k} /\ k \notin 1 .. k - 1
  OBVIOUS
<1>4. CASE more
  <2>1. new = old \cup {k} /\ k \notin old
    BY <1>3, <1>4 DEF Hits
  <2>2. Cardinality(new) = Cardinality(old) + 1
    BY ONLY <1>1, <2>1, FS_AddElement
  <2> QED BY <1>1, <1>2, <1>4, <2>2
<1>5. CASE ~more
  <2>1. new = old
    BY <1>3, <1>5 DEF Hits
  <2> QED BY <1>1, <1>2, <1>5, <2>1
<1> QED BY <1>4, <1>5

\* The number of hits is a number, and none at first.
LEMMA HitsType ==
  ASSUME NEW sys, NEW name, NEW letters
  PROVE  /\ Cardinality(Hits(sys, name, letters, 0)) = 0
         /\ \A k \in Nat : Cardinality(Hits(sys, name, letters, k)) \in Nat
<1>1. Hits(sys, name, letters, 0) = {}
  BY DEF Hits
<1>2. Cardinality(Hits(sys, name, letters, 0)) = 0
  BY <1>1, FS_EmptySet
<1>3. ASSUME NEW k \in Nat PROVE Cardinality(Hits(sys, name, letters, k)) \in Nat
  <2>1. CASE k = 0
    BY <1>2, <2>1
  <2>2. CASE k # 0
    BY <2>2, HitsGrow
  <2> QED BY <2>1, <2>2
<1> QED BY <1>2, <1>3

\* There is a letter that decides, or the end.
LEMMA DeciderIs ==
  ASSUME NEW sys, NEW letters \in Seq(STRING)
  PROVE  LET d == Decider(sys, letters)
         IN /\ d \in 1 .. Len(letters) + 1
            /\ \A j \in 1 .. d - 1 : letters[j] \in SwitchLetters(sys)
            /\ d <= Len(letters) => letters[d] \notin SwitchLetters(sys)
<1> DEFINE m == Len(letters)
           Is(i) == /\ \A j \in 1 .. i - 1 : letters[j] \in SwitchLetters(sys)
                    /\ i <= m => letters[i] \notin SwitchLetters(sys)
           Found == \E i \in 1 .. m + 1 : Is(i)
           S == {k \in 0 .. m : Found \/ \A j \in 1 .. k : letters[j] \in SwitchLetters(sys)}
<1>1. m \in Nat
  BY LenProperties
<1>2. Decider(sys, letters) = CHOOSE i \in 1 .. m + 1 : Is(i)
  BY DEF Decider
<1> HIDE DEF m
<1>3. 0 \in S
  BY <1>1
<1>4. ASSUME NEW k \in 1 .. m, k - 1 \in S PROVE k \in S
  <2>1. CASE Found
    BY <1>1, <2>1
  <2>2. CASE ~Found
    <3>1. \A j \in 1 .. k - 1 : letters[j] \in SwitchLetters(sys)
      BY <1>4, <2>2
    <3>2. letters[k] \in SwitchLetters(sys)
      <4>1. k \in 1 .. m + 1
        BY <1>1
      <4> QED BY <2>2, <3>1, <4>1
    <3>3. \A j \in 1 .. k : j \in 1 .. k - 1 \/ j = k
      BY <1>1
    <3> QED BY <1>1, <3>1, <3>2, <3>3
  <2> QED BY <2>1, <2>2
<1>5. Found
  <2>1. m \in S
    <3> HIDE DEF S
    <3>1. \A k \in 0 .. m : k \in S
      BY ONLY <1>1, <1>3, <1>4, BoundedInduction
    <3> QED BY <1>1, <3>1
  <2>2. CASE \A j \in 1 .. m : letters[j] \in SwitchLetters(sys)
    <3> DEFINE d == m + 1
    <3>1. d \in 1 .. m + 1 /\ d - 1 = m /\ ~(d <= m)
      BY <1>1
    <3> HIDE DEF d
    <3>2. Is(d)
      BY ONLY <2>2, <3>1
    <3> HIDE DEF Is
    <3> QED BY <3>1, <3>2
  <2> QED BY <2>1, <2>2
<1>6. Decider(sys, letters) \in 1 .. m + 1 /\ Is(Decider(sys, letters))
  <2> HIDE DEF Is
  <2> QED BY ONLY <1>2, <1>5, Zenon
<1> QED BY <1>6 DEF m

\* In front of the letter that decides only the switches have moved.
SwitchesMoved(sys, s, t, letters, n) ==
  /\ IsLike(sys, s, t) /\ t.optvalue = SubSeq(letters, n + 1, Len(letters))
  /\ t.usages = s.usages /\ SameTexts(sys, s, t)
  /\ \A o \in DOMAIN sys.switch :
       t.value[o] = s.value[o] + Cardinality(Hits(sys, o, letters, n))

\* The letters of switches do so.
LEMMA SwitchesMove ==
  ASSUME NEW sys, IsTable(sys), NEW s, IsState(sys, s), Running(s),
         NEW letters \in Seq(STRING), NEW n \in 0 .. Len(letters),
         \A i \in 1 .. n : letters[i] \in SwitchLetters(sys)
  PROVE  SwitchesMoved(sys, s, LetterTurns(s, letters)[n], letters, n)
<1> DEFINE m == Len(letters)
           turn == LetterTurns(s, letters)
           S == {k \in 0 .. n : SwitchesMoved(sys, s, turn[k], letters, k)}
<1>1. m \in Nat /\ n \in Nat /\ n <= m
  BY LenProperties
<1>2. /\ turn[0] = [s EXCEPT !.optvalue = letters]
      /\ \A k \in 1 .. m : turn[k] = LetterTurn(turn[k - 1], SubSeq(letters, k, m))
  BY <1>1, LetterTurnsFollow
<1> HIDE DEF m, turn
<1>3. 0 \in S
  <2> DEFINE u == [s EXCEPT !.optvalue = letters]
  <2>1. /\ IsLike(sys, s, u) /\ u.optvalue = letters /\ u.usages = s.usages
        /\ SameCounts(sys, s, u) /\ SameTexts(sys, s, u)
    BY OptvalueSet
  <2>2. turn[0] = u
    BY <1>2
  <2> HIDE DEF u
  <2>3. letters = SubSeq(letters, 0 + 1, Len(letters))
    BY SuffixesDiffer
  <2>4. \A o \in DOMAIN sys.switch : u.value[o] = s.value[o] + Cardinality(Hits(sys, o, letters, 0))
    <3>1. \A o \in DOMAIN sys.switch : s.value[o] \in Nat /\ u.value[o] = s.value[o]
      BY <2>1 DEF SameCounts, IsState
    <3>2. \A o : Cardinality(Hits(sys, o, letters, 0)) = 0
      BY HitsType
    <3> QED BY ONLY <3>1, <3>2
  <2>5. SwitchesMoved(sys, s, u, letters, 0)
    BY ONLY <2>1, <2>3, <2>4, Zenon DEF SwitchesMoved
  <2> QED BY <1>1, <2>2, <2>5
<1>4. ASSUME NEW k \in 1 .. n, k - 1 \in S PROVE k \in S
  <2> DEFINE r == turn[k - 1]
             t == turn[k]
             rest == SubSeq(letters, k, Len(letters))
             hits(o, i) == Cardinality(Hits(sys, o, letters, i))
             letter == letters[k]
  <2>1. k \in 1 .. m /\ k - 1 + 1 = k /\ k \in Nat \ {0}
    BY <1>1
  <2>2. /\ IsLike(sys, s, r) /\ r.optvalue = rest /\ r.usages = s.usages /\ SameTexts(sys, s, r)
        /\ \A o \in DOMAIN sys.switch : r.value[o] = s.value[o] + hits(o, k - 1)
    BY <1>4, <2>1 DEF SwitchesMoved
  <2>3. Head(rest) = letter /\ Tail(rest) = SubSeq(letters, k + 1, Len(letters))
    BY <2>1, Suffixes DEF m
  <2>4. t = LetterTurn(r, rest)
    BY <1>2, <2>1 DEF m
  <2>5. \A o : hits(o, k) = hits(o, k - 1) + (IF letter = sys.switch[o] THEN 1 ELSE 0)
    BY <2>1, HitsGrow
  <2>6. \A o : hits(o, k - 1) \in Nat
    <3>1. k - 1 \in Nat
      BY <2>1
    <3> QED BY <3>1, HitsType
  <2>7. letter \in SwitchLetters(sys)
    OBVIOUS
  <2> HIDE DEF r, t, rest, hits, letter
  <2>8. r.exit = s.exit /\ IsState(sys, r)
    BY <2>2 DEF IsLike
  <2>9. Running(r)
    BY ONLY <2>8, Running(s), Zenon DEF Running
  <2>10. t = argparse_short_opt(r)
    BY ONLY <2>2, <2>4, <2>9, LetterTurnCases, Zenon
  <2>11. letter = Head(r.optvalue)
    BY <2>2, <2>3
  <2>12. LetterCounts(sys, r, t, letter)
    BY ONLY <2>7, <2>8, <2>10, <2>11, IsTable(sys), LetterDoes
  <2>13. /\ IsLike(sys, r, t) /\ t.optvalue = Tail(r.optvalue) /\ t.usages = r.usages
         /\ SameTexts(sys, r, t)
         /\ \A o \in DOMAIN sys.switch :
              t.value[o] = r.value[o] + (IF letter = sys.switch[o] THEN 1 ELSE 0)
    BY <2>12 DEF LetterCounts
  <2>14. IsLike(sys, s, t) /\ SameTexts(sys, s, t)
    BY <2>2, <2>13 DEF IsLike, SameTexts
  <2>15. ASSUME NEW o \in DOMAIN sys.switch PROVE t.value[o] = s.value[o] + hits(o, k)
    <3>1. s.value[o] \in Nat
      BY DEF IsState
    <3> QED BY <2>2, <2>5, <2>6, <2>13, <3>1
  <2>16. t.optvalue = SubSeq(letters, k + 1, Len(letters)) /\ t.usages = s.usages
    BY <2>2, <2>3, <2>13
  <2>17. SwitchesMoved(sys, s, t, letters, k)
    BY ONLY <2>14, <2>15, <2>16, Zenon DEF SwitchesMoved, hits
  <2>18. k \in 0 .. n
    BY <1>1
  <2> QED BY <2>17, <2>18 DEF t
<1> HIDE DEF S
<1>5. n \in S
  <2>1. \A k \in 0 .. n : k \in S
    BY ONLY <1>1, <1>3, <1>4, BoundedInduction
  <2> QED BY <1>1, <2>1
<1> QED BY <1>5 DEF S, turn

\* When the program ends, or optvalue is not what is left of the cluster, no later
\* letter does anything.
LEMMA LettersStop ==
  ASSUME NEW s, NEW letters \in Seq(STRING), NEW i \in 0 .. Len(letters),
         LET t == LetterTurns(s, letters)[i]
         IN ~Running(t) \/ \A j \in i + 1 .. Len(letters) :
                             t.optvalue # SubSeq(letters, j, Len(letters))
  PROVE  ShortOptions(s, letters) = LetterTurns(s, letters)[i]
<1> DEFINE m == Len(letters)
           turn == LetterTurns(s, letters)
           t == turn[i]
           S == {k \in 0 .. m : i <= k => turn[k] = t}
<1>1. m \in Nat /\ i \in Nat /\ i <= m
  BY LenProperties
<1>2. \A k \in 1 .. m : turn[k] = LetterTurn(turn[k - 1], SubSeq(letters, k, m))
  BY <1>1, LetterTurnsFollow
<1>3. ShortOptions(s, letters) = turn[m]
  BY DEF ShortOptions
<1>4. \A j \in i + 1 .. m : ~Running(t) \/ t.optvalue # SubSeq(letters, j, m)
  OBVIOUS
<1> HIDE DEF m, turn
<1>5. 0 \in S
  BY <1>1
<1>6. ASSUME NEW k \in 1 .. m, k - 1 \in S PROVE k \in S
  <2>1. CASE i <= k - 1
    <3>1. turn[k] = LetterTurn(t, SubSeq(letters, k, m))
      BY <1>1, <1>2, <1>6, <2>1
    <3>2. k \in i + 1 .. m
      BY <1>1, <2>1
    <3>3. ~Running(t) \/ t.optvalue # SubSeq(letters, k, m)
      BY ONLY <1>4, <3>2
    <3> HIDE DEF t
    <3>4. turn[k] = t
      BY ONLY <3>1, <3>3, LetterTurnCases, Zenon
    <3> QED BY <1>1, <3>4
  <2>2. CASE i = k
    BY <1>1, <2>2
  <2>3. CASE ~(i <= k)
    BY <1>1, <2>3
  <2> QED BY <1>1, <2>1, <2>2, <2>3
<1> HIDE DEF S
<1>7. m \in S
  <2>1. \A k \in 0 .. m : k \in S
    BY ONLY <1>1, <1>5, <1>6, BoundedInduction
  <2> QED BY <1>1, <2>1
<1>8. turn[m] = t
  BY <1>1, <1>7 DEF S
<1> QED BY <1>3, <1>8 DEF turn

-----------------------------------------------------------------------------
(***************************************************************************)
(* An option, in a cluster or by its name.                                 *)
(***************************************************************************)
\* The options that an argument asks a text for.
Asked(sys, arg) == {name \in DOMAIN sys.text : AsksForText(sys, arg, name)}

\* An argument's options are done.
OptionDone(sys, s, t, arg) ==
  LET text == TextFor(sys, arg, s.optvalue)
      asked == Asked(sys, arg)
      usages == s.usages + (IF IsUnknown(sys, arg) THEN 1 ELSE 0)
  IN IF asked # {} /\ text = <<>> /\ NoMore(s)
     THEN IsParser(t) /\ t.exit = "failure" /\ t.usages = usages
     ELSE /\ IsState(sys, t) /\ t.out = s.out /\ t.exit = s.exit /\ t.usages = usages
          /\ t.optvalue = LeavesText(sys, arg, s.optvalue)
          /\ t.argv = IF asked # {} /\ text = <<>> THEN Tail(s.argv) ELSE s.argv
          /\ \A o \in DOMAIN sys.switch : t.value[o] = Plus(s.value[o], Gain(sys, o, arg))
          /\ \A o \in DOMAIN sys.text :
               t.value[o] = IF o \notin asked THEN s.value[o]
                            ELSE IF text = <<>> THEN Text(s.argv[2]) ELSE text

\* An option has taken its text.
LEMMA DoneByText ==
  ASSUME NEW sys, NEW s, NEW r, NEW t, NEW arg, NEW name, NEW text,
         Asked(sys, arg) = {name}, TextFor(sys, arg, s.optvalue) = text,
         ~IsUnknown(sys, arg), LeavesText(sys, arg, s.optvalue) = <<>>, s.usages \in Nat,
         r.argv = s.argv, r.out = s.out, r.exit = s.exit, r.usages = s.usages,
         SameTexts(sys, s, r),
         \A o \in DOMAIN sys.switch : r.value[o] = Plus(s.value[o], Gain(sys, o, arg)),
         TakesText(sys, r, t, name, text)
  PROVE  OptionDone(sys, s, t, arg)
<1>1. s.usages + (IF IsUnknown(sys, arg) THEN 1 ELSE 0) = s.usages
  OBVIOUS
<1>2. Asked(sys, arg) # {} /\ \A o : o \notin Asked(sys, arg) <=> o # name
  OBVIOUS
<1>3. NoMore(r) <=> NoMore(s)
  BY DEF NoMore
<1>4. CASE text = <<>> /\ NoMore(s)
  <2>1. IsParser(t) /\ t.exit = "failure" /\ t.usages = r.usages
    BY ONLY <1>3, <1>4, TakesText(sys, r, t, name, text), Zenon DEF TakesText
  <2> QED BY ONLY <1>1, <1>2, <1>4, <2>1, TextFor(sys, arg, s.optvalue) = text,
             r.usages = s.usages, Zenon DEF OptionDone
<1>5. CASE ~(text = <<>> /\ NoMore(s))
  <2>1. /\ IsState(sys, t) /\ t.out = r.out /\ t.exit = r.exit /\ t.usages = r.usages
        /\ t.optvalue = <<>> /\ SameCounts(sys, r, t)
        /\ t.argv = IF text = <<>> THEN Tail(r.argv) ELSE r.argv
        /\ \A o \in DOMAIN sys.text :
             t.value[o] = IF o # name THEN r.value[o]
                          ELSE IF text = <<>> THEN Text(r.argv[2]) ELSE text
    BY ONLY <1>3, <1>5, TakesText(sys, r, t, name, text), Zenon DEF TakesText
  <2>2. \A o \in DOMAIN sys.switch : t.value[o] = Plus(s.value[o], Gain(sys, o, arg))
    BY <2>1 DEF SameCounts
  <2>3. \A o \in DOMAIN sys.text :
          t.value[o] = IF o \notin Asked(sys, arg) THEN s.value[o]
                       ELSE IF text = <<>> THEN Text(s.argv[2]) ELSE text
    BY <1>2, <2>1 DEF SameTexts
  <2>4. t.out = s.out /\ t.exit = s.exit /\ t.usages = s.usages
    BY <2>1
  <2>5. t.optvalue = LeavesText(sys, arg, s.optvalue)
    BY <2>1
  <2>6. t.argv = IF Asked(sys, arg) # {} /\ text = <<>> THEN Tail(s.argv) ELSE s.argv
    BY <1>2, <2>1
  <2>7. IsState(sys, t)
    BY <2>1
  <2>8. ~(Asked(sys, arg) # {} /\ text = <<>> /\ NoMore(s))
    BY <1>5
  <2> QED BY ONLY <1>1, <2>2, <2>3, <2>4, <2>5, <2>6, <2>7, <2>8,
             TextFor(sys, arg, s.optvalue) = text, Zenon DEF OptionDone
<1> QED BY <1>4, <1>5

\* An option that wants no text.
LEMMA DoneWithout ==
  ASSUME NEW sys, NEW s, NEW t, NEW arg, Asked(sys, arg) = {}, IsLike(sys, s, t),
         t.usages = s.usages + (IF IsUnknown(sys, arg) THEN 1 ELSE 0),
         t.optvalue = LeavesText(sys, arg, s.optvalue), SameTexts(sys, s, t),
         \A o \in DOMAIN sys.switch : t.value[o] = Plus(s.value[o], Gain(sys, o, arg))
  PROVE  OptionDone(sys, s, t, arg)
<1>1. /\ IsState(sys, t) /\ t.argv = s.argv /\ t.out = s.out /\ t.exit = s.exit
  BY DEF IsLike
<1>2. \A o \in DOMAIN sys.text : t.value[o] = s.value[o] /\ o \notin Asked(sys, arg)
  BY DEF SameTexts
<1> QED BY <1>1, <1>2, Zenon DEF OptionDone

\* The gain of a switch is a number.
LEMMA GainType ==
  ASSUME NEW sys, NEW name, NEW arg \in Arg
  PROVE  Gain(sys, name, arg) \in Int
<1>1. CASE arg.kind = "short"
  <2> DEFINE d == Decider(sys, arg.letters)
  <2>1. d \in 1 .. Len(arg.letters) + 1 /\ Len(arg.letters) \in Nat
    BY <1>1, ClusterLetters, DeciderIs
  <2>2. Gain(sys, name, arg) = Cardinality(Hits(sys, name, arg.letters, d - 1))
    BY <1>1 DEF Gain, Hits
  <2> HIDE DEF d
  <2>3. d - 1 \in Nat
    BY <2>1
  <2>4. \A k \in Nat : Cardinality(Hits(sys, name, arg.letters, k)) \in Nat
    BY HitsType
  <2>5. Cardinality(Hits(sys, name, arg.letters, d - 1)) \in Nat
    BY ONLY <2>3, <2>4
  <2>6. \A n \in Nat : n \in Int
    OBVIOUS
  <2> QED BY ONLY <2>2, <2>5, <2>6
<1>2. CASE arg.kind = "long" /\ arg.name = name
  BY <1>2 DEF Gain
<1>3. CASE ~(arg.kind = "short") /\ ~(arg.kind = "long" /\ arg.name = name)
  BY <1>3 DEF Gain
<1> QED BY <1>1, <1>2, <1>3

\* What a cluster does.
LEMMA ClusterDoes ==
  ASSUME NEW sys, IsTable(sys), NEW s, IsState(sys, s), Running(s), s.usages \in Nat,
         NEW arg \in Arg, arg.kind = "short"
  PROVE  LET t == ShortOptions(s, arg.letters)
         IN IF AsksForHelp(sys, arg) THEN IsHelped(s, t) ELSE OptionDone(sys, s, t, arg)
<1> DEFINE letters == arg.letters
           m == Len(letters)
           d == Decider(sys, letters)
           turn == LetterTurns(s, letters)
           r == turn[d - 1]
           t == ShortOptions(s, letters)
           rest == SubSeq(letters, d, m)
           text == SubSeq(letters, d + 1, m)
           letter == letters[d]
<1>1. letters \in Seq(STRING) /\ m \in Nat \ {0} /\ DOMAIN letters = 1 .. m
  BY ClusterLetters
<1>2. /\ d \in 1 .. m + 1 /\ \A j \in 1 .. d - 1 : letters[j] \in SwitchLetters(sys)
      /\ d <= m => letter \notin SwitchLetters(sys)
  BY <1>1, DeciderIs
<1>3. Deciding(sys, arg) = IF d <= m THEN {letter} ELSE {}
  <2>1. Deciding(sys, arg) = {letters[i] : i \in {d} \cap 1 .. m}
    BY <1>1 DEF Deciding
  <2>2. {d} \cap 1 .. m = IF d <= m THEN {d} ELSE {}
    BY <1>1, <1>2
  <2> HIDE DEF letters, m, d
  <2>3. CASE d <= m
    BY <2>1, <2>2, <2>3
  <2>4. CASE ~(d <= m)
    BY <2>1, <2>2, <2>4
  <2> QED BY <2>3, <2>4
<1>4. \A o : Gain(sys, o, arg) = Cardinality(Hits(sys, o, letters, d - 1))
  BY DEF Gain, Hits
<1>5. /\ AsksForHelp(sys, arg) <=> "h" \in Deciding(sys, arg)
      /\ IsUnknown(sys, arg) <=> ~(Deciding(sys, arg) \subseteq TextLetters(sys) \cup {"h"})
      /\ \A o : o \in Asked(sys, arg) <=> o \in DOMAIN sys.text /\ sys.text[o] \in Deciding(sys, arg)
  BY DEF AsksForHelp, IsUnknown, Asked, AsksForText
<1>6. /\ TextFor(sys, arg, s.optvalue) = text
      /\ LeavesText(sys, arg, s.optvalue) = IF IsUnknown(sys, arg) THEN rest ELSE <<>>
  BY DEF TextFor, OwnText, LeavesText
<1> HIDE DEF letters, m, d, turn, t
<1>7. SwitchesMoved(sys, s, r, letters, d - 1)
  <2>1. d - 1 \in 0 .. m
    BY <1>1, <1>2
  <2> QED BY ONLY <1>1, <1>2, <2>1, IsTable(sys), IsState(sys, s), Running(s), SwitchesMove DEF m, turn
<1>8. d - 1 + 1 = d /\ d - 1 \in Nat
  BY <1>1, <1>2
<1>9. /\ IsLike(sys, s, r) /\ r.optvalue = rest /\ r.usages = s.usages /\ SameTexts(sys, s, r)
      /\ \A o \in DOMAIN sys.switch :
           r.value[o] = s.value[o] + Cardinality(Hits(sys, o, letters, d - 1))
  BY <1>7, <1>8 DEF SwitchesMoved, m
<1> HIDE DEF r
<1>10. \A o \in DOMAIN sys.switch : r.value[o] = Plus(s.value[o], Gain(sys, o, arg))
  <2>1. \A o : Cardinality(Hits(sys, o, letters, d - 1)) \in Nat
    BY <1>8, HitsType
  <2>2. \A o \in DOMAIN sys.switch : s.value[o] \in Nat
    BY DEF IsState
  <2> QED BY <1>4, <1>9, <2>1, <2>2 DEF Plus
<1>11. r.argv = s.argv /\ r.out = s.out /\ r.exit = s.exit /\ IsState(sys, r)
  BY <1>9 DEF IsLike
<1>12. CASE ~(d <= m)
  <2>1. d = m + 1 /\ d - 1 = m
    BY <1>1, <1>2, <1>12
  <2>2. t = r
    BY <2>1 DEF t, r, ShortOptions, turn, m
  <2>3. rest = <<>>
    BY <1>1, <2>1, SuffixesDiffer DEF m
  <2>4. Deciding(sys, arg) = {}
    BY <1>3, <1>12
  <2>5. ~AsksForHelp(sys, arg) /\ ~IsUnknown(sys, arg) /\ Asked(sys, arg) = {}
    BY <1>5, <2>4
  <2>6. t.usages = s.usages + (IF IsUnknown(sys, arg) THEN 1 ELSE 0)
    BY <1>9, <2>2, <2>5
  <2>7. t.optvalue = LeavesText(sys, arg, s.optvalue)
    BY <1>6, <1>9, <2>2, <2>3, <2>5
  <2>8. OptionDone(sys, s, t, arg)
    BY ONLY <1>9, <1>10, <2>2, <2>5, <2>6, <2>7, DoneWithout
  <2> QED BY ONLY <2>5, <2>8, Zenon DEF t, letters
<1>13. CASE d <= m
  <2> DEFINE u == turn[d]
  <2>1. d \in 1 .. m /\ d \in 0 .. m
    BY <1>1, <1>2, <1>13
  <2>2. Head(rest) = letter /\ Tail(rest) = text
    BY <1>1, <2>1, Suffixes DEF m
  <2>3. u = LetterTurn(r, rest)
    BY <1>1, <2>1, LetterTurnsFollow DEF r, m, turn
  <2>4. Deciding(sys, arg) = {letter} /\ letter \notin SwitchLetters(sys)
    BY <1>2, <1>3, <1>13
  <2>5. /\ ~Running(u) => t = u
        /\ (\A j \in d + 1 .. m : u.optvalue # SubSeq(letters, j, m)) => t = u
    BY <1>1, <2>1, LettersStop DEF t, turn, m
  <2>6. d = m => t = u
    BY DEF t, ShortOptions, turn, m
  <2>7. \A j \in d + 1 .. m : /\ SubSeq(letters, j, m) # <<>>
                              /\ SubSeq(letters, j, m) # rest
    <3>1. \A j \in d + 1 .. m : j \in 1 .. m
      BY <1>1, <2>1
    <3> QED BY <1>1, <2>1, <3>1, Suffixes, SuffixesDiffer DEF m
  <2>8. d = m \/ text # <<>>
    <3>1. d # m => d + 1 \in d + 1 .. m
      BY <1>1, <2>1
    <3> QED BY <2>7, <3>1
  <2>9. d = m \/ \A j \in d + 1 .. m : j \in d + 1 .. m
    OBVIOUS
  <2> HIDE DEF u, rest, text, letter
  <2>10. Running(r)
    BY ONLY <1>11, Running(s), Zenon DEF Running
  <2>11. u = argparse_short_opt(r)
    BY ONLY <1>9, <2>3, <2>10, LetterTurnCases, Zenon
  <2>12. letter = Head(r.optvalue) /\ text = Tail(r.optvalue)
    BY <1>9, <2>2
  <2>13. /\ letter = "h" => IsHelped(r, u)
         /\ \A o \in DOMAIN sys.text : letter = sys.text[o] => TakesText(sys, r, u, o, text)
         /\ letter \notin SwitchLetters(sys) \cup TextLetters(sys) \cup {"h"} => IsReported(sys, r, u)
    BY ONLY <1>11, <2>11, <2>12, IsTable(sys), LetterDoes
  <2>14. CASE letter = "h"
    <3>1. IsHelped(r, u)
      BY <2>13, <2>14
    <3>2. ~Running(u)
      BY <3>1, EndedStops DEF IsHelped
    <3>3. IsHelped(s, t)
      BY <1>9, <2>5, <3>1, <3>2 DEF IsHelped
    <3>4. AsksForHelp(sys, arg)
      BY <1>5, <2>4, <2>14
    <3> QED BY ONLY <3>3, <3>4, Zenon DEF t, letters
  <2>15. ASSUME NEW name \in DOMAIN sys.text, letter = sys.text[name]
         PROVE  ~AsksForHelp(sys, arg) /\ OptionDone(sys, s, t, arg)
    <3>1. TakesText(sys, r, u, name, text)
      BY ONLY <2>13, <2>15, name \in DOMAIN sys.text
    <3>2. letter \in TextLetters(sys) /\ letter # "h"
      BY <2>15, NothingTwice DEF TextLetters
    <3>3. ~AsksForHelp(sys, arg) /\ ~IsUnknown(sys, arg)
      BY <1>5, <2>4, <3>2
    <3>4. Asked(sys, arg) = {name}
      <4>1. \A o \in DOMAIN sys.text : sys.text[o] = letter <=> o = name
        BY <2>15, NothingTwice
      <4> QED BY <1>5, <2>4, <4>1
    <3>5. t = u
      <4>1. CASE d = m
        BY <2>6, <4>1
      <4>2. CASE d # m
        <5>1. text # <<>>
          BY <2>8, <4>2
        <5>2. u.optvalue = <<>>
          BY <3>1, <5>1 DEF TakesText
        <5> QED BY <2>5, <2>7, <5>2
      <4> QED BY <4>1, <4>2
    <3>6. OptionDone(sys, s, t, arg)
      <4>1. LeavesText(sys, arg, s.optvalue) = <<>>
        BY <1>6, <3>3
      <4> QED BY ONLY <1>6, <1>9, <1>10, <1>11, <3>1, <3>3, <3>4, <3>5, <4>1,
                 s.usages \in Nat, DoneByText
    <3> QED BY <3>3, <3>6
  <2>16. CASE letter \notin SwitchLetters(sys) \cup TextLetters(sys) \cup {"h"}
    <3>1. IsReported(sys, r, u)
      BY <2>13, <2>16
    <3>2. /\ IsLike(sys, r, u) /\ u.optvalue = r.optvalue /\ u.usages = r.usages + 1
          /\ SameCounts(sys, r, u) /\ SameTexts(sys, r, u)
      BY <3>1 DEF IsReported
    <3>3. t = u
      BY <1>9, <2>5, <2>7, <3>2
    <3>4. ~AsksForHelp(sys, arg) /\ IsUnknown(sys, arg) /\ Asked(sys, arg) = {}
      <4>1. ~AsksForHelp(sys, arg) /\ IsUnknown(sys, arg)
        BY <1>5, <2>4, <2>16
      <4>2. \A o \in DOMAIN sys.text : sys.text[o] # letter
        BY <2>16 DEF TextLetters
      <4> QED BY <1>5, <2>4, <4>1, <4>2
    <3>5. IsLike(sys, s, t) /\ SameTexts(sys, s, t)
      BY <1>9, <1>11, <3>2, <3>3 DEF IsLike, SameTexts
    <3>6. t.usages = s.usages + (IF IsUnknown(sys, arg) THEN 1 ELSE 0)
      BY <1>9, <3>2, <3>3, <3>4
    <3>7. t.optvalue = LeavesText(sys, arg, s.optvalue)
      BY <1>6, <1>9, <3>2, <3>3, <3>4
    <3>8. \A o \in DOMAIN sys.switch : t.value[o] = Plus(s.value[o], Gain(sys, o, arg))
      BY <1>10, <3>2, <3>3 DEF SameCounts
    <3>9. OptionDone(sys, s, t, arg)
      BY ONLY <3>4, <3>5, <3>6, <3>7, <3>8, DoneWithout
    <3> QED BY ONLY <3>4, <3>9, Zenon DEF t, letters
  <2>17. letter \in TextLetters(sys) => \E o \in DOMAIN sys.text : letter = sys.text[o]
    BY DEF TextLetters
  <2>18. CASE letter \in TextLetters(sys)
    <3>1. ~AsksForHelp(sys, arg) /\ OptionDone(sys, s, t, arg)
      BY ONLY <2>15, <2>17, <2>18
    <3> QED BY ONLY <3>1, Zenon DEF t, letters
  <2> QED BY <2>4, <2>14, <2>16, <2>18
<1> QED BY <1>12, <1>13

\* What a long option does.
LEMMA LongDoes ==
  ASSUME NEW sys, IsTable(sys), NEW s, IsState(sys, s), s.usages \in Nat,
         NEW arg \in Arg, arg.kind = "long"
  PROVE  LET t == argparse_long_opt(s, arg)
         IN IF AsksForHelp(sys, arg) THEN IsHelped(s, t) ELSE OptionDone(sys, s, t, arg)
<1> DEFINE t == argparse_long_opt(s, arg)
           text == IF arg.own = <<>> THEN s.optvalue ELSE arg.own
           r == [s EXCEPT !.optvalue = text]
           k == LongOption(sys.options, arg)
           opt == sys.options[k]
           name == arg.name
           neg == arg.neg
<1>1. neg \in BOOLEAN /\ s.options = sys.options
  BY ArgKinds DEF IsState
<1>2. t = IF k = 0 THEN Unknown(s) ELSE argparse_getvalue(r, opt, neg)
  <2>1. t = IF LongOption(s.options, arg) = 0 THEN Unknown(s)
            ELSE argparse_getvalue(r, s.options[LongOption(s.options, arg)], neg)
    BY Zenon DEF argparse_long_opt, LongOption
  <2> HIDE DEF t, r
  <2> QED BY ONLY <1>1, <2>1, Zenon
<1>3. /\ IsLike(sys, s, r) /\ r.optvalue = text /\ r.usages = s.usages
      /\ SameCounts(sys, s, r) /\ SameTexts(sys, s, r)
  <2> HIDE DEF text
  <2> QED BY OptvalueSet
<1>4. /\ name = "help" /\ ~neg => k # 0 /\ opt.type = "help"
      /\ name \in DOMAIN sys.switch => k # 0 /\ opt.type = "boolean" /\ opt.long_name = name
      /\ name \in DOMAIN sys.text /\ ~neg => k # 0 /\ opt.type = "string" /\ opt.long_name = name
      /\ name \notin DOMAIN sys.switch \cup (IF neg THEN {} ELSE DOMAIN sys.text \cup {"help"}) => k = 0
  BY <1>1, OptionOfName
<1>5. /\ AsksForHelp(sys, arg) <=> name = "help" /\ ~neg
      /\ IsUnknown(sys, arg) <=>
           name \notin DOMAIN sys.switch \cup (IF neg THEN {} ELSE DOMAIN sys.text \cup {"help"})
      /\ Asked(sys, arg) = {o \in DOMAIN sys.text : name = o /\ ~neg}
      /\ TextFor(sys, arg, s.optvalue) = text
      /\ \A o : Gain(sys, o, arg) = IF name = o THEN IF neg THEN -1 ELSE 1 ELSE 0
  BY DEF AsksForHelp, IsUnknown, Asked, AsksForText, TextFor, OwnText, Gain
<1>6. LeavesText(sys, arg, s.optvalue) =
        IF name \in DOMAIN sys.switch THEN text
        ELSE IF name \in DOMAIN sys.text /\ ~neg THEN <<>> ELSE s.optvalue
  <2>1. DOMAIN sys.switch \cap DOMAIN sys.text = {}
    BY NothingTwice
  <2> QED BY <2>1 DEF LeavesText
<1>7. /\ "help" \notin DOMAIN sys.switch \cup DOMAIN sys.text
      /\ DOMAIN sys.switch \cap DOMAIN sys.text = {}
  BY NothingTwice
<1>8. \A o \in DOMAIN sys.switch : s.value[o] \in Nat
  BY DEF IsState
<1> HIDE DEF t, text, r, k, opt, name, neg
<1>9. r.argv = s.argv /\ r.out = s.out /\ r.exit = s.exit /\ IsState(sys, r)
  BY <1>3 DEF IsLike
<1>10. CASE name = "help" /\ ~neg
  <2>1. t = argparse_getvalue(r, opt, neg) /\ opt.type = "help"
    BY <1>2, <1>4, <1>10
  <2>2. IsHelped(r, t)
    BY ONLY <1>9, <2>1, HelpEnds, Zenon
  <2>3. IsHelped(s, t)
    BY <1>3, <2>2 DEF IsHelped
  <2>4. AsksForHelp(sys, arg)
    BY <1>5, <1>10
  <2> QED BY ONLY <2>3, <2>4, Zenon DEF t
<1>11. CASE name \in DOMAIN sys.switch
  <2>1. t = argparse_getvalue(r, opt, neg) /\ opt.type = "boolean" /\ opt.long_name = name
    BY <1>2, <1>4, <1>11
  <2>2. IsSwitched(sys, r, t, name, IF neg THEN -1 ELSE 1)
    <3>1. IsSwitched(sys, r, argparse_getvalue(r, opt, neg), name, IF neg THEN -1 ELSE 1)
      BY ONLY <1>1, <1>9, <1>11, <2>1, IsTable(sys), SwitchCounts
    <3> QED BY ONLY <2>1, <3>1, Zenon
  <2>3. /\ IsLike(sys, r, t) /\ t.optvalue = r.optvalue /\ t.usages = r.usages /\ SameTexts(sys, r, t)
        /\ \A o \in DOMAIN sys.switch :
             t.value[o] = IF o = name THEN Plus(r.value[o], IF neg THEN -1 ELSE 1) ELSE r.value[o]
    BY ONLY <2>2, Zenon DEF IsSwitched
  <2>4. ~AsksForHelp(sys, arg) /\ ~IsUnknown(sys, arg) /\ Asked(sys, arg) = {}
    BY <1>5, <1>7, <1>11
  <2>5. IsLike(sys, s, t) /\ SameTexts(sys, s, t)
    BY <1>3, <2>3 DEF IsLike, SameTexts
  <2>6. ASSUME NEW o \in DOMAIN sys.switch PROVE t.value[o] = Plus(s.value[o], Gain(sys, o, arg))
    <3>1. r.value[o] = s.value[o] /\ s.value[o] \in Nat
      BY <1>3, <1>8 DEF SameCounts
    <3>2. CASE o = name
      <4>1. Gain(sys, o, arg) = IF neg THEN -1 ELSE 1
        BY <1>5, <3>2
      <4> QED BY ONLY <2>3, <3>1, <3>2, <4>1, Zenon
    <3>3. CASE o # name
      <4>1. Gain(sys, o, arg) = 0
        BY <1>5, <3>3
      <4>2. t.value[o] = s.value[o]
        BY ONLY <2>3, <3>1, <3>3, Zenon
      <4> QED BY <3>1, <4>1, <4>2 DEF Plus
    <3> QED BY <3>2, <3>3
  <2>7. t.usages = s.usages + (IF IsUnknown(sys, arg) THEN 1 ELSE 0)
    BY <1>3, <2>3, <2>4
  <2>8. t.optvalue = LeavesText(sys, arg, s.optvalue)
    BY <1>3, <1>6, <1>11, <2>3
  <2>9. OptionDone(sys, s, t, arg)
    BY ONLY <2>4, <2>5, <2>6, <2>7, <2>8, DoneWithout
  <2> QED BY ONLY <2>4, <2>9, Zenon DEF t
<1>12. CASE name \in DOMAIN sys.text /\ ~neg
  <2>1. t = argparse_getvalue(r, opt, neg) /\ opt.type = "string" /\ opt.long_name = name
    BY <1>2, <1>4, <1>12
  <2>2. TakesText(sys, r, t, name, text)
    <3>1. TakesText(sys, r, argparse_getvalue(r, opt, neg), name, r.optvalue)
      BY ONLY <1>9, <1>12, <2>1, IsTable(sys), TextIsTaken
    <3> QED BY ONLY <1>3, <2>1, <3>1, Zenon
  <2>3. ~AsksForHelp(sys, arg) /\ ~IsUnknown(sys, arg) /\ Asked(sys, arg) = {name}
    BY <1>5, <1>7, <1>12
  <2>4. LeavesText(sys, arg, s.optvalue) = <<>>
    BY <1>6, <1>7, <1>12
  <2>5. \A o \in DOMAIN sys.switch : r.value[o] = Plus(s.value[o], Gain(sys, o, arg))
    <3>1. \A o \in DOMAIN sys.switch : Gain(sys, o, arg) = 0 /\ r.value[o] = s.value[o]
      BY <1>3, <1>5, <1>7, <1>12 DEF SameCounts
    <3> QED BY <1>8, <3>1 DEF Plus
  <2>6. OptionDone(sys, s, t, arg)
    BY ONLY <1>3, <1>5, <1>9, <2>2, <2>3, <2>4, <2>5, s.usages \in Nat, DoneByText
  <2> QED BY ONLY <2>3, <2>6, Zenon DEF t
<1>13. CASE /\ name \notin DOMAIN sys.switch /\ ~(name = "help" /\ ~neg)
            /\ ~(name \in DOMAIN sys.text /\ ~neg)
  <2>1. name \notin DOMAIN sys.switch \cup (IF neg THEN {} ELSE DOMAIN sys.text \cup {"help"})
    BY <1>13
  <2>2. ~AsksForHelp(sys, arg) /\ IsUnknown(sys, arg) /\ Asked(sys, arg) = {}
    BY <1>5, <1>13, <2>1
  <2>3. IsReported(sys, s, t)
    BY <1>2, <1>4, <2>1, UnknownIsReported
  <2>4. /\ IsLike(sys, s, t) /\ t.optvalue = s.optvalue /\ t.usages = s.usages + 1
        /\ SameCounts(sys, s, t) /\ SameTexts(sys, s, t)
    BY <2>3 DEF IsReported
  <2>5. \A o \in DOMAIN sys.switch : t.value[o] = Plus(s.value[o], Gain(sys, o, arg))
    <3>1. \A o \in DOMAIN sys.switch : Gain(sys, o, arg) = 0 /\ t.value[o] = s.value[o]
      BY <1>5, <1>13, <2>4 DEF SameCounts
    <3> QED BY <1>8, <3>1 DEF Plus
  <2>6. t.usages = s.usages + (IF IsUnknown(sys, arg) THEN 1 ELSE 0)
    BY <2>2, <2>4
  <2>7. t.optvalue = LeavesText(sys, arg, s.optvalue)
    BY <1>6, <1>13, <2>4
  <2>8. OptionDone(sys, s, t, arg)
    BY ONLY <2>2, <2>4, <2>5, <2>6, <2>7, DoneWithout
  <2> QED BY ONLY <2>2, <2>8, Zenon DEF t
<1> QED BY <1>10, <1>11, <1>12, <1>13

-----------------------------------------------------------------------------
(***************************************************************************)
(* The arguments, as they are read.                                        *)
(***************************************************************************)
\* The turns of the loop over the arguments, one after another.
LEMMA ArgumentTurnsFollow ==
  ASSUME NEW self, Len(self.argv) \in Nat
  PROVE  LET turn == ArgumentTurns(self)
         IN /\ turn[0] = self
            /\ \A k \in 1 .. Len(self.argv) : turn[k] = ArgumentTurn(turn[k - 1])
<1> DEFINE n == Len(self.argv)
           AreTurns(f, m) == f = [k \in 0 .. m |-> IF k = 0 THEN self ELSE ArgumentTurn(f[k - 1])]
           S == {m \in 0 .. n : \E f : AreTurns(f, m)}
           turn == ArgumentTurns(self)
<1>1. n \in Nat
  OBVIOUS
<1>2. turn = CHOOSE f : AreTurns(f, n)
  BY DEF ArgumentTurns
<1> HIDE DEF n
<1>3. 0 \in S
  <2>1. [k \in 0 .. 0 |-> self] = [k \in 0 .. 0 |-> IF k = 0 THEN self
                                      ELSE ArgumentTurn([j \in 0 .. 0 |-> self][k - 1])]
    OBVIOUS
  <2>2. AreTurns([k \in 0 .. 0 |-> self], 0)
    BY ONLY <2>1
  <2> HIDE DEF AreTurns
  <2> QED BY <1>1, <2>2
<1>4. ASSUME NEW m \in 1 .. n, m - 1 \in S PROVE m \in S
  <2>1. PICK f : AreTurns(f, m - 1)
    BY <1>4
  <2> DEFINE g == [k \in 0 .. m |-> IF k = m THEN ArgumentTurn(f[m - 1]) ELSE f[k]]
  <2>2. \A k \in 0 .. m - 1 : f[k] = IF k = 0 THEN self ELSE ArgumentTurn(f[k - 1])
    BY <2>1
  <2>3. \A k \in 0 .. m - 1 : g[k] = f[k]
    BY <1>1
  <2>4. g[m] = ArgumentTurn(f[m - 1])
    BY <1>1
  <2> HIDE DEF g
  <2>5. ASSUME NEW k \in 0 .. m
        PROVE  g[k] = IF k = 0 THEN self ELSE ArgumentTurn(g[k - 1])
    <3>1. CASE k = m
      <4>1. m # 0 /\ m - 1 \in 0 .. m - 1
        BY <1>1
      <4> QED BY <2>3, <2>4, <3>1, <4>1
    <3>2. CASE k # m
      <4>1. k \in 0 .. m - 1 /\ (k # 0 => k - 1 \in 0 .. m - 1)
        BY <1>1, <3>2
      <4> QED BY <2>2, <2>3, <4>1
    <3> QED BY <3>1, <3>2
  <2>6. g = [k \in 0 .. m |-> IF k = 0 THEN self ELSE ArgumentTurn(g[k - 1])]
    <3>1. g = [k \in 0 .. m |-> g[k]]
      BY DEF g
    <3> QED BY ONLY <2>5, <3>1
  <2>7. AreTurns(g, m)
    BY ONLY <2>6
  <2> HIDE DEF AreTurns
  <2> QED BY <1>1, <2>7
<1>5. n \in S
  <2> HIDE DEF S
  <2>1. \A k \in 0 .. n : k \in S
    BY ONLY <1>1, <1>3, <1>4, BoundedInduction
  <2> QED BY <1>1, <2>1
<1>6. AreTurns(turn, n)
  <2>1. \E f : AreTurns(f, n)
    BY <1>5
  <2> HIDE DEF AreTurns, turn
  <2> QED BY ONLY <1>2, <2>1, Zenon
<1>7. \A k \in 0 .. n : turn[k] = IF k = 0 THEN self ELSE ArgumentTurn(turn[k - 1])
  <2> HIDE DEF turn
  <2> QED BY <1>6
<1>8. \A k \in 1 .. n : k \in 0 .. n /\ k # 0
  BY <1>1
<1> QED BY <1>1, <1>7, <1>8 DEF n

\* What a turn does with an argument while the program goes on.
OneArgument(self) ==
  LET arg == Head(self.argv)
  IN CASE arg.kind = "word" -> NextArgument([self EXCEPT !.out = Append(@, Text(arg))])
       [] arg.kind = "short" -> NextArgument(ShortOptions(self, arg.letters))
       [] arg.kind = "long" -> NextArgument(argparse_long_opt(self, arg))
       [] arg.kind = "end" -> Rest(NextArgument(self))

\* An argument's turn, when there is one and the program goes on.
LEMMA ArgumentTurnCases ==
  ASSUME NEW self
  PROVE  /\ ~Running(self) => ArgumentTurn(self) = self
         /\ self.argv = <<>> => ArgumentTurn(self) = self
         /\ Running(self) /\ self.argv # <<>> => ArgumentTurn(self) = OneArgument(self)
BY Zenon DEF ArgumentTurn, OneArgument, Running

\* A turn by the kind of its argument.
LEMMA OneArgumentCases ==
  ASSUME NEW self, NEW arg, arg = Head(self.argv)
  PROVE  /\ arg.kind = "word" =>
              OneArgument(self) = NextArgument([self EXCEPT !.out = Append(@, Text(arg))])
         /\ arg.kind = "short" => OneArgument(self) = NextArgument(ShortOptions(self, arg.letters))
         /\ arg.kind = "long" => OneArgument(self) = NextArgument(argparse_long_opt(self, arg))
         /\ arg.kind = "end" => OneArgument(self) = Rest(NextArgument(self))
BY DEF OneArgument

\* What is read, argument by argument.
LEMMA ReadingFollows ==
  ASSUME NEW sys, NEW args, Len(args) \in Nat
  PROVE  LET read == Reading(sys, args)
         IN /\ read[0] = NothingRead(sys)
            /\ \A k \in 1 .. Len(args) : read[k] = ReadMore(sys, read[k - 1], args[k])
<1> DEFINE n == Len(args)
           first == NothingRead(sys)
           More(r, k) == ReadMore(sys, r, args[k])
           AreRead(f, m) == f = [k \in 0 .. m |-> IF k = 0 THEN first ELSE More(f[k - 1], k)]
           S == {m \in 0 .. n : \E f : AreRead(f, m)}
           read == Reading(sys, args)
<1>1. n \in Nat
  OBVIOUS
<1>2. read = CHOOSE f : AreRead(f, n)
  BY DEF Reading
<1> HIDE DEF n, first, More
<1>3. 0 \in S
  <2>1. [k \in 0 .. 0 |-> first] = [k \in 0 .. 0 |-> IF k = 0 THEN first
                                      ELSE More([j \in 0 .. 0 |-> first][k - 1], k)]
    OBVIOUS
  <2>2. AreRead([k \in 0 .. 0 |-> first], 0)
    BY ONLY <2>1
  <2> HIDE DEF AreRead
  <2> QED BY <1>1, <2>2
<1>4. ASSUME NEW m \in 1 .. n, m - 1 \in S PROVE m \in S
  <2>1. PICK f : AreRead(f, m - 1)
    BY <1>4
  <2> DEFINE g == [k \in 0 .. m |-> IF k = m THEN More(f[m - 1], m) ELSE f[k]]
  <2>2. \A k \in 0 .. m - 1 : f[k] = IF k = 0 THEN first ELSE More(f[k - 1], k)
    BY <2>1
  <2>3. \A k \in 0 .. m - 1 : g[k] = f[k]
    BY <1>1
  <2>4. g[m] = More(f[m - 1], m)
    BY <1>1
  <2> HIDE DEF g
  <2>5. ASSUME NEW k \in 0 .. m
        PROVE  g[k] = IF k = 0 THEN first ELSE More(g[k - 1], k)
    <3>1. CASE k = m
      <4>1. m # 0 /\ m - 1 \in 0 .. m - 1
        BY <1>1
      <4> QED BY <2>3, <2>4, <3>1, <4>1
    <3>2. CASE k # m
      <4>1. k \in 0 .. m - 1 /\ (k # 0 => k - 1 \in 0 .. m - 1)
        BY <1>1, <3>2
      <4> QED BY <2>2, <2>3, <4>1
    <3> QED BY <3>1, <3>2
  <2>6. g = [k \in 0 .. m |-> IF k = 0 THEN first ELSE More(g[k - 1], k)]
    <3>1. g = [k \in 0 .. m |-> g[k]]
      BY DEF g
    <3> QED BY ONLY <2>5, <3>1
  <2>7. AreRead(g, m)
    BY ONLY <2>6
  <2> HIDE DEF AreRead
  <2> QED BY <1>1, <2>7
<1>5. n \in S
  <2> HIDE DEF S
  <2>1. \A k \in 0 .. n : k \in S
    BY ONLY <1>1, <1>3, <1>4, BoundedInduction
  <2> QED BY <1>1, <2>1
<1>6. AreRead(read, n)
  <2>1. \E f : AreRead(f, n)
    BY <1>5
  <2> HIDE DEF AreRead, read
  <2> QED BY ONLY <1>2, <2>1, Zenon
<1>7. \A k \in 0 .. n : read[k] = IF k = 0 THEN first ELSE More(read[k - 1], k)
  <2> HIDE DEF read
  <2> QED BY <1>6
<1>8. \A k \in 1 .. n : k \in 0 .. n /\ k # 0
  BY <1>1
<1> QED BY <1>1, <1>7, <1>8 DEF n, first, More

\* What is read when no option wants the argument.
IsRead(sys, read, more, arg) ==
  LET asked == Asked(sys, arg)
      text == TextFor(sys, arg, read.left)
  IN /\ more.words = IF arg.kind = "word" THEN Append(read.words, Text(arg)) ELSE read.words
     /\ more.errors = read.errors + (IF IsUnknown(sys, arg) THEN 1 ELSE 0)
     /\ more.left = LeavesText(sys, arg, read.left)
     /\ more.wants = IF text = <<>> THEN asked ELSE {}
     /\ \A o \in DOMAIN sys.text :
          more.texts[o] = IF o \in asked /\ text # <<>> THEN text ELSE read.texts[o]

\* What is read when an option wants it.
IsWanted(sys, read, more, arg) ==
  /\ more.words = read.words /\ more.errors = read.errors /\ more.left = read.left /\ more.wants = {}
  /\ \A o \in DOMAIN sys.text :
       more.texts[o] = IF o \in read.wants THEN Text(arg) ELSE read.texts[o]

\* What has been read has these fields.
IsReading(read) ==
  /\ DOMAIN read = {"words", "texts", "errors", "left", "wants"}
  /\ read.words \in Seq(Seq(STRING)) /\ read.errors \in Nat

\* One argument more.
LEMMA ReadMoreIs ==
  ASSUME NEW sys, NEW read, IsReading(read), NEW arg \in Arg
  PROVE  LET more == ReadMore(sys, read, arg)
         IN /\ IsReading(more)
            /\ read.wants = {} => IsRead(sys, read, more, arg)
            /\ read.wants # {} => IsWanted(sys, read, more, arg)
<1> DEFINE more == ReadMore(sys, read, arg)
           asked == Asked(sys, arg)
           text == TextFor(sys, arg, read.left)
           Given(names, t) == [name \in DOMAIN sys.text |->
                                 IF name \in names THEN t ELSE read.texts[name]]
           words == IF arg.kind = "word" THEN Append(read.words, Text(arg)) ELSE read.words
           errors == read.errors + (IF IsUnknown(sys, arg) THEN 1 ELSE 0)
           left == LeavesText(sys, arg, read.left)
<1>1. CASE read.wants # {}
  <2>1. more = [read EXCEPT !.texts = Given(read.wants, Text(arg)), !.wants = {}]
    BY <1>1 DEF ReadMore
  <2> HIDE DEF more
  <2>2. /\ DOMAIN more = {"words", "texts", "errors", "left", "wants"}
        /\ more.words = read.words /\ more.errors = read.errors /\ more.left = read.left
        /\ more.wants = {} /\ more.texts = Given(read.wants, Text(arg))
    BY <2>1 DEF IsReading
  <2>3. \A o \in DOMAIN sys.text :
          more.texts[o] = IF o \in read.wants THEN Text(arg) ELSE read.texts[o]
    BY <2>2
  <2>4. IsReading(more)
    BY <2>2 DEF IsReading
  <2> QED BY ONLY <1>1, <2>2, <2>3, <2>4, Zenon DEF more, IsWanted
<1>2. CASE read.wants = {}
  <2>1. more = [words |-> words, texts |-> IF text # <<>> THEN Given(asked, text) ELSE read.texts,
                errors |-> errors, left |-> left, wants |-> IF text = <<>> THEN asked ELSE {}]
    BY <1>2 DEF ReadMore, Asked
  <2>5. words \in Seq(Seq(STRING))
    <3>1. CASE arg.kind = "word"
      <4>1. arg.text \in STRING /\ Text(arg) = <<arg.text>>
        BY <3>1, ArgKinds DEF Text
      <4>2. Text(arg) \in Seq(STRING)
        BY <4>1
      <4> DEFINE T == Seq(STRING)  w == read.words  x == Text(arg)
      <4>3. w \in Seq(T) /\ x \in T
        BY <4>2 DEF IsReading
      <4> HIDE DEF T, w, x
      <4>4. Append(w, x) \in Seq(T)
        BY <4>3
      <4> QED BY <3>1, <4>4 DEF T, w, x
    <3>2. CASE arg.kind # "word"
      BY <3>2 DEF IsReading
    <3> QED BY <3>1, <3>2
  <2>6. errors \in Nat
    BY DEF IsReading
  <2> HIDE DEF more, words, errors, left, asked, text
  <2>2. /\ DOMAIN more = {"words", "texts", "errors", "left", "wants"}
        /\ more.words = words /\ more.errors = errors /\ more.left = left
        /\ more.wants = (IF text = <<>> THEN asked ELSE {})
        /\ more.texts = IF text # <<>> THEN Given(asked, text) ELSE read.texts
    BY <2>1
  <2>3. \A o \in DOMAIN sys.text :
          more.texts[o] = IF o \in asked /\ text # <<>> THEN text ELSE read.texts[o]
    BY <2>2
  <2>4. IsReading(more)
    BY <2>2, <2>5, <2>6 DEF IsReading
  <2> QED BY ONLY <1>2, <2>2, <2>3, <2>4, Zenon DEF more, IsRead, words, errors, left, asked, text
<1> QED BY <1>1, <1>2

\* Nothing read.
LEMMA NothingReadIs ==
  ASSUME NEW sys
  PROVE  LET read == NothingRead(sys)
         IN /\ IsReading(read) /\ read.words = <<>> /\ read.errors = 0 /\ read.left = <<>>
            /\ read.wants = {} /\ \A o \in DOMAIN sys.text : read.texts[o] = <<>>
<1> DEFINE read == NothingRead(sys)
<1>1. /\ DOMAIN read = {"words", "texts", "errors", "left", "wants"}
      /\ read.words = <<>> /\ read.errors = 0 /\ read.left = <<>> /\ read.wants = {}
      /\ read.texts = [name \in DOMAIN sys.text |-> <<>>]
  BY DEF NothingRead
<1> HIDE DEF read
<1>2. <<>> \in Seq(Seq(STRING))
  BY EmptySeq
<1>3. IsReading(read)
  BY <1>1, <1>2 DEF IsReading
<1>4. \A o \in DOMAIN sys.text : read.texts[o] = <<>>
  BY <1>1
<1> QED BY <1>1, <1>3, <1>4 DEF read

\* What has been read always has its fields.
LEMMA ReadingType ==
  ASSUME NEW sys, NEW args \in Seq(Arg)
  PROVE  \A k \in 0 .. Len(args) : IsReading(Reading(sys, args)[k])
<1> DEFINE n == Len(args)
           read == Reading(sys, args)
           S == {k \in 0 .. n : IsReading(read[k])}
<1>1. n \in Nat /\ \A k \in 1 .. n : args[k] \in Arg
  BY LenProperties, ElementOfSeq
<1>2. /\ read[0] = NothingRead(sys)
      /\ \A k \in 1 .. n : read[k] = ReadMore(sys, read[k - 1], args[k])
  BY <1>1, ReadingFollows
<1> HIDE DEF read
<1>3. 0 \in S
  BY <1>1, <1>2, NothingReadIs
<1>4. ASSUME NEW k \in 1 .. n, k - 1 \in S PROVE k \in S
  <2>1. IsReading(ReadMore(sys, read[k - 1], args[k]))
    BY <1>1, <1>4, ReadMoreIs
  <2> QED BY <1>1, <1>2, <2>1
<1> HIDE DEF n, S
<1>5. \A k \in 0 .. n : k \in S
  BY ONLY <1>1, <1>3, <1>4, BoundedInduction
<1> QED BY <1>5 DEF S, n, read

-----------------------------------------------------------------------------
(***************************************************************************)
(* A turn of the loop over the arguments.                                  *)
(***************************************************************************)
\* The next argument.
LEMMA NextArgumentKeeps ==
  ASSUME NEW s, IsParser(s)
  PROVE  LET t == NextArgument(s)
         IN /\ IsParser(t) /\ t.options = s.options /\ t.argv = Tail(s.argv)
            /\ t.out = s.out /\ t.optvalue = s.optvalue /\ t.exit = s.exit
            /\ t.value = s.value /\ t.usages = s.usages
BY DEF NextArgument, IsParser

\* The same state with other arguments or words.
IsMoved(sys, s, t) ==
  /\ IsState(sys, t) /\ t.exit = s.exit /\ t.optvalue = s.optvalue /\ t.usages = s.usages
  /\ SameCounts(sys, s, t) /\ SameTexts(sys, s, t)

\* A state with the same fields is such a state.
LEMMA MovedByFields ==
  ASSUME NEW sys, NEW s, IsState(sys, s), NEW t, IsParser(t), t.options = s.options,
         t.exit = s.exit, t.optvalue = s.optvalue, t.usages = s.usages, t.value = s.value
  PROVE  IsMoved(sys, s, t)
<1>1. DOMAIN t.value = Valued(sys) /\ t.options = sys.options
      /\ \A o \in DOMAIN sys.switch : t.value[o] \in Nat
  BY DEF IsState
<1>2. SameCounts(sys, s, t) /\ SameTexts(sys, s, t)
  BY DEF SameCounts, SameTexts
<1>3. IsState(sys, t)
  BY <1>1 DEF IsState
<1> QED BY ONLY <1>2, <1>3, t.exit = s.exit, t.optvalue = s.optvalue, t.usages = s.usages, Zenon
       DEF IsMoved

\* What an argument does.
LEMMA ArgumentDoes ==
  ASSUME NEW sys, IsTable(sys), NEW s, IsState(sys, s), Running(s), s.usages \in Nat,
         s.argv # <<>>, NEW arg \in Arg, arg = Head(s.argv)
  PROVE  LET t == ArgumentTurn(s)
             rest == Tail(s.argv)
         IN /\ arg.kind = "end" =>
                 /\ IsMoved(sys, s, t) /\ t.argv = <<>>
                 /\ t.out = s.out \o [k \in DOMAIN rest |-> Text(rest[k])]
            /\ arg.kind = "word" =>
                 IsMoved(sys, s, t) /\ t.argv = rest /\ t.out = Append(s.out, Text(arg))
            /\ AsksForHelp(sys, arg) => IsHelped(s, t)
            /\ arg.kind \in {"short", "long"} /\ ~AsksForHelp(sys, arg) =>
                 \E u : OptionDone(sys, s, u, arg) /\ t = NextArgument(u)
<1> DEFINE t == ArgumentTurn(s)
           rest == Tail(s.argv)
<1>1. t = OneArgument(s)
  BY ONLY Running(s), s.argv # <<>>, ArgumentTurnCases, Zenon
<1>2. /\ arg.kind = "word" => t = NextArgument([s EXCEPT !.out = Append(@, Text(arg))])
      /\ arg.kind = "short" => t = NextArgument(ShortOptions(s, arg.letters))
      /\ arg.kind = "long" => t = NextArgument(argparse_long_opt(s, arg))
      /\ arg.kind = "end" => t = Rest(NextArgument(s))
  BY <1>1, OneArgumentCases
<1>3. IsParser(s)
  BY DEF IsState
<1> HIDE DEF t
<1>4. ASSUME arg.kind = "end"
      PROVE  /\ IsMoved(sys, s, t) /\ t.argv = <<>>
             /\ t.out = s.out \o [k \in DOMAIN rest |-> Text(rest[k])]
  <2> DEFINE u == NextArgument(s)
  <2>1. /\ IsParser(u) /\ u.options = s.options /\ u.argv = rest /\ u.out = s.out
        /\ u.optvalue = s.optvalue /\ u.exit = s.exit /\ u.value = s.value /\ u.usages = s.usages
    BY <1>3, NextArgumentKeeps
  <2>2. t = Rest(u)
    BY <1>2, <1>4
  <2> HIDE DEF u, rest
  <2>3. /\ IsParser(t) /\ t.options = u.options /\ t.argv = <<>>
        /\ t.out = u.out \o [k \in DOMAIN u.argv |-> Text(u.argv[k])]
        /\ t.optvalue = u.optvalue /\ t.exit = u.exit /\ t.value = u.value /\ t.usages = u.usages
    BY <2>1, <2>2 DEF Rest, IsParser
  <2>4. /\ t.options = s.options /\ t.exit = s.exit /\ t.optvalue = s.optvalue
        /\ t.usages = s.usages /\ t.value = s.value
    BY <2>1, <2>3
  <2>5. IsMoved(sys, s, t)
    BY ONLY <2>3, <2>4, IsState(sys, s), MovedByFields
  <2> QED BY <2>1, <2>3, <2>5
<1>5. ASSUME arg.kind = "word"
      PROVE  IsMoved(sys, s, t) /\ t.argv = rest /\ t.out = Append(s.out, Text(arg))
  <2> DEFINE u == [s EXCEPT !.out = Append(@, Text(arg))]
  <2>1. /\ IsParser(u) /\ u.options = s.options /\ u.argv = s.argv /\ u.out = Append(s.out, Text(arg))
        /\ u.optvalue = s.optvalue /\ u.exit = s.exit /\ u.value = s.value /\ u.usages = s.usages
    BY <1>3 DEF IsParser
  <2>2. t = NextArgument(u)
    BY <1>2, <1>5
  <2> HIDE DEF u
  <2>3. /\ IsParser(t) /\ t.options = u.options /\ t.argv = Tail(u.argv) /\ t.out = u.out
        /\ t.optvalue = u.optvalue /\ t.exit = u.exit /\ t.value = u.value /\ t.usages = u.usages
    BY <2>1, <2>2, NextArgumentKeeps
  <2>4. /\ t.options = s.options /\ t.exit = s.exit /\ t.optvalue = s.optvalue
        /\ t.usages = s.usages /\ t.value = s.value
    BY <2>1, <2>3
  <2>5. IsMoved(sys, s, t)
    BY ONLY <2>3, <2>4, IsState(sys, s), MovedByFields
  <2> QED BY <2>1, <2>3, <2>5
<1>6. ASSUME arg.kind \in {"short", "long"}
      PROVE  \E u : /\ t = NextArgument(u)
                    /\ IF AsksForHelp(sys, arg) THEN IsHelped(s, u) ELSE OptionDone(sys, s, u, arg)
  <2>1. CASE arg.kind = "short"
    <3> DEFINE u == ShortOptions(s, arg.letters)
    <3>1. IF AsksForHelp(sys, arg) THEN IsHelped(s, u) ELSE OptionDone(sys, s, u, arg)
      BY <2>1, ClusterDoes
    <3> QED BY <1>2, <2>1, <3>1
  <2>2. CASE arg.kind = "long"
    <3> DEFINE u == argparse_long_opt(s, arg)
    <3>1. IF AsksForHelp(sys, arg) THEN IsHelped(s, u) ELSE OptionDone(sys, s, u, arg)
      BY <2>2, LongDoes
    <3> QED BY <1>2, <2>2, <3>1
  <2> QED BY <1>6, <2>1, <2>2
<1>7. ASSUME AsksForHelp(sys, arg) PROVE IsHelped(s, t)
  <2>1. arg.kind \in {"short", "long"}
    BY <1>7 DEF AsksForHelp
  <2>2. PICK u : t = NextArgument(u) /\ IsHelped(s, u)
    BY ONLY <1>6, <1>7, <2>1, Zenon
  <2> QED BY <2>2, NextArgumentKeeps DEF IsHelped
<1>8. ASSUME arg.kind \in {"short", "long"}, ~AsksForHelp(sys, arg)
      PROVE  \E u : OptionDone(sys, s, u, arg) /\ t = NextArgument(u)
  BY ONLY <1>6, <1>8, Zenon
<1> QED BY ONLY <1>4, <1>5, <1>7, <1>8, Zenon DEF t, rest

\* The command line is where this has been read.
Has(sys, t, read) ==
  /\ t.out = read.words /\ t.usages = read.errors /\ t.optvalue = read.left
  /\ \A o \in DOMAIN sys.text : t.value[o] = read.texts[o]

\* The switches have moved with an argument.
HasGained(sys, s, t, arg) ==
  \A o \in DOMAIN sys.switch : t.value[o] = Plus(s.value[o], Gain(sys, o, arg))

\* An argument is read, and the next one too when an option wants it.
IsReadOn(sys, s, t, read, arg, next) ==
  LET more == ReadMore(sys, read, arg)
  IN /\ more.wants = {} =>
          /\ IsState(sys, t) /\ t.exit = s.exit /\ t.argv = Tail(s.argv)
          /\ Has(sys, t, more) /\ HasGained(sys, s, t, arg)
     /\ more.wants # {} /\ ~NoMore(s) =>
          /\ IsState(sys, t) /\ t.exit = s.exit /\ t.argv = Tail(Tail(s.argv))
          /\ Has(sys, t, ReadMore(sys, more, next)) /\ HasGained(sys, s, t, arg)
     /\ more.wants # {} /\ NoMore(s) => t.exit = "failure" /\ t.usages = more.errors

\* An argument that ends nothing is read.
LEMMA ReadsOn ==
  ASSUME NEW sys, IsTable(sys), NEW s, IsState(sys, s), Running(s), NEW read, IsReading(read),
         Has(sys, s, read), read.wants = {}, s.argv # <<>>, NEW arg \in Arg, arg = Head(s.argv),
         arg.kind # "end", ~AsksForHelp(sys, arg), NEW next, next = s.argv[2],
         ~NoMore(s) => next \in Arg
  PROVE  IsReadOn(sys, s, ArgumentTurn(s), read, arg, next)
<1> DEFINE t == ArgumentTurn(s)
           more == ReadMore(sys, read, arg)
           later == ReadMore(sys, more, next)
           asked == Asked(sys, arg)
           text == TextFor(sys, arg, s.optvalue)
<1>1. IsReading(more) /\ IsRead(sys, read, more, arg)
  BY ReadMoreIs
<1>2. s.usages \in Nat /\ s.optvalue = read.left /\ s.out = read.words /\ s.usages = read.errors
      /\ \A o \in DOMAIN sys.text : s.value[o] = read.texts[o]
  BY DEF Has, IsReading
<1>3. /\ more.words = IF arg.kind = "word" THEN Append(read.words, Text(arg)) ELSE read.words
      /\ more.errors = read.errors + (IF IsUnknown(sys, arg) THEN 1 ELSE 0)
      /\ more.left = LeavesText(sys, arg, s.optvalue)
      /\ more.wants = IF text = <<>> THEN asked ELSE {}
      /\ \A o \in DOMAIN sys.text :
           more.texts[o] = IF o \in asked /\ text # <<>> THEN text ELSE read.texts[o]
  BY ONLY <1>1, <1>2, Zenon DEF IsRead
<1>4. /\ arg.kind = "word" =>
           IsMoved(sys, s, t) /\ t.argv = Tail(s.argv) /\ t.out = Append(s.out, Text(arg))
      /\ arg.kind \in {"short", "long"} => \E u : OptionDone(sys, s, u, arg) /\ t = NextArgument(u)
  <2>1. LET tt == ArgumentTurn(s)
             rest == Tail(s.argv)
         IN /\ arg.kind = "end" =>
                 /\ IsMoved(sys, s, tt) /\ tt.argv = <<>>
                 /\ tt.out = s.out \o [k \in DOMAIN rest |-> Text(rest[k])]
            /\ arg.kind = "word" =>
                 IsMoved(sys, s, tt) /\ tt.argv = rest /\ tt.out = Append(s.out, Text(arg))
            /\ AsksForHelp(sys, arg) => IsHelped(s, tt)
            /\ arg.kind \in {"short", "long"} /\ ~AsksForHelp(sys, arg) =>
                 \E u : OptionDone(sys, s, u, arg) /\ tt = NextArgument(u)
    BY <1>2, ArgumentDoes
  <2> QED BY ONLY <2>1, ~AsksForHelp(sys, arg), Zenon
<1>5. arg.kind \in {"word", "short", "long"}
  BY ArgKinds
<1>6. \A o \in DOMAIN sys.switch : s.value[o] \in Nat
  BY DEF IsState
<1>7. more.wants # {} /\ ~NoMore(s) => IsWanted(sys, more, later, next)
  BY <1>1, ReadMoreIs
<1> HIDE DEF t, more, later, asked, text
<1>8. CASE arg.kind = "word"
  <2>1. asked = {} /\ ~IsUnknown(sys, arg) /\ \A o : Gain(sys, o, arg) = 0
    BY <1>8 DEF asked, Asked, AsksForText, IsUnknown, Gain
  <2>2. LeavesText(sys, arg, s.optvalue) = s.optvalue
    BY <1>8 DEF LeavesText
  <2>3. /\ IsState(sys, t) /\ t.exit = s.exit /\ t.optvalue = s.optvalue /\ t.usages = s.usages
        /\ SameCounts(sys, s, t) /\ SameTexts(sys, s, t)
        /\ t.argv = Tail(s.argv) /\ t.out = Append(s.out, Text(arg))
    BY ONLY <1>4, <1>8, Zenon DEF IsMoved
  <2>4. more.wants = {}
    BY <1>3, <2>1
  <2>5. HasGained(sys, s, t, arg)
    BY <1>6, <2>1, <2>3 DEF HasGained, SameCounts, Plus
  <2>6. Has(sys, t, more)
    <3>1. t.usages = more.errors
      BY <1>2, <1>3, <2>1, <2>3
    <3>2. t.out = more.words /\ t.optvalue = more.left
      BY <1>2, <1>3, <1>8, <2>2, <2>3
    <3>3. \A o \in DOMAIN sys.text : t.value[o] = more.texts[o]
      BY <1>2, <1>3, <2>1, <2>3 DEF SameTexts
    <3> QED BY ONLY <3>1, <3>2, <3>3, Zenon DEF Has
  <2> QED BY ONLY <2>3, <2>4, <2>5, <2>6, Zenon DEF t, more, IsReadOn
<1>9. CASE arg.kind \in {"short", "long"}
  <2>1. PICK u : OptionDone(sys, s, u, arg) /\ t = NextArgument(u)
    BY <1>4, <1>9
  <2>2. arg.kind # "word"
    BY <1>9
  <2>3. CASE asked # {} /\ text = <<>> /\ NoMore(s)
    <3>1. IsParser(u) /\ u.exit = "failure"
          /\ u.usages = s.usages + (IF IsUnknown(sys, arg) THEN 1 ELSE 0)
      BY ONLY <2>1, <2>3, Zenon DEF OptionDone, asked, text
    <3>2. t.exit = "failure" /\ t.usages = more.errors
      BY <1>2, <1>3, <2>1, <3>1, NextArgumentKeeps
    <3>3. more.wants # {}
      BY <1>3, <2>3
    <3> QED BY ONLY <2>3, <3>2, <3>3, Zenon DEF t, more, IsReadOn
  <2>4. CASE ~(asked # {} /\ text = <<>> /\ NoMore(s))
    <3>1. /\ IsState(sys, u) /\ u.out = s.out /\ u.exit = s.exit
          /\ u.usages = s.usages + (IF IsUnknown(sys, arg) THEN 1 ELSE 0)
          /\ u.optvalue = LeavesText(sys, arg, s.optvalue)
          /\ u.argv = IF asked # {} /\ text = <<>> THEN Tail(s.argv) ELSE s.argv
          /\ \A o \in DOMAIN sys.switch : u.value[o] = Plus(s.value[o], Gain(sys, o, arg))
          /\ \A o \in DOMAIN sys.text :
               u.value[o] = IF o \notin asked THEN s.value[o]
                            ELSE IF text = <<>> THEN Text(s.argv[2]) ELSE text
      BY ONLY <2>1, <2>4, Zenon DEF OptionDone, asked, text
    <3>2. /\ IsParser(t) /\ t.options = u.options /\ t.argv = Tail(u.argv) /\ t.out = u.out
          /\ t.optvalue = u.optvalue /\ t.exit = u.exit /\ t.value = u.value /\ t.usages = u.usages
      BY <2>1, <3>1, NextArgumentKeeps DEF IsState
    <3>3. IsState(sys, t)
      <4>1. IsMoved(sys, u, t)
        BY ONLY <3>1, <3>2, MovedByFields
      <4> QED BY <4>1 DEF IsMoved
    <3>4. t.exit = s.exit /\ HasGained(sys, s, t, arg)
      BY <3>1, <3>2 DEF HasGained
    <3>5. t.out = more.words /\ t.usages = more.errors /\ t.optvalue = more.left
      BY <1>2, <1>3, <2>2, <3>1, <3>2
    <3>6. \A o \in DOMAIN sys.text :
            t.value[o] = IF o \notin asked THEN read.texts[o]
                         ELSE IF text = <<>> THEN Text(next) ELSE text
      BY ONLY <1>2, <3>1, <3>2, next = s.argv[2], Zenon
    <3>7. CASE more.wants = {}
      <4>1. asked = {} \/ text # <<>>
        BY <1>3, <3>7
      <4>2. t.argv = Tail(s.argv)
        BY <3>1, <3>2, <4>1
      <4>3. \A o \in DOMAIN sys.text : t.value[o] = more.texts[o]
        BY <1>3, <3>6, <4>1
      <4>4. Has(sys, t, more)
        BY ONLY <3>5, <4>3, Zenon DEF Has
      <4> QED BY ONLY <3>3, <3>4, <3>7, <4>2, <4>4, Zenon DEF t, more, IsReadOn
    <3>8. CASE more.wants # {}
      <4>1. asked # {} /\ text = <<>> /\ more.wants = asked /\ ~NoMore(s)
        BY <1>3, <2>4, <3>8
      <4>2. t.argv = Tail(Tail(s.argv))
        BY <3>1, <3>2, <4>1
      <4>3. /\ later.words = more.words /\ later.errors = more.errors /\ later.left = more.left
            /\ \A o \in DOMAIN sys.text :
                 later.texts[o] = IF o \in more.wants THEN Text(next) ELSE more.texts[o]
        BY ONLY <1>7, <3>8, <4>1, Zenon DEF IsWanted
      <4>4. \A o \in DOMAIN sys.text : t.value[o] = later.texts[o]
        BY <1>3, <3>6, <4>1, <4>3
      <4>5. Has(sys, t, later)
        BY ONLY <3>5, <4>3, <4>4, Zenon DEF Has
      <4> QED BY ONLY <3>3, <3>4, <3>8, <4>1, <4>2, <4>5, Zenon DEF t, more, later, IsReadOn
    <3> QED BY <3>7, <3>8
  <2> QED BY <2>3, <2>4
<1> QED BY <1>5, <1>8, <1>9

-----------------------------------------------------------------------------
(***************************************************************************)
(* How the switches gain, and where the options end.                       *)
(***************************************************************************)
\* The gains, argument by argument; one that an option wants gains nothing.
LEMMA GainsFollow ==
  ASSUME NEW sys, NEW name, NEW args \in Seq(Arg)
  PROVE  LET gains == Gains(sys, name, args)
         IN /\ gains \in [0 .. Len(args) -> Int] /\ gains[0] = 0
            /\ \A k \in 1 .. Len(args) :
                 gains[k] = gains[k - 1] + (IF Reading(sys, args)[k - 1].wants = {}
                                            THEN Gain(sys, name, args[k]) ELSE 0)
<1> DEFINE n == Len(args)
           More(k) == IF Reading(sys, args)[k - 1].wants = {} THEN Gain(sys, name, args[k]) ELSE 0
           g == [k \in 1 .. n |-> [s \in Int |-> s + More(k)]]
           r == Gains(sys, name, args)
<1>1. n \in Nat /\ \A k \in 1 .. n : args[k] \in Arg
  BY ElementOfSeq, LenProperties
<1>2. \A k \in 1 .. n : More(k) \in Int
  BY <1>1, GainType
<1>3. r = CHOOSE f : f = [k \in 0 .. n |-> IF k = 0 THEN 0 ELSE f[k - 1] + More(k)]
  BY DEF Gains
<1> HIDE DEF n, r, More
<1>4. g \in [1 .. n -> [Int -> Int]] /\ \A k \in 1 .. n : \A s \in Int : g[k][s] = s + More(k)
  BY <1>1, <1>2
<1> HIDE DEF g
<1>5. PICK f \in [0 .. n -> Int] : f[0] = 0 /\ \A k \in 1 .. n : f[k] = g[k][f[k - 1]]
  <2>1. n \in Nat /\ 0 \in Int /\ g \in [1 .. n -> [Int -> Int]]
    BY <1>1, <1>4
  <2>2. CanRecurse(n, Int, 0, g)
    BY ONLY <2>1, Recursion, Zenon
  <2> QED BY <2>2 DEF CanRecurse, Recursive
<1>6. \A k \in 1 .. n : f[k] = f[k - 1] + More(k)
  <2>1. \A k \in 1 .. n : k - 1 \in 0 .. n
    BY <1>1
  <2> QED BY <1>4, <1>5, <2>1
<1>7. f = [k \in 0 .. n |-> IF k = 0 THEN 0 ELSE f[k - 1] + More(k)]
  <2>1. \A k \in 0 .. n : k # 0 => k \in 1 .. n
    BY <1>1
  <2>2. \A k \in 0 .. n : f[k] = IF k = 0 THEN 0 ELSE f[k - 1] + More(k)
    BY <1>5, <1>6, <2>1
  <2> QED BY <1>5, <2>2
<1>8. r = [k \in 0 .. n |-> IF k = 0 THEN 0 ELSE r[k - 1] + More(k)]
  BY ONLY <1>3, <1>7, Zenon
<1>9. r[0] = 0
  BY <1>1, <1>8
<1>10. \A k \in 1 .. n : r[k] = r[k - 1] + More(k)
  <2>1. \A k \in 1 .. n : k \in 0 .. n /\ k # 0
    BY <1>1
  <2> QED BY <1>8, <2>1
<1> DEFINE S == {k \in 0 .. n : r[k] \in Int}
<1>11. 0 \in S
  BY <1>1, <1>9
<1>12. ASSUME NEW k \in 1 .. n, k - 1 \in S PROVE k \in S
  BY <1>2, <1>10, <1>12
<1>13. \A k \in 0 .. n : k \in S
  <2> HIDE DEF S
  <2> QED BY ONLY <1>1, <1>11, <1>12, BoundedInduction
<1>14. r \in [0 .. n -> Int]
  <2>1. \A k \in 0 .. n : r[k] \in Int
    BY <1>13
  <2> QED BY <1>8, <2>1
<1> QED BY ONLY <1>9, <1>10, <1>14, Zenon DEF n, r, More

\* A count is the most it has risen since some argument.
IsRise(gains, count, k) ==
  /\ \A j \in 0 .. k : gains[k] - gains[j] <= count
  /\ \E j \in 0 .. k : gains[k] - gains[j] = count

\* An argument more.
LEMMA RiseGoesOn ==
  ASSUME NEW n \in Nat, NEW gains \in [0 .. n -> Int], NEW k \in 1 .. n, NEW gain \in Int,
         gains[k] = gains[k - 1] + gain, NEW count \in Nat, IsRise(gains, count, k - 1)
  PROVE  IsRise(gains, Plus(count, gain), k)
<1>1. \A j \in 0 .. k : gains[j] \in Int
  OBVIOUS
<1>2. \A j \in 0 .. k - 1 : gains[k] - gains[j] <= count + gain
  <2>1. \A j \in 0 .. k - 1 : gains[j] \in Int /\ gains[k - 1] \in Int /\ gains[k - 1] - gains[j] <= count
    BY DEF IsRise
  <2>2. ASSUME NEW j \in 0 .. k - 1 PROVE gains[k] - gains[j] <= count + gain
    <3> DEFINE a == gains[k]  b == gains[k - 1]  c == gains[j]
    <3>1. a = b + gain /\ b - c <= count /\ b \in Int /\ c \in Int
      BY <2>1
    <3> HIDE DEF a, b, c
    <3>2. a - c <= count + gain
      BY ONLY <3>1, gain \in Int, count \in Nat
    <3> QED BY <3>2 DEF a, c
  <2> QED BY <2>2
<1>3. gains[k] - gains[k] = 0
  BY <1>1
<1>4. PICK j \in 0 .. k - 1 : gains[k - 1] - gains[j] = count
  BY DEF IsRise
<1>5. gains[k] - gains[j] = count + gain
  <2>1. gains[k - 1] \in Int /\ gains[j] \in Int
    OBVIOUS
  <2>2. gains[k] = gains[k - 1] + gain
    OBVIOUS
  <2> QED BY ONLY <1>4, <2>1, <2>2, gain \in Int, count \in Nat
<1>6. Plus(count, gain) \in Nat /\ count + gain <= Plus(count, gain)
      /\ Plus(count, gain) \in {0, count + gain}
  BY DEF Plus
<1>7. \A i \in 0 .. k : i \in 0 .. k - 1 \/ i = k
  OBVIOUS
<1>8. ASSUME NEW i \in 0 .. k PROVE gains[k] - gains[i] <= Plus(count, gain)
  <2>1. gains[i] \in Int /\ gains[k] \in Int /\ count + gain \in Int
    BY <1>1
  <2>2. CASE i = k
    <3>1. 0 <= Plus(count, gain)
      BY <1>6
    <3> QED BY ONLY <1>3, <2>2, <3>1
  <2>3. CASE i # k
    <3>1. gains[k] - gains[i] <= count + gain
      BY <1>2, <1>7, <2>3
    <3> QED BY ONLY <1>6, <2>1, <3>1
  <2> QED BY <2>2, <2>3
<1>9. j \in 0 .. k /\ k \in 0 .. k
  OBVIOUS
<1> QED BY <1>3, <1>5, <1>6, <1>8, <1>9 DEF IsRise

\* The switches have risen with the gains of the first k arguments.
Rises(sys, args, t, k) == \A o \in DOMAIN sys.switch : IsRise(Gains(sys, o, args), t.value[o], k)

\* They do so with an argument more.
LEMMA RisesOn ==
  ASSUME NEW sys, NEW args \in Seq(Arg), NEW k \in 1 .. Len(args), NEW s, IsState(sys, s),
         NEW t, Rises(sys, args, s, k - 1),
         IF Reading(sys, args)[k - 1].wants = {} THEN HasGained(sys, s, t, args[k])
         ELSE SameCounts(sys, s, t)
  PROVE  Rises(sys, args, t, k)
<1> SUFFICES ASSUME NEW o \in DOMAIN sys.switch
             PROVE  IsRise(Gains(sys, o, args), t.value[o], k)
  BY DEF Rises
<1> DEFINE n == Len(args)
           gains == Gains(sys, o, args)
           gain == IF Reading(sys, args)[k - 1].wants = {} THEN Gain(sys, o, args[k]) ELSE 0
           count == s.value[o]
<1>1. n \in Nat /\ args[k] \in Arg
  BY ElementOfSeq, LenProperties
<1>2. gains \in [0 .. n -> Int] /\ gains[k] = gains[k - 1] + gain
  BY GainsFollow
<1>3. gain \in Int
  BY <1>1, GainType
<1>4. count \in Nat /\ IsRise(gains, count, k - 1)
  BY DEF IsState, Rises
<1>5. t.value[o] = Plus(count, gain)
  <2>1. CASE Reading(sys, args)[k - 1].wants = {}
    BY <2>1 DEF HasGained
  <2>2. CASE Reading(sys, args)[k - 1].wants # {}
    <3>1. t.value[o] = count /\ gain = 0
      BY <2>2 DEF SameCounts
    <3> QED BY <1>4, <3>1 DEF Plus
  <2> QED BY <2>1, <2>2
<1> HIDE DEF n, gains, gain, count
<1>6. k \in 1 .. n
  BY DEF n
<1>7. IsRise(gains, Plus(count, gain), k)
  BY ONLY <1>1, <1>2, <1>3, <1>4, <1>6, RiseGoesOn
<1> QED BY ONLY <1>5, <1>7, Zenon DEF gains

\* There is a place where the options end.
LEMMA FrontIs ==
  ASSUME NEW sys, NEW args \in Seq(Arg)
  PROVE  \E n \in 0 .. Len(args) : IsFront(sys, args, n)
<1> DEFINE N == Len(args)
           EndsAt(k) == EndsOptions(sys, args, k)
           Front(n) == (\A k \in 1 .. n : ~EndsAt(k)) /\ (n # N => EndsAt(n + 1))
           Found == \E n \in 0 .. N : Front(n)
           S == {m \in 0 .. N : Found \/ \A k \in 1 .. m : ~EndsAt(k)}
<1>1. N \in Nat
  BY LenProperties
<1>2. \A n : IsFront(sys, args, n) <=> Front(n)
  BY DEF IsFront
<1> HIDE DEF N, EndsAt
<1>3. 0 \in S
  BY <1>1
<1>4. ASSUME NEW m \in 1 .. N, m - 1 \in S PROVE m \in S
  <2>1. CASE Found
    BY <1>1, <2>1
  <2>2. CASE ~Found
    <3>1. \A k \in 1 .. m - 1 : ~EndsAt(k)
      BY <1>4, <2>2
    <3>2. m - 1 \in 0 .. N /\ m - 1 # N /\ m - 1 + 1 = m
      BY <1>1
    <3>3. ~EndsAt(m)
      <4>1. ~Front(m - 1)
        BY <2>2, <3>2
      <4> QED BY <3>1, <3>2, <4>1
    <3>4. \A k \in 1 .. m : ~EndsAt(k)
      BY <1>1, <3>1, <3>3
    <3> QED BY <1>1, <3>4
  <2> QED BY <2>1, <2>2
<1>5. N \in S
  <2> HIDE DEF S
  <2>1. \A k \in 0 .. N : k \in S
    BY ONLY <1>1, <1>3, <1>4, BoundedInduction
  <2> QED BY <1>1, <2>1
<1>6. Found
  <2>1. N \in 0 .. N
    BY <1>1
  <2> QED BY <1>5, <2>1
<1> QED BY <1>2, <1>6 DEF N

-----------------------------------------------------------------------------
(***************************************************************************)
(* The loop over the arguments.                                            *)
(***************************************************************************)
\* The fields of struct argparse when all is set.
LEMMA InitFields ==
  ASSUME NEW options, NEW args, NEW value, NEW exit, NEW self,
         self = [options |-> options, argv |-> args, out |-> <<>>, optvalue |-> <<>>,
                 value |-> value, usages |-> 0, exit |-> exit]
  PROVE  /\ IsParser(self) /\ self.options = options /\ self.argv = args /\ self.out = <<>>
         /\ self.optvalue = <<>> /\ self.value = value /\ self.usages = 0 /\ self.exit = exit
BY DEF IsParser

\* The values of the options at first.
FirstValue(options) ==
  [o \in {options[k].long_name : k \in DOMAIN options} |->
     IF \E k \in DOMAIN options : options[k].long_name = o /\ options[k].type = "string"
     THEN <<>> ELSE 0]

\* argparse_init sets all.
LEMMA InitSets ==
  ASSUME NEW options, NEW args
  PROVE  LET self == argparse_init(options, args)
         IN /\ IsParser(self) /\ self.options = options /\ self.argv = args /\ self.out = <<>>
            /\ self.optvalue = <<>> /\ self.value = FirstValue(options) /\ self.usages = 0
            /\ Running(self)
<1> DEFINE self == argparse_init(options, args)
           value == FirstValue(options)
<1>1. PICK exit : exit = ""
  BY Zenon
<1>2. self = [options |-> options, argv |-> args, out |-> <<>>, optvalue |-> <<>>,
              value |-> value, usages |-> 0, exit |-> exit]
  BY <1>1, Zenon DEF argparse_init, FirstValue
<1> HIDE DEF self, value
<1>3. /\ IsParser(self) /\ self.options = options /\ self.argv = args /\ self.out = <<>>
      /\ self.optvalue = <<>> /\ self.value = value /\ self.usages = 0 /\ self.exit = exit
  BY ONLY <1>2, InitFields
<1>4. Running(self)
  BY ONLY <1>1, <1>3, Zenon DEF Running
<1> QED BY ONLY <1>3, <1>4, Zenon DEF self, value

\* What is left behind the k-th argument.
Left(args, k) == SubSeq(args, k + 1, Len(args))

\* It begins with the next.
LEMMA LeftBegins ==
  ASSUME NEW args \in Seq(Arg), NEW k \in 0 .. Len(args)
  PROVE  /\ Len(Left(args, k)) = Len(args) - k
         /\ k = Len(args) => Left(args, k) = <<>>
         /\ k # Len(args) =>
              /\ k + 1 \in 1 .. Len(args) /\ args[k + 1] \in Arg /\ Left(args, k) # <<>>
              /\ Head(Left(args, k)) = args[k + 1] /\ Tail(Left(args, k)) = Left(args, k + 1)
         /\ Len(args) - k > 1 =>
              k + 2 \in 1 .. Len(args) /\ args[k + 2] \in Arg /\ Left(args, k)[2] = args[k + 2]
<1> DEFINE N == Len(args)
           d == k + 1
<1>1. N \in Nat /\ d \in Nat
  BY LenProperties
<1>2. CASE k = N
  <2>1. Left(args, k) = <<>>
    BY <1>2, SuffixesDiffer DEF Left
  <2>2. Len(Left(args, k)) = 0
    BY <2>1, EmptySeq
  <2> QED BY <1>1, <1>2, <2>1, <2>2
<1>3. CASE k # N
  <2>1. d \in 1 .. N
    BY <1>1, <1>3
  <2>2. args[d] \in Arg
    BY <2>1, ElementOfSeq
  <2>3. Left(args, k) = SubSeq(args, d, N) /\ Left(args, k + 1) = SubSeq(args, d + 1, N)
    BY DEF Left
  <2> HIDE DEF d
  <2>4. /\ Len(SubSeq(args, d, N)) = N - d + 1 /\ SubSeq(args, d, N) # <<>>
        /\ Head(SubSeq(args, d, N)) = args[d] /\ Tail(SubSeq(args, d, N)) = SubSeq(args, d + 1, N)
        /\ \A i \in 1 .. N - d + 1 : SubSeq(args, d, N)[i] = args[d + i - 1]
    BY <2>1, Suffixes
  <2>5. N - d + 1 = N - k
    BY <1>1 DEF d
  <2>6. ASSUME N - k > 1
        PROVE  k + 2 \in 1 .. N /\ args[k + 2] \in Arg /\ Left(args, k)[2] = args[k + 2]
    <3>1. k + 2 \in 1 .. N /\ 2 \in 1 .. N - d + 1 /\ d + 2 - 1 = k + 2
      BY <1>1, <2>6 DEF d
    <3>2. args[k + 2] \in Arg
      BY <3>1, ElementOfSeq
    <3>3. SubSeq(args, d, N)[2] = args[d + 2 - 1]
      BY ONLY <2>4, <3>1
    <3> QED BY ONLY <2>3, <3>1, <3>2, <3>3, Zenon
  <2>7. Len(Left(args, k)) = N - k
    BY ONLY <2>3, <2>4, <2>5, Zenon
  <2> QED BY ONLY <1>3, <2>1, <2>2, <2>3, <2>4, <2>6, <2>7, Zenon DEF d
<1> QED BY <1>2, <1>3

\* The program is behind the k-th argument, which no option wants.
At(sys, t, args, k) ==
  /\ IsState(sys, t) /\ Running(t) /\ t.argv = Left(args, k)
  /\ Has(sys, t, Reading(sys, args)[k]) /\ Reading(sys, args)[k].wants = {}
  /\ Rises(sys, args, t, k)

\* What is behind "--".
BehindEnd(args, n) == [k \in 1 .. Len(args) - n - 1 |-> Text(args[n + 1 + k])]

\* The program's arguments are used up and it goes on.
IsParsed(sys, t, args, n) ==
  /\ IsState(sys, t) /\ Running(t) /\ Rises(sys, args, t, n)
  /\ t.out = Reading(sys, args)[n].words \o BehindEnd(args, n)
  /\ \A o \in DOMAIN sys.text : t.value[o] = Reading(sys, args)[n].texts[o]

\* The loop is over.
IsOver(sys, t, args, n) ==
  LET errors == Reading(sys, args)[n].errors
  IN /\ ~Running(t) \/ t.argv = <<>>
     /\ IF n # Len(args) /\ args[n + 1].kind # "end"
        THEN t.exit = "success" /\ t.usages = errors + 1
        ELSE /\ t.usages = errors
             /\ IF Reading(sys, args)[n].wants # {} THEN t.exit = "failure"
                ELSE IsParsed(sys, t, args, n)

\* At first the program is in front of the arguments.
LEMMA Starts ==
  ASSUME NEW sys, IsTable(sys), NEW args \in Seq(Arg)
  PROVE  At(sys, argparse_init(sys.options, args), args, 0)
<1> DEFINE t == argparse_init(sys.options, args)
           known == DOMAIN sys.options
           first == FirstValue(sys.options)
<1>1. /\ IsParser(t) /\ t.options = sys.options /\ t.argv = args /\ t.out = <<>>
      /\ t.optvalue = <<>> /\ t.value = first /\ t.usages = 0 /\ Running(t)
  BY InitSets
<1> HIDE DEF t
<1>2. /\ Valued(sys) = {sys.options[k].long_name : k \in known}
      /\ \A o \in DOMAIN sys.switch :
           ~\E k \in known : sys.options[k].long_name = o /\ sys.options[k].type = "string"
      /\ \A o \in DOMAIN sys.text :
           \E k \in known : sys.options[k].long_name = o /\ sys.options[k].type = "string"
  <2>1. \A o \in Valued(sys) : \E k \in known : sys.options[k].long_name = o
    BY DEF IsTable, IsOption, Valued
  <2>2. \A k \in known : sys.options[k].long_name \in Valued(sys)
    BY DEF IsTable, IsOption, Valued
  <2>3. ASSUME NEW o \in DOMAIN sys.switch, NEW k \in known, sys.options[k].long_name = o,
               sys.options[k].type = "string"
        PROVE  FALSE
    <3>1. PICK l \in known : sys.options[l].long_name = o /\ sys.options[l].type = "boolean"
      BY DEF IsTable, IsOption
    <3>2. k = l
      BY <2>3, <3>1 DEF IsTable
    <3> QED BY <2>3, <3>1, <3>2
  <2>4. \A o \in DOMAIN sys.text :
          \E k \in known : sys.options[k].long_name = o /\ sys.options[k].type = "string"
    BY DEF IsTable, IsOption
  <2>5. Valued(sys) = {sys.options[k].long_name : k \in known}
    BY ONLY <2>1, <2>2
  <2> QED BY ONLY <2>3, <2>4, <2>5, Zenon
<1>3. /\ DOMAIN first = Valued(sys)
      /\ \A o \in DOMAIN sys.switch : first[o] = 0
      /\ \A o \in DOMAIN sys.text : first[o] = <<>>
  <2>1. /\ DOMAIN first = {sys.options[k].long_name : k \in known}
        /\ \A o \in {sys.options[k].long_name : k \in known} :
             first[o] = IF \E k \in known : sys.options[k].long_name = o /\ sys.options[k].type = "string"
                        THEN <<>> ELSE 0
    BY DEF FirstValue
  <2>2. DOMAIN sys.switch \subseteq Valued(sys) /\ DOMAIN sys.text \subseteq Valued(sys)
    BY DEF Valued
  <2> HIDE DEF first, known
  <2> QED BY ONLY <1>2, <2>1, <2>2, Zenon
<1> HIDE DEF first
<1>4. IsState(sys, t)
  <2>1. \A o \in DOMAIN sys.switch : t.value[o] \in Nat
    BY <1>1, <1>3
  <2> QED BY <1>1, <1>3, <2>1 DEF IsState
<1>5. Len(args) \in Nat /\ Reading(sys, args)[0] = NothingRead(sys)
  BY LenProperties, ReadingFollows
<1>6. Has(sys, t, Reading(sys, args)[0]) /\ Reading(sys, args)[0].wants = {}
  BY <1>1, <1>3, <1>5, NothingReadIs DEF Has
<1>7. Rises(sys, args, t, 0)
  <2>1. ASSUME NEW o \in DOMAIN sys.switch PROVE IsRise(Gains(sys, o, args), t.value[o], 0)
    <3> DEFINE gains == Gains(sys, o, args)
    <3>1. gains[0] = 0 /\ t.value[o] = 0
      BY <1>1, <1>3, GainsFollow
    <3>2. \A j \in 0 .. 0 : j = 0
      OBVIOUS
    <3> HIDE DEF gains
    <3>3. 0 \in 0 .. 0 /\ gains[0] - gains[0] = 0
      BY <3>1
    <3> QED BY <3>1, <3>2, <3>3 DEF IsRise, gains
  <2> QED BY <2>1 DEF Rises
<1>8. t.argv = Left(args, 0)
  <2>1. SubSeq(args, 0 + 1, Len(args)) = args
    BY SuffixesDiffer
  <2> QED BY <1>1, <2>1 DEF Left
<1> QED BY ONLY <1>1, <1>4, <1>6, <1>7, <1>8, Zenon DEF At, t

\* A turn for an argument in front of what ends the options.
LEMMA TurnReads ==
  ASSUME NEW sys, IsTable(sys), NEW args \in Seq(Arg), NEW n \in 0 .. Len(args),
         IsFront(sys, args, n), NEW k \in 0 .. n, k # n, NEW s, At(sys, s, args, k)
  PROVE  LET t == ArgumentTurn(s)
         IN \/ \E j \in k + 1 .. n : At(sys, t, args, j)
            \/ IsOver(sys, t, args, n)
<1> DEFINE N == Len(args)
           t == ArgumentTurn(s)
           d == k + 1
           e == d + 1
           arg == args[d]
           next == s.argv[2]
           R(j) == Reading(sys, args)[j]
           more == R(d)
           later == R(e)
<1>1. /\ N \in Nat /\ n <= N /\ d \in 1 .. n /\ d \in 1 .. N /\ d - 1 = k /\ k # N /\ k \in 0 .. N
      /\ d \in k + 1 .. n /\ k + 1 = d /\ k + 2 = e /\ d \in 0 .. N /\ n + 1 \in Nat
  BY LenProperties
<1>2. /\ Len(Left(args, k)) = N - k /\ arg \in Arg /\ Left(args, k) # <<>>
      /\ Head(Left(args, k)) = arg /\ Tail(Left(args, k)) = Left(args, d)
      /\ N - k > 1 => e \in 1 .. N /\ args[e] \in Arg /\ Left(args, k)[2] = args[e]
                      /\ Tail(Left(args, d)) = Left(args, e)
  <2>1. /\ Len(Left(args, k)) = N - k /\ arg \in Arg /\ Left(args, k) # <<>>
        /\ Head(Left(args, k)) = arg /\ Tail(Left(args, k)) = Left(args, d)
        /\ N - k > 1 => e \in 1 .. N /\ args[e] \in Arg /\ Left(args, k)[2] = args[e]
    BY <1>1, LeftBegins
  <2>2. ASSUME N - k > 1 PROVE Tail(Left(args, d)) = Left(args, e)
    <3>1. d # N
      BY <1>1, <2>2
    <3> QED BY <1>1, <3>1, LeftBegins
  <2> QED BY ONLY <2>1, <2>2, Zenon
<1>3. /\ IsState(sys, s) /\ Running(s) /\ s.argv = Left(args, k)
      /\ Has(sys, s, R(k)) /\ R(k).wants = {} /\ Rises(sys, args, s, k)
  BY DEF At
<1>4. IsReading(R(k)) /\ IsReading(more)
  BY <1>1, ReadingType
<1>5. more = ReadMore(sys, R(k), arg) /\ (e \in 1 .. N => later = ReadMore(sys, more, args[e]))
  <2>1. \A j \in 1 .. N : R(j) = ReadMore(sys, R(j - 1), args[j])
    BY <1>1, ReadingFollows
  <2>2. e - 1 = d
    BY <1>1
  <2> QED BY <1>1, <2>1, <2>2
<1>6. arg.kind # "end" /\ ~AsksForHelp(sys, arg)
  <2>1. ~EndsOptions(sys, args, d)
    BY <1>1 DEF IsFront
  <2> QED BY <1>1, <1>3, <2>1 DEF EndsOptions
<1>7. NoMore(s) <=> ~(N - k > 1)
  BY <1>2, <1>3 DEF NoMore
<1>8. ~NoMore(s) => next \in Arg /\ next = args[e]
  BY <1>2, <1>3, <1>7
<1>9. s.argv # <<>> /\ arg = Head(s.argv) /\ Tail(s.argv) = Left(args, d)
  BY <1>2, <1>3
<1> HIDE DEF t, d, e, arg, next, R, more, later
<1>10. IsReadOn(sys, s, ArgumentTurn(s), R(k), arg, next)
  <2>1. next = s.argv[2] /\ (~NoMore(s) => next \in Arg)
    BY <1>8 DEF next
  <2> QED BY ONLY IsTable(sys), <1>2, <1>3, <1>4, <1>6, <1>9, <2>1, ReadsOn
<1>11. /\ more.wants = {} =>
            /\ IsState(sys, t) /\ t.exit = s.exit /\ t.argv = Left(args, d)
            /\ Has(sys, t, more) /\ HasGained(sys, s, t, arg)
       /\ more.wants # {} /\ ~NoMore(s) =>
            /\ IsState(sys, t) /\ t.exit = s.exit /\ t.argv = Left(args, e)
            /\ Has(sys, t, later) /\ HasGained(sys, s, t, arg) /\ e \in 1 .. N /\ next = args[e]
       /\ more.wants # {} /\ NoMore(s) => t.exit = "failure" /\ t.usages = more.errors
  BY ONLY <1>2, <1>5, <1>7, <1>8, <1>9, <1>10, Zenon DEF t, IsReadOn
<1>12. Rises(sys, args, s, d - 1) /\ R(d - 1).wants = {}
  BY <1>1, <1>3
<1>13. ASSUME HasGained(sys, s, t, arg) PROVE Rises(sys, args, t, d)
  <2>1. IF Reading(sys, args)[d - 1].wants = {} THEN HasGained(sys, s, t, args[d])
        ELSE SameCounts(sys, s, t)
    BY ONLY <1>12, <1>13, Zenon DEF R, arg
  <2>2. d \in 1 .. Len(args)
    BY <1>1
  <2> QED BY ONLY args \in Seq(Arg), <1>3, <1>12, <2>1, <2>2, RisesOn
<1>14. CASE more.wants = {}
  <2>1. Running(t)
    BY ONLY <1>3, <1>11, <1>14, Zenon DEF Running
  <2>2. At(sys, t, args, d)
    BY ONLY <1>11, <1>13, <1>14, <2>1, Zenon DEF At, more, R
  <2> QED BY ONLY <1>1, <2>2, Zenon DEF t
<1>15. CASE more.wants # {} /\ ~NoMore(s)
  <2>1. d # n
    <3>1. ASSUME d = n PROVE FALSE
      <4>1. n # N
        BY <1>1, <1>2, <1>7, <1>15, <3>1 DEF e
      <4> DEFINE m == n + 1
      <4>2. EndsOptions(sys, args, m) /\ m - 1 = n
        BY <4>1 DEF IsFront, N
      <4> HIDE DEF m
      <4>3. R(m - 1).wants = {}
        BY ONLY <4>2, Zenon DEF EndsOptions, R
      <4>4. R(n).wants = {}
        BY ONLY <4>2, <4>3
      <4> QED BY ONLY <1>15, <3>1, <4>4, Zenon DEF more
    <3> QED BY <3>1
  <2>2. e \in k + 1 .. n /\ e \in 1 .. N /\ e - 1 = d
    BY <1>1, <2>1 DEF e
  <2>3. Running(t)
    BY ONLY <1>3, <1>11, <1>15, Zenon DEF Running
  <2>4. later.wants = {}
    <3>1. IsWanted(sys, more, ReadMore(sys, more, args[e]), args[e])
      BY <1>2, <1>4, <1>7, <1>15, ReadMoreIs
    <3> QED BY <1>5, <2>2, <3>1 DEF IsWanted
  <2>5. Rises(sys, args, t, e)
    <3>1. IsState(sys, t) /\ Rises(sys, args, t, e - 1)
      BY ONLY <1>11, <1>13, <1>15, <2>2, Zenon
    <3>2. SameCounts(sys, t, t)
      BY DEF SameCounts
    <3>3. IF Reading(sys, args)[e - 1].wants = {} THEN HasGained(sys, t, t, args[e])
          ELSE SameCounts(sys, t, t)
      BY ONLY <1>15, <2>2, <3>2, Zenon DEF more, R
    <3>4. e \in 1 .. Len(args)
      BY <2>2
    <3> QED BY ONLY args \in Seq(Arg), <3>1, <3>3, <3>4, RisesOn
  <2>6. At(sys, t, args, e)
    BY ONLY <1>11, <1>15, <2>3, <2>4, <2>5, Zenon DEF At, later, R
  <2> QED BY ONLY <2>2, <2>6, Zenon DEF t
<1>16. CASE more.wants # {} /\ NoMore(s)
  <2>1. d = n /\ n = N
    BY <1>1, <1>7, <1>16
  <2>2. t.exit = "failure" /\ t.usages = more.errors /\ more = R(n) /\ ~Running(t)
    <3>1. t.exit = "failure" /\ t.usages = more.errors
      BY ONLY <1>11, <1>16, Zenon
    <3>2. ~Running(t)
      BY <3>1, EndedStops
    <3> QED BY ONLY <2>1, <3>1, <3>2, Zenon DEF more
  <2>3. IsOver(sys, t, args, n)
    BY ONLY <1>16, <2>1, <2>2, Zenon DEF IsOver, R, N
  <2> QED BY ONLY <2>3, Zenon DEF t
<1> QED BY ONLY <1>14, <1>15, <1>16, Zenon

\* The turn for what ends the options.
LEMMA TurnEnds ==
  ASSUME NEW sys, IsTable(sys), NEW args \in Seq(Arg), NEW n \in 0 .. Len(args), n # Len(args),
         IsFront(sys, args, n), NEW s, At(sys, s, args, n)
  PROVE  IsOver(sys, ArgumentTurn(s), args, n)
<1> DEFINE N == Len(args)
           t == ArgumentTurn(s)
           d == n + 1
           arg == args[d]
           read == Reading(sys, args)[n]
           rest == Left(args, d)
<1>1. N \in Nat /\ n \in Nat /\ d - 1 = n /\ d \in 1 .. N /\ d \in 0 .. N
  BY LenProperties
<1>2. arg \in Arg /\ Left(args, n) # <<>> /\ Head(Left(args, n)) = arg /\ Tail(Left(args, n)) = rest
  BY LeftBegins
<1>3. /\ IsState(sys, s) /\ Running(s) /\ s.argv = Left(args, n)
      /\ Has(sys, s, read) /\ read.wants = {} /\ Rises(sys, args, s, n)
  BY DEF At
<1>4. read.errors \in Nat /\ s.usages = read.errors /\ s.out = read.words
  <2>1. IsReading(read)
    BY <1>1, ReadingType
  <2> QED BY <1>3, <2>1 DEF IsReading, Has
<1>5. arg.kind = "end" \/ AsksForHelp(sys, arg)
  BY DEF IsFront, EndsOptions
<1>6. AsksForHelp(sys, arg) => arg.kind # "end"
  BY DEF AsksForHelp
<1>7. Len(rest) = N - d
  BY <1>1, LeftBegins
<1>8. \A k \in 1 .. N - d : rest[k] = args[d + k]
  <2>1. \A i \in d + 1 .. N : args[i] \in Arg
    BY <1>1, ElementOfSeq
  <2>2. d + 1 \in Int /\ N \in Int
    BY <1>1
  <2> HIDE DEF N, d
  <2>3. \A i \in 1 .. N - (d + 1) + 1 : SubSeq(args, d + 1, N)[i] = args[d + 1 + i - 1]
    BY ONLY <2>1, <2>2, SubSeqProperties
  <2>4. \A k \in 1 .. N - d : k \in 1 .. N - (d + 1) + 1 /\ d + 1 + k - 1 = d + k
    BY <1>1
  <2>5. rest = SubSeq(args, d + 1, N)
    BY DEF Left, N
  <2> HIDE DEF rest
  <2> QED BY ONLY <2>3, <2>4, <2>5
<1>9. [k \in DOMAIN rest |-> Text(rest[k])] = BehindEnd(args, n)
  <2>1. rest \in Seq(Arg)
    <3>1. \A i \in d + 1 .. N : args[i] \in Arg
      BY <1>1, ElementOfSeq
    <3> QED BY <1>1, <3>1, SubSeqProperties DEF Left
  <2> HIDE DEF rest
  <2>2. DOMAIN rest = 1 .. N - n - 1
    <3>1. DOMAIN rest = 1 .. Len(rest)
      BY <2>1, LenProperties
    <3>2. N - d = N - n - 1
      BY <1>1
    <3> QED BY ONLY <1>7, <3>1, <3>2, Zenon
  <2>3. \A k \in 1 .. N - n - 1 : rest[k] = args[n + 1 + k]
    <3>1. N - d = N - n - 1
      BY <1>1
    <3> QED BY ONLY <1>8, <3>1, Zenon DEF d
  <2> QED BY ONLY <2>2, <2>3 DEF BehindEnd, N
<1> HIDE DEF t, arg, read, rest, d
<1>10. /\ arg.kind = "end" =>
            /\ IsMoved(sys, s, t) /\ t.argv = <<>>
            /\ t.out = s.out \o [k \in DOMAIN rest |-> Text(rest[k])]
       /\ AsksForHelp(sys, arg) => IsHelped(s, t)
  <2>1. s.usages \in Nat /\ s.argv # <<>> /\ arg = Head(s.argv) /\ Tail(s.argv) = rest
    BY ONLY <1>2, <1>3, <1>4, Zenon
  <2>2. LET tt == ArgumentTurn(s)
            left == Tail(s.argv)
        IN /\ arg.kind = "end" =>
                /\ IsMoved(sys, s, tt) /\ tt.argv = <<>>
                /\ tt.out = s.out \o [k \in DOMAIN left |-> Text(left[k])]
           /\ arg.kind = "word" =>
                IsMoved(sys, s, tt) /\ tt.argv = left /\ tt.out = Append(s.out, Text(arg))
           /\ AsksForHelp(sys, arg) => IsHelped(s, tt)
           /\ arg.kind \in {"short", "long"} /\ ~AsksForHelp(sys, arg) =>
                \E u : OptionDone(sys, s, u, arg) /\ tt = NextArgument(u)
    BY ONLY IsTable(sys), <1>2, <1>3, <2>1, ArgumentDoes
  <2> QED BY ONLY <2>1, <2>2, Zenon DEF t
<1>11. CASE arg.kind = "end"
  <2>1. /\ IsState(sys, t) /\ t.exit = s.exit /\ t.usages = s.usages
        /\ SameCounts(sys, s, t) /\ SameTexts(sys, s, t)
        /\ t.argv = <<>> /\ t.out = read.words \o BehindEnd(args, n)
    BY ONLY <1>4, <1>9, <1>10, <1>11, Zenon DEF IsMoved
  <2>2. Running(t)
    BY ONLY <1>3, <2>1, Zenon DEF Running
  <2>3. Rises(sys, args, t, n)
    BY <1>3, <2>1 DEF Rises, SameCounts
  <2>4. \A o \in DOMAIN sys.text : t.value[o] = read.texts[o]
    BY <1>3, <2>1 DEF Has, SameTexts
  <2>5. IsParsed(sys, t, args, n)
    BY ONLY <2>1, <2>2, <2>3, <2>4, Zenon DEF IsParsed, read
  <2> QED BY ONLY <1>3, <1>4, <1>11, <2>1, <2>5, Zenon DEF IsOver, read, t, arg, d
<1>12. CASE AsksForHelp(sys, arg)
  <2>1. t.exit = "success" /\ t.usages = read.errors + 1
    BY ONLY <1>4, <1>10, <1>12, Zenon DEF IsHelped
  <2>2. ~Running(t)
    BY <2>1, EndedStops
  <2> QED BY ONLY n # Len(args), <1>6, <1>12, <2>1, <2>2, Zenon DEF IsOver, read, t, arg, d
<1> QED BY <1>5, <1>11, <1>12

\* Behind the last argument the loop is over.
LEMMA LastIsOver ==
  ASSUME NEW sys, NEW args \in Seq(Arg), NEW s, At(sys, s, args, Len(args))
  PROVE  IsOver(sys, s, args, Len(args))
<1> DEFINE N == Len(args)
           read == Reading(sys, args)[N]
<1>1. N \in 0 .. N /\ N \in Nat
  BY LenProperties
<1>2. /\ IsState(sys, s) /\ Running(s) /\ s.argv = Left(args, N)
      /\ Has(sys, s, read) /\ read.wants = {} /\ Rises(sys, args, s, N)
  BY DEF At
<1>3. s.argv = <<>>
  BY <1>1, <1>2, LeftBegins
<1>4. BehindEnd(args, N) = <<>>
  <2>1. 1 .. N - N - 1 = {}
    BY <1>1
  <2> QED BY ONLY <2>1 DEF BehindEnd
<1>5. read.words \o <<>> = read.words
  <2>1. read.words \in Seq(Seq(STRING))
    BY <1>1, ReadingType DEF IsReading
  <2> QED BY ONLY <2>1, ConcatEmptySeq
<1> HIDE DEF N, read
<1>6. s.out = read.words \o BehindEnd(args, N) /\ s.usages = read.errors
      /\ \A o \in DOMAIN sys.text : s.value[o] = read.texts[o]
  BY ONLY <1>2, <1>4, <1>5, Zenon DEF Has
<1>7. IsParsed(sys, s, args, N)
  BY ONLY <1>2, <1>6, Zenon DEF IsParsed, read
<1> QED BY ONLY <1>2, <1>3, <1>6, <1>7, Zenon DEF IsOver, read, N

\* The loop ends with all arguments read.
LEMMA AllIsRead ==
  ASSUME NEW sys, IsTable(sys), NEW args \in Seq(Arg), NEW n \in 0 .. Len(args),
         IsFront(sys, args, n)
  PROVE  IsOver(sys, argparse_parse(argparse_init(sys.options, args)), args, n)
<1> DEFINE N == Len(args)
           self == argparse_init(sys.options, args)
           turn == ArgumentTurns(self)
           Over(t) == IsOver(sys, t, args, n)
           Reached(a) == Over(turn[a]) \/ \E k \in a .. n : At(sys, turn[a], args, k)
           S == {a \in 0 .. N : Reached(a)}
<1>1. N \in Nat /\ n \in Nat /\ n <= N
  BY LenProperties
<1>2. At(sys, self, args, 0)
  BY Starts
<1>3. self.argv = args
  BY InitSets
<1> HIDE DEF self
<1>4. turn[0] = self /\ \A a \in 1 .. N : turn[a] = ArgumentTurn(turn[a - 1])
  BY <1>1, <1>3, ArgumentTurnsFollow
<1>5. argparse_parse(self) = turn[N]
  BY <1>3 DEF argparse_parse
<1> HIDE DEF turn, Over
<1>6. 0 \in S
  <2>1. 0 \in 0 .. n
    BY <1>1
  <2>2. Reached(0)
    BY ONLY <1>2, <1>4, <2>1, Zenon
  <2> QED BY <1>1, <2>2
<1>7. ASSUME NEW a \in 1 .. N, a - 1 \in S PROVE a \in S
  <2> DEFINE s == turn[a - 1]
             t == turn[a]
  <2>1. t = ArgumentTurn(s)
    BY <1>4
  <2>2. Over(s) \/ \E k \in a - 1 .. n : At(sys, s, args, k)
    BY <1>7
  <2>3. a \in 0 .. N
    BY <1>1
  <2> HIDE DEF s
  <2>4. ASSUME Over(s) PROVE Over(t)
    <3>1. ~Running(s) \/ s.argv = <<>>
      BY ONLY <2>4, Zenon DEF Over, IsOver
    <3>2. ArgumentTurn(s) = s
      BY ONLY <3>1, ArgumentTurnCases, Zenon
    <3> QED BY ONLY <2>1, <2>4, <3>2, Zenon
  <2>5. ASSUME NEW k \in a - 1 .. n, At(sys, s, args, k)
        PROVE  Over(t) \/ \E j \in a .. n : At(sys, t, args, j)
    <3>1. k \in 0 .. n
      BY <1>1
    <3>2. CASE k # n
      <4>1. \/ \E j \in k + 1 .. n : At(sys, ArgumentTurn(s), args, j)
            \/ IsOver(sys, ArgumentTurn(s), args, n)
        BY <2>5, <3>1, <3>2, TurnReads
      <4>2. \A j \in k + 1 .. n : j \in a .. n
        BY <1>1
      <4> QED BY ONLY <2>1, <4>1, <4>2, Zenon DEF Over
    <3>3. CASE k = n /\ n # N
      <4>1. IsOver(sys, ArgumentTurn(s), args, n)
        BY <2>5, <3>3, TurnEnds
      <4> QED BY ONLY <2>1, <4>1, Zenon DEF Over
    <3>4. CASE k = n /\ n = N
      <4>1. Over(s)
        BY <2>5, <3>4, LastIsOver DEF Over
      <4> QED BY <2>4, <4>1
    <3> QED BY <3>2, <3>3, <3>4
  <2>6. Reached(a)
    BY ONLY <2>2, <2>4, <2>5, Zenon
  <2> QED BY <2>3, <2>6
<1>8. N \in S
  <2> HIDE DEF S
  <2>1. \A a \in 0 .. N : a \in S
    BY ONLY <1>1, <1>6, <1>7, BoundedInduction
  <2> QED BY <1>1, <2>1
<1>9. Over(turn[N])
  <2>1. ASSUME NEW k \in N .. n, At(sys, turn[N], args, k) PROVE Over(turn[N])
    <3>1. k = N /\ n = N
      BY <1>1
    <3> QED BY <2>1, <3>1, LastIsOver DEF Over
  <2>2. Reached(N)
    BY <1>8
  <2> QED BY ONLY <2>1, <2>2, Zenon
<1> QED BY ONLY <1>5, <1>9, Zenon DEF self, Over

-----------------------------------------------------------------------------
(***************************************************************************)
(* What main makes of it.                                                  *)
(***************************************************************************)
\* The loop over the options finds the first.
LEMMA FirstOfSome ==
  ASSUME NEW n \in Nat, NEW S \in SUBSET (1 .. n), S # {}
  PROVE  FirstOption(S) \in S /\ \A l \in S : FirstOption(S) <= l
<1> DEFINE Least(k) == k \in S /\ \A l \in S : k <= l
           Found == \E k \in S : Least(k)
           T == {m \in 0 .. n : Found \/ \A k \in 1 .. m : k \notin S}
<1>1. 0 \in T
  OBVIOUS
<1>2. ASSUME NEW m \in 1 .. n, m - 1 \in T PROVE m \in T
  <2>1. CASE Found
    BY <2>1
  <2>2. CASE ~Found
    <3>1. \A k \in 1 .. m - 1 : k \notin S
      BY <1>2, <2>2
    <3>2. ASSUME m \in S PROVE FALSE
      <4>1. \A l \in S : m <= l
        BY <3>1
      <4> QED BY <2>2, <3>2, <4>1
    <3>3. \A k \in 1 .. m : k \notin S
      BY <3>1, <3>2
    <3> QED BY <3>3
  <2> QED BY <2>1, <2>2
<1>3. n \in T
  <2> HIDE DEF T
  <2>1. \A k \in 0 .. n : k \in T
    BY ONLY n \in Nat, <1>1, <1>2, BoundedInduction
  <2> QED BY <2>1
<1>4. Found
  BY <1>3
<1>5. FirstOption(S) = CHOOSE k \in S : \A l \in S : k <= l
  BY DEF FirstOption
<1> QED BY ONLY <1>4, <1>5

\* main asks for options that can be turned on.
IsOrder(sys) == sys.order \in Seq(DOMAIN sys.switch)

\* So it does on both systems.
LEMMA OrdersAre == IsOrder(Linux) /\ IsOrder(Windows)
<1>1. Linux.order = <<"run", "start">> /\ DOMAIN Linux.switch = {"start", "run"}
  BY DEF Linux, LinuxOrder
<1>2. /\ Windows.order = <<"install", "uninstall", "start", "stop", "run">>
      /\ DOMAIN Windows.switch = {"install", "uninstall", "start", "stop", "run"}
  BY DEF Windows, WindowsOrder
<1>3. \A S : {"start", "run"} \subseteq S => <<"run", "start">> \in Seq(S)
  OBVIOUS
<1>4. \A S : {"install", "uninstall", "start", "stop", "run"} \subseteq S =>
               <<"install", "uninstall", "start", "stop", "run">> \in Seq(S)
  OBVIOUS
<1> QED BY <1>1, <1>2, <1>3, <1>4 DEF IsOrder

\* What main goes on with, by what is on.
LEMMA ModeCases ==
  ASSUME NEW self, NEW order
  PROVE  LET on == {k \in DOMAIN order : self.value[order[k]] # 0}
         IN /\ ~Running(self) => Mode(self, order) = "exit"
            /\ Running(self) /\ on = {} => Mode(self, order) = "usage"
            /\ Running(self) /\ on # {} => Mode(self, order) = order[FirstOption(on)]
BY Zenon DEF Mode, Running

\* A switch is on when it counts.
LEMMA OnCounts ==
  ASSUME NEW sys, NEW args \in Seq(Arg), NEW n \in 0 .. Len(args), NEW t, IsState(sys, t),
         Rises(sys, args, t, n), NEW o \in DOMAIN sys.switch
  PROVE  t.value[o] # 0 <=> IsOn(sys, o, args, n)
<1> DEFINE gains == Gains(sys, o, args)
           count == t.value[o]
<1>1. gains \in [0 .. Len(args) -> Int] /\ count \in Nat /\ Len(args) \in Nat
  BY GainsFollow, LenProperties DEF IsState
<1>2. IsRise(gains, count, n)
  BY DEF Rises
<1>3. IsOn(sys, o, args, n) <=> \E k \in 0 .. n : gains[k] < gains[n]
  BY DEF IsOn
<1> HIDE DEF gains, count
<1>4. \A k \in 0 .. n : gains[k] \in Int /\ gains[n] \in Int
  BY <1>1
<1>5. CASE count = 0
  <2>1. \A j \in 0 .. n : gains[n] - gains[j] <= 0
    BY <1>2, <1>5 DEF IsRise
  <2>2. \A j \in 0 .. n : ~(gains[j] < gains[n])
    BY ONLY <1>4, <2>1
  <2> QED BY <1>3, <1>5, <2>2 DEF count
<1>6. CASE count # 0
  <2>1. PICK j \in 0 .. n : gains[n] - gains[j] = count
    BY <1>2 DEF IsRise
  <2>2. gains[j] < gains[n]
    BY <1>1, <1>4, <1>6, <2>1
  <2> QED BY <1>3, <1>6, <2>2 DEF count
<1> QED BY <1>5, <1>6

\* main goes on with the first option that is on.
LEMMA FirstIsMode ==
  ASSUME NEW sys, IsOrder(sys), NEW args \in Seq(Arg), NEW n \in 0 .. Len(args),
         NEW t, IsState(sys, t), Running(t), Rises(sys, args, t, n)
  PROVE  ModeIs(sys, args, n, Mode(t, sys.order))
<1> DEFINE order == sys.order
           m == Len(order)
           On(k) == IsOn(sys, order[k], args, n)
           on == {k \in DOMAIN order : t.value[order[k]] # 0}
           mode == Mode(t, order)
<1>1. m \in Nat /\ DOMAIN order = 1 .. m /\ \A k \in 1 .. m : order[k] \in DOMAIN sys.switch
  BY LenProperties, ElementOfSeq DEF IsOrder
<1>2. \A k \in 1 .. m : k \in on <=> On(k)
  BY <1>1, OnCounts
<1>3. /\ on = {} => mode = "usage"
      /\ on # {} => mode = order[FirstOption(on)]
  BY ModeCases, Zenon
<1>4. on \in SUBSET (1 .. m)
  BY <1>1
<1>5. ModeIs(sys, args, n, mode) <=>
        IF \A k \in 1 .. m : ~On(k) THEN mode = "usage"
        ELSE \E k \in 1 .. m : mode = order[k] /\ On(k) /\ \A j \in 1 .. k - 1 : ~On(j)
  BY <1>1 DEF ModeIs
<1> HIDE DEF order, m, On, on, mode
<1>6. CASE on = {}
  BY <1>2, <1>3, <1>5, <1>6 DEF mode, order
<1>7. CASE on # {}
  <2> DEFINE k == FirstOption(on)
  <2>1. k \in on /\ \A l \in on : k <= l
    BY ONLY <1>1, <1>4, <1>7, FirstOfSome
  <2>2. k \in 1 .. m /\ On(k) /\ mode = order[k]
    BY <1>2, <1>3, <1>4, <1>7, <2>1
  <2> HIDE DEF k
  <2>3. \A j \in 1 .. k - 1 : ~On(j)
    <3>1. ASSUME NEW j \in 1 .. k - 1, On(j) PROVE FALSE
      <4>1. j \in 1 .. m
        BY <1>1, <2>2
      <4>2. j \in on
        BY <1>2, <3>1, <4>1
      <4> QED BY <2>1, <2>2, <4>2
    <3> QED BY <3>1
  <2>4. ModeIs(sys, args, n, mode)
    BY ONLY <1>5, <2>2, <2>3, Zenon
  <2> QED BY <2>4 DEF mode, order
<1> QED BY <1>6, <1>7

\* Whatever the table of options, and whatever the command line, main does what
\* the arguments in front of "--" or of help say: it goes on with the first option
\* it asks for that they have turned on, the options with texts have the last they
\* were given, the words and all behind "--" are left over, and only help and a
\* text that is missing end the program; an unknown option is counted.
THEOREM MainIsAsGiven ==
  ASSUME NEW sys, IsTable(sys), IsOrder(sys), NEW args \in Seq(Arg), NEW n \in 0 .. Len(args),
         IsFront(sys, args, n)
  PROVE  IsAsGiven(sys, args, n, main(sys.options, sys.order, args))
<1> DEFINE N == Len(args)
           t == argparse_parse(argparse_init(sys.options, args))
           result == main(sys.options, sys.order, args)
           mode == Mode(t, sys.order)
           self == result.self
           read == Reading(sys, args)[n]
           errors == read.errors
           usages == errors + (IF self.exit = "success" \/ result.mode = "usage" THEN 1 ELSE 0)
           Helped == n # N /\ args[n + 1].kind # "end"
           IsEnd == /\ ModeIs(sys, args, n, result.mode)
                    /\ \A name \in DOMAIN sys.text : self.value[name] = read.texts[name]
                    /\ self.out = read.words \o BehindEnd(args, n)
<1>1. self = (IF mode = "usage" THEN argparse_usage(t) ELSE t) /\ result.mode = mode
  BY DEF main
<1>2. IsOver(sys, t, args, n)
  BY AllIsRead
<1>3. /\ IF Helped THEN t.exit = "success" /\ t.usages = errors + 1
         ELSE /\ t.usages = errors
              /\ IF read.wants # {} THEN t.exit = "failure" ELSE IsParsed(sys, t, args, n)
  <2> HIDE DEF t
  <2> QED BY ONLY <1>2, Zenon DEF IsOver
<1>4. errors \in Nat
  BY ReadingType DEF IsReading
<1>5. n < N <=> n # N
  BY LenProperties
<1>6. IsAsGiven(sys, args, n, result) <=>
        /\ self.usages = usages
        /\ usages <= 1 =>
             CASE Helped -> result.mode = "exit" /\ self.exit = "success"
               [] read.wants # {} -> result.mode = "exit" /\ self.exit = "failure"
               [] OTHER -> IsEnd
  <2>1. n < N /\ args[n + 1].kind # "end" <=> Helped
    BY <1>5
  <2> HIDE DEF result
  <2> QED BY ONLY <2>1, Zenon DEF IsAsGiven, BehindEnd
<1> HIDE DEF t, result, mode, self
<1>7. CASE Helped
  <2>1. t.exit = "success" /\ t.usages = errors + 1
    BY <1>3, <1>7
  <2>2. mode = "exit"
    <3>1. ~Running(t)
      BY <2>1, EndedStops
    <3> QED BY ONLY <3>1, ModeCases, Zenon DEF mode
  <2>3. self = t /\ result.mode = "exit"
    BY <1>1, <2>2
  <2>4. read.wants = {}
    <3> DEFINE m == n + 1
    <3>1. EndsOptions(sys, args, m) /\ m - 1 = n
      BY <1>7 DEF IsFront
    <3> HIDE DEF m
    <3>2. Reading(sys, args)[m - 1].wants = {}
      BY ONLY <3>1, Zenon DEF EndsOptions
    <3> QED BY ONLY <3>1, <3>2
  <2> HIDE DEF Helped, IsEnd, read
  <2>5. result.mode = "exit" /\ self.exit = "success"
    BY <2>1, <2>3
  <2>6. self.usages = usages
    BY ONLY <1>4, <2>1, <2>3, <2>5
  <2>7. /\ self.usages = usages
        /\ usages <= 1 =>
             CASE Helped -> result.mode = "exit" /\ self.exit = "success"
               [] read.wants # {} -> result.mode = "exit" /\ self.exit = "failure"
               [] OTHER -> IsEnd
    BY ONLY <1>7, <2>4, <2>5, <2>6, Zenon
  <2> QED BY ONLY <1>6, <2>7, Zenon DEF result
<1>8. CASE ~Helped /\ read.wants # {}
  <2>1. t.exit = "failure" /\ t.usages = errors
    BY <1>3, <1>8
  <2>2. mode = "exit"
    <3>1. ~Running(t)
      BY <2>1, EndedStops
    <3> QED BY ONLY <3>1, ModeCases, Zenon DEF mode
  <2>3. self = t /\ result.mode = "exit"
    BY <1>1, <2>2
  <2>4. result.mode = "exit" /\ self.exit = "failure"
    BY <2>1, <2>3
  <2> HIDE DEF Helped, IsEnd, read
  <2>5. self.usages = usages
    BY <1>4, <2>1, <2>3
  <2>6. /\ self.usages = usages
        /\ usages <= 1 =>
             CASE Helped -> result.mode = "exit" /\ self.exit = "success"
               [] read.wants # {} -> result.mode = "exit" /\ self.exit = "failure"
               [] OTHER -> IsEnd
    BY ONLY <1>8, <2>4, <2>5, Zenon
  <2> QED BY ONLY <1>6, <2>6, Zenon DEF result
<1>9. CASE ~Helped /\ read.wants = {}
  <2>1. t.usages = errors /\ IsParsed(sys, t, args, n)
    BY <1>3, <1>9
  <2>2. /\ IsState(sys, t) /\ Running(t) /\ Rises(sys, args, t, n)
        /\ t.out = read.words \o BehindEnd(args, n)
        /\ \A o \in DOMAIN sys.text : t.value[o] = read.texts[o]
    BY ONLY <2>1, Zenon DEF IsParsed
  <2>3. ModeIs(sys, args, n, mode)
    BY <2>2, FirstIsMode DEF mode
  <2>4. /\ self.out = t.out /\ self.value = t.value /\ self.exit = t.exit
        /\ self.usages = t.usages + (IF mode = "usage" THEN 1 ELSE 0)
    <3>1. IsParser(t) /\ t.usages + 0 = t.usages
      BY <1>4, <2>1, <2>2 DEF IsState
    <3>2. LET u == argparse_usage(t)
          IN u.out = t.out /\ u.value = t.value /\ u.exit = t.exit /\ u.usages = t.usages + 1
      BY <3>1 DEF argparse_usage, IsParser
    <3> QED BY ONLY <1>1, <3>1, <3>2, Zenon
  <2>5. self.exit # "success"
    <3>1. t.exit = "success" => ~Running(t)
      BY EndedStops
    <3> QED BY ONLY <2>2, <2>4, <3>1, Zenon
  <2>6. self.usages = usages
    BY ONLY <1>1, <2>1, <2>4, <2>5, Zenon
  <2>7. IsEnd
    BY ONLY <1>1, <2>2, <2>3, <2>4, Zenon
  <2> HIDE DEF Helped, IsEnd, read
  <2>8. /\ self.usages = usages
        /\ usages <= 1 =>
             CASE Helped -> result.mode = "exit" /\ self.exit = "success"
               [] read.wants # {} -> result.mode = "exit" /\ self.exit = "failure"
               [] OTHER -> IsEnd
    BY ONLY <1>9, <2>6, <2>7, Zenon
  <2> QED BY ONLY <1>6, <2>8, Zenon DEF result
<1> QED BY ONLY <1>7, <1>8, <1>9, Zenon

-----------------------------------------------------------------------------
(***************************************************************************)
(* Every call of the specification.                                        *)
(***************************************************************************)
\* Only calls there can be are made.
IsCall == call = NoCall \/ call \in AnyCall

\* IsCall holds of every state of the specification.
LEMMA OnlyCalls == Spec => []IsCall
<1>1. Init => IsCall
  BY DEF Init, IsCall
<1>2. IsCall /\ [Next]_call => IsCall'
  BY CallsAssumption DEF IsCall, Next, Call, Return
<1> QED BY <1>1, <1>2, PTL DEF Spec

\* The call of a name has the inputs of that name.
LEMMA CallsByName ==
  ASSUME IsCall
  PROVE  /\ call.name \in {"bytes", "crc"} => call.bytes \in Seq(Byte8)
         /\ call.name = "decode" => call.text \in Seq(Byte8)
         /\ call.name = "random" => call \in AnyRandom
         /\ call.name = "time" => call \in AnyTime
         /\ call.name = "wait" => call \in AnyWait
         /\ call.name = "array" => call \in AnyArray
         /\ call.name = "reply" => call \in AnyReply
         /\ call.name = "sum" => call \in AnySum
         /\ call.name = "replace" => call \in AnyReplace
         /\ call.name = "log" => call \in AnyLog
         /\ call.name = "main" => call.args \in Seq(Arg)
<1>1. CASE call = NoCall
  BY <1>1 DEF NoCall
<1>2. CASE call \in AnyReply
  BY <1>2 DEF AnyReply
<1>3. CASE call \in AnySum
  BY <1>3 DEF AnySum
<1>4. CASE call \in AnyRandom
  BY <1>4 DEF AnyRandom
<1>5. CASE call \in AnyTime
  BY <1>5 DEF AnyTime
<1>6. CASE call \in AnyWait
  BY <1>6 DEF AnyWait
<1>7. CASE call \in AnyArray
  BY <1>7 DEF AnyArray
<1>8. CASE call \in [name : {"bytes", "crc"}, bytes : Seq(Byte8)]
  BY <1>8
<1>9. CASE call \in [name : {"decode"}, text : Seq(Byte8)]
  BY <1>9
<1>10. CASE call \in AnyReplace
  BY <1>10 DEF AnyReplace
<1>11. CASE call \in AnyLog
  BY <1>11 DEF AnyLog
<1>12. CASE call \in AnyMain
  BY <1>12 DEF AnyMain
<1> QED
  BY <1>1, <1>2, <1>3, <1>4, <1>5, <1>6, <1>7, <1>8, <1>9, <1>10, <1>11, <1>12
  DEF IsCall, AnyCall

\* What one function has converted, its counterpart turns back into the same, for
\* every call.
THEOREM ConversionsComeBack == Spec => []ConvertedBack
<1>1. ASSUME IsCall PROVE BytesComeBack
  <2>1. ASSUME call.name = "bytes"
        PROVE  LET encoded == pg_b64_encode(call.bytes, pg_b64_enc_len(Len(call.bytes)))
                   Hex(isFlag) == kcHexStringFromBytes(call.bytes, isFlag)
               IN /\ pg_b64_decode(encoded.text, pg_b64_dec_len(Len(encoded.text)))
                       = KC_OK(call.bytes)
                  /\ call.bytes # <<>> =>
                       \A isFlag \in BOOLEAN :
                         kcHexStringToBytes(Hex(isFlag).text) = KC_OK(call.bytes)
    <3> DEFINE bytes == call.bytes
    <3>1. bytes \in Seq(Byte8)
      BY <1>1, <2>1, CallsByName
    <3> HIDE DEF bytes
    <3>2. pg_b64_decode(pg_b64_encode(bytes, pg_b64_enc_len(Len(bytes))).text,
            pg_b64_dec_len(Len(pg_b64_encode(bytes, pg_b64_enc_len(Len(bytes))).text)))
              = KC_OK(bytes)
      BY ONLY <3>1, Base64ComesBack
    <3>3. ASSUME bytes # <<>>, NEW isFlag \in BOOLEAN
          PROVE  kcHexStringToBytes(kcHexStringFromBytes(bytes, isFlag).text) = KC_OK(bytes)
      BY ONLY <3>1, <3>3, HexComesBack
    <3> QED BY ONLY <3>2, <3>3, Zenon DEF bytes
  <2> QED BY ONLY <2>1, Zenon DEF BytesComeBack
<1>2. ASSUME IsCall PROVE DecodedFits
  BY <1>2, CallsByName, RoomSuffices DEF DecodedFits
<1>3. ASSUME IsCall PROVE CharactersComeBack
  <2>1. ASSUME call.name = "random"
        PROVE  LET bytes == kcUtf8ZhRandom(call.code)
               IN /\ IF bytes = <<>> THEN NoCharacter(call.code)
                     ELSE Utf8Code(bytes) = call.code
                  /\ \A kind \in kcCkeckFlag(call.flag) :
                       call.code \in kcNumAbcZhRandomV1(kind) =>
                         \A count \in CharacterCounts(call.min, call.max) :
                           Len(kcNumAbcZhRandom([k \in 1 .. count |-> call.code]))
                             < RandomRoom(count)
    <3>1. call \in AnyRandom
      BY <1>3, <2>1, CallsByName
    <3> DEFINE code == call.code
               min == call.min
               max == call.max
    <3>2. code \in Nat /\ min \in Int /\ max \in Int
      BY <3>1 DEF AnyRandom
    <3> HIDE DEF code, min, max
    <3>3. IsCharacter(kcUtf8ZhRandom(code), code)
      BY <3>2, CharactersDecode
    <3>4. ASSUME NEW count \in CharacterCounts(min, max)
          PROVE  Len(kcNumAbcZhRandom([k \in 1 .. count |-> code])) < RandomRoom(count)
      <4>1. count \in Nat
        BY <3>2, <3>4, SMT DEF CharacterCounts, KC_RANDOM
      <4> DEFINE codes == [k \in 1 .. count |-> code]
      <4>2. codes \in Seq(Nat) /\ Len(codes) = count
        BY <3>2, <4>1
      <4> HIDE DEF codes
      <4>3. Len(kcNumAbcZhRandom(codes)) < RandomRoom(Len(codes))
        BY <4>2, RandomTextsFit
      <4> QED BY ONLY <4>2, <4>3, Zenon DEF codes
    <3> QED BY ONLY <3>3, <3>4, Zenon DEF IsCharacter, code, min, max
  <2> QED BY ONLY <2>1, Zenon DEF CharactersComeBack
<1>4. ASSUME IsCall PROVE TimesComeBack
  <2>1. ASSUME call.name = "time"
        PROVE  LET x == call.x  y == call.y  z == call.z
                   sum  == INSTR_TIME_ADD(x, y, Unit)
                   diff == INSTR_TIME_SUBTRACT(y, z, Unit)
               IN /\ IsTime(sum, Unit) /\ IsTime(diff, Unit)
                  /\ INSTR_TIME_SUBTRACT(sum, y, Unit) = x
                  /\ INSTR_TIME_ACCUM_DIFF(x, y, z, Unit) = INSTR_TIME_ADD(x, diff, Unit)
    <3>1. call \in AnyTime
      BY <1>4, <2>1, CallsByName
    <3> DEFINE x == call.x
               y == call.y
               z == call.z
    <3>2. x \in Time /\ y \in Time /\ z \in Time
      BY <3>1 DEF AnyTime
    <3> HIDE DEF x, y, z
    <3>3. Unit \in Nat \ {0} /\ Time = [sec : Int, frac : 0 .. Unit - 1]
      BY CallsAssumption DEF Time
    <3> QED BY ONLY <3>2, <3>3, TimesAddUp DEF x, y, z
  <2> QED BY ONLY <2>1, Zenon DEF TimesComeBack
<1>5. ASSUME IsCall PROVE WaitsComeBack
  <2>1. ASSUME call.name = "wait"
        PROVE  LET printed == kcMilliseconds2String(call.elapsed)
                   abs == KC_TIMEVAL2TIMESPEC(call.tv, call.msec)
                   minutes == (printed.days * 24 + printed.hours) * 60 + printed.minutes
               IN /\ (printed.msec + 5) \div 10 = minutes * 60000 + printed.seconds
                  /\ printed.hours < 24 /\ printed.minutes < 60 /\ printed.seconds <= 60000
                  /\ IsTime(abs, 1000000000)
                  /\ abs.sec * 1000 + (abs.frac \div 1000000) = TIMEVAL2MSEC(call.tv) + call.msec
    <3>1. call \in AnyWait
      BY <1>5, <2>1, CallsByName
    <3> DEFINE elapsed == call.elapsed
               tv == call.tv
               msec == call.msec
    <3>2. elapsed \in Nat /\ tv \in TimeVal /\ msec \in Nat
      BY <3>1 DEF AnyWait
    <3> HIDE DEF elapsed, tv, msec
    <3> QED BY ONLY <3>2, WaitsAddUp DEF elapsed, tv, msec
  <2> QED BY ONLY <2>1 DEF WaitsComeBack
<1>6. ASSUME IsCall PROVE ArraysComeBack
  <2>1. ASSUME call.name = "array"
        PROVE  LET texts == call.strObjects
                   written == dynamicStringArray(texts)
                   printed == printDynamicStringArray(written.text)
               IN IF ArraySize(texts) > INITIAL_EXPBUFFER_SIZE THEN written = Overrun
                  ELSE /\ written # Overrun
                       /\ Len(printed[1]) = (Len(texts) + 1) \div 2
                       /\ \A k \in DOMAIN printed[1] : printed[1][k] = texts[2 * k - 1]
                       /\ printed[2] = SecondArray
    <3>1. call \in AnyArray
      BY <1>6, <2>1, CallsByName
    <3> DEFINE texts == call.strObjects
               written == dynamicStringArray(texts)
               printed == printDynamicStringArray(written.text)
               count == (Len(texts) + 1) \div 2
    <3>2. texts \in ShortArray
      BY <3>1 DEF AnyArray
    <3> HIDE DEF texts
    <3>3. IF ArraySize(texts) > INITIAL_EXPBUFFER_SIZE THEN written = Overrun
          ELSE written # Overrun /\ printed = <<EvenOnes(texts), SecondArray>>
      <4>1. IF ArraySize(texts) > INITIAL_EXPBUFFER_SIZE THEN written = Overrun
            ELSE /\ written = KC_OK(TwoArrays(texts))
                 /\ printDynamicStringArray(TwoArrays(texts)) = <<EvenOnes(texts), SecondArray>>
        BY ONLY <3>2, ArrayComesBack, Zenon
      <4>2. ASSUME written = KC_OK(TwoArrays(texts))
            PROVE  written.text = TwoArrays(texts) /\ written # Overrun
        <5> HIDE DEF written
        <5>1. KC_OK(TwoArrays(texts)).text = TwoArrays(texts)
          BY DEF KC_OK
        <5>2. DOMAIN KC_OK(TwoArrays(texts)) = {"ok", "text"} /\ DOMAIN Overrun = {"overrun"}
          BY DEF KC_OK, Overrun
        <5>3. "ok" # "overrun"
          OBVIOUS
        <5> QED BY ONLY <4>2, <5>1, <5>2, <5>3, Zenon
      <4> HIDE DEF written
      <4> QED BY ONLY <4>1, <4>2, Zenon DEF printed
    <3>4. EvenOnes(texts) = [k \in 1 .. count |-> texts[2 * k - 1]]
      BY DEF EvenOnes
    <3>5. count \in Nat
      BY <3>2, LenProperties, SMT DEF ShortArray
    <3> HIDE DEF printed, count
    <3>6. Len(EvenOnes(texts)) = count
      BY ONLY <3>4, <3>5
    <3>7. printed = <<EvenOnes(texts), SecondArray>> =>
            printed[1] = EvenOnes(texts) /\ printed[2] = SecondArray
      OBVIOUS
    <3>8. DOMAIN EvenOnes(texts) = 1 .. count
      BY ONLY <3>4, Zenon
    <3>9. \A k \in 1 .. count : EvenOnes(texts)[k] = texts[2 * k - 1]
      BY ONLY <3>4, Zenon
    <3> HIDE DEF written
    <3> QED BY ONLY <3>3, <3>6, <3>7, <3>8, <3>9, Zenon DEF printed, written, count, texts
  <2> QED BY ONLY <2>1, Zenon DEF ArraysComeBack
<1>7. IsCall => ConvertedBack
  BY <1>1, <1>2, <1>3, <1>4, <1>5, <1>6 DEF ConvertedBack
<1> QED BY <1>7, OnlyCalls, PTL

\* A word made of two bytes is written as them.
LEMMA WordOfPair ==
  ASSUME NEW bytes \in Seq(Byte8), Len(bytes) = 8
  PROVE  LET code == bytes[1] * 256 + bytes[2]
         IN code \in Word16 /\ Val16ToBytes(code) = SubSeq(bytes, 1, 2)
<1> DEFINE a == bytes[1]
           b == bytes[2]
           code == a * 256 + b
           s == SubSeq(bytes, 1, 2)
<1>1. a \in Byte8 /\ b \in Byte8
  <2>1. 1 \in 1 .. Len(bytes) /\ 2 \in 1 .. Len(bytes)
    OBVIOUS
  <2> QED BY ONLY bytes \in Seq(Byte8), <2>1, ElementOfSeq
<1>2. s \in Seq(Byte8) /\ Len(s) = 2 /\ s[1] = a /\ s[2] = b
  <2>1. /\ s \in Seq(Byte8) /\ Len(s) = 2 + 1 - 1
        /\ \A i \in 1 .. 2 + 1 - 1 : s[i] = bytes[1 + i - 1]
    <3>1. 1 \in Nat \ {0} /\ 2 \in Nat /\ 1 <= 2 + 1 /\ 2 <= Len(bytes)
      OBVIOUS
    <3> QED BY ONLY bytes \in Seq(Byte8), <3>1, SubBytes
  <2>2. 2 + 1 - 1 = 2 /\ 1 \in 1 .. 2 /\ 2 \in 1 .. 2 /\ 1 + 1 - 1 = 1 /\ 1 + 2 - 1 = 2
    OBVIOUS
  <2> QED BY ONLY <2>1, <2>2 DEF a, b
<1> HIDE DEF a, b, s
<1>3. a \in Int /\ 0 <= a /\ a <= 255 /\ b \in Int /\ 0 <= b /\ b <= 255
  BY <1>1, ByteRange
<1>4. code \in Word16
  <2>1. code \in Int /\ 0 <= code /\ code < WordMod
    BY <1>3, SMT DEF WordMod
  <2> QED BY <2>1, WordRange
<1>5. code \div 256 = a /\ code % 256 = b
  BY <1>3, SMT
<1> HIDE DEF code
<1>6. Val16ToBytes(code) = <<a, b>>
  BY ONLY <1>5, Zenon DEF Val16ToBytes
<1>7. s = <<s[1], s[2]>>
  BY <1>2, BytePair
<1> QED BY ONLY <1>2, <1>4, <1>6, <1>7, Zenon DEF a, b, s, code

\* Every reply is a packet that the sender's IP stack accepts, and every checksum
\* passes the receiver's test, for every call.
THEOREM AllRepliesAreAccepted == Spec => []RepliesAreAccepted
<1>1. ASSUME IsCall, call.name = "reply"
      PROVE  LET src == call.src  dest == call.dest  identifier == call.identifier
                 bytes   == call.id
                 reading == [addres |-> bytes[1], cmd |-> call.cmd]
                 saved   == kcFiveFiftyReply(src, dest, identifier, reading, bytes[2], call.old)
                 id      == kcReplyId(src, dest, identifier, call.cmd, bytes, call.old)
                 code    == kcReplyStatus(src, dest, identifier, call.cmd,
                                          bytes[1] * 256 + bytes[2], call.old)
             IN IF Len(identifier) > 2 THEN saved \cup id \cup code = {}
                ELSE /\ AreReplies(saved, src, dest, KC_REPLY_OK_SIZE,
                                  identifier \o <<bytes[1], call.cmd, 1, bytes[2]>>)
                     /\ AreReplies(id, src, dest, KC_REPLY_ID_SIZE,
                                  identifier \o <<call.cmd>> \o bytes)
                     /\ AreReplies(code, src, dest, KC_REPLY_STATUS_SIZE,
                                  identifier \o <<call.cmd>> \o SubSeq(bytes, 1, 2))
  <2>1. call \in AnyReply
    BY <1>1, CallsByName
  <2> DEFINE src == call.src
             dest == call.dest
             identifier == call.identifier
             bytes == call.id
             cmd == call.cmd
             old == call.old
             first == bytes[1]
             second == bytes[2]
             reading == [addres |-> first, cmd |-> cmd]
             word == first * 256 + second
             saved == kcFiveFiftyReply(src, dest, identifier, reading, second, old)
             id == kcReplyId(src, dest, identifier, cmd, bytes, old)
             code == kcReplyStatus(src, dest, identifier, cmd, word, old)
  <2>2. /\ src \in Endpoint /\ dest \in Endpoint /\ cmd \in Byte8
        /\ identifier \in Seq(Byte8) /\ Len(identifier) >= 2
        /\ bytes \in Seq(Byte8) /\ Len(bytes) = 8
        /\ old \in Seq(Byte8) /\ Len(old) >= KC_REPLY_ID_SIZE
    BY <2>1 DEF AnyReply
  <2> HIDE DEF src, dest, identifier, bytes, cmd, old
  <2>3. /\ Len(old) >= KC_REPLY_OK_SIZE /\ Len(old) >= KC_REPLY_STATUS_SIZE
    BY <2>2, LenProperties DEF KC_REPLY_OK_SIZE, KC_REPLY_STATUS_SIZE, KC_REPLY_ID_SIZE
  <2>4. word \in Word16 /\ Val16ToBytes(word) = SubSeq(bytes, 1, 2)
    BY <2>2, WordOfPair
  <2>5. first \in Byte8 /\ second \in Byte8
    <3>1. 1 \in 1 .. Len(bytes) /\ 2 \in 1 .. Len(bytes)
      BY <2>2
    <3> QED BY <2>2, <3>1, ElementOfSeq
  <2> HIDE DEF first, second, word
  <2>6. reading \in [addres : Byte8, cmd : Byte8] /\ reading.addres = first /\ reading.cmd = cmd
    BY <2>2, <2>5
  <2> HIDE DEF reading
  <2>7. CASE Len(identifier) > 2
    <3>1. saved = {} /\ id = {} /\ code = {}
      BY ONLY <2>2, <2>3, <2>4, <2>5, <2>6, <2>7, LongIdentifiersGetNoReply, Zenon
    <3>2. saved \cup id \cup code = {}
      BY <3>1
    <3> QED BY ONLY <2>7, <3>2, Zenon DEF src, dest, identifier, bytes, cmd, old, first, second,
                reading, word
  <2>8. CASE ~(Len(identifier) > 2)
    <3>1. Len(identifier) = 2
      <4>1. Len(identifier) \in Nat /\ Len(identifier) >= 2
        BY <2>2, LenProperties
      <4> QED BY ONLY <2>8, <4>1, SMTT(30)
    <3>2. /\ AreReplies(saved, src, dest, KC_REPLY_OK_SIZE,
                        identifier \o <<reading.addres, reading.cmd, 1, second>>)
          /\ AreReplies(id, src, dest, KC_REPLY_ID_SIZE, identifier \o <<cmd>> \o bytes)
          /\ AreReplies(code, src, dest, KC_REPLY_STATUS_SIZE,
                        identifier \o <<cmd>> \o Val16ToBytes(word))
      BY ONLY <2>2, <2>3, <2>4, <2>5, <2>6, <3>1, EveryReplyIsAccepted, Zenon
    <3>3. /\ AreReplies(saved, src, dest, KC_REPLY_OK_SIZE,
                        identifier \o <<first, cmd, 1, second>>)
          /\ AreReplies(id, src, dest, KC_REPLY_ID_SIZE, identifier \o <<cmd>> \o bytes)
          /\ AreReplies(code, src, dest, KC_REPLY_STATUS_SIZE,
                        identifier \o <<cmd>> \o SubSeq(bytes, 1, 2))
      BY ONLY <2>4, <2>6, <3>2, Zenon
    <3> QED BY ONLY <2>8, <3>3, Zenon DEF src, dest, identifier, bytes, cmd, old, first, second,
                reading, word
  <2> QED BY ONLY <2>7, <2>8, Zenon
<1>2. ASSUME IsCall, call.name = "sum"
      PROVE  LET packets == PacketsOf(call.src, call.dest, call.msg)
             IN /\ packets = {} <=> Len(call.msg) + 12 + KC_UDP_HEADER_SIZE > KC_UDP_BUFFER_SIZE
                /\ \A p \in packets : Delivered(p, call.src, call.dest)
  <2>1. call \in AnySum
    BY <1>2, CallsByName
  <2> DEFINE src == call.src
             dest == call.dest
             msg == call.msg
             packets == PacketsOf(src, dest, msg)
  <2>2. src \in Endpoint /\ dest \in Endpoint /\ msg \in Seq(Byte8)
    BY <2>1 DEF AnySum
  <2> HIDE DEF src, dest, msg
  <2>3. Len(msg) \in Nat
    BY <2>2, LenProperties
  <2>4. TooLong(msg) <=> Len(msg) + 12 + KC_UDP_HEADER_SIZE > KC_UDP_BUFFER_SIZE
    BY <2>3, SMT DEF TooLong, MAXLEN, KC_UDP_BUFFER_SIZE, KC_UDP_HEADER_SIZE
  <2>5. CASE TooLong(msg)
    <3>1. packets = {}
      BY <2>5, Zenon DEF PacketsOf
    <3> QED BY <2>4, <2>5, <3>1, Zenon DEF src, dest, msg
  <2>6. CASE ~TooLong(msg)
    <3>1. packets = {Packet(src, dest, msg)}
      BY <2>6, Zenon DEF PacketsOf
    <3>2. Len(msg) + 28 < WordMod
      BY <2>3, <2>6, SMT DEF TooLong, MAXLEN, KC_UDP_BUFFER_SIZE, WordMod
    <3>3. Delivered(Packet(src, dest, msg), src, dest)
      BY ONLY <2>2, <3>2, PacketIsDelivered
    <3> HIDE DEF packets
    <3>4. packets # {} /\ \A p \in packets : Delivered(p, src, dest)
      BY ONLY <3>1, <3>3, Zenon
    <3> QED BY ONLY <2>4, <2>6, <3>4, Zenon DEF packets, src, dest, msg
  <2> QED BY ONLY <2>5, <2>6, Zenon
<1>3. IsCall => RepliesAreAccepted
  BY ONLY <1>1, <1>2, Zenon DEF RepliesAreAccepted
<1> QED BY <1>3, OnlyCalls, PTL

\* The functions of kmblack without an inverse agree with their definitions, for
\* every call.
THEOREM CallsAreAsDefined == Spec => []SameAsDefinition
<1>1. ASSUME IsCall PROVE CrcsAreRemainders
  <2>1. ASSUME call.name = "crc" PROVE call.bytes \in Seq(Byte8)
    BY <1>1, <2>1, CallsByName
  <2> QED BY <2>1, CrcIsRemainder, Crc32IsRemainder, Crc64IsRemainder, Zenon DEF CrcsAreRemainders
<1>2. ASSUME IsCall PROVE TextsAreReplaced
  <2>1. ASSUME call.name = "replace"
        PROVE  \E places \in SUBSET DOMAIN call.source :
                 /\ ArePlaces(places, call.source, call.substr)
                 /\ kcStringReplace(call.source, call.substr, call.dest).text
                      = Replaced(places, call.source, call.substr, call.dest)
                 /\ kcStringReplace(call.source, call.substr, call.dest).ok
                      = (kcStringReplace(call.source, call.substr, call.dest).text # <<>>)
    <3>1. call \in AnyReplace
      BY <1>2, <2>1, CallsByName
    <3> DEFINE source == call.source
               substr == call.substr
               dest == call.dest
               text == Searches(source, substr, dest)[Len(source)].text
    <3>2. source \in Seq(Byte8) /\ substr \in Seq(Byte8) /\ substr # <<>> /\ dest \in Seq(Byte8)
      BY <3>1 DEF AnyReplace
    <3>3. kcStringReplace(source, substr, dest) = IF text = <<>> THEN KC_FAIL ELSE KC_OK(text)
      BY DEF kcStringReplace
    <3> HIDE DEF source, substr, dest, text
    <3>4. kcStringReplace(source, substr, dest).text = text
          /\ kcStringReplace(source, substr, dest).ok = (text # <<>>)
      <4>1. CASE text = <<>>
        <5>1. kcStringReplace(source, substr, dest) = KC_FAIL
          BY <3>3, <4>1, Zenon
        <5>2. KC_FAIL.text = <<>> /\ KC_FAIL.ok = FALSE
          BY DEF KC_FAIL
        <5> QED BY ONLY <4>1, <5>1, <5>2, Zenon
      <4>2. CASE text # <<>>
        <5>1. kcStringReplace(source, substr, dest) = KC_OK(text)
          BY <3>3, <4>2, Zenon
        <5>2. KC_OK(text).text = text /\ KC_OK(text).ok = TRUE
          BY DEF KC_OK
        <5> QED BY ONLY <4>2, <5>1, <5>2, Zenon
      <4> QED BY <4>1, <4>2
    <3>5. PICK places \in SUBSET DOMAIN source :
            ArePlaces(places, source, substr) /\ text = Replaced(places, source, substr, dest)
      BY <3>2, ReplacesPlaces DEF text
    <3> QED BY <3>4, <3>5, Zenon DEF source, substr, dest
  <2> QED BY <2>1, Zenon DEF TextsAreReplaced
<1>3. ASSUME IsCall PROVE KindsAreTheFlags
  <2>1. ASSUME call.name = "random" PROVE call.flag \in Nat
    <3>1. call \in AnyRandom
      BY <1>3, <2>1, CallsByName
    <3> QED BY <3>1 DEF AnyRandom
  <2> QED BY <2>1, KindsByBits, Zenon DEF KindsAreTheFlags
<1>4. ASSUME IsCall PROVE EntryIsMessage
  <2>1. ASSUME call.name = "log"
        PROVE  call.context \in Seq(Byte8) /\ call.bufferSize \in Nat \ {0} /\ call.failsAt \in Nat
    <3>1. call \in AnyLog
      BY <1>4, <2>1, CallsByName
    <3> QED BY <3>1 DEF AnyLog
  <2> QED BY <2>1, EntryIsWhole, Zenon DEF EntryIsMessage
<1>5. IsCall => SameAsDefinition
  BY <1>1, <1>2, <1>3, <1>4 DEF SameAsDefinition
<1> QED BY <1>5, OnlyCalls, PTL

\* On Linux and on Windows main does what the arguments say.
THEOREM OptionsAreAsGiven == Spec => []OptionsAsGiven
<1>1. ASSUME IsCall PROVE OptionsAsGiven
  <2>1. ASSUME call.name = "main"
        PROVE  LET sys == IF call.windows THEN Windows ELSE Linux
                   result == main(sys.options, sys.order, call.args)
               IN \E n \in 0 .. Len(call.args) :
                    IsFront(sys, call.args, n) /\ IsAsGiven(sys, call.args, n, result)
    <3> DEFINE sys == IF call.windows THEN Windows ELSE Linux
               args == call.args
    <3>1. args \in Seq(Arg)
      BY <1>1, <2>1, CallsByName
    <3>2. IsTable(sys) /\ IsOrder(sys)
      BY LinuxIsTable, WindowsIsTable, OrdersAre, Zenon
    <3> HIDE DEF sys, args
    <3>3. PICK n \in 0 .. Len(args) : IsFront(sys, args, n)
      BY <3>1, FrontIs
    <3>4. IsAsGiven(sys, args, n, main(sys.options, sys.order, args))
      BY ONLY <3>1, <3>2, <3>3, MainIsAsGiven
    <3> QED BY ONLY <3>3, <3>4, Zenon DEF sys, args
  <2> QED BY ONLY <2>1, Zenon DEF OptionsAsGiven
<1>2. IsCall => OptionsAsGiven
  BY <1>1
<1> QED BY <1>2, OnlyCalls, PTL
=============================================================================
