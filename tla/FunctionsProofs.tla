---------------------------- MODULE FunctionsProofs ----------------------------
(***************************************************************************)
(* The pure functions, for every input: kcCrc16 is the remainder of the    *)
(* polynomial division and notices every damaged byte, and the packets     *)
(* that plugins build with it and with kcCheckUdpSum are those that the    *)
(* receiver accepts.                                                       *)
(*                                                                         *)
(* These functions recurse along a sequence of bytes.  The first section   *)
(* has the induction they need, stated with sets and functions.            *)
(***************************************************************************)
EXTENDS Packets, SequenceTheorems, WellFoundedInduction, TLAPS

-----------------------------------------------------------------------------
\* A set of natural numbers has a least element.
LEMMA LeastNatural ==
  ASSUME NEW T, T \subseteq Nat, T # {}
  PROVE  \E x \in T : \A y \in T : x <= y
<1> DEFINE R == OpToRel(<, Nat)
<1>1. IsWellFoundedOn(R, Nat)
  BY NatLessThanWellFounded
<1>2. \A x, y \in Nat : x < y => <<x, y>> \in R
  BY DEF OpToRel
<1> HIDE DEF R
<1>3. PICK x \in T : \A y \in T : ~ (<<y, x>> \in R)
  BY <1>1, WFMin
<1>4. \A y \in T : ~(y < x)
  BY <1>2, <1>3
<1>5. ASSUME NEW y \in T PROVE x <= y
  <2>1. x \in Int /\ y \in Int /\ ~(y < x)
    BY <1>4
  <2> QED BY <2>1
<1> QED BY <1>5

\* Induction: a set with 0 and the successor of each of its elements is Nat.
LEMMA SetInduction ==
  ASSUME NEW S \in SUBSET Nat, 0 \in S, \A n \in S : n + 1 \in S
  PROVE  S = Nat
<1>1. SUFFICES ASSUME Nat \ S # {} PROVE FALSE
  OBVIOUS
<1>2. PICK x \in Nat \ S : \A y \in Nat \ S : x <= y
  <2> DEFINE T == Nat \ S
  <2>1. T \subseteq Nat /\ T # {}
    BY <1>1
  <2> HIDE DEF T
  <2>2. \E x \in T : \A y \in T : x <= y
    BY <2>1, LeastNatural
  <2> QED BY <2>2 DEF T
<1>3. x \in Nat /\ x # 0 /\ x - 1 \in Nat
  BY <1>2
<1>4. x - 1 \in S
  BY <1>2, <1>3
<1>5. (x - 1) + 1 \in S
  BY <1>4
<1> QED BY <1>2, <1>3, <1>5

\* Induction along 0 .. n.
LEMMA BoundedInduction ==
  ASSUME NEW n \in Nat, NEW S, 0 \in S, \A k \in 1 .. n : k - 1 \in S => k \in S
  PROVE  \A k \in 0 .. n : k \in S
<1> DEFINE T == {k \in Nat : k <= n => k \in S}
<1>1. 0 \in T
  OBVIOUS
<1>2. ASSUME NEW k \in T PROVE k + 1 \in T
  <2>1. CASE k + 1 <= n
    <3>1. k \in Nat /\ k <= n /\ k + 1 \in 1 .. n /\ (k + 1) - 1 = k
      BY <2>1
    <3>2. k + 1 \in S
      BY <3>1
    <3> QED BY <3>1, <3>2
  <2>2. CASE ~(k + 1 <= n)
    BY <2>2
  <2> QED BY <2>1, <2>2
<1>3. T \in SUBSET Nat
  OBVIOUS
<1>4. T = Nat
  <2> HIDE DEF T
  <2> QED BY <1>1, <1>2, <1>3, SetInduction
<1> QED BY <1>4

\* f is the function defined by recursion from first with g.
Recursive(f, n, S, first, g) ==
  /\ f \in [0 .. n -> S]
  /\ f[0] = first
  /\ \A k \in 1 .. n : f[k] = g[k][f[k - 1]]

CanRecurse(n, S, first, g) == \E f : Recursive(f, n, S, first, g)

\* A function can be defined by recursion along 0 .. n.
LEMMA Recursion ==
  ASSUME NEW n \in Nat, NEW S, NEW first \in S, NEW g, g \in [1 .. n -> [S -> S]]
  PROVE  CanRecurse(n, S, first, g)
<1> DEFINE Good(m, f) == Recursive(f, m, S, first, g)
           T == {m \in Nat : \E f : Good(m, f)}
<1>1. 0 \in T
  <2> DEFINE f == [k \in 0 .. 0 |-> first]
  <2>1. f \in [0 .. 0 -> S] /\ f[0] = first
    OBVIOUS
  <2>2. 1 .. 0 = {}
    OBVIOUS
  <2> HIDE DEF f
  <2>3. Good(0, f)
    BY <2>1, <2>2 DEF Recursive
  <2>4. \E e : Good(0, e)
    <3> HIDE DEF Good
    <3> QED BY <2>3
  <2> QED BY <2>4
<1>2. ASSUME NEW m \in 1 .. n, m - 1 \in T PROVE m \in T
  <2>1. PICK f : Recursive(f, m - 1, S, first, g)
    BY <1>2
  <2> DEFINE h == [k \in 0 .. m |-> IF k = m THEN g[m][f[m - 1]] ELSE f[k]]
  <2>2. m - 1 \in 0 .. m - 1 /\ f[m - 1] \in S
    BY <2>1 DEF Recursive
  <2>3. g[m][f[m - 1]] \in S
    BY <2>2
  <2>4. \A k \in 0 .. m : k # m => k \in 0 .. m - 1
    OBVIOUS
  <2>5. h \in [0 .. m -> S]
    BY <2>1, <2>3, <2>4 DEF Recursive
  <2>6. h[0] = first
    BY <2>1 DEF Recursive
  <2>7. ASSUME NEW k \in 1 .. m PROVE h[k] = g[k][h[k - 1]]
    <3>1. k - 1 \in 0 .. m /\ k - 1 # m /\ h[k - 1] = f[k - 1]
      OBVIOUS
    <3>2. CASE k = m
      BY <3>1, <3>2
    <3>3. CASE k # m
      <4>1. k \in 1 .. m - 1 /\ k \in 0 .. m
        BY <3>3
      <4>2. h[k] = f[k]
        BY <3>3, <4>1
      <4>3. f[k] = g[k][f[k - 1]]
        BY <2>1, <4>1 DEF Recursive
      <4> QED BY <3>1, <4>2, <4>3
    <3> QED BY <3>2, <3>3
  <2> HIDE DEF h
  <2>8. Recursive(h, m, S, first, g)
    BY <2>5, <2>6, <2>7 DEF Recursive
  <2>9. m \in Nat /\ \E e : Good(m, e)
    BY <2>8
  <2> QED BY <2>9
<1>3. n \in T
  <2> HIDE DEF T
  <2>1. \A k \in 0 .. n : k \in T
    BY <1>1, <1>2, BoundedInduction
  <2> QED BY <2>1
<1> QED BY <1>3 DEF CanRecurse

-----------------------------------------------------------------------------
Word32 == 0 .. WordMod * WordMod - 1

\* There are 16-bit words.
LEMMA WordModType == WordMod \in Nat \ {0}
  BY SMT DEF WordMod

\* The quotient and the remainder of a number of 32 bits, as its two words.
LEMMA Words ==
  ASSUME NEW M \in Nat \ {0}, NEW n \in 0 .. M * M - 1
  PROVE  /\ n \div M \in 0 .. M - 1
         /\ n % M \in 0 .. M - 1
         /\ n = M * (n \div M) + (n % M)
<1>1. n \in Nat /\ n < M * M
  BY SMT
<1>2. n % M \in 0 .. M - 1
  BY <1>1, SMT
<1>3. n \div M \in Nat
  BY <1>1, SMT
<1>4. n \div M < M
  BY <1>1, SMT
<1>5. n = M * (n \div M) + (n % M)
  BY <1>1, SMT
<1> QED BY <1>2, <1>3, <1>4, <1>5, SMT

\* Just above the modulus the remainder is the difference.
LEMMA Wrapped ==
  ASSUME NEW M \in Nat \ {0}, NEW n \in Nat, M <= n, n < 2 * M
  PROVE  n % M = n - M
  BY SMT

\* A sum of two words has at most one carry.
LEMMA OneCarry ==
  ASSUME NEW M \in Nat \ {0}, NEW n \in Nat, n < 2 * M
  PROVE  \/ n < M /\ n \div M = 0 /\ n % M = n
         \/ n >= M /\ n \div M = 1 /\ n % M = n - M
<1>1. CASE n < M
  BY <1>1, SMT
<1>2. CASE n >= M
  BY <1>2, SMT
<1> QED BY <1>1, <1>2, SMT

\* Two additions are enough: the sum and its checksum add up to a multiple of
\* 65535, which is zero in the arithmetic of the receiver's test, whatever
\* carries there are.
THEOREM ChecksumCompletesSum ==
  ASSUME NEW sum \in Word32
  PROVE  /\ Complement(Folded(sum)) \in Word16
         /\ \E k \in Nat : sum + Complement(Folded(sum)) = (WordMod - 1) * k
<1> DEFINE M    == WordMod
           high == sum \div M
           low  == sum % M
           once == high + low
           rest == Folded(sum) % M
<1>1. M \in Nat \ {0}
  BY WordModType
<1>2. /\ high \in 0 .. M - 1 /\ low \in 0 .. M - 1
      /\ sum = M * high + low
  BY <1>1, Words DEF Word32
<1>3. Folded(sum) = once + (once \div M)
  BY DEF Folded
<1>4. Complement(Folded(sum)) = M - 1 - rest
  BY DEF Complement
<1> HIDE DEF M, high, low, rest
<1>5. once \in Nat /\ once < 2 * M - 1
  BY <1>1, <1>2, SMT
<1>6. \/ once < M /\ Folded(sum) = once
      \/ once >= M /\ Folded(sum) = once + 1
  BY <1>1, <1>3, <1>5, OneCarry, SMT
<1>7. \/ rest = once /\ once < M
      \/ rest = (once + 1) - M /\ once >= M
  <2> HIDE DEF once
  <2>1. CASE once < M /\ Folded(sum) = once
    BY <1>1, <1>5, <2>1, OneCarry, SMT DEF rest
  <2>2. CASE once >= M /\ Folded(sum) = once + 1
    <3>1. once + 1 \in Nat /\ once + 1 < 2 * M /\ M <= once + 1
      BY <1>1, <1>5, <2>2, SMT
    <3>2. (once + 1) % M = (once + 1) - M
      BY <1>1, <3>1, Wrapped
    <3>3. rest = (once + 1) - M
      BY <2>2, <3>2 DEF rest
    <3> QED BY <2>2, <3>3
  <2> QED BY <1>6, <2>1, <2>2
<1>8. M - 1 - rest \in 0 .. M - 1
  BY <1>1, <1>5, <1>7, SMT
<1>9. \/ sum + (M - 1 - rest) = (M - 1) * (high + 1)
      \/ sum + (M - 1 - rest) = (M - 1) * (high + 2)
  BY <1>1, <1>2, <1>7, SMT
<1>10. high + 1 \in Nat /\ high + 2 \in Nat
  BY <1>2, SMT
<1>11. \E k \in Nat : sum + (M - 1 - rest) = (M - 1) * k
  BY <1>9, <1>10
<1> QED BY <1>4, <1>8, <1>11 DEF M, Word16

\* The processor's byte order does not matter: swapping the bytes of a word
\* multiplies it by 256 modulo 65535, and swapping twice restores it.
THEOREM SwapMultiplies ==
  ASSUME NEW high \in 0 .. 255, NEW low \in 0 .. 255
  PROVE  LET val == 256 * high + low
         IN /\ pg_bswap16(val) = 256 * low + high
            /\ pg_bswap16(pg_bswap16(val)) = val
            /\ 256 * val = pg_bswap16(val) + (256 * 256 - 1) * high
<1>1. (256 * high + low) % 256 = low /\ (256 * high + low) \div 256 = high
  BY SMT
<1>2. (256 * low + high) % 256 = high /\ (256 * low + high) \div 256 = low
  BY SMT
<1>3. pg_bswap16(256 * high + low) = low * 256 + high
  BY <1>1 DEF pg_bswap16
<1>4. low * 256 + high = 256 * low + high /\ high * 256 + low = 256 * high + low
  BY SMT
<1>5. pg_bswap16(256 * low + high) = high * 256 + low
  BY <1>2 DEF pg_bswap16
<1>6. 256 * (256 * high + low) = (256 * low + high) + (256 * 256 - 1) * high
  BY SMT
<1> QED BY <1>3, <1>4, <1>5, <1>6
-----------------------------------------------------------------------------
(***************************************************************************)
(* Exclusive or.                                                           *)
(***************************************************************************)
Powers == {1, 2, 4, 8, 16, 32, 64, 128}

\* A byte is the sum of its bits.
LEMMA BitsOfByte ==
  ASSUME NEW a \in 0 .. 255
  PROVE  /\ \A power \in Powers : Bit(a, power) \in {0, 1}
         /\ a = Bit(a, 1) + 2 * Bit(a, 2) + 4 * Bit(a, 4) + 8 * Bit(a, 8) + 16 * Bit(a, 16)
                + 32 * Bit(a, 32) + 64 * Bit(a, 64) + 128 * Bit(a, 128)
BY ONLY Z3T(60) DEF Bit, Powers

\* Each bit of an exclusive or has its own power of two, or none.
LEMMA XorBitType ==
  ASSUME NEW a \in 0 .. 255, NEW b \in 0 .. 255, NEW power \in Powers
  PROVE  XorBit(a, b, power) \in {0, power}
<1>1. \A x, y \in {0, 1} : (x + y) % 2 \in {0, 1}
  BY SMT
<1>2. Bit(a, power) \in {0, 1} /\ Bit(b, power) \in {0, 1}
  BY BitsOfByte
<1>3. PICK x \in {0, 1} : XorBit(a, b, power) = power * x
  BY <1>1, <1>2 DEF XorBit
<1>4. power \in Int
  BY DEF Powers
<1> QED BY <1>3, <1>4

\* The exclusive or of two bytes, as its eight bits.
LEMMA XorIsSum ==
  ASSUME NEW a \in 0 .. 255, NEW b \in 0 .. 255
  PROVE  XorByte[a][b] = XorBit(a, b, 1) + XorBit(a, b, 2) + XorBit(a, b, 4)
                           + XorBit(a, b, 8) + XorBit(a, b, 16) + XorBit(a, b, 32)
                           + XorBit(a, b, 64) + XorBit(a, b, 128)
BY ZenonT(40) DEF XorByte

\* The exclusive or of two bytes is a byte.
LEMMA XorType ==
  ASSUME NEW a \in 0 .. 255, NEW b \in 0 .. 255
  PROVE  XorByte[a][b] \in 0 .. 255
<1>1. \A power \in Powers : XorBit(a, b, power) \in {0, power}
  BY XorBitType
<1>2. /\ XorBit(a, b, 1) \in {0, 1} /\ XorBit(a, b, 2) \in {0, 2}
      /\ XorBit(a, b, 4) \in {0, 4} /\ XorBit(a, b, 8) \in {0, 8}
      /\ XorBit(a, b, 16) \in {0, 16} /\ XorBit(a, b, 32) \in {0, 32}
      /\ XorBit(a, b, 64) \in {0, 64} /\ XorBit(a, b, 128) \in {0, 128}
  BY <1>1 DEF Powers
<1>3. XorBit(a, b, 1) + XorBit(a, b, 2) + XorBit(a, b, 4) + XorBit(a, b, 8) + XorBit(a, b, 16)
        + XorBit(a, b, 32) + XorBit(a, b, 64) + XorBit(a, b, 128) \in 0 .. 255
  BY <1>2, SMT
<1> QED BY ONLY <1>3, XorIsSum, ZenonT(40)

\* The order does not matter.
LEMMA XorCommutes ==
  ASSUME NEW a \in 0 .. 255, NEW b \in 0 .. 255
  PROVE  XorByte[a][b] = XorByte[b][a]
<1>1. ASSUME NEW power \in Powers
      PROVE  XorBit(a, b, power) = XorBit(b, a, power)
  <2>1. Bit(a, power) \in {0, 1} /\ Bit(b, power) \in {0, 1}
    BY BitsOfByte
  <2>2. Bit(a, power) + Bit(b, power) = Bit(b, power) + Bit(a, power)
    BY <2>1
  <2> QED BY <2>2 DEF XorBit
<1>2. /\ XorBit(a, b, 1) = XorBit(b, a, 1) /\ XorBit(a, b, 2) = XorBit(b, a, 2)
      /\ XorBit(a, b, 4) = XorBit(b, a, 4) /\ XorBit(a, b, 8) = XorBit(b, a, 8)
      /\ XorBit(a, b, 16) = XorBit(b, a, 16) /\ XorBit(a, b, 32) = XorBit(b, a, 32)
      /\ XorBit(a, b, 64) = XorBit(b, a, 64) /\ XorBit(a, b, 128) = XorBit(b, a, 128)
  BY <1>1 DEF Powers
<1>3. XorByte[b][a] = XorBit(b, a, 1) + XorBit(b, a, 2) + XorBit(b, a, 4)
                        + XorBit(b, a, 8) + XorBit(b, a, 16) + XorBit(b, a, 32)
                        + XorBit(b, a, 64) + XorBit(b, a, 128)
  BY XorIsSum, ZenonT(40)
<1>4. XorByte[a][b] = XorBit(a, b, 1) + XorBit(a, b, 2) + XorBit(a, b, 4)
                        + XorBit(a, b, 8) + XorBit(a, b, 16) + XorBit(a, b, 32)
                        + XorBit(a, b, 64) + XorBit(a, b, 128)
  BY ONLY XorIsSum, ZenonT(40)
<1> QED BY <1>2, <1>3, <1>4

\* Zero is neutral.
LEMMA XorZero ==
  ASSUME NEW a \in 0 .. 255
  PROVE  XorByte[0][a] = a /\ XorByte[a][0] = a
<1>1. ASSUME NEW power \in Powers
      PROVE  XorBit(0, a, power) = power * Bit(a, power)
  <2>1. Bit(a, power) \in {0, 1} /\ Bit(0, power) = 0
    BY BitsOfByte, SMT DEF Bit, Powers
  <2>2. (Bit(0, power) + Bit(a, power)) % 2 = Bit(a, power)
    BY <2>1, SMT
  <2> QED BY <2>2 DEF XorBit
<1>2. /\ XorBit(0, a, 1) = 1 * Bit(a, 1) /\ XorBit(0, a, 2) = 2 * Bit(a, 2)
      /\ XorBit(0, a, 4) = 4 * Bit(a, 4) /\ XorBit(0, a, 8) = 8 * Bit(a, 8)
      /\ XorBit(0, a, 16) = 16 * Bit(a, 16) /\ XorBit(0, a, 32) = 32 * Bit(a, 32)
      /\ XorBit(0, a, 64) = 64 * Bit(a, 64) /\ XorBit(0, a, 128) = 128 * Bit(a, 128)
  BY <1>1 DEF Powers
<1>3. Bit(a, 1) \in Int
  <2>1. 1 \in Powers
    BY DEF Powers
  <2>2. Bit(a, 1) \in {0, 1}
    BY <2>1, BitsOfByte
  <2> QED BY <2>2
<1>6. 0 \in 0 .. 255
  OBVIOUS
<1>4. XorByte[0][a] = XorBit(0, a, 1) + XorBit(0, a, 2) + XorBit(0, a, 4)
                        + XorBit(0, a, 8) + XorBit(0, a, 16) + XorBit(0, a, 32)
                        + XorBit(0, a, 64) + XorBit(0, a, 128)
  BY <1>6, XorIsSum, ZenonT(40)
<1>5. XorByte[0][a] = a
  BY <1>2, <1>3, <1>4, BitsOfByte
<1> QED BY <1>5, <1>6, XorCommutes

\* A byte can be removed from both sides.
LEMMA XorCancels ==
  ASSUME NEW a \in 0 .. 255, NEW b \in 0 .. 255, NEW c \in 0 .. 255,
         XorByte[a][b] = XorByte[a][c]
  PROVE  b = c
<1>1. /\ XorByte[a][b] = XorBit(a, b, 1) + XorBit(a, b, 2) + XorBit(a, b, 4)
                           + XorBit(a, b, 8) + XorBit(a, b, 16) + XorBit(a, b, 32)
                           + XorBit(a, b, 64) + XorBit(a, b, 128)
      /\ XorByte[a][c] = XorBit(a, c, 1) + XorBit(a, c, 2) + XorBit(a, c, 4)
                           + XorBit(a, c, 8) + XorBit(a, c, 16) + XorBit(a, c, 32)
                           + XorBit(a, c, 64) + XorBit(a, c, 128)
  BY ONLY XorIsSum, ZenonT(40)
<1>2. \A power \in Powers :
        XorBit(a, b, power) \in {0, power} /\ XorBit(a, c, power) \in {0, power}
  BY XorBitType
<1>3. /\ XorBit(a, b, 1) = XorBit(a, c, 1) /\ XorBit(a, b, 2) = XorBit(a, c, 2)
      /\ XorBit(a, b, 4) = XorBit(a, c, 4) /\ XorBit(a, b, 8) = XorBit(a, c, 8)
      /\ XorBit(a, b, 16) = XorBit(a, c, 16) /\ XorBit(a, b, 32) = XorBit(a, c, 32)
      /\ XorBit(a, b, 64) = XorBit(a, c, 64) /\ XorBit(a, b, 128) = XorBit(a, c, 128)
  <2>1. /\ XorBit(a, b, 1) \in {0, 1} /\ XorBit(a, b, 2) \in {0, 2}
        /\ XorBit(a, b, 4) \in {0, 4} /\ XorBit(a, b, 8) \in {0, 8}
        /\ XorBit(a, b, 16) \in {0, 16} /\ XorBit(a, b, 32) \in {0, 32}
        /\ XorBit(a, b, 64) \in {0, 64} /\ XorBit(a, b, 128) \in {0, 128}
        /\ XorBit(a, c, 1) \in {0, 1} /\ XorBit(a, c, 2) \in {0, 2}
        /\ XorBit(a, c, 4) \in {0, 4} /\ XorBit(a, c, 8) \in {0, 8}
        /\ XorBit(a, c, 16) \in {0, 16} /\ XorBit(a, c, 32) \in {0, 32}
        /\ XorBit(a, c, 64) \in {0, 64} /\ XorBit(a, c, 128) \in {0, 128}
    BY <1>2 DEF Powers
  <2> DEFINE x1 == XorBit(a, b, 1)
             y1 == XorBit(a, c, 1)
             x2 == x1 + XorBit(a, b, 2)
             y2 == y1 + XorBit(a, c, 2)
             x4 == x2 + XorBit(a, b, 4)
             y4 == y2 + XorBit(a, c, 4)
             x8 == x4 + XorBit(a, b, 8)
             y8 == y4 + XorBit(a, c, 8)
             x16 == x8 + XorBit(a, b, 16)
             y16 == y8 + XorBit(a, c, 16)
             x32 == x16 + XorBit(a, b, 32)
             y32 == y16 + XorBit(a, c, 32)
             x64 == x32 + XorBit(a, b, 64)
             y64 == y32 + XorBit(a, c, 64)
             x128 == x64 + XorBit(a, b, 128)
             y128 == y64 + XorBit(a, c, 128)
  <2>2. /\ x1 \in 0 .. 1 /\ y1 \in 0 .. 1
        /\ x2 \in 0 .. 3 /\ y2 \in 0 .. 3
        /\ x4 \in 0 .. 7 /\ y4 \in 0 .. 7
        /\ x8 \in 0 .. 15 /\ y8 \in 0 .. 15
        /\ x16 \in 0 .. 31 /\ y16 \in 0 .. 31
        /\ x32 \in 0 .. 63 /\ y32 \in 0 .. 63
        /\ x64 \in 0 .. 127 /\ y64 \in 0 .. 127
        /\ x128 \in 0 .. 255 /\ y128 \in 0 .. 255
    BY <2>1, SMT
  <2>3. x128 = y128
    BY <1>1, ZenonT(40)
  <2> HIDE DEF x1, y1, x2, y2, x4, y4, x8, y8, x16, y16, x32, y32, x64, y64, x128, y128
  <2>4. XorBit(a, b, 128) = XorBit(a, c, 128) /\ x64 = y64
    BY <2>1, <2>2, <2>3, SMTT(60) DEF x128, y128
  <2>5. XorBit(a, b, 64) = XorBit(a, c, 64) /\ x32 = y32
    BY ONLY <2>1, <2>2, <2>4, SMTT(60) DEF x64, y64
  <2>6. XorBit(a, b, 32) = XorBit(a, c, 32) /\ x16 = y16
    BY <2>1, <2>2, <2>5, Z3T(60) DEF x32, y32
  <2>7. XorBit(a, b, 16) = XorBit(a, c, 16) /\ x8 = y8
    BY ONLY <2>1, <2>2, <2>6, Z3T(60) DEF x16, y16
  <2>8. XorBit(a, b, 8) = XorBit(a, c, 8) /\ x4 = y4
    BY <2>1, <2>2, <2>7, Z3T(60) DEF x8, y8
  <2>9. XorBit(a, b, 4) = XorBit(a, c, 4) /\ x2 = y2
    BY ONLY <2>1, <2>2, <2>8, Z3T(60) DEF x4, y4
  <2>10. XorBit(a, b, 2) = XorBit(a, c, 2) /\ x1 = y1
    BY <2>1, <2>2, <2>9, SMTT(60) DEF x2, y2
  <2> QED BY <2>4, <2>5, <2>6, <2>7, <2>8, <2>9, <2>10 DEF x1, y1
<1>4. \A x, y, z \in {0, 1} : (x + y) % 2 = (x + z) % 2 => y = z
  BY SMT
<1>5. ASSUME NEW power \in Powers, XorBit(a, b, power) = XorBit(a, c, power)
      PROVE  Bit(b, power) = Bit(c, power)
  <2>1. Bit(a, power) \in {0, 1} /\ Bit(b, power) \in {0, 1} /\ Bit(c, power) \in {0, 1}
    BY ONLY BitsOfByte, Z3T(30)
  <2>2. (Bit(a, power) + Bit(b, power)) % 2 \in Int /\ (Bit(a, power) + Bit(c, power)) % 2 \in Int
    BY <2>1
  <2>3. (Bit(a, power) + Bit(b, power)) % 2 = (Bit(a, power) + Bit(c, power)) % 2
    <3> DEFINE x == (Bit(a, power) + Bit(b, power)) % 2
               y == (Bit(a, power) + Bit(c, power)) % 2
    <3>1. power * x = power * y
      BY <1>5 DEF XorBit
    <3>2. x \in Int /\ y \in Int
      BY <2>2
    <3> HIDE DEF x, y
    <3>3. x = y
      BY <3>1, <3>2, SMT DEF Powers
    <3> QED BY <3>3 DEF x, y
  <2> QED BY <1>4, <2>1, <2>3
<1>6. /\ Bit(b, 1) = Bit(c, 1) /\ Bit(b, 2) = Bit(c, 2)
      /\ Bit(b, 4) = Bit(c, 4) /\ Bit(b, 8) = Bit(c, 8)
      /\ Bit(b, 16) = Bit(c, 16) /\ Bit(b, 32) = Bit(c, 32)
      /\ Bit(b, 64) = Bit(c, 64) /\ Bit(b, 128) = Bit(c, 128)
  BY <1>3, <1>5 DEF Powers
<1>7. /\ b = Bit(b, 1) + 2 * Bit(b, 2) + 4 * Bit(b, 4) + 8 * Bit(b, 8) + 16 * Bit(b, 16)
               + 32 * Bit(b, 32) + 64 * Bit(b, 64) + 128 * Bit(b, 128)
      /\ c = Bit(c, 1) + 2 * Bit(c, 2) + 4 * Bit(c, 4) + 8 * Bit(c, 8) + 16 * Bit(c, 16)
               + 32 * Bit(c, 32) + 64 * Bit(c, 64) + 128 * Bit(c, 128)
  BY BitsOfByte
<1> QED BY <1>6, <1>7

\* The byte with these bits.
ByteFrom(x) ==
  x[1] + 2 * x[2] + 4 * x[4] + 8 * x[8] + 16 * x[16] + 32 * x[32] + 64 * x[64] + 128 * x[128]

\* The bits of a sum of powers of two.
LEMMA BitsOfSum ==
  ASSUME NEW x \in [Powers -> {0, 1}]
  PROVE  ByteFrom(x) \in 0 .. 255 /\ \A power \in Powers : Bit(ByteFrom(x), power) = x[power]
<1> DEFINE a == ByteFrom(x)
           x1 == x[1]  x2 == x[2]  x4 == x[4]  x8 == x[8]
           x16 == x[16]  x32 == x[32]  x64 == x[64]  x128 == x[128]
<1>0. /\ x1 \in {0, 1} /\ x2 \in {0, 1} /\ x4 \in {0, 1} /\ x8 \in {0, 1}
      /\ x16 \in {0, 1} /\ x32 \in {0, 1} /\ x64 \in {0, 1} /\ x128 \in {0, 1}
      /\ a = x1 + 2 * x2 + 4 * x4 + 8 * x8 + 16 * x16 + 32 * x32 + 64 * x64 + 128 * x128
  BY DEF ByteFrom, Powers
<1> HIDE DEF a, x1, x2, x4, x8, x16, x32, x64, x128
<1>1. a \in 0 .. 255
  BY <1>0, SMT
<1>2. Bit(a, 1) = x1 /\ Bit(a, 2) = x2
  BY <1>0, SMT DEF Bit
<1>3. Bit(a, 4) = x4 /\ Bit(a, 8) = x8
  BY <1>0, SMT DEF Bit
<1>4. Bit(a, 16) = x16 /\ Bit(a, 32) = x32
  BY <1>0, SMT DEF Bit
<1>5. Bit(a, 64) = x64 /\ Bit(a, 128) = x128
  BY <1>0, SMT DEF Bit
<1>6. ASSUME NEW power \in Powers PROVE Bit(a, power) = x[power]
  BY <1>2, <1>3, <1>4, <1>5 DEF Powers, x1, x2, x4, x8, x16, x32, x64, x128
<1> QED BY <1>1, <1>6 DEF a

\* A bit of an exclusive or is the exclusive or of the bits.
LEMMA XorBits ==
  ASSUME NEW a \in 0 .. 255, NEW b \in 0 .. 255
  PROVE  \A power \in Powers : Bit(XorByte[a][b], power) = (Bit(a, power) + Bit(b, power)) % 2
<1> DEFINE x == [power \in Powers |-> (Bit(a, power) + Bit(b, power)) % 2]
<1>1. \A u, v \in {0, 1} : (u + v) % 2 \in {0, 1}
  BY SMT
<1>2. \A power \in Powers : x[power] \in {0, 1} /\ XorBit(a, b, power) = power * x[power]
  BY <1>1, BitsOfByte DEF XorBit
<1>3. x \in [Powers -> {0, 1}] /\ \A power \in Powers : x[power] = (Bit(a, power) + Bit(b, power)) % 2
  BY <1>2
<1> HIDE DEF x
<1>4. /\ XorBit(a, b, 1) = 1 * x[1] /\ XorBit(a, b, 2) = 2 * x[2]
      /\ XorBit(a, b, 4) = 4 * x[4] /\ XorBit(a, b, 8) = 8 * x[8]
      /\ XorBit(a, b, 16) = 16 * x[16] /\ XorBit(a, b, 32) = 32 * x[32]
      /\ XorBit(a, b, 64) = 64 * x[64] /\ XorBit(a, b, 128) = 128 * x[128]
  BY <1>2 DEF Powers
<1>5. XorByte[a][b] = ByteFrom(x)
  <2>1. 1 * x[1] = x[1]
    BY <1>3 DEF Powers
  <2>2. XorByte[a][b] = XorBit(a, b, 1) + XorBit(a, b, 2) + XorBit(a, b, 4)
                          + XorBit(a, b, 8) + XorBit(a, b, 16) + XorBit(a, b, 32)
                          + XorBit(a, b, 64) + XorBit(a, b, 128)
    BY XorIsSum
  <2> QED BY ONLY <1>4, <2>1, <2>2, ZenonT(40) DEF ByteFrom
<1> QED BY <1>3, <1>5, BitsOfSum

\* Bytes with the same bits are the same.
LEMMA SameBits ==
  ASSUME NEW a \in 0 .. 255, NEW b \in 0 .. 255,
         \A power \in Powers : Bit(a, power) = Bit(b, power)
  PROVE  a = b
<1>1. /\ Bit(a, 1) = Bit(b, 1) /\ Bit(a, 2) = Bit(b, 2)
      /\ Bit(a, 4) = Bit(b, 4) /\ Bit(a, 8) = Bit(b, 8)
      /\ Bit(a, 16) = Bit(b, 16) /\ Bit(a, 32) = Bit(b, 32)
      /\ Bit(a, 64) = Bit(b, 64) /\ Bit(a, 128) = Bit(b, 128)
  BY DEF Powers
<1>2. /\ a = Bit(a, 1) + 2 * Bit(a, 2) + 4 * Bit(a, 4) + 8 * Bit(a, 8) + 16 * Bit(a, 16)
               + 32 * Bit(a, 32) + 64 * Bit(a, 64) + 128 * Bit(a, 128)
      /\ b = Bit(b, 1) + 2 * Bit(b, 2) + 4 * Bit(b, 4) + 8 * Bit(b, 8) + 16 * Bit(b, 16)
               + 32 * Bit(b, 32) + 64 * Bit(b, 64) + 128 * Bit(b, 128)
  BY BitsOfByte
<1> QED BY <1>1, <1>2

\* Brackets do not matter.
Associates(a, b, c) == XorByte[XorByte[a][b]][c] = XorByte[a][XorByte[b][c]]

LEMMA XorAssociates ==
  ASSUME NEW a \in 0 .. 255, NEW b \in 0 .. 255, NEW c \in 0 .. 255
  PROVE  Associates(a, b, c)
<1> DEFINE ab == XorByte[a][b]
           bc == XorByte[b][c]
           left == XorByte[ab][c]
           right == XorByte[a][bc]
<1>1. ab \in 0 .. 255 /\ bc \in 0 .. 255
  BY XorType
<1>2. /\ \A power \in Powers : Bit(ab, power) = (Bit(a, power) + Bit(b, power)) % 2
      /\ \A power \in Powers : Bit(bc, power) = (Bit(b, power) + Bit(c, power)) % 2
  BY XorBits
<1> HIDE DEF ab, bc
<1>3. left \in 0 .. 255 /\ right \in 0 .. 255
  BY <1>1, XorType
<1>4. /\ \A power \in Powers : Bit(left, power) = (Bit(ab, power) + Bit(c, power)) % 2
      /\ \A power \in Powers : Bit(right, power) = (Bit(a, power) + Bit(bc, power)) % 2
  BY <1>1, XorBits
<1> HIDE DEF left, right
<1>5. \A x, y, z \in {0, 1} : (((x + y) % 2) + z) % 2 = (x + ((y + z) % 2)) % 2
  BY SMT
<1>6. ASSUME NEW power \in Powers PROVE Bit(left, power) = Bit(right, power)
  <2>1. Bit(a, power) \in {0, 1} /\ Bit(b, power) \in {0, 1} /\ Bit(c, power) \in {0, 1}
    BY BitsOfByte
  <2> QED BY <1>2, <1>4, <1>5, <2>1
<1>7. left = right
  BY <1>3, <1>6, SameBits
<1> QED BY <1>7 DEF Associates, left, right, ab, bc

\* A byte with itself gives zero, and is undone by itself.
LEMMA XorUndone ==
  ASSUME NEW a \in 0 .. 255, NEW b \in 0 .. 255
  PROVE  XorByte[a][a] = 0 /\ XorByte[XorByte[a][b]][b] = a
<1>1. \A x \in 0 .. 255 : XorByte[x][x] = 0
  <2> SUFFICES ASSUME NEW x \in 0 .. 255 PROVE XorByte[x][x] = 0
    OBVIOUS
  <2>1. \A u \in {0, 1} : (u + u) % 2 = 0
    BY SMT
  <2>2. 0 \in 0 .. 255 /\ XorByte[x][x] \in 0 .. 255
    <3>1. 0 \in 0 .. 255
      OBVIOUS
    <3> QED BY <3>1, XorType, Zenon
  <2>3. \A power \in Powers : Bit(0, power) = 0
    BY SMT DEF Bit, Powers
  <2>4. \A power \in Powers : Bit(x, power) \in {0, 1}
    BY BitsOfByte
  <2>5. \A power \in Powers : Bit(XorByte[x][x], power) = 0
    BY <2>1, <2>4, XorBits
  <2> DEFINE zero == XorByte[x][x]
  <2> HIDE DEF zero
  <2>6. /\ 0 \in 0 .. 255 /\ zero \in 0 .. 255
        /\ \A power \in Powers : Bit(zero, power) = Bit(0, power)
    BY ONLY <2>2, <2>3, <2>5, Zenon DEF zero
  <2>7. zero = 0
    BY ONLY <2>6, SameBits
  <2> QED BY ONLY <2>7 DEF zero
<1>2. XorByte[XorByte[a][b]][b] = XorByte[a][XorByte[b][b]]
  BY XorAssociates DEF Associates
<1> QED BY <1>1, <1>2, XorZero

\* The bits of a byte shifted right by one, with a bit from the left.
LEMMA HalfBits ==
  ASSUME NEW a \in 0 .. 255, NEW c \in {0, 1}
  PROVE  LET h == HalfByte(a, c)
         IN /\ h \in 0 .. 255
            /\ Bit(h, 1) = Bit(a, 2) /\ Bit(h, 2) = Bit(a, 4) /\ Bit(h, 4) = Bit(a, 8)
            /\ Bit(h, 8) = Bit(a, 16) /\ Bit(h, 16) = Bit(a, 32) /\ Bit(h, 32) = Bit(a, 64)
            /\ Bit(h, 64) = Bit(a, 128) /\ Bit(h, 128) = c
<1>1. \A power \in Powers : Bit(a, power) \in {0, 1}
  BY BitsOfByte
<1>2. /\ Bit(a, 1) \in {0, 1} /\ Bit(a, 2) \in {0, 1} /\ Bit(a, 4) \in {0, 1}
      /\ Bit(a, 8) \in {0, 1} /\ Bit(a, 16) \in {0, 1} /\ Bit(a, 32) \in {0, 1}
      /\ Bit(a, 64) \in {0, 1} /\ Bit(a, 128) \in {0, 1}
  BY <1>1 DEF Powers
<1>3. a = Bit(a, 1) + 2 * Bit(a, 2) + 4 * Bit(a, 4) + 8 * Bit(a, 8) + 16 * Bit(a, 16)
            + 32 * Bit(a, 32) + 64 * Bit(a, 64) + 128 * Bit(a, 128)
  BY BitsOfByte
<1> DEFINE x == [power \in Powers |-> IF power = 128 THEN c ELSE Bit(a, 2 * power)]
<1>4. /\ x \in [Powers -> {0, 1}]
      /\ x[1] = Bit(a, 2) /\ x[2] = Bit(a, 4) /\ x[4] = Bit(a, 8) /\ x[8] = Bit(a, 16)
      /\ x[16] = Bit(a, 32) /\ x[32] = Bit(a, 64) /\ x[64] = Bit(a, 128) /\ x[128] = c
  BY <1>2 DEF Powers
<1> HIDE DEF x
<1>5. HalfByte(a, c) = ByteFrom(x)
  <2> DEFINE low == Bit(a, 1)
             rest == Bit(a, 2) + 2 * Bit(a, 4) + 4 * Bit(a, 8) + 8 * Bit(a, 16)
                       + 16 * Bit(a, 32) + 32 * Bit(a, 64) + 64 * Bit(a, 128)
  <2>1. rest \in Int /\ low \in {0, 1} /\ a = low + 2 * rest
    BY <1>2, <1>3
  <2>2. rest = x[1] + 2 * x[2] + 4 * x[4] + 8 * x[8] + 16 * x[16] + 32 * x[32] + 64 * x[64]
    BY <1>4
  <2> HIDE DEF rest, low
  <2>3. a \div 2 = rest
    BY <2>1, SMT
  <2> QED BY <1>4, <2>2, <2>3 DEF HalfByte, ByteFrom
<1>6. HalfByte(a, c) \in 0 .. 255 /\ \A power \in Powers : Bit(HalfByte(a, c), power) = x[power]
  BY <1>4, <1>5, BitsOfSum
<1> QED BY <1>4, <1>6 DEF Powers

\* The bit that leaves a byte.
LEMMA LowBit ==
  ASSUME NEW a \in 0 .. 255
  PROVE  a % 2 = Bit(a, 1) /\ a % 2 \in {0, 1}
BY SMT DEF Bit

\* The bit that leaves an exclusive or.
LEMMA LowBitXor ==
  ASSUME NEW a \in 0 .. 255, NEW b \in 0 .. 255
  PROVE  XorByte[a][b] % 2 = ((a % 2) + (b % 2)) % 2
<1> DEFINE x == XorByte[a][b]
<1>1. x \in 0 .. 255 /\ \A power \in Powers : Bit(x, power) = (Bit(a, power) + Bit(b, power)) % 2
  BY XorType, XorBits, Zenon
<1> HIDE DEF x
<1>2. 1 \in Powers
  BY DEF Powers
<1>3. Bit(x, 1) = (Bit(a, 1) + Bit(b, 1)) % 2
  BY <1>1, <1>2
<1>4. x % 2 = Bit(x, 1) /\ a % 2 = Bit(a, 1) /\ b % 2 = Bit(b, 1)
  BY <1>1, LowBit
<1> QED BY <1>3, <1>4 DEF x

\* Shifting right commutes with the exclusive or.
LEMMA XorHalves ==
  ASSUME NEW a \in 0 .. 255, NEW b \in 0 .. 255, NEW c \in {0, 1}, NEW d \in {0, 1}
  PROVE  XorByte[HalfByte(a, c)][HalfByte(b, d)] = HalfByte(XorByte[a][b], (c + d) % 2)
<1> DEFINE x == XorByte[a][b]
           e == (c + d) % 2
           ha == HalfByte(a, c)
           hb == HalfByte(b, d)
           hx == HalfByte(x, e)
           y == XorByte[ha][hb]
<1>1. x \in 0 .. 255 /\ \A power \in Powers : Bit(x, power) = (Bit(a, power) + Bit(b, power)) % 2
  BY XorType, XorBits, Zenon
<1>2. e \in {0, 1}
  BY SMT
<1>3. /\ ha \in 0 .. 255
      /\ Bit(ha, 1) = Bit(a, 2) /\ Bit(ha, 2) = Bit(a, 4) /\ Bit(ha, 4) = Bit(a, 8)
      /\ Bit(ha, 8) = Bit(a, 16) /\ Bit(ha, 16) = Bit(a, 32) /\ Bit(ha, 32) = Bit(a, 64)
      /\ Bit(ha, 64) = Bit(a, 128) /\ Bit(ha, 128) = c
  BY ONLY a \in 0 .. 255, c \in {0, 1}, HalfBits, ZenonT(40) DEF ha
<1>4. /\ hb \in 0 .. 255
      /\ Bit(hb, 1) = Bit(b, 2) /\ Bit(hb, 2) = Bit(b, 4) /\ Bit(hb, 4) = Bit(b, 8)
      /\ Bit(hb, 8) = Bit(b, 16) /\ Bit(hb, 16) = Bit(b, 32) /\ Bit(hb, 32) = Bit(b, 64)
      /\ Bit(hb, 64) = Bit(b, 128) /\ Bit(hb, 128) = d
  BY ONLY b \in 0 .. 255, d \in {0, 1}, HalfBits, ZenonT(40) DEF hb
<1> HIDE DEF x
<1>5. /\ hx \in 0 .. 255
      /\ Bit(hx, 1) = Bit(x, 2) /\ Bit(hx, 2) = Bit(x, 4) /\ Bit(hx, 4) = Bit(x, 8)
      /\ Bit(hx, 8) = Bit(x, 16) /\ Bit(hx, 16) = Bit(x, 32) /\ Bit(hx, 32) = Bit(x, 64)
      /\ Bit(hx, 64) = Bit(x, 128) /\ Bit(hx, 128) = e
  <2> HIDE DEF e
  <2> QED BY ONLY <1>1, <1>2, HalfBits, ZenonT(40) DEF hx
<1>6. Bit(hx, 128) = (c + d) % 2
  BY <1>5
<1> HIDE DEF ha, hb, hx, e, y
<1>7. y \in 0 .. 255 /\ \A power \in Powers : Bit(y, power) = (Bit(ha, power) + Bit(hb, power)) % 2
  <2>1. ha \in 0 .. 255 /\ hb \in 0 .. 255
    BY <1>3, <1>4
  <2>2. XorByte[ha][hb] \in 0 .. 255
    BY ONLY <2>1, XorType
  <2>3. \A power \in Powers : Bit(XorByte[ha][hb], power) = (Bit(ha, power) + Bit(hb, power)) % 2
    BY ONLY <2>1, XorBits
  <2> QED BY ONLY <2>2, <2>3, Zenon DEF y
<1>8. \A power \in Powers : Bit(y, power) = Bit(hx, power)
  BY <1>1, <1>3, <1>4, <1>5, <1>6, <1>7 DEF Powers
<1>9. y = hx
  <2>1. y \in 0 .. 255 /\ hx \in 0 .. 255
    BY <1>5, <1>7
  <2> QED BY ONLY <1>8, <2>1, SameBits
<1> QED BY <1>9 DEF y, hx, ha, hb, e, x

-----------------------------------------------------------------------------
(***************************************************************************)
(* Numbers of n bytes, and the division.                                   *)
(***************************************************************************)
Numbers(n) == [1 .. n -> 0 .. 255]

\* Where the bits of a byte and of the byte in front of it stand after the
\* bits of which pow is the power of two have been shifted out.
Split(prev, byte, pow) == (byte \div pow) + (prev % pow) * (256 \div pow)

\* One more bit.
Joins(q, p, a, pow) ==
  HalfByte(Split(p, a, pow), Split(q, p, pow) % 2) = Split(p, a, 2 * pow)

LEMMA SplitOn ==
  ASSUME NEW p \in 0 .. 255, NEW a \in 0 .. 255, NEW q \in 0 .. 255, NEW pow \in Powers
  PROVE  Joins(q, p, a, pow)
<1>1. CASE pow = 1
  BY <1>1, SMTT(30) DEF Joins, HalfByte, Split
<1>2. CASE pow = 2
  BY <1>2, SMTT(30) DEF Joins, HalfByte, Split
<1>3. CASE pow = 4
  BY <1>3, SMTT(30) DEF Joins, HalfByte, Split
<1>4. CASE pow = 8
  BY <1>4, SMTT(30) DEF Joins, HalfByte, Split
<1>5. CASE pow = 16
  BY <1>5, SMTT(30) DEF Joins, HalfByte, Split
<1>6. CASE pow = 32
  BY <1>6, SMTT(30) DEF Joins, HalfByte, Split
<1>7. CASE pow = 64
  BY <1>7, SMTT(30) DEF Joins, HalfByte, Split
<1>8. CASE pow = 128
  BY <1>8, SMTT(30) DEF Joins, HalfByte, Split
<1> QED BY <1>1, <1>2, <1>3, <1>4, <1>5, <1>6, <1>7, <1>8 DEF Powers

\* A byte in front puts nothing into the lowest bit before eight bits are out.
LEMMA SplitLow ==
  ASSUME NEW p \in 0 .. 255, NEW pow \in Powers
  PROVE  Split(p, 0, pow) % 2 = 0
<1>1. CASE pow = 1
  BY <1>1, SMT DEF Split
<1>2. CASE pow = 2
  BY <1>2, SMT DEF Split
<1>3. CASE pow = 4
  BY <1>3, SMT DEF Split
<1>4. CASE pow = 8
  BY <1>4, SMT DEF Split
<1>5. CASE pow = 16
  BY <1>5, SMT DEF Split
<1>6. CASE pow = 32
  BY <1>6, SMT DEF Split
<1>7. CASE pow = 64
  BY <1>7, SMT DEF Split
<1>8. CASE pow = 128
  BY <1>8, SMT DEF Split
<1> QED BY <1>1, <1>2, <1>3, <1>4, <1>5, <1>6, <1>7, <1>8 DEF Powers

\* A number is a sequence of bytes.
LEMMA NumberLength ==
  ASSUME NEW n \in Nat \ {0}, NEW a \in Numbers(n)
  PROVE  /\ a \in Seq(Byte8) /\ Len(a) = n /\ DOMAIN a = 1 .. n
         /\ \A k \in 1 .. n : a[k] \in 0 .. 255
         /\ n \in 1 .. n /\ 1 \in 1 .. n
BY DEF Numbers, Byte8

\* The exclusive or of two numbers.
LEMMA XorBytesType ==
  ASSUME NEW n \in Nat \ {0}, NEW a \in Numbers(n), NEW b \in Numbers(n)
  PROVE  /\ XorBytes(a, b) \in Numbers(n)
         /\ \A k \in 1 .. n : XorBytes(a, b)[k] = XorByte[a[k]][b[k]]
<1>1. \A k \in 1 .. n : XorByte[a[k]][b[k]] \in 0 .. 255
  <2>1. ASSUME NEW k \in 1 .. n PROVE XorByte[a[k]][b[k]] \in 0 .. 255
    <3>1. a[k] \in 0 .. 255 /\ b[k] \in 0 .. 255
      BY NumberLength
    <3> QED BY ONLY <3>1, XorType
  <2> QED BY <2>1
<1> QED BY <1>1, NumberLength DEF XorBytes, Numbers

\* Numbers with the same bytes are the same.
LEMMA SameBytes ==
  ASSUME NEW n \in Nat \ {0}, NEW a \in Numbers(n), NEW b \in Numbers(n),
         \A k \in 1 .. n : a[k] = b[k]
  PROVE  a = b
BY DEF Numbers

\* A polynomial that is taken off on both sides, or on one.
Twice(a, b, p) ==
  /\ XorByte[XorByte[a][p]][XorByte[b][p]] = XorByte[a][b]
  /\ XorByte[XorByte[a][p]][b] = XorByte[XorByte[a][b]][p]
  /\ XorByte[a][XorByte[b][p]] = XorByte[XorByte[a][b]][p]

LEMMA XorTwice ==
  ASSUME NEW a \in 0 .. 255, NEW b \in 0 .. 255, NEW p \in 0 .. 255
  PROVE  Twice(a, b, p)
<1>1. XorByte[a][p] \in 0 .. 255 /\ XorByte[b][p] \in 0 .. 255 /\ XorByte[a][b] \in 0 .. 255
  BY XorType
<1>2. XorByte[a][XorByte[b][p]] = XorByte[XorByte[a][b]][p]
  <2>1. Associates(a, b, p)
    BY XorAssociates
  <2> QED BY ONLY <2>1, Zenon DEF Associates
<1>3. XorByte[XorByte[a][p]][b] = XorByte[XorByte[a][b]][p]
  <2>1. XorByte[XorByte[a][p]][b] = XorByte[a][XorByte[p][b]]
    <3>1. Associates(a, p, b)
      BY XorAssociates
    <3> QED BY ONLY <3>1, Zenon DEF Associates
  <2>2. XorByte[p][b] = XorByte[b][p]
    BY XorCommutes
  <2> QED BY <1>2, <2>1, <2>2
<1>4. XorByte[XorByte[a][p]][XorByte[b][p]] = XorByte[a][b]
  <2> DEFINE bp == XorByte[b][p]
  <2>0. bp \in 0 .. 255
    BY <1>1
  <2>1. XorByte[bp][p] = b
    BY XorUndone
  <2> HIDE DEF bp
  <2>2. XorByte[XorByte[a][p]][bp] = XorByte[a][XorByte[p][bp]]
    <3>1. Associates(a, p, bp)
      BY <2>0, XorAssociates
    <3> QED BY <3>1 DEF Associates
  <2>3. XorByte[p][bp] = XorByte[bp][p]
    BY <2>0, XorCommutes
  <2>4. XorByte[XorByte[a][p]][bp] = XorByte[a][b]
    BY <2>1, <2>2, <2>3
  <2> QED BY <2>4 DEF bp
<1> QED BY <1>2, <1>3, <1>4 DEF Twice

\* Shifting right by one bit.
LEMMA HalfType ==
  ASSUME NEW n \in Nat \ {0}, NEW a \in Numbers(n)
  PROVE  /\ Half(a) \in Numbers(n)
         /\ \A k \in 1 .. n : Half(a)[k] = HalfByte(a[k], IF k = 1 THEN 0 ELSE a[k - 1] % 2)
<1>1. DOMAIN a = 1 .. n /\ \A k \in 1 .. n : a[k] \in 0 .. 255
  BY NumberLength
<1>2. ASSUME NEW k \in 1 .. n
      PROVE  HalfByte(a[k], IF k = 1 THEN 0 ELSE a[k - 1] % 2) \in 0 .. 255
  <2>1. k # 1 => k - 1 \in 1 .. n
    OBVIOUS
  <2>2. (IF k = 1 THEN 0 ELSE a[k - 1] % 2) \in {0, 1}
    BY <1>1, <2>1, LowBit
  <2> QED BY <1>1, <2>2, HalfBits
<1>3. Half(a) = [k \in 1 .. n |-> HalfByte(a[k], IF k = 1 THEN 0 ELSE a[k - 1] % 2)]
  <2> DEFINE first == <<HalfByte(a[1], 0)>>
             rest == [k \in 1 .. n - 1 |-> HalfByte(a[k + 1], a[k] % 2)]
  <2>1. \A k \in 1 .. n - 1 : k + 1 \in 1 .. n /\ k + 1 # 1 /\ k + 1 - 1 = k
    OBVIOUS
  <2>2. \A k \in 1 .. n - 1 : HalfByte(a[k + 1], a[k] % 2) \in 0 .. 255
    BY <1>2, <2>1
  <2>3. rest \in Seq(Byte8) /\ Len(rest) = n - 1
    BY <2>2 DEF Byte8
  <2>4. HalfByte(a[1], 0) \in 0 .. 255
    BY <1>2
  <2>5. first \in Seq(Byte8) /\ Len(first) = 1 /\ first[1] = HalfByte(a[1], 0)
    BY <2>4 DEF Byte8
  <2>6. Half(a) = first \o rest
    BY NumberLength DEF Half
  <2>7. \A k \in 1 .. n - 1 : rest[k] = HalfByte(a[k + 1], a[k] % 2)
    OBVIOUS
  <2> HIDE DEF first, rest
  <2>8. /\ first \o rest \in Seq(Byte8) /\ Len(first \o rest) = n
        /\ \A k \in 1 .. n : (first \o rest)[k] = IF k <= 1 THEN first[k] ELSE rest[k - 1]
    <3>1. /\ first \o rest \in Seq(Byte8) /\ Len(first \o rest) = Len(first) + Len(rest)
          /\ \A k \in 1 .. Len(first) + Len(rest) :
               (first \o rest)[k] = IF k <= Len(first) THEN first[k] ELSE rest[k - Len(first)]
      BY ONLY <2>3, <2>5, ConcatProperties
    <3>2. Len(first) + Len(rest) = n
      BY <2>3, <2>5
    <3> QED BY ONLY <2>5, <3>1, <3>2
  <2>9. ASSUME NEW k \in 1 .. n
        PROVE  (first \o rest)[k] = HalfByte(a[k], IF k = 1 THEN 0 ELSE a[k - 1] % 2)
    <3>1. CASE k = 1
      BY <2>5, <2>8, <3>1
    <3>2. CASE k # 1
      <4>1. k - 1 \in 1 .. n - 1 /\ k - 1 + 1 = k /\ ~(k <= 1)
        BY <3>2
      <4> QED BY <2>7, <2>8, <3>2, <4>1
    <3> QED BY <3>1, <3>2
  <2>10. first \o rest = [k \in 1 .. n |-> (first \o rest)[k]]
    <3>1. first \o rest \in [1 .. Len(first \o rest) -> Byte8]
      BY ONLY <2>8, LenProperties
    <3> QED BY ONLY <2>8, <3>1
  <2> QED BY <2>6, <2>9, <2>10
<1> QED BY <1>2, <1>3 DEF Numbers

\* Shifting right by eight bits.
LEMMA ByteOnIs ==
  ASSUME NEW n \in Nat \ {0}, NEW a \in Numbers(n)
  PROVE  ByteOn(a) = [k \in 1 .. n |-> IF k = 1 THEN 0 ELSE a[k - 1]]
<1> DEFINE first == <<0>>
           rest == SubSeq(a, 1, n - 1)
<1>1. a \in Seq(Byte8) /\ Len(a) = n
  BY NumberLength
<1>2. ByteOn(a) = first \o rest
  BY <1>1 DEF ByteOn
<1>3. rest \in Seq(Byte8) /\ Len(rest) = n - 1 /\ \A k \in 1 .. n - 1 : rest[k] = a[k]
  <2>1. n - 1 \in Nat /\ 1 \in Int /\ n - 1 \in Int
    OBVIOUS
  <2>2. \A i \in 1 .. n - 1 : a[i] \in Byte8
    BY <1>1
  <2>3. /\ rest \in Seq(Byte8) /\ Len(rest) = IF 1 <= n - 1 THEN n - 1 - 1 + 1 ELSE 0
        /\ \A i \in 1 .. n - 1 - 1 + 1 : rest[i] = a[1 + i - 1]
    BY <2>1, <2>2, SubSeqProperties
  <2> QED BY <2>1, <2>3
<1>4. first \in Seq(Byte8) /\ Len(first) = 1 /\ first[1] = 0
  BY DEF Byte8
<1> HIDE DEF first, rest
<1>5. /\ first \o rest \in Seq(Byte8) /\ Len(first \o rest) = n
      /\ \A k \in 1 .. n : (first \o rest)[k] = IF k <= 1 THEN first[k] ELSE rest[k - 1]
  <2>1. /\ first \o rest \in Seq(Byte8) /\ Len(first \o rest) = Len(first) + Len(rest)
        /\ \A k \in 1 .. Len(first) + Len(rest) :
             (first \o rest)[k] = IF k <= Len(first) THEN first[k] ELSE rest[k - Len(first)]
    BY ONLY <1>3, <1>4, ConcatProperties
  <2>2. Len(first) + Len(rest) = n
    BY <1>3, <1>4
  <2> QED BY ONLY <1>4, <2>1, <2>2
<1>6. ASSUME NEW k \in 1 .. n
      PROVE  (first \o rest)[k] = IF k = 1 THEN 0 ELSE a[k - 1]
  <2>1. CASE k = 1
    BY <1>4, <1>5, <2>1
  <2>2. CASE k # 1
    <3>1. k - 1 \in 1 .. n - 1 /\ ~(k <= 1)
      BY <2>2
    <3> QED BY <1>3, <1>5, <2>2, <3>1
  <2> QED BY <2>1, <2>2
<1>7. first \o rest = [k \in 1 .. n |-> (first \o rest)[k]]
  <2>1. first \o rest \in [1 .. Len(first \o rest) -> Byte8]
    BY ONLY <1>5, LenProperties
  <2> QED BY ONLY <1>5, <2>1
<1> QED BY <1>2, <1>6, <1>7

\* Shifting commutes with the exclusive or.
LEMMA HalfXor ==
  ASSUME NEW n \in Nat \ {0}, NEW a \in Numbers(n), NEW b \in Numbers(n)
  PROVE  Half(XorBytes(a, b)) = XorBytes(Half(a), Half(b))
<1> DEFINE x == XorBytes(a, b)
<1>1. x \in Numbers(n) /\ \A k \in 1 .. n : x[k] = XorByte[a[k]][b[k]]
  BY XorBytesType
<1>2. \A k \in 1 .. n : a[k] \in 0 .. 255 /\ b[k] \in 0 .. 255
  BY NumberLength
<1> HIDE DEF x
<1>3. ASSUME NEW k \in 1 .. n PROVE Half(x)[k] = XorByte[Half(a)[k]][Half(b)[k]]
  <2> DEFINE c == IF k = 1 THEN 0 ELSE a[k - 1] % 2
             d == IF k = 1 THEN 0 ELSE b[k - 1] % 2
             e == IF k = 1 THEN 0 ELSE x[k - 1] % 2
  <2>1. c \in {0, 1} /\ d \in {0, 1} /\ e = (c + d) % 2
    <3>1. CASE k = 1
      BY <3>1, SMT
    <3>2. CASE k # 1
      <4>1. k - 1 \in 1 .. n
        BY <3>2
      <4>2. c = a[k - 1] % 2 /\ d = b[k - 1] % 2 /\ e = XorByte[a[k - 1]][b[k - 1]] % 2
        BY <1>1, <3>2, <4>1
      <4>3. 0 \in {0, 1} /\ a[k - 1] \in 0 .. 255 /\ b[k - 1] \in 0 .. 255
        BY <1>2, <4>1
      <4> HIDE DEF c, d, e
      <4>4. e = ((a[k - 1] % 2) + (b[k - 1] % 2)) % 2
  BY <4>2, <4>3, LowBitXor
      <4> QED BY <4>2, <4>3, <4>4, LowBit
    <3> QED BY <3>1, <3>2
  <2>2. /\ Half(x)[k] = HalfByte(x[k], e) /\ Half(a)[k] = HalfByte(a[k], c)
        /\ Half(b)[k] = HalfByte(b[k], d)
    <3>1. Half(x)[k] = HalfByte(x[k], e)
      BY <1>1, HalfType, Zenon
    <3>2. Half(a)[k] = HalfByte(a[k], c)
      BY HalfType, Zenon
    <3>3. Half(b)[k] = HalfByte(b[k], d)
      BY HalfType, Zenon
    <3> QED BY <3>1, <3>2, <3>3
  <2> HIDE DEF c, d, e
  <2>3. XorByte[HalfByte(a[k], c)][HalfByte(b[k], d)] = HalfByte(XorByte[a[k]][b[k]], (c + d) % 2)
    <3> DEFINE u == a[k]
               v == b[k]
    <3>1. u \in 0 .. 255 /\ v \in 0 .. 255
      BY <1>2
    <3>2. c \in {0, 1} /\ d \in {0, 1}
      BY <2>1
    <3> HIDE DEF u, v
    <3>3. XorByte[HalfByte(u, c)][HalfByte(v, d)] = HalfByte(XorByte[u][v], (c + d) % 2)
      BY ONLY <3>1, <3>2, XorHalves
    <3> QED BY <3>3 DEF u, v
  <2> QED BY <1>1, <2>1, <2>2, <2>3
<1>4. /\ Half(x) \in Numbers(n) /\ Half(a) \in Numbers(n) /\ Half(b) \in Numbers(n)
  BY <1>1, HalfType
<1>5. /\ XorBytes(Half(a), Half(b)) \in Numbers(n)
      /\ \A k \in 1 .. n : XorBytes(Half(a), Half(b))[k] = XorByte[Half(a)[k]][Half(b)[k]]
  BY <1>4, XorBytesType
<1>6. Half(x) = XorBytes(Half(a), Half(b))
  BY <1>3, <1>4, <1>5, SameBytes
<1> QED BY <1>6 DEF x

\* A bit that leaves the register.
LEMMA ShiftOutType ==
  ASSUME NEW n \in Nat \ {0}, NEW poly \in Numbers(n), NEW a \in Numbers(n)
  PROVE  /\ ShiftOut(poly, a) \in Numbers(n)
         /\ a[n] % 2 = 1 => ShiftOut(poly, a) = XorBytes(Half(a), poly)
         /\ a[n] % 2 # 1 => ShiftOut(poly, a) = Half(a)
<1>1. Len(poly) = n
  BY NumberLength
<1>2. Half(a) \in Numbers(n)
  BY HalfType
<1>3. XorBytes(Half(a), poly) \in Numbers(n)
  BY <1>2, XorBytesType
<1>4. ShiftOut(poly, a) = IF a[n] % 2 = 1 THEN XorBytes(Half(a), poly) ELSE Half(a)
  BY <1>1 DEF ShiftOut
<1> QED BY <1>2, <1>3, <1>4

\* The polynomial is taken off a sum as often as off its two parts.
LEMMA XorBytesTwice ==
  ASSUME NEW n \in Nat \ {0}, NEW a \in Numbers(n), NEW b \in Numbers(n), NEW p \in Numbers(n)
  PROVE  /\ XorBytes(XorBytes(a, p), XorBytes(b, p)) = XorBytes(a, b)
         /\ XorBytes(XorBytes(a, p), b) = XorBytes(XorBytes(a, b), p)
         /\ XorBytes(a, XorBytes(b, p)) = XorBytes(XorBytes(a, b), p)
<1> DEFINE ap == XorBytes(a, p)
           bp == XorBytes(b, p)
           ab == XorBytes(a, b)
<1>1. /\ ap \in Numbers(n) /\ \A k \in 1 .. n : ap[k] = XorByte[a[k]][p[k]]
      /\ bp \in Numbers(n) /\ \A k \in 1 .. n : bp[k] = XorByte[b[k]][p[k]]
      /\ ab \in Numbers(n) /\ \A k \in 1 .. n : ab[k] = XorByte[a[k]][b[k]]
  BY XorBytesType
<1>2. \A k \in 1 .. n : a[k] \in 0 .. 255 /\ b[k] \in 0 .. 255 /\ p[k] \in 0 .. 255
  BY NumberLength
<1> HIDE DEF ap, bp, ab
<1>3. ASSUME NEW k \in 1 .. n
      PROVE  /\ XorByte[ap[k]][bp[k]] = ab[k]
             /\ XorByte[ap[k]][b[k]] = XorByte[ab[k]][p[k]]
             /\ XorByte[a[k]][bp[k]] = XorByte[ab[k]][p[k]]
  <2>1. a[k] \in 0 .. 255 /\ b[k] \in 0 .. 255 /\ p[k] \in 0 .. 255
    BY <1>2
  <2>2. /\ XorByte[XorByte[a[k]][p[k]]][XorByte[b[k]][p[k]]] = XorByte[a[k]][b[k]]
        /\ XorByte[XorByte[a[k]][p[k]]][b[k]] = XorByte[XorByte[a[k]][b[k]]][p[k]]
        /\ XorByte[a[k]][XorByte[b[k]][p[k]]] = XorByte[XorByte[a[k]][b[k]]][p[k]]
    <3>1. Twice(a[k], b[k], p[k])
      BY <2>1, XorTwice
    <3> QED BY <3>1 DEF Twice
  <2> QED BY <1>1, <2>2
<1>4. /\ XorBytes(ap, bp) \in Numbers(n) /\ \A k \in 1 .. n : XorBytes(ap, bp)[k] = XorByte[ap[k]][bp[k]]
      /\ XorBytes(ap, b) \in Numbers(n) /\ \A k \in 1 .. n : XorBytes(ap, b)[k] = XorByte[ap[k]][b[k]]
      /\ XorBytes(a, bp) \in Numbers(n) /\ \A k \in 1 .. n : XorBytes(a, bp)[k] = XorByte[a[k]][bp[k]]
      /\ XorBytes(ab, p) \in Numbers(n) /\ \A k \in 1 .. n : XorBytes(ab, p)[k] = XorByte[ab[k]][p[k]]
  BY <1>1, XorBytesType
<1>5. XorBytes(ap, bp) = ab
  BY <1>1, <1>3, <1>4, SameBytes
<1>6. XorBytes(ap, b) = XorBytes(ab, p)
  BY <1>3, <1>4, SameBytes
<1>7. XorBytes(a, bp) = XorBytes(ab, p)
  BY <1>3, <1>4, SameBytes
<1> QED BY <1>5, <1>6, <1>7 DEF ap, bp, ab

\* An operation on registers that commutes with the exclusive or.
Linear(n, f) ==
  /\ f \in [Numbers(n) -> Numbers(n)]
  /\ \A a, b \in Numbers(n) : f[XorBytes(a, b)] = XorBytes(f[a], f[b])

\* Shifting a bit out is linear.
LEMMA ShiftOutIsLinear ==
  ASSUME NEW n \in Nat \ {0}, NEW poly \in Numbers(n)
  PROVE  Linear(n, [crc \in Numbers(n) |-> ShiftOut(poly, crc)])
<1>1. \A a \in Numbers(n) : ShiftOut(poly, a) \in Numbers(n)
  BY ShiftOutType
<1>2. ASSUME NEW a \in Numbers(n), NEW b \in Numbers(n)
      PROVE  ShiftOut(poly, XorBytes(a, b)) = XorBytes(ShiftOut(poly, a), ShiftOut(poly, b))
  <2> DEFINE x == XorBytes(a, b)
             ha == Half(a)
             hb == Half(b)
             hx == Half(x)
             low == a[n] % 2
             other == b[n] % 2
  <2>1. n \in 1 .. n /\ a[n] \in 0 .. 255 /\ b[n] \in 0 .. 255
    BY NumberLength
  <2>2. x \in Numbers(n) /\ x[n] = XorByte[a[n]][b[n]]
    BY <2>1, XorBytesType
  <2>3. x[n] % 2 = (low + other) % 2
    <3>1. XorByte[a[n]][b[n]] % 2 = ((a[n] % 2) + (b[n] % 2)) % 2
      BY <2>1, LowBitXor
    <3> QED BY <2>2, <3>1
  <2>4. low \in {0, 1} /\ other \in {0, 1}
    BY <2>1, LowBit
  <2>5. ha \in Numbers(n) /\ hb \in Numbers(n) /\ hx = XorBytes(ha, hb)
    BY HalfType, HalfXor
  <2>6. /\ low = 1 => ShiftOut(poly, a) = XorBytes(ha, poly)
        /\ low # 1 => ShiftOut(poly, a) = ha
        /\ other = 1 => ShiftOut(poly, b) = XorBytes(hb, poly)
        /\ other # 1 => ShiftOut(poly, b) = hb
    BY ShiftOutType
  <2>7. /\ x[n] % 2 = 1 => ShiftOut(poly, x) = XorBytes(hx, poly)
        /\ x[n] % 2 # 1 => ShiftOut(poly, x) = hx
    <3> HIDE DEF x
    <3> QED BY <2>2, ShiftOutType
  <2> HIDE DEF x, ha, hb, hx, low, other
  <2>8. /\ XorBytes(XorBytes(ha, poly), XorBytes(hb, poly)) = XorBytes(ha, hb)
        /\ XorBytes(XorBytes(ha, poly), hb) = XorBytes(XorBytes(ha, hb), poly)
        /\ XorBytes(ha, XorBytes(hb, poly)) = XorBytes(XorBytes(ha, hb), poly)
    BY <2>5, XorBytesTwice
  <2>9. CASE low = 0 /\ other = 0
    <3>1. x[n] % 2 # 1
      BY <2>3, <2>9
    <3> QED BY <2>5, <2>6, <2>7, <2>9, <3>1 DEF x
  <2>10. CASE low = 1 /\ other = 0
    <3>1. x[n] % 2 = 1
      BY <2>3, <2>10
    <3> QED BY <2>5, <2>6, <2>7, <2>8, <2>10, <3>1 DEF x
  <2>11. CASE low = 0 /\ other = 1
    <3>1. x[n] % 2 = 1
      BY <2>3, <2>11
    <3> QED BY <2>5, <2>6, <2>7, <2>8, <2>11, <3>1 DEF x
  <2>12. CASE low = 1 /\ other = 1
    <3>1. x[n] % 2 # 1
      BY <2>3, <2>12
    <3> QED BY <2>5, <2>6, <2>7, <2>8, <2>12, <3>1 DEF x
  <2> QED BY <2>4, <2>9, <2>10, <2>11, <2>12
<1>3. \A a, b \in Numbers(n) : XorBytes(a, b) \in Numbers(n)
  BY XorBytesType
<1> QED BY <1>1, <1>2, <1>3 DEF Linear

\* Linear operations one after the other are linear.
LEMMA LinearChain ==
  ASSUME NEW n \in Nat \ {0}, NEW f, NEW g, Linear(n, f), Linear(n, g)
  PROVE  Linear(n, [crc \in Numbers(n) |-> f[g[crc]]])
<1>1. \A a, b \in Numbers(n) : XorBytes(a, b) \in Numbers(n)
  BY XorBytesType
<1>2. /\ \A a \in Numbers(n) : g[a] \in Numbers(n) /\ f[a] \in Numbers(n)
      /\ \A a, b \in Numbers(n) : f[XorBytes(a, b)] = XorBytes(f[a], f[b])
      /\ \A a, b \in Numbers(n) : g[XorBytes(a, b)] = XorBytes(g[a], g[b])
  BY DEF Linear
<1>3. ASSUME NEW a \in Numbers(n), NEW b \in Numbers(n)
      PROVE  f[g[XorBytes(a, b)]] = XorBytes(f[g[a]], f[g[b]])
  <2>1. g[a] \in Numbers(n) /\ g[b] \in Numbers(n)
    BY <1>2
  <2>2. f[XorBytes(g[a], g[b])] = XorBytes(f[g[a]], f[g[b]])
    BY <1>2, <2>1
  <2> QED BY <1>2, <2>2
<1> QED BY <1>1, <1>2, <1>3 DEF Linear

\* Shifting out eight bits is linear.
LEMMA EightBitsXor ==
  ASSUME NEW n \in Nat \ {0}, NEW poly \in Numbers(n), NEW a \in Numbers(n), NEW b \in Numbers(n)
  PROVE  /\ EightBits(poly, a) \in Numbers(n)
         /\ EightBits(poly, XorBytes(a, b)) = XorBytes(EightBits(poly, a), EightBits(poly, b))
<1> DEFINE one == [crc \in Numbers(n) |-> ShiftOut(poly, crc)]
           two == [crc \in Numbers(n) |-> one[one[crc]]]
           four == [crc \in Numbers(n) |-> two[two[crc]]]
           eight == [crc \in Numbers(n) |-> four[four[crc]]]
<1>1. Linear(n, one)
  BY ShiftOutIsLinear
<1>2. \A crc \in Numbers(n) : one[crc] \in Numbers(n) /\ one[crc] = ShiftOut(poly, crc)
  BY ShiftOutType
<1> HIDE DEF one
<1>3. Linear(n, two)
  BY <1>1, LinearChain
<1>4. \A crc \in Numbers(n) : two[crc] \in Numbers(n) /\ two[crc] = TwoBits(poly, crc)
  BY <1>2 DEF TwoBits
<1> HIDE DEF two
<1>5. Linear(n, four)
  BY <1>3, LinearChain
<1>6. \A crc \in Numbers(n) : four[crc] \in Numbers(n) /\ four[crc] = TwoBits(poly, TwoBits(poly, crc))
  BY <1>4
<1> HIDE DEF four
<1>7. Linear(n, eight)
  BY <1>5, LinearChain
<1>8. \A crc \in Numbers(n) : eight[crc] \in Numbers(n) /\ eight[crc] = EightBits(poly, crc)
  BY <1>6 DEF EightBits
<1> HIDE DEF eight
<1>9. XorBytes(a, b) \in Numbers(n)
  BY XorBytesType
<1> QED BY <1>7, <1>8, <1>9 DEF Linear

\* A number after the bits with the power of two pow have been shifted out,
\* when they are zeros.
InFront(a, k) == IF k = 1 THEN 0 ELSE a[k - 1]
Shifted(a, pow) == [k \in DOMAIN a |-> Split(InFront(a, k), a[k], pow)]

Whole(p, a) == Split(p, a, 1) = a /\ Split(p, a, 256) = p

LEMMA SplitWhole ==
  ASSUME NEW p \in 0 .. 255, NEW a \in 0 .. 255
  PROVE  Whole(p, a)
BY SMT DEF Whole, Split

\* The result is a byte.
ByteSplit(p, a, pow) == Split(p, a, pow) \in 0 .. 255

LEMMA SplitType ==
  ASSUME NEW p \in 0 .. 255, NEW a \in 0 .. 255, NEW pow \in Powers
  PROVE  ByteSplit(p, a, pow)
<1>1. CASE pow = 1
  BY <1>1, SMT DEF ByteSplit, Split
<1>2. CASE pow = 2
  BY <1>2, SMT DEF ByteSplit, Split
<1>3. CASE pow = 4
  BY <1>3, SMT DEF ByteSplit, Split
<1>4. CASE pow = 8
  BY <1>4, SMT DEF ByteSplit, Split
<1>5. CASE pow = 16
  BY <1>5, SMT DEF ByteSplit, Split
<1>6. CASE pow = 32
  BY <1>6, SMT DEF ByteSplit, Split
<1>7. CASE pow = 64
  BY <1>7, SMT DEF ByteSplit, Split
<1>8. CASE pow = 128
  BY <1>8, SMT DEF ByteSplit, Split
<1> QED BY <1>1, <1>2, <1>3, <1>4, <1>5, <1>6, <1>7, <1>8 DEF Powers

\* The byte in front is a byte.
LEMMA BeforeType ==
  ASSUME NEW n \in Nat \ {0}, NEW a \in Numbers(n), NEW k \in 1 .. n
  PROVE  InFront(a, k) \in 0 .. 255 /\ a[k] \in 0 .. 255
<1>1. \A j \in 1 .. n : a[j] \in 0 .. 255
  BY NumberLength
<1>2. k # 1 => k - 1 \in 1 .. n
  OBVIOUS
<1>3. 0 \in 0 .. 255
  OBVIOUS
<1> QED BY <1>1, <1>2, <1>3 DEF InFront

\* Zeros that are shifted out take no polynomial with them.
LEMMA ShiftedOn ==
  ASSUME NEW n \in Nat \ {0}, NEW poly \in Numbers(n), NEW a \in Numbers(n), a[n] = 0,
         NEW pow \in Powers
  PROVE  ShiftOut(poly, Shifted(a, pow)) = Shifted(a, 2 * pow)
<1> DEFINE s == Shifted(a, pow)
<1>1. DOMAIN a = 1 .. n /\ n \in 1 .. n
  BY NumberLength
<1>2. \A k \in 1 .. n : s[k] = Split(InFront(a, k), a[k], pow)
  BY <1>1 DEF Shifted
<1>3. s \in Numbers(n)
  <2>1. \A k \in 1 .. n : Split(InFront(a, k), a[k], pow) \in 0 .. 255
    <3>1. ASSUME NEW k \in 1 .. n PROVE ByteSplit(InFront(a, k), a[k], pow)
      <4>1. InFront(a, k) \in 0 .. 255 /\ a[k] \in 0 .. 255
        BY BeforeType
      <4> QED BY <4>1, SplitType
    <3> QED BY <3>1 DEF ByteSplit
  <2> QED BY <1>1, <2>1 DEF Shifted, Numbers
<1>4. s[n] % 2 = 0
  <2>1. InFront(a, n) \in 0 .. 255
    <3>1. \A k \in 1 .. n : InFront(a, k) \in 0 .. 255
      BY BeforeType
    <3> QED BY <1>1, <3>1
  <2> DEFINE p == InFront(a, n)
  <2> HIDE DEF p
  <2>2. Split(p, 0, pow) % 2 = 0
    <3>1. p \in 0 .. 255
      BY <2>1 DEF p
    <3> QED BY ONLY <3>1, pow \in Powers, SplitLow
  <2> QED BY <1>1, <1>2, <2>2 DEF p
<1> HIDE DEF s
<1>5. s[n] % 2 # 1
  BY <1>4
<1>6. ShiftOut(poly, s) = Half(s)
  BY <1>3, <1>5, ShiftOutType
<1>7. ASSUME NEW k \in 1 .. n
      PROVE  Half(s)[k] = Split(InFront(a, k), a[k], 2 * pow)
  <2> DEFINE p == InFront(a, k)
             b == a[k]
             c == IF k = 1 THEN 0 ELSE s[k - 1] % 2
  <2>1. Half(s)[k] = HalfByte(s[k], c)
    BY <1>3, HalfType, ZenonT(40)
  <2>2. p \in 0 .. 255 /\ b \in 0 .. 255 /\ 0 \in 0 .. 255
    BY BeforeType
  <2>3. \E q \in 0 .. 255 : c = Split(q, p, pow) % 2
    <3>1. CASE k = 1
      <4>1. p = 0
        BY <3>1 DEF InFront
      <4>2. Split(0, 0, pow) % 2 = 0
        BY <2>2, SplitLow
      <4>3. c = 0
        BY <3>1
      <4> HIDE DEF c, p
      <4> QED BY <2>2, <4>1, <4>2, <4>3
    <3>2. CASE k # 1
      <4>1. k - 1 \in 1 .. n
        BY <3>2
      <4>2. p = a[k - 1] /\ c = s[k - 1] % 2
        BY <3>2 DEF InFront
      <4>3. InFront(a, k - 1) \in 0 .. 255
        BY <4>1, BeforeType
      <4> HIDE DEF c, p
      <4> QED BY <1>2, <4>1, <4>2, <4>3
    <3> QED BY <3>1, <3>2
  <2> HIDE DEF c, p, b
  <2>4. PICK q \in 0 .. 255 : c = Split(q, p, pow) % 2
    BY <2>3
  <2>5. HalfByte(Split(p, b, pow), Split(q, p, pow) % 2) = Split(p, b, 2 * pow)
    <3>1. Joins(q, p, b, pow)
      BY ONLY <2>2, q \in 0 .. 255, pow \in Powers, SplitOn
    <3> QED BY <3>1 DEF Joins
  <2>6. s[k] = Split(p, b, pow)
    BY <1>2 DEF p, b
  <2> QED BY <2>1, <2>4, <2>5, <2>6 DEF p, b
<1>8. Half(s) = Shifted(a, 2 * pow)
  <2>1. DOMAIN Half(s) = 1 .. n /\ Half(s) = [k \in 1 .. n |-> Half(s)[k]]
    <3>1. Half(s) \in Numbers(n)
      BY <1>3, HalfType
    <3> QED BY <3>1 DEF Numbers
  <2> QED BY <1>1, <1>7, <2>1 DEF Shifted
<1> QED BY <1>6, <1>8 DEF s

\* Eight zeros shifted out leave the other bytes, one place on.
LEMMA ZerosShiftedOut ==
  ASSUME NEW n \in Nat \ {0}, NEW poly \in Numbers(n), NEW a \in Numbers(n), a[n] = 0
  PROVE  EightBits(poly, a) = ByteOn(a)
<1>1. /\ 1 \in Powers /\ 2 \in Powers /\ 4 \in Powers /\ 8 \in Powers
      /\ 16 \in Powers /\ 32 \in Powers /\ 64 \in Powers /\ 128 \in Powers
  BY DEF Powers
<1>2. \A k \in 1 .. n : /\ Split(InFront(a, k), a[k], 1) = a[k]
                        /\ Split(InFront(a, k), a[k], 256) = InFront(a, k)
  <2>1. ASSUME NEW k \in 1 .. n PROVE Whole(InFront(a, k), a[k])
    <3>1. InFront(a, k) \in 0 .. 255 /\ a[k] \in 0 .. 255
      BY BeforeType
    <3> QED BY <3>1, SplitWhole
  <2> QED BY <2>1 DEF Whole
<1>3. DOMAIN a = 1 .. n /\ a = [k \in 1 .. n |-> a[k]]
  BY DEF Numbers
<1>4. Shifted(a, 1) = a
  BY <1>2, <1>3 DEF Shifted
<1>5. Shifted(a, 256) = ByteOn(a)
  <2>1. Shifted(a, 256) = [k \in 1 .. n |-> InFront(a, k)]
    BY <1>2, <1>3 DEF Shifted
  <2>2. ByteOn(a) = [k \in 1 .. n |-> InFront(a, k)]
    BY ByteOnIs DEF InFront
  <2> QED BY <2>1, <2>2
<1>6. \A pow \in Powers : ShiftOut(poly, Shifted(a, pow)) = Shifted(a, 2 * pow)
  BY ShiftedOn
<1>7. /\ ShiftOut(poly, Shifted(a, 1)) = Shifted(a, 2) /\ ShiftOut(poly, Shifted(a, 2)) = Shifted(a, 4)
      /\ ShiftOut(poly, Shifted(a, 4)) = Shifted(a, 8) /\ ShiftOut(poly, Shifted(a, 8)) = Shifted(a, 16)
      /\ ShiftOut(poly, Shifted(a, 16)) = Shifted(a, 32) /\ ShiftOut(poly, Shifted(a, 32)) = Shifted(a, 64)
      /\ ShiftOut(poly, Shifted(a, 64)) = Shifted(a, 128) /\ ShiftOut(poly, Shifted(a, 128)) = Shifted(a, 256)
  <2>1. \A x \in Powers : 2 * x = x + x
    BY DEF Powers
  <2>2. /\ 2 * 1 = 2 /\ 2 * 2 = 4 /\ 2 * 4 = 8 /\ 2 * 8 = 16 /\ 2 * 16 = 32 /\ 2 * 32 = 64
        /\ 2 * 64 = 128 /\ 2 * 128 = 256
    BY SMT
  <2> QED BY <1>1, <1>6, <2>2
<1> QED BY <1>4, <1>5, <1>7 DEF EightBits, TwoBits

\* A byte that comes into the register leaves it as its remainder, on the
\* other bytes of the register.
ByTable(n, poly, crc, byte) ==
  LET index == XorByte[crc[n]][byte]
  IN /\ index \in 0 .. 255
     /\ Alone(n, index) \in Numbers(n)
     /\ ByteOn(crc) \in Numbers(n)
     /\ Divided(poly, crc, byte) \in Numbers(n)
     /\ Divided(poly, crc, byte) = XorBytes(EightBits(poly, Alone(n, index)), ByteOn(crc))

LEMMA DividedByTable ==
  ASSUME NEW n \in Nat \ {0}, NEW poly \in Numbers(n), NEW crc \in Numbers(n), NEW byte \in 0 .. 255
  PROVE  ByTable(n, poly, crc, byte)
<1> DEFINE index == XorByte[crc[n]][byte]
           alone == Alone(n, index)
           rest == [crc EXCEPT ![n] = 0]
           full == [crc EXCEPT ![n] = index]
<1>1. /\ n \in 1 .. n /\ Len(poly) = n /\ DOMAIN crc = 1 .. n
      /\ \A k \in 1 .. n : crc[k] \in 0 .. 255
  BY NumberLength
<1>2. index \in 0 .. 255 /\ 0 \in 0 .. 255
  <2>1. crc[n] \in 0 .. 255 /\ 0 \in 0 .. 255
    BY <1>1
  <2> QED BY <2>1, XorType
<1>3. Divided(poly, crc, byte) = EightBits(poly, full)
  BY <1>1 DEF Divided
<1> HIDE DEF index
<1>4. alone \in Numbers(n) /\ \A k \in 1 .. n : alone[k] = IF k = n THEN index ELSE 0
  BY <1>2 DEF Alone, Numbers
<1>5. rest \in Numbers(n) /\ \A k \in 1 .. n : rest[k] = IF k = n THEN 0 ELSE crc[k]
  BY <1>1, <1>2 DEF Numbers
<1>6. full \in Numbers(n) /\ \A k \in 1 .. n : full[k] = IF k = n THEN index ELSE crc[k]
  BY <1>1, <1>2 DEF Numbers
<1>7. ByteOn(crc) \in Numbers(n) /\ ByteOn(crc) = ByteOn(rest)
  <2>1. \A k \in 1 .. n : (IF k = 1 THEN 0 ELSE crc[k - 1]) = (IF k = 1 THEN 0 ELSE rest[k - 1])
    <3>1. ASSUME NEW k \in 1 .. n, k # 1 PROVE crc[k - 1] = rest[k - 1]
      <4>1. k - 1 \in 1 .. n /\ k - 1 # n
        BY <3>1
      <4> QED BY <1>5, <4>1
    <3> QED BY <3>1
  <2>2. rest \in Numbers(n)
    BY <1>5
  <2>3. \A k \in 1 .. n : (IF k = 1 THEN 0 ELSE crc[k - 1]) \in 0 .. 255
    <3>1. \A k \in 1 .. n : InFront(crc, k) \in 0 .. 255
      BY BeforeType
    <3> QED BY <3>1 DEF InFront
  <2> HIDE DEF rest
  <2>4. /\ ByteOn(crc) = [k \in 1 .. n |-> IF k = 1 THEN 0 ELSE crc[k - 1]]
        /\ ByteOn(rest) = [k \in 1 .. n |-> IF k = 1 THEN 0 ELSE rest[k - 1]]
    BY <2>2, ByteOnIs
  <2> QED BY <2>1, <2>3, <2>4 DEF Numbers
<1> HIDE DEF alone, rest, full
<1>8. full = XorBytes(alone, rest)
  <2>1. /\ XorBytes(alone, rest) \in Numbers(n)
        /\ \A k \in 1 .. n : XorBytes(alone, rest)[k] = XorByte[alone[k]][rest[k]]
    BY <1>4, <1>5, XorBytesType
  <2>2. ASSUME NEW k \in 1 .. n PROVE full[k] = XorByte[alone[k]][rest[k]]
    <3>1. CASE k = n
      <4>1. alone[k] = index /\ rest[k] = 0 /\ full[k] = index
        BY <1>4, <1>5, <1>6, <3>1
      <4> QED BY <1>2, <4>1, XorZero
    <3>2. CASE k # n
      <4>1. alone[k] = 0 /\ rest[k] = crc[k] /\ full[k] = crc[k]
        BY <1>4, <1>5, <1>6, <3>2
      <4>2. crc[k] \in 0 .. 255
        BY <1>1
      <4> QED BY <4>1, <4>2, XorZero
    <3> QED BY <3>1, <3>2
  <2> QED BY <1>6, <2>1, <2>2, SameBytes
<1>9. EightBits(poly, full) = XorBytes(EightBits(poly, alone), EightBits(poly, rest))
  BY <1>4, <1>5, <1>8, EightBitsXor
<1>10. rest[n] = 0
  BY <1>1, <1>5
<1>11. EightBits(poly, rest) = ByteOn(crc)
  BY <1>5, <1>7, <1>10, ZerosShiftedOut
<1>12. EightBits(poly, full) \in Numbers(n)
  BY <1>6, EightBitsXor
<1> QED BY <1>2, <1>3, <1>4, <1>7, <1>9, <1>11, <1>12 DEF alone, index, ByTable

\* The remainders before and after each byte.
IsDivision(n, poly, start, data, r) ==
  /\ r \in [0 .. Len(data) -> Numbers(n)]
  /\ r[0] = start
  /\ \A k \in 1 .. Len(data) : r[k] = Divided(poly, r[k - 1], data[k])

LEMMA RemaindersAreDivided ==
  ASSUME NEW n \in Nat \ {0}, NEW poly \in Numbers(n), NEW start \in Numbers(n),
         NEW data \in Seq(Byte8)
  PROVE  IsDivision(n, poly, start, data, RemaindersOf(poly, start, data))
<1> DEFINE m == Len(data)
           g == [k \in 1 .. m |-> [crc \in Numbers(n) |-> Divided(poly, crc, data[k])]]
           r == RemaindersOf(poly, start, data)
           Taken(byte) == [crc \in Seq(0 .. 255) |-> Divided(poly, crc, byte)]
<1>1. m \in Nat /\ \A k \in 1 .. m : data[k] \in 0 .. 255
  <2>1. m \in Nat /\ \A k \in 1 .. m : data[k] \in Byte8
    OBVIOUS
  <2> QED BY <2>1 DEF Byte8
<1> HIDE DEF m
<1>2. \A k \in 1 .. m : \A crc \in Numbers(n) : Divided(poly, crc, data[k]) \in Numbers(n)
  BY <1>1, DividedByTable DEF ByTable
<1>3. \A byte : \A crc \in Numbers(n) : Taken(byte)[crc] = Divided(poly, crc, byte)
  <2>1. Numbers(n) \subseteq Seq(0 .. 255)
    BY DEF Numbers
  <2> QED BY <2>1
<1> HIDE DEF Taken
<1>4. g \in [1 .. m -> [Numbers(n) -> Numbers(n)]]
  BY <1>2
<1>5. \A k \in 1 .. m : \A crc \in Numbers(n) : g[k][crc] = Divided(poly, crc, data[k])
  OBVIOUS
<1> HIDE DEF g
<1>6. PICK f \in [0 .. m -> Numbers(n)] :
        f[0] = start /\ \A k \in 1 .. m : f[k] = g[k][f[k - 1]]
  <2>1. CanRecurse(m, Numbers(n), start, g)
    BY <1>1, <1>4, Recursion
  <2> QED BY <2>1 DEF CanRecurse, Recursive
<1>7. \A k \in 1 .. m : f[k] = Divided(poly, f[k - 1], data[k])
  <2>1. \A k \in 1 .. m : k - 1 \in 0 .. m
    BY <1>1
  <2>2. \A k \in 1 .. m : f[k - 1] \in Numbers(n)
    BY <2>1, <1>6
  <2> QED BY <1>5, <1>6, <2>2
<1>8. f = [i \in 0 .. Len(data) |-> IF i = 0 THEN start ELSE Taken(data[i])[f[i - 1]]]
  <2>1. \A k \in 0 .. m : k # 0 => k \in 1 .. m
    BY <1>1
  <2>2. \A k \in 1 .. m : k - 1 \in 0 .. m
    BY <1>1
  <2>3. \A k \in 1 .. m : f[k - 1] \in Numbers(n)
    BY <2>2, <1>6
  <2>4. \A k \in 0 .. m : f[k] = IF k = 0 THEN start ELSE Taken(data[k])[f[k - 1]]
    BY <1>6, <1>7, <1>3, <2>1, <2>3
  <2>5. f = [i \in 0 .. m |-> IF i = 0 THEN start ELSE Taken(data[i])[f[i - 1]]]
    BY <1>6, <2>4
  <2> QED BY <2>5 DEF m
<1>9. RemaindersOf(poly, start, data) = [i \in 0 .. Len(data) |->
        IF i = 0 THEN start ELSE Taken(data[i])[RemaindersOf(poly, start, data)[i - 1]]]
  BY <1>8, Zenon DEF RemaindersOf, Taken
<1> HIDE DEF r
<1>10. r = [i \in 0 .. m |-> IF i = 0 THEN start ELSE Taken(data[i])[r[i - 1]]]
  BY <1>9 DEF r, m
<1>11. r[0] = start
  BY <1>1, <1>10
<1>12. \A k \in 1 .. m : r[k - 1] \in Numbers(n) => r[k] = Divided(poly, r[k - 1], data[k])
  <2>1. \A k \in 1 .. m : k \in 0 .. m /\ k # 0
    BY <1>1
  <2> QED BY <1>10, <1>3, <2>1
<1>13. \A k \in 0 .. m : r[k] \in Numbers(n)
  <2> DEFINE S == {k \in 0 .. m : r[k] \in Numbers(n)}
  <2>1. 0 \in S
    BY <1>1, <1>11
  <2>2. ASSUME NEW k \in 1 .. m, k - 1 \in S PROVE k \in S
    BY <1>1, <1>2, <1>12, <2>2
  <2> HIDE DEF S
  <2>3. \A k \in 0 .. m : k \in S
    BY <1>1, <2>1, <2>2, BoundedInduction
  <2> QED BY <2>3 DEF S
<1>14. r \in [0 .. m -> Numbers(n)]
  BY <1>10, <1>13
<1>15. \A k \in 1 .. m : r[k] = Divided(poly, r[k - 1], data[k])
  <2>1. \A k \in 1 .. m : k - 1 \in 0 .. m
    BY <1>1
  <2> QED BY <1>12, <1>13, <2>1
<1> QED BY <1>11, <1>14, <1>15 DEF r, m, IsDivision

-----------------------------------------------------------------------------
(***************************************************************************)
(* kcCrc16.                                                                *)
(***************************************************************************)
Register == [lo : Byte8, hi : Byte8]

\* One turn of the loop has a register for its result.
LEMMA StepType ==
  ASSUME NEW crc \in Register, NEW byte \in Byte8
  PROVE  Step(crc, byte) \in Register
<1> DEFINE x == XorByte[crc.lo][byte]
<1>1. crc.lo \in Byte8 /\ crc.hi \in Byte8
  BY DEF Register
<1>2. x \in Byte8
  BY <1>1, XorType, ZenonT(40) DEF Byte8
<1> HIDE DEF x
<1>3. KC_CRC16_TAB_HIG[x + 1] \in Byte8 /\ KC_CRC16_TAB_LOW[x + 1] \in Byte8
  BY ONLY <1>2, TablesAssumption, ZenonT(40) DEF Byte8
<1>4. XorByte[crc.hi][KC_CRC16_TAB_HIG[x + 1]] \in Byte8
  BY ONLY <1>1, <1>3, XorType, ZenonT(40) DEF Byte8
<1>5. Step(crc, byte) = [lo |-> XorByte[crc.hi][KC_CRC16_TAB_HIG[x + 1]],
                         hi |-> KC_CRC16_TAB_LOW[x + 1]]
  BY DEF Step, x
<1> QED BY <1>3, <1>4, <1>5 DEF Register

\* The register before the loop and after each turn.
LEMMA RegistersAreSteps ==
  ASSUME NEW data \in Seq(Byte8), NEW preval \in Nat, preval < WordMod
  PROVE  /\ Registers(data, preval) \in [0 .. Len(data) -> Register]
         /\ Registers(data, preval)[0] = [lo |-> preval % 256, hi |-> preval \div 256]
         /\ \A k \in 1 .. Len(data) :
              Registers(data, preval)[k] = Step(Registers(data, preval)[k - 1], data[k])
<1> DEFINE first == [lo |-> preval % 256, hi |-> preval \div 256]
           n == Len(data)
           g == [k \in 1 .. n |-> [crc \in Register |-> Step(crc, data[k])]]
<1>1. first \in Register
  <2>1. preval % 256 \in Byte8 /\ preval \div 256 \in Byte8
    BY SMT DEF Byte8, WordMod
  <2> QED BY <2>1 DEF Register
<1>2. n \in Nat /\ \A k \in 1 .. n : data[k] \in Byte8
  OBVIOUS
<1> HIDE DEF first, n
<1>3. \A k \in 1 .. n : \A crc \in Register : Step(crc, data[k]) \in Register
  BY <1>2, StepType
<1>4. g \in [1 .. n -> [Register -> Register]]
  BY <1>3
<1>5. \A k \in 1 .. n : \A crc \in Register : g[k][crc] = Step(crc, data[k])
  OBVIOUS
<1> HIDE DEF g
<1>6. PICK f \in [0 .. n -> Register] :
        f[0] = first /\ \A k \in 1 .. n : f[k] = g[k][f[k - 1]]
  <2>1. CanRecurse(n, Register, first, g)
    BY <1>1, <1>2, <1>4, Recursion
  <2> QED BY <2>1 DEF CanRecurse, Recursive
<1>7. \A k \in 1 .. n : f[k] = Step(f[k - 1], data[k])
  <2>1. \A k \in 1 .. n : k - 1 \in 0 .. n
    BY <1>2
  <2>2. \A k \in 1 .. n : f[k - 1] \in Register
    BY <2>1, <1>6
  <2> QED BY <1>5, <1>6, <2>2
<1>8. f = [i \in 0 .. Len(data) |->
             IF i = 0 THEN [lo |-> preval % 256, hi |-> preval \div 256]
             ELSE Step(f[i - 1], data[i])]
  <2>1. \A k \in 0 .. n : k # 0 => k \in 1 .. n
    BY <1>2
  <2>2. \A k \in 0 .. n : f[k] = IF k = 0 THEN first ELSE Step(f[k - 1], data[k])
    BY <1>6, <1>7, <2>1
  <2>3. f = [i \in 0 .. n |-> IF i = 0 THEN first ELSE Step(f[i - 1], data[i])]
    BY <1>6, <2>2
  <2> QED BY <2>3 DEF n, first
<1>9. Registers(data, preval) = [i \in 0 .. Len(data) |->
             IF i = 0 THEN [lo |-> preval % 256, hi |-> preval \div 256]
             ELSE Step(Registers(data, preval)[i - 1], data[i])]
  BY ONLY <1>8, SMTT(30) DEF Registers
<1> DEFINE r == Registers(data, preval)
<1> HIDE DEF r
<1>10. r = [i \in 0 .. n |-> IF i = 0 THEN first ELSE Step(r[i - 1], data[i])]
  BY <1>9 DEF r, n, first
<1>11. r[0] = first
  BY <1>2, <1>10
<1>12. \A k \in 1 .. n : r[k] = Step(r[k - 1], data[k])
  <2>1. \A k \in 1 .. n : k \in 0 .. n /\ k # 0
    BY <1>2
  <2> QED BY <1>10, <2>1
<1>13. \A k \in 0 .. n : r[k] \in Register
  <2> DEFINE S == {k \in 0 .. n : r[k] \in Register}
  <2>1. 0 \in S
    BY <1>1, <1>2, <1>11
  <2>2. ASSUME NEW k \in 1 .. n, k - 1 \in S PROVE k \in S
    <3>1. k \in 0 .. n /\ data[k] \in Byte8
      BY <1>2
    <3>2. r[k - 1] \in Register
      BY <2>2
    <3>3. r[k] = Step(r[k - 1], data[k])
      BY <1>12
    <3> QED BY <3>1, <3>2, <3>3, StepType
  <2> HIDE DEF S
  <2>3. \A k \in 0 .. n : k \in S
    BY <1>2, <2>1, <2>2, BoundedInduction
  <2> QED BY <2>3 DEF S
<1>14. r \in [0 .. n -> Register]
  BY <1>10, <1>13
<1> QED BY <1>11, <1>12, <1>14 DEF r, n, first

\* A byte is a number.
LEMMA ByteIsInt == \A x \in Byte8 : x \in Int
BY DEF Byte8

\* A register as a number.
WordOf(crc) == 256 * crc.hi + crc.lo

\* The two bytes of a word.
LEMMA WordOfBytes ==
  ASSUME NEW high \in Byte8, NEW low \in Byte8
  PROVE  /\ (256 * high + low) \div 256 = high
         /\ (256 * high + low) % 256 = low
         /\ 256 * high + low \in Nat
         /\ 256 * high + low < WordMod
BY SMT DEF Byte8, WordMod

\* The two bytes of a register.
LEMMA BytesOfRegister ==
  ASSUME NEW crc \in Register
  PROVE  /\ crc.hi \in Byte8 /\ crc.lo \in Byte8
         /\ crc = [lo |-> crc.lo, hi |-> crc.hi]
         /\ WordOf(crc) \div 256 = crc.hi /\ WordOf(crc) % 256 = crc.lo
<1> DEFINE high == crc.hi
           low == crc.lo
<1>1. high \in Byte8 /\ low \in Byte8 /\ crc = [lo |-> low, hi |-> high]
  BY DEF Register
<1>2. WordOf(crc) = 256 * high + low
  BY DEF WordOf
<1> HIDE DEF high, low
<1>3. WordOf(crc) \div 256 = high /\ WordOf(crc) % 256 = low
  BY <1>1, <1>2, WordOfBytes
<1> QED BY <1>1, <1>3 DEF high, low

\* The register before the first byte is a word with all bits set.
LEMMA PresetType ==
  /\ Preset \in Nat /\ Preset < WordMod
  /\ Preset % 256 = 255 /\ Preset \div 256 = 255
BY SMT DEF Preset, WordMod

\* The registers of kcCrc16(data, Preset).
LEMMA PresetRegisters ==
  ASSUME NEW data \in Seq(Byte8)
  PROVE  /\ Registers(data, Preset) \in [0 .. Len(data) -> Register]
         /\ Registers(data, Preset)[0] = [lo |-> 255, hi |-> 255]
         /\ \A k \in 1 .. Len(data) :
              Registers(data, Preset)[k] = Step(Registers(data, Preset)[k - 1], data[k])
BY PresetType, RegistersAreSteps

\* The two bytes of a register, as a number.
Pair(crc) == <<crc.hi, crc.lo>>

\* One turn of the loop is one byte of the division.
LEMMA DividedIsStep ==
  ASSUME NEW crc \in Register, NEW byte \in Byte8
  PROVE  Divided(Poly16, Pair(crc), byte) = Pair(Step(crc, byte))
<1> DEFINE hi == crc.hi
           lo == crc.lo
           number == <<hi, lo>>
           x == XorByte[lo][byte]
           low == KC_CRC16_TAB_LOW[x + 1]
           high == KC_CRC16_TAB_HIG[x + 1]
<1>1. hi \in 0 .. 255 /\ lo \in 0 .. 255 /\ byte \in 0 .. 255
  BY DEF Register, Byte8
<1>2. Step(crc, byte) = [lo |-> XorByte[hi][high], hi |-> low]
  BY DEF Step
<1>3. Pair(Step(crc, byte)) = <<low, XorByte[hi][high]>>
  BY <1>2 DEF Pair
<1> HIDE DEF hi, lo
<1>4. 2 \in Nat \ {0} /\ Poly16 \in Numbers(2) /\ number \in Numbers(2) /\ number[2] = lo
  BY <1>1, SMT DEF Numbers, Poly16
<1>5. x \in 0 .. 255
  BY <1>1, XorType
<1> HIDE DEF number
<1>6. /\ Divided(Poly16, number, byte) = XorBytes(EightBits(Poly16, Alone(2, x)), ByteOn(number))
      /\ Divided(Poly16, number, byte) \in Numbers(2) /\ ByteOn(number) \in Numbers(2)
  <2>1. ByTable(2, Poly16, number, byte)
    BY <1>1, <1>4, DividedByTable
  <2> QED BY <1>4, <2>1 DEF ByTable
<1> HIDE DEF x
<1>7. /\ high \in 0 .. 255 /\ low \in 0 .. 255
      /\ EightBits(Poly16, Alone(2, x)) = <<low, high>>
  BY <1>5, TablesAssumption
<1> HIDE DEF low, high
<1>8. ByteOn(number) = <<0, hi>>
  <2>1. 2 \in Nat \ {0} /\ number \in Numbers(2) /\ number[1] = hi
    BY <1>4 DEF number
  <2>2. ByteOn(number) = [k \in 1 .. 2 |-> IF k = 1 THEN 0 ELSE number[k - 1]]
    BY ONLY <2>1, ByteOnIs
  <2>3. <<0, hi>> = [k \in 1 .. 2 |-> IF k = 1 THEN 0 ELSE number[k - 1]]
    BY <2>1, SMT
  <2> QED BY <2>2, <2>3
<1>9. XorBytes(<<low, high>>, <<0, hi>>) = <<XorByte[low][0], XorByte[high][hi]>>
  BY SMT DEF XorBytes
<1>10. XorByte[low][0] = low /\ XorByte[high][hi] = XorByte[hi][high]
  BY <1>1, <1>7, XorZero, XorCommutes
<1>11. Divided(Poly16, number, byte) = <<low, XorByte[hi][high]>>
  BY <1>6, <1>7, <1>8, <1>9, <1>10
<1> QED BY <1>3, <1>11 DEF Pair, number, hi, lo

\* The division, byte by byte, follows the loop.
LEMMA RemaindersAreRegisters ==
  ASSUME NEW data \in Seq(Byte8)
  PROVE  \A k \in 0 .. Len(data) :
           RemaindersOf(Poly16, <<255, 255>>, data)[k] = Pair(Registers(data, Preset)[k])
<1> DEFINE n == Len(data)
           r == Registers(data, Preset)
           R == RemaindersOf(Poly16, <<255, 255>>, data)
<1>1. n \in Nat /\ \A k \in 1 .. n : data[k] \in Byte8
  OBVIOUS
<1>2. /\ r \in [0 .. n -> Register]
      /\ r[0] = [lo |-> 255, hi |-> 255]
      /\ \A k \in 1 .. n : r[k] = Step(r[k - 1], data[k])
  BY PresetRegisters
<1>3. /\ R[0] = <<255, 255>>
      /\ \A k \in 1 .. n : R[k] = Divided(Poly16, R[k - 1], data[k])
  <2>1. 2 \in Nat \ {0} /\ Poly16 \in Numbers(2) /\ <<255, 255>> \in Numbers(2)
    BY SMT DEF Numbers, Poly16
  <2>2. IsDivision(2, Poly16, <<255, 255>>, data, RemaindersOf(Poly16, <<255, 255>>, data))
    BY <2>1, RemaindersAreDivided
  <2> QED BY <2>2 DEF IsDivision
<1> HIDE DEF n, r, R
<1>4. \A k \in 1 .. n : Pair(r[k]) = Divided(Poly16, Pair(r[k - 1]), data[k])
  <2>1. \A k \in 1 .. n : r[k - 1] \in Register
    BY <1>1, <1>2
  <2> QED BY <1>1, <1>2, <2>1, DividedIsStep
<1> DEFINE S == {k \in 0 .. n : R[k] = Pair(r[k])}
<1>5. 0 \in S
  <2>1. Pair(r[0]) = <<255, 255>>
    BY <1>2 DEF Pair
  <2> QED BY <1>1, <1>3, <2>1
<1>6. ASSUME NEW k \in 1 .. n, k - 1 \in S PROVE k \in S
  <2>1. k \in 0 .. n
    BY <1>1
  <2> QED BY <1>3, <1>4, <1>6, <2>1
<1> HIDE DEF S
<1>7. \A k \in 0 .. n : k \in S
  BY <1>1, <1>5, <1>6, BoundedInduction
<1> QED BY <1>7 DEF S, R, n, r

\* The number that the last register is.
LEMMA LastRegister ==
  ASSUME NEW data \in Seq(Byte8)
  PROVE  LET crc == Registers(data, Preset)[Len(data)]
         IN /\ crc \in Register
            /\ kcCrc16(data, Preset) = WordOf(crc)
            /\ Remainder(data) = WordOf(crc)
<1> DEFINE crc == Registers(data, Preset)[Len(data)]
<1>1. Len(data) \in 0 .. Len(data)
  OBVIOUS
<1>2. crc \in Register
  BY <1>1, PresetRegisters
<1>3. RemainderOf(Poly16, <<255, 255>>, data) = Pair(crc)
  BY <1>1, RemaindersAreRegisters DEF RemainderOf
<1>4. Remainder(data) = Pair(crc)[1] * 256 + Pair(crc)[2]
  BY <1>3 DEF Remainder
<1>5. kcCrc16(data, Preset) = crc.hi * 256 + crc.lo
  BY DEF kcCrc16
<1> HIDE DEF crc
<1>6. Remainder(data) = crc.hi * 256 + crc.lo
  BY <1>4 DEF Pair
<1>7. crc.hi * 256 + crc.lo = WordOf(crc)
  <2>1. crc.hi \in Byte8 /\ crc.lo \in Byte8
    BY <1>2, BytesOfRegister
  <2>2. crc.hi \in Int /\ crc.lo \in Int
    BY <2>1, ByteIsInt
  <2> QED BY <2>2 DEF WordOf
<1> QED BY <1>2, <1>5, <1>6, <1>7 DEF crc

\* kcCrc16 with its two tables computes the remainder of the division by its
\* polynomial, from a register of ones, for every sequence of bytes.
THEOREM CrcIsRemainder ==
  ASSUME NEW data \in Seq(Byte8)
  PROVE  kcCrc16(data, Preset) = Remainder(data)
BY LastRegister

\* The CRC is a word.
LEMMA CrcType ==
  ASSUME NEW data \in Seq(Byte8)
  PROVE  kcCrc16(data, Preset) \in Nat /\ kcCrc16(data, Preset) < WordMod
<1> DEFINE crc == Registers(data, Preset)[Len(data)]
           high == crc.hi
           low == crc.lo
<1>1. crc \in Register /\ kcCrc16(data, Preset) = 256 * high + low
  BY LastRegister DEF WordOf
<1> HIDE DEF crc
<1>2. high \in Byte8 /\ low \in Byte8
  BY <1>1, BytesOfRegister
<1> HIDE DEF high, low
<1> QED BY <1>1, <1>2, WordOfBytes

\* Different registers stay different whatever byte follows, and different
\* bytes make a register different: the table of the low byte has no entry twice.
LEMMA StepsDiffer ==
  ASSUME NEW c \in Register, NEW d \in Register, NEW a \in Byte8, NEW b \in Byte8,
         c = d \/ a = b, Step(c, a) = Step(d, b)
  PROVE  c = d /\ a = b
<1> DEFINE x == XorByte[c.lo][a]
           y == XorByte[d.lo][b]
<1>1. /\ c.lo \in Byte8 /\ c.hi \in Byte8 /\ d.lo \in Byte8 /\ d.hi \in Byte8
      /\ c = [lo |-> c.lo, hi |-> c.hi] /\ d = [lo |-> d.lo, hi |-> d.hi]
  BY DEF Register
<1>2. x \in Byte8 /\ y \in Byte8
  BY <1>1, XorType, ZenonT(40) DEF Byte8
<1>3. /\ Step(c, a) = [lo |-> XorByte[c.hi][KC_CRC16_TAB_HIG[x + 1]],
                       hi |-> KC_CRC16_TAB_LOW[x + 1]]
      /\ Step(d, b) = [lo |-> XorByte[d.hi][KC_CRC16_TAB_HIG[y + 1]],
                       hi |-> KC_CRC16_TAB_LOW[y + 1]]
  BY DEF Step
<1>4. c.lo = d.lo /\ a # b => x # y
  BY ONLY <1>1, XorCancels, ZenonT(40) DEF Byte8
<1>5. a = b /\ x = y => c.lo = d.lo
  <2>1. ASSUME a = b, x = y PROVE c.lo = d.lo
    <3>1. XorByte[a][c.lo] = x /\ XorByte[a][d.lo] = y
      BY ONLY <1>1, <2>1, XorCommutes, ZenonT(40) DEF Byte8
    <3> HIDE DEF x, y
    <3> QED BY <1>1, <2>1, <3>1, XorCancels, ZenonT(40) DEF Byte8
  <2> QED BY <2>1
<1> HIDE DEF x, y
<1>6. [lo |-> XorByte[c.hi][KC_CRC16_TAB_HIG[x + 1]], hi |-> KC_CRC16_TAB_LOW[x + 1]]
        = [lo |-> XorByte[d.hi][KC_CRC16_TAB_HIG[y + 1]], hi |-> KC_CRC16_TAB_LOW[y + 1]]
  BY <1>3
<1>7. /\ KC_CRC16_TAB_LOW[x + 1] = KC_CRC16_TAB_LOW[y + 1]
      /\ XorByte[c.hi][KC_CRC16_TAB_HIG[x + 1]] = XorByte[d.hi][KC_CRC16_TAB_HIG[y + 1]]
  BY <1>6
<1>8. x = y /\ KC_CRC16_TAB_HIG[x + 1] \in Byte8
  BY <1>2, <1>7, TablesAssumption, ZenonT(40) DEF Byte8
<1>9. c.lo = d.lo /\ a = b
  BY <1>4, <1>5, <1>8
<1>10. c.hi = d.hi
  <2> DEFINE h == KC_CRC16_TAB_HIG[x + 1]
  <2>1. XorByte[c.hi][h] = XorByte[d.hi][h] /\ h \in Byte8
    BY <1>7, <1>8
  <2> HIDE DEF h
  <2>2. XorByte[h][c.hi] = XorByte[h][d.hi]
    BY <1>1, <2>1, XorCommutes, ZenonT(40) DEF Byte8
  <2> QED BY ONLY <1>1, <2>1, <2>2, XorCancels, ZenonT(40) DEF Byte8
<1> QED BY <1>1, <1>9, <1>10

\* Different registers stay different.
LEMMA RegistersStayDifferent ==
  ASSUME NEW c \in Register, NEW d \in Register, NEW a \in Byte8, c # d
  PROVE  Step(c, a) # Step(d, a)
BY StepsDiffer

\* Different bytes make the registers different.
LEMMA BytesMakeDifferent ==
  ASSUME NEW c \in Register, NEW a \in Byte8, NEW b \in Byte8, a # b
  PROVE  Step(c, a) # Step(c, b)
BY StepsDiffer

\* Whatever one byte of a datagram is changed to, its CRC changes: the damage
\* that FiveFifty has to notice.
THEOREM CrcNoticesDamage ==
  ASSUME NEW data \in Seq(Byte8), NEW i \in 1 .. Len(data), NEW b \in Byte8, b # data[i]
  PROVE  kcCrc16([data EXCEPT ![i] = b], Preset) # kcCrc16(data, Preset)
<1> DEFINE other == [data EXCEPT ![i] = b]
           n == Len(data)
           r == Registers(data, Preset)
           s == Registers(other, Preset)
<1>2. other \in Seq(Byte8) /\ Len(other) = n
  OBVIOUS
<1>3. n \in Nat /\ i \in 1 .. n
  OBVIOUS
<1>4. \A k \in 1 .. n : data[k] \in Byte8 /\ other[k] = IF k = i THEN b ELSE data[k]
  OBVIOUS
<1> HIDE DEF n
<1>5. /\ r \in [0 .. n -> Register]
      /\ \A k \in 1 .. n : r[k] = Step(r[k - 1], data[k])
  BY PresetRegisters DEF n
<1>6. /\ s \in [0 .. n -> Register] /\ s[0] = r[0]
      /\ \A k \in 1 .. n : s[k] = Step(s[k - 1], other[k])
  <2> HIDE DEF other
  <2> QED BY <1>2, PresetRegisters, Z3T(30)
<1> HIDE DEF r, s, other
<1> DEFINE S == {k \in 0 .. n : IF k < i THEN s[k] = r[k] ELSE s[k] # r[k]}
<1>7. 0 \in S
  BY <1>3, <1>6
<1>8. ASSUME NEW k \in 1 .. n, k - 1 \in S PROVE k \in S
  <2>1. /\ k \in 0 .. n /\ k - 1 \in 0 .. n
        /\ r[k - 1] \in Register /\ s[k - 1] \in Register
        /\ data[k] \in Byte8 /\ b \in Byte8
        /\ r[k] = Step(r[k - 1], data[k]) /\ s[k] = Step(s[k - 1], other[k])
    BY <1>3, <1>4, <1>5, <1>6
  <2>2. CASE k < i
    <3>1. s[k - 1] = r[k - 1] /\ other[k] = data[k]
      BY <1>3, <1>4, <1>8, <2>2
    <3> QED BY <2>1, <2>2, <3>1
  <2>3. CASE k = i
    <3>1. s[k - 1] = r[k - 1] /\ other[k] = b /\ b # data[k]
      BY <1>3, <1>4, <1>8, <2>3
    <3>2. s[k] # r[k]
      BY <2>1, <3>1, BytesMakeDifferent
    <3> QED BY <2>1, <2>3, <3>2
  <2>4. CASE k > i
    <3>1. s[k - 1] # r[k - 1] /\ other[k] = data[k]
      BY <1>3, <1>4, <1>8, <2>4
    <3>2. s[k] # r[k]
      BY <2>1, <3>1, RegistersStayDifferent
    <3> QED BY <1>3, <2>1, <2>4, <3>2
  <2> QED BY <1>3, <2>2, <2>3, <2>4
<1> HIDE DEF S
<1>9. \A k \in 0 .. n : k \in S
  BY <1>3, <1>7, <1>8, BoundedInduction
<1>10. n \in 0 .. n
  BY <1>3
<1>11. s[n] # r[n] /\ s[n] \in Register /\ r[n] \in Register
  <2>1. n \in S /\ ~(n < i)
    BY <1>3, <1>9, <1>10
  <2> QED BY <1>5, <1>6, <1>10, <2>1 DEF S
<1>12. WordOf(s[n]) # WordOf(r[n])
  BY <1>11, BytesOfRegister
<1>13. kcCrc16(other, Preset) = WordOf(s[n]) /\ kcCrc16(data, Preset) = WordOf(r[n])
  BY <1>2, LastRegister DEF n, s, r
<1>14. kcCrc16(other, Preset) # kcCrc16(data, Preset)
  BY <1>12, <1>13
<1> QED BY <1>14 DEF other

-----------------------------------------------------------------------------
(***************************************************************************)
(* The sums of words.                                                      *)
(***************************************************************************)

\* The values of a byte.
LEMMA ByteRange == \A x : x \in Byte8 <=> x \in Int /\ 0 <= x /\ x <= 255
BY DEF Byte8

\* The concatenation of two sequences of bytes.
LEMMA ConcatBytes ==
  ASSUME NEW s \in Seq(Byte8), NEW t \in Seq(Byte8)
  PROVE  /\ s \o t \in Seq(Byte8)
         /\ Len(s \o t) = Len(s) + Len(t)
         /\ \A i \in 1 .. Len(s) : (s \o t)[i] = s[i]
         /\ \A i \in 1 .. Len(t) : (s \o t)[Len(s) + i] = t[i]
<1>1. /\ s \o t \in Seq(Byte8)
      /\ Len(s \o t) = Len(s) + Len(t)
      /\ \A i \in 1 .. Len(s) + Len(t) :
           (s \o t)[i] = IF i <= Len(s) THEN s[i] ELSE t[i - Len(s)]
  BY ConcatProperties
<1>2. Len(s) \in Nat /\ Len(t) \in Nat
  BY LenProperties
<1>3. ASSUME NEW i \in 1 .. Len(s) PROVE (s \o t)[i] = s[i]
  BY <1>1, <1>2
<1>4. ASSUME NEW i \in 1 .. Len(t) PROVE (s \o t)[Len(s) + i] = t[i]
  <2>1. Len(s) + i \in 1 .. Len(s) + Len(t) /\ ~(Len(s) + i <= Len(s)) /\ (Len(s) + i) - Len(s) = i
    BY <1>2
  <2> QED BY <1>1, <2>1
<1> QED BY <1>1, <1>3, <1>4

\* A part of a sequence of bytes.
LEMMA SubBytes ==
  ASSUME NEW s \in Seq(Byte8), NEW a \in Nat \ {0}, NEW b \in Nat, a <= b + 1, b <= Len(s)
  PROVE  /\ SubSeq(s, a, b) \in Seq(Byte8)
         /\ Len(SubSeq(s, a, b)) = b + 1 - a
         /\ \A i \in 1 .. b + 1 - a : SubSeq(s, a, b)[i] = s[a + i - 1]
<1>1. \A i \in a .. b : s[i] \in Byte8
  BY ElementOfSeq, LenProperties
<1>2. a \in Int /\ b \in Int
  OBVIOUS
<1>3. /\ SubSeq(s, a, b) \in Seq(Byte8)
      /\ Len(SubSeq(s, a, b)) = IF a <= b THEN b - a + 1 ELSE 0
      /\ \A i \in 1 .. b - a + 1 : SubSeq(s, a, b)[i] = s[a + i - 1]
  BY <1>1, <1>2, SubSeqProperties
<1>4. b - a + 1 = b + 1 - a /\ (~(a <= b) => b + 1 - a = 0)
  OBVIOUS
<1> QED BY <1>3, <1>4

\* The words of a sequence are numbers of 16 bits.
LEMMA WordType ==
  ASSUME NEW bytes \in Seq(Byte8), NEW k \in 1 .. (Len(bytes) + 1) \div 2
  PROVE  /\ Word(bytes, k) \in Nat
         /\ Word(bytes, k) < WordMod
<1> DEFINE x == bytes[2 * k - 1]
           y == bytes[2 * k]
<1>1. Len(bytes) \in Nat
  OBVIOUS
<1>2. 2 * k - 1 \in 1 .. Len(bytes) /\ (~(2 * k > Len(bytes)) => 2 * k \in 1 .. Len(bytes))
  BY <1>1, SMT
<1>3. x \in Byte8 /\ (~(2 * k > Len(bytes)) => y \in Byte8)
  BY <1>2, ElementOfSeq
<1>4. Word(bytes, k) = x + IF 2 * k > Len(bytes) THEN 0 ELSE 256 * y
  BY DEF Word
<1> HIDE DEF x, y
<1>5. CASE 2 * k > Len(bytes)
  <2>1. Word(bytes, k) = x + 0
    BY <1>4, <1>5
  <2> QED BY <1>3, <2>1, ByteRange, SMT DEF WordMod
<1>6. CASE ~(2 * k > Len(bytes))
  <2>1. Word(bytes, k) = x + 256 * y
    BY <1>4, <1>6
  <2> QED BY ONLY <1>3, <1>6, <2>1, ByteRange, Z3T(30) DEF WordMod
<1> QED BY <1>5, <1>6

\* The sum after each word.
LEMMA SumsAreSteps ==
  ASSUME NEW bytes \in Seq(Byte8), NEW udpSum \in Nat
  PROVE  LET n == (Len(bytes) + 1) \div 2
             sum == Sums(bytes, udpSum)
         IN /\ sum \in [0 .. n -> Nat]
            /\ sum[0] = udpSum
            /\ \A k \in 1 .. n : sum[k] = sum[k - 1] + Word(bytes, k)
            /\ \A k \in 0 .. n : sum[k] <= udpSum + WordMod * k
<1> DEFINE n == (Len(bytes) + 1) \div 2
           g == [k \in 1 .. n |-> [s \in Nat |-> s + Word(bytes, k)]]
           r == Sums(bytes, udpSum)
<1>1. n \in Nat
  <2>1. \A m \in Nat : (m + 1) \div 2 \in Nat
    BY SMT
  <2>2. Len(bytes) \in Nat
    OBVIOUS
  <2> QED BY <2>1, <2>2
<1>2. \A k \in 1 .. n : Word(bytes, k) \in Nat /\ Word(bytes, k) < WordMod
  BY WordType
<1> HIDE DEF n, r
<1>3. g \in [1 .. n -> [Nat -> Nat]]
  BY <1>2
<1>4. \A k \in 1 .. n : \A s \in Nat : g[k][s] = s + Word(bytes, k)
  OBVIOUS
<1> HIDE DEF g
<1>5. PICK f \in [0 .. n -> Nat] : f[0] = udpSum /\ \A k \in 1 .. n : f[k] = g[k][f[k - 1]]
  <2>1. CanRecurse(n, Nat, udpSum, g)
    BY <1>1, <1>3, Recursion
  <2> QED BY <2>1 DEF CanRecurse, Recursive
<1>6. \A k \in 1 .. n : f[k] = f[k - 1] + Word(bytes, k)
  <2>1. \A k \in 1 .. n : f[k - 1] \in Nat
    BY <1>1, <1>5
  <2> QED BY <1>4, <1>5, <2>1
<1>7. f = [k \in 0 .. n |-> IF k = 0 THEN udpSum ELSE f[k - 1] + Word(bytes, k)]
  <2>1. \A k \in 0 .. n : k # 0 => k \in 1 .. n
    BY <1>1
  <2>2. \A k \in 0 .. n : f[k] = IF k = 0 THEN udpSum ELSE f[k - 1] + Word(bytes, k)
    BY <1>5, <1>6, <2>1
  <2> QED BY <1>5, <2>2
<1>8. r = [k \in 0 .. n |-> IF k = 0 THEN udpSum ELSE r[k - 1] + Word(bytes, k)]
  BY <1>7, Zenon DEF Sums, n, r
<1>9. r[0] = udpSum
  BY <1>1, <1>8
<1>10. \A k \in 1 .. n : r[k] = r[k - 1] + Word(bytes, k)
  <2>1. \A k \in 1 .. n : k \in 0 .. n /\ k # 0
    BY <1>1
  <2> QED BY <1>8, <2>1
<1> DEFINE S == {k \in 0 .. n : r[k] \in Nat /\ r[k] <= udpSum + WordMod * k}
<1>11. 0 \in S
  BY <1>1, <1>9, SMT DEF WordMod
<1>12. ASSUME NEW k \in 1 .. n, k - 1 \in S PROVE k \in S
  <2>1. /\ k \in 0 .. n /\ k - 1 \in 0 .. n /\ k \in Nat
        /\ r[k - 1] \in Nat /\ r[k - 1] <= udpSum + WordMod * (k - 1)
    BY <1>1, <1>12
  <2>2. r[k] = r[k - 1] + Word(bytes, k) /\ Word(bytes, k) \in Nat /\ Word(bytes, k) < WordMod
    BY <1>2, <1>10
  <2>3. r[k] \in Nat /\ r[k] <= udpSum + WordMod * k
    BY <2>1, <2>2, SMT DEF WordMod
  <2> QED BY <2>1, <2>3
<1> HIDE DEF S
<1>13. \A k \in 0 .. n : k \in S
  BY <1>1, <1>11, <1>12, BoundedInduction
<1>14. \A k \in 0 .. n : r[k] \in Nat /\ r[k] <= udpSum + WordMod * k
  BY <1>13 DEF S
<1>15. r \in [0 .. n -> Nat]
  BY <1>8, <1>14
<1> QED BY <1>9, <1>10, <1>14, <1>15 DEF n, r

\* The words of 16 bits.
LEMMA WordRange == \A x : x \in Word16 <=> x \in Int /\ 0 <= x /\ x < WordMod
BY WordModType DEF Word16

\* The same word, as the processor loads it and in network order.
LEMMA WordsCompared ==
  ASSUME NEW bytes \in Seq(Byte8), NEW k \in 1 .. (Len(bytes) + 1) \div 2
  PROVE  /\ NetworkWord(bytes, k) =
              256 * bytes[2 * k - 1] + IF 2 * k > Len(bytes) THEN 0 ELSE bytes[2 * k]
         /\ NetworkWord(bytes, k) \in Word16
         /\ \E z \in Int : 256 * Word(bytes, k) = NetworkWord(bytes, k) + (WordMod - 1) * z
<1> DEFINE x == bytes[2 * k - 1]
           y == IF 2 * k > Len(bytes) THEN 0 ELSE bytes[2 * k]
           padded == bytes \o <<0>>
<1>1. Len(bytes) \in Nat /\ k \in Nat
  OBVIOUS
<1>2. 2 * k - 1 \in 1 .. Len(bytes) /\ (~(2 * k > Len(bytes)) => 2 * k \in 1 .. Len(bytes))
  BY <1>1, SMT
<1>3. 2 * k <= Len(bytes) + 1
  BY <1>1, SMT
<1>4. x \in Byte8 /\ y \in Byte8
  <2>1. 0 \in Byte8
    BY ByteRange
  <2> QED BY <1>2, <2>1, ElementOfSeq
<1>5. <<0>> \in Seq(Byte8) /\ Len(<<0>>) = 1 /\ <<0>>[1] = 0 /\ 1 \in 1 .. Len(<<0>>)
  <2>1. 0 \in Byte8
    BY ByteRange
  <2> QED BY <2>1
<1>6. /\ padded \in Seq(Byte8)
      /\ Len(padded) = Len(bytes) + 1
      /\ \A i \in 1 .. Len(bytes) : padded[i] = bytes[i]
      /\ padded[Len(bytes) + 1] = 0
  BY <1>5, ConcatBytes
<1>7. padded[2 * k - 1] = x /\ padded[2 * k] = y
  <2> HIDE DEF padded
  <2>1. CASE 2 * k > Len(bytes)
    <3>1. 2 * k = Len(bytes) + 1
      BY <1>1, <1>3, <2>1, SMT
    <3> QED BY <1>2, <1>6, <2>1, <3>1
  <2>2. CASE ~(2 * k > Len(bytes))
    BY <1>2, <1>6, <2>2
  <2> QED BY <2>1, <2>2
<1>8. NetworkWord(bytes, k) = x * 256 + y
  <2> DEFINE w == SubSeq(padded, 2 * k - 1, 2 * k)
  <2>1. /\ 2 * k - 1 \in Nat \ {0} /\ 2 * k \in Nat
        /\ 2 * k - 1 <= 2 * k + 1 /\ 2 * k <= Len(padded)
        /\ 2 * k + 1 - (2 * k - 1) = 2
        /\ (2 * k - 1) + 1 - 1 = 2 * k - 1 /\ (2 * k - 1) + 2 - 1 = 2 * k
    <3> HIDE DEF padded
    <3> QED BY <1>1, <1>2, <1>3, <1>6
  <2>2. w[1] = padded[2 * k - 1] /\ w[2] = padded[2 * k]
    <3> HIDE DEF padded
    <3> DEFINE a == 2 * k - 1
               b == 2 * k
    <3>1. /\ a \in Nat \ {0} /\ b \in Nat /\ a <= b + 1 /\ b <= Len(padded)
          /\ b + 1 - a = 2 /\ a + 1 - 1 = a /\ a + 2 - 1 = b
      BY <2>1
    <3> HIDE DEF a, b
    <3>2. \A i \in 1 .. b + 1 - a : SubSeq(padded, a, b)[i] = padded[a + i - 1]
      BY <1>6, <3>1, SubBytes
    <3>3. SubSeq(padded, a, b)[1] = padded[a] /\ SubSeq(padded, a, b)[2] = padded[b]
      BY <3>1, <3>2
    <3> QED BY <3>3 DEF a, b
  <2>3. w[1] = x /\ w[2] = y
    BY <1>7, <2>2
  <2>4. NetworkWord(bytes, k) = w[1] * 256 + w[2]
    BY DEF NetworkWord, Val16FromBytes
  <2> QED BY <2>3, <2>4
<1>9. Word(bytes, k) = x + 256 * y
  <2>1. CASE 2 * k > Len(bytes)
    <3>1. y = 0 /\ Word(bytes, k) = x + 0
      BY <2>1 DEF Word
    <3> HIDE DEF x, y
    <3>2. x \in Int
      BY <1>4, ByteIsInt
    <3> QED BY <3>1, <3>2
  <2>2. CASE ~(2 * k > Len(bytes))
    BY <2>2 DEF Word
  <2> QED BY <2>1, <2>2
<1> HIDE DEF x, y
<1>10. x \in Int /\ 0 <= x /\ x <= 255 /\ y \in Int /\ 0 <= y /\ y <= 255
  BY <1>4, ByteRange
<1>11. x * 256 + y = 256 * x + y /\ 256 * x + y \in Word16
  BY <1>10, WordRange, SMT DEF WordMod
<1>12. 256 * (x + 256 * y) = (x * 256 + y) + (WordMod - 1) * y
  BY <1>10, SMT DEF WordMod
<1>13. \E z \in Int : 256 * Word(bytes, k) = NetworkWord(bytes, k) + (WordMod - 1) * z
  BY <1>8, <1>9, <1>10, <1>12
<1> QED BY <1>8, <1>11, <1>13 DEF x, y

\* A sum with end-around carry is one modulo 65535, and never zero again.
LEMMA OnesAddType ==
  ASSUME NEW a \in Word16, NEW b \in Word16
  PROVE  /\ OnesAdd(a, b) \in Word16
         /\ a > 0 \/ b > 0 => OnesAdd(a, b) > 0
         /\ \E z \in Int : a + b = OnesAdd(a, b) + (WordMod - 1) * z
<1>1. a \in Int /\ 0 <= a /\ a < WordMod /\ b \in Int /\ 0 <= b /\ b < WordMod
  BY WordRange
<1>2. CASE a + b >= WordMod
  <2>1. OnesAdd(a, b) = a + b - (WordMod - 1)
    BY <1>2 DEF OnesAdd
  <2>2. a + b = OnesAdd(a, b) + (WordMod - 1) * 1
    BY <1>1, <2>1, SMT DEF WordMod
  <2>3. OnesAdd(a, b) \in Int /\ 0 < OnesAdd(a, b) /\ OnesAdd(a, b) < WordMod
    BY <1>1, <1>2, <2>1, SMT DEF WordMod
  <2> QED BY <2>2, <2>3, WordRange
<1>3. CASE ~(a + b >= WordMod)
  <2>1. OnesAdd(a, b) = a + b
    BY <1>3 DEF OnesAdd
  <2>2. a + b = OnesAdd(a, b) + (WordMod - 1) * 0
    BY <1>1, <2>1, SMT DEF WordMod
  <2>3. /\ OnesAdd(a, b) \in Int /\ 0 <= OnesAdd(a, b) /\ OnesAdd(a, b) < WordMod
        /\ a > 0 \/ b > 0 => OnesAdd(a, b) > 0
    BY <1>1, <1>3, <2>1, SMT DEF WordMod
  <2> QED BY <2>2, <2>3, WordRange
<1> QED BY <1>2, <1>3

\* The receiver's sum after each word.
LEMMA NetworkSumsAreSteps ==
  ASSUME NEW bytes \in Seq(Byte8)
  PROVE  LET n == (Len(bytes) + 1) \div 2
             sum == NetworkSums(bytes)
         IN /\ sum \in [0 .. n -> Word16]
            /\ sum[0] = 0
            /\ \A k \in 1 .. n : sum[k] = OnesAdd(sum[k - 1], NetworkWord(bytes, k))
<1> DEFINE n == (Len(bytes) + 1) \div 2
           g == [k \in 1 .. n |-> [s \in Word16 |-> OnesAdd(s, NetworkWord(bytes, k))]]
           r == NetworkSums(bytes)
<1>1. n \in Nat
  <2>1. \A m \in Nat : (m + 1) \div 2 \in Nat
    BY SMT
  <2>2. Len(bytes) \in Nat
    OBVIOUS
  <2> QED BY <2>1, <2>2
<1>2. \A k \in 1 .. n : NetworkWord(bytes, k) \in Word16
  BY WordsCompared
<1> HIDE DEF n, r
<1>3. \A k \in 1 .. n : \A s \in Word16 : OnesAdd(s, NetworkWord(bytes, k)) \in Word16
  BY <1>2, OnesAddType
<1>4. 0 \in Word16
  BY WordRange, WordModType
<1>5. g \in [1 .. n -> [Word16 -> Word16]]
  BY <1>3
<1>6. \A k \in 1 .. n : \A s \in Word16 : g[k][s] = OnesAdd(s, NetworkWord(bytes, k))
  OBVIOUS
<1> HIDE DEF g
<1>7. PICK f \in [0 .. n -> Word16] : f[0] = 0 /\ \A k \in 1 .. n : f[k] = g[k][f[k - 1]]
  <2>1. CanRecurse(n, Word16, 0, g)
    BY <1>1, <1>4, <1>5, Recursion
  <2> QED BY <2>1 DEF CanRecurse, Recursive
<1>8. \A k \in 1 .. n : f[k] = OnesAdd(f[k - 1], NetworkWord(bytes, k))
  <2>1. \A k \in 1 .. n : f[k - 1] \in Word16
    BY <1>1, <1>7
  <2> QED BY <1>6, <1>7, <2>1
<1>9. f = [k \in 0 .. n |-> IF k = 0 THEN 0 ELSE OnesAdd(f[k - 1], NetworkWord(bytes, k))]
  <2>1. \A k \in 0 .. n : k # 0 => k \in 1 .. n
    BY <1>1
  <2>2. \A k \in 0 .. n : f[k] = IF k = 0 THEN 0 ELSE OnesAdd(f[k - 1], NetworkWord(bytes, k))
    BY <1>7, <1>8, <2>1
  <2> QED BY <1>7, <2>2
<1>10. r = [k \in 0 .. n |-> IF k = 0 THEN 0 ELSE OnesAdd(r[k - 1], NetworkWord(bytes, k))]
  BY <1>9, Zenon DEF NetworkSums, n, r
<1>11. r[0] = 0
  BY <1>1, <1>10
<1>12. \A k \in 1 .. n : r[k] = OnesAdd(r[k - 1], NetworkWord(bytes, k))
  <2>1. \A k \in 1 .. n : k \in 0 .. n /\ k # 0
    BY <1>1
  <2> QED BY <1>10, <2>1
<1> DEFINE S == {k \in 0 .. n : r[k] \in Word16}
<1>13. 0 \in S
  BY <1>1, <1>4, <1>11
<1>14. ASSUME NEW k \in 1 .. n, k - 1 \in S PROVE k \in S
  <2>1. k \in 0 .. n /\ r[k - 1] \in Word16
    BY <1>1, <1>14
  <2>2. r[k] = OnesAdd(r[k - 1], NetworkWord(bytes, k))
    BY <1>12
  <2> QED BY <1>3, <2>1, <2>2
<1> HIDE DEF S
<1>15. \A k \in 0 .. n : k \in S
  BY <1>1, <1>13, <1>14, BoundedInduction
<1>16. r \in [0 .. n -> Word16]
  <2>1. \A k \in 0 .. n : r[k] \in Word16
    BY <1>15 DEF S
  <2> QED BY <1>10, <2>1
<1> QED BY <1>11, <1>12, <1>16 DEF n, r

\* Equal modulo 65535.
Congruent(a, b) == \E z \in Int : a = b + (WordMod - 1) * z

\* Congruent numbers may be added.
LEMMA CongruentSums ==
  ASSUME NEW a \in Int, NEW b \in Int, NEW c \in Int, NEW d \in Int,
         Congruent(a, b), Congruent(c, d)
  PROVE  Congruent(a + c, b + d)
<1>1. PICK z \in Int : a = b + (WordMod - 1) * z
  BY DEF Congruent
<1>2. PICK y \in Int : c = d + (WordMod - 1) * y
  BY DEF Congruent
<1>3. z + y \in Int /\ a + c = (b + d) + (WordMod - 1) * (z + y)
  BY <1>1, <1>2, SMT DEF WordMod
<1> QED BY <1>3 DEF Congruent

\* Congruence is transitive.
LEMMA CongruentChain ==
  ASSUME NEW a \in Int, NEW b \in Int, NEW c \in Int, Congruent(a, b), Congruent(b, c)
  PROVE  Congruent(a, c)
<1>1. PICK z \in Int : a = b + (WordMod - 1) * z
  BY DEF Congruent
<1>2. PICK y \in Int : b = c + (WordMod - 1) * y
  BY DEF Congruent
<1>3. z + y \in Int /\ a = c + (WordMod - 1) * (z + y)
  BY <1>1, <1>2, SMT DEF WordMod
<1> QED BY <1>3 DEF Congruent

\* One more word on both sides: as the processor adds it and as the receiver does.
LEMMA CongruentStep ==
  ASSUME NEW s \in Int, NEW w \in Int, NEW sum \in Word16, NEW word \in Word16,
         Congruent(256 * s, sum), Congruent(256 * w, word)
  PROVE  Congruent(256 * (s + w), OnesAdd(sum, word))
<1>1. sum \in Int /\ word \in Int /\ OnesAdd(sum, word) \in Int
  BY WordRange, OnesAddType
<1>2. Congruent(sum + word, OnesAdd(sum, word))
  BY OnesAddType DEF Congruent
<1>3. 256 * s \in Int /\ 256 * w \in Int /\ 256 * s + 256 * w = 256 * (s + w)
      /\ sum + word \in Int /\ 256 * (s + w) \in Int
  BY <1>1, SMT
<1>4. Congruent(256 * s + 256 * w, sum + word)
  BY <1>1, <1>3, CongruentSums
<1>5. Congruent(256 * (s + w), sum + word)
  BY <1>3, <1>4
<1> QED BY <1>1, <1>2, <1>3, <1>5, CongruentChain

\* The checksum in network order is 256 times the one in the processor's order.
LEMMA CongruentSwap ==
  ASSUME NEW val \in Word16
  PROVE  pg_bswap16(val) \in Word16 /\ Congruent(256 * val, pg_bswap16(val))
<1>1. val \in Int /\ 0 <= val /\ val < WordMod
  BY WordRange
<1> DEFINE high == val \div 256
           low == val % 256
<1>2. high \in Byte8 /\ low \in Byte8 /\ val = 256 * high + low
  <2>1. high \in Int /\ 0 <= high /\ high <= 255 /\ low \in Int /\ 0 <= low /\ low <= 255
        /\ val = 256 * high + low
    BY <1>1, SMT DEF WordMod
  <2> HIDE DEF high, low
  <2> QED BY <2>1, ByteRange
<1>3. pg_bswap16(val) = low * 256 + high
  BY DEF pg_bswap16
<1> HIDE DEF high, low
<1>4. high \in Int /\ 0 <= high /\ high <= 255 /\ low \in Int /\ 0 <= low /\ low <= 255
  BY <1>2, ByteRange
<1>5. /\ pg_bswap16(val) \in Int /\ 0 <= pg_bswap16(val) /\ pg_bswap16(val) < WordMod
      /\ 256 * val = pg_bswap16(val) + (WordMod - 1) * high
  BY <1>2, <1>3, <1>4, SMT DEF WordMod
<1> QED BY <1>4, <1>5, WordRange DEF Congruent

\* The numbers of 32 bits.
LEMMA Word32Range == \A x : x \in Word32 <=> x \in Int /\ 0 <= x /\ x < WordMod * WordMod
<1>1. WordMod * WordMod \in Int
  BY WordModType
<1> QED BY <1>1 DEF Word32

\* The length of a message in words.
LEMMA HalfLength ==
  ASSUME NEW m \in Nat, m < WordMod
  PROVE  /\ (m + 1) \div 2 \in Nat
         /\ 10 * WordMod + WordMod * ((m + 1) \div 2) < WordMod * WordMod
         /\ ((20 + m) + 1) \div 2 = 10 + ((m + 1) \div 2)
<1> DEFINE q == (m + 1) \div 2
<1>1. q \in Nat /\ 2 * q <= m + 1 /\ ((20 + m) + 1) \div 2 = 10 + q
  BY SMT
<1> HIDE DEF q
<1>2. 10 * WordMod + WordMod * q < WordMod * WordMod
  BY <1>1, SMT DEF WordMod
<1> QED BY <1>1, <1>2 DEF q

\* The checksum over a header of 20 bytes and a message completes the receiver's
\* sum, whatever the bytes are: all bits of the sum are set.
LEMMA ChecksumVerifies ==
  ASSUME NEW head \in Seq(Byte8), NEW msg \in Seq(Byte8), NEW T \in Seq(Byte8),
         Len(head) = 20, head[9] = 0, head[10] = 17, head[19] = 0, head[20] = 0,
         Len(msg) < WordMod, Len(T) = 20 + Len(msg),
         \A i \in 1 .. 18 : T[i] = head[i],
         \A i \in 1 .. Len(msg) : T[20 + i] = msg[i],
         256 * T[19] + T[20]
           = pg_bswap16(Complement(Folded(kcCheckUdpSumV1(msg, kcCheckUdpSumV1(head, 0)))))
  PROVE  NetworkSum(T) = WordMod - 1
<1> DEFINE m == Len(msg)
           q == (m + 1) \div 2
           h == Sums(head, 0)
           u == Sums(msg, h[10])
           comp == Complement(Folded(u[q]))
           N == NetworkSums(T)
<1>1. /\ m \in Nat /\ m < WordMod /\ q \in Nat /\ (Len(T) + 1) \div 2 = 10 + q
      /\ 10 * WordMod + WordMod * q < WordMod * WordMod
  <2>1. m \in Nat
    OBVIOUS
  <2> HIDE DEF m
  <2> QED BY <2>1, HalfLength DEF m
<1>2. (Len(head) + 1) \div 2 = 10
  BY SMT
<1> HIDE DEF m
\* the three functions
<1>3. /\ h \in [0 .. 10 -> Nat]
      /\ h[0] = 0
      /\ \A k \in 1 .. 10 : h[k] = h[k - 1] + Word(head, k)
      /\ \A k \in 0 .. 10 : h[k] <= 0 + WordMod * k
  <2> DEFINE n == (Len(head) + 1) \div 2
  <2>1. 0 \in Nat
    OBVIOUS
  <2>2. /\ h \in [0 .. n -> Nat]
        /\ h[0] = 0
        /\ \A k \in 1 .. n : h[k] = h[k - 1] + Word(head, k)
        /\ \A k \in 0 .. n : h[k] <= 0 + WordMod * k
    BY <2>1, SumsAreSteps
  <2>3. n = 10
    BY <1>2
  <2> HIDE DEF n, h
  <2> QED BY <2>2, <2>3
<1> HIDE DEF h
<1>4. h[10] \in Nat /\ h[10] <= 0 + WordMod * 10
  BY <1>3
<1>5. /\ u \in [0 .. q -> Nat]
      /\ u[0] = h[10]
      /\ \A k \in 1 .. q : u[k] = u[k - 1] + Word(msg, k)
      /\ \A k \in 0 .. q : u[k] <= h[10] + WordMod * k
  BY ONLY <1>4, SumsAreSteps DEF m
<1>6. /\ N \in [0 .. 10 + q -> Word16]
      /\ N[0] = 0
      /\ \A k \in 1 .. 10 + q : N[k] = OnesAdd(N[k - 1], NetworkWord(T, k))
  <2> HIDE DEF N, q
  <2> QED BY ONLY <1>1, NetworkSumsAreSteps DEF N
<1>7. kcCheckUdpSumV1(head, 0) = h[10] /\ kcCheckUdpSumV1(msg, h[10]) = u[q]
  BY <1>2 DEF kcCheckUdpSumV1, h, m
<1> HIDE DEF u, N, q
\* the checksum
<1>8. u[q] \in Word32
  <2>1. q \in 0 .. q /\ u[q] \in Nat /\ u[q] <= h[10] + WordMod * q
    BY <1>1, <1>5
  <2>2. u[q] < WordMod * WordMod
    <3> DEFINE a == WordMod * q
               b == WordMod * WordMod
    <3>1. a \in Int /\ b \in Int /\ WordMod \in Int
      BY <1>1, WordModType
    <3>2. u[q] <= h[10] + a /\ 10 * WordMod + a < b
      BY <1>1, <2>1
    <3>3. u[q] \in Int /\ h[10] \in Int /\ h[10] <= 10 * WordMod
      BY ONLY <1>4, <2>1, <3>1, Z3T(30)
    <3> DEFINE x == u[q]
               y == h[10]
    <3>4. x \in Int /\ y \in Int /\ y <= 10 * WordMod /\ x <= y + a
      BY <3>2, <3>3
    <3> HIDE DEF a, b, x, y
    <3>5. x < b
      BY <3>1, <3>2, <3>4
    <3> QED BY <3>5 DEF b, x
  <2> QED BY <2>1, <2>2, Word32Range
<1>9. /\ comp \in Word16
      /\ \E k \in Nat : u[q] + comp = (WordMod - 1) * k
  BY <1>8, ChecksumCompletesSum
<1>10. 256 * T[19] + T[20] = pg_bswap16(comp)
  BY <1>7 DEF comp
<1> HIDE DEF comp
<1>11. comp \in Int
  BY <1>9, WordRange
\* the words
<1> DEFINE t == Len(T)
<1>12. t = 20 + m /\ Len(msg) = m /\ Len(T) = t
  BY DEF m
<1>0. m \in Nat /\ q \in Nat
  BY <1>1
<1> HIDE DEF t
<1>13. ASSUME NEW k \in 1 .. 9
       PROVE  /\ NetworkWord(T, k) \in Word16
              /\ NetworkWord(T, k) = 256 * head[2 * k - 1] + head[2 * k]
              /\ Congruent(256 * Word(head, k), NetworkWord(T, k))
  <2> DEFINE a == 2 * k - 1
             b == 2 * k
  <2>1. /\ k \in 1 .. 10 /\ k \in 1 .. 10 + q
        /\ ~(b > 20) /\ ~(b > t) /\ a \in 1 .. 18 /\ b \in 1 .. 18
    <3>1. t \in Int /\ t >= 20
      BY <1>0, <1>12
    <3>2. a \in 1 .. 18 /\ b \in 1 .. 18 /\ k \in 1 .. 10
      OBVIOUS
    <3>3. k \in 1 .. 10 + q
      BY <1>0
    <3> HIDE DEF a, b
    <3> QED BY ONLY <3>1, <3>2, <3>3
  <2>2. k \in 1 .. (Len(head) + 1) \div 2 /\ k \in 1 .. (Len(T) + 1) \div 2
    BY <1>1, <1>2, <2>1
  <2>3. /\ NetworkWord(T, k) = 256 * T[a] + IF b > Len(T) THEN 0 ELSE T[b]
        /\ NetworkWord(T, k) \in Word16
    BY ONLY <2>2, WordsCompared
  <2>4. NetworkWord(head, k) = 256 * head[a] + IF b > Len(head) THEN 0 ELSE head[b]
    BY ONLY <2>2, WordsCompared
  <2>5. Congruent(256 * Word(head, k), NetworkWord(head, k))
    BY ONLY <2>2, WordsCompared DEF Congruent
  <2> HIDE DEF a, b
  <2>6. T[a] = head[a] /\ T[b] = head[b]
    BY <2>1
  <2>7. NetworkWord(T, k) = 256 * head[a] + head[b] /\ NetworkWord(T, k) = NetworkWord(head, k)
    BY <1>12, <2>1, <2>3, <2>4, <2>6
  <2> QED BY <2>3, <2>5, <2>7 DEF a, b
<1>14. ASSUME NEW j \in 1 .. q
       PROVE  /\ NetworkWord(T, 10 + j) \in Word16
              /\ Congruent(256 * Word(msg, j), NetworkWord(T, 10 + j))
  <2> DEFINE k == 10 + j
             a == 2 * j - 1
             b == 2 * j
             c == 2 * k - 1
             d == 2 * k
  <2>1. k \in 1 .. 10 + q /\ a \in Int /\ b \in Int /\ c = 20 + a /\ d = 20 + b
    BY <1>1
  <2>2. a \in 1 .. m /\ (~(b > m) => b \in 1 .. m)
    <3>1. j \in 1 .. (m + 1) \div 2
      BY DEF q
    <3> QED BY <1>1, <3>1, SMT
  <2>3. k \in 1 .. (Len(T) + 1) \div 2 /\ j \in 1 .. (Len(msg) + 1) \div 2
    <3>1. j \in 1 .. (Len(msg) + 1) \div 2
      BY DEF q, m
    <3> QED BY <1>1, <2>1, <3>1
  <2> HIDE DEF k
  <2>4. /\ NetworkWord(T, k) = 256 * T[c] + IF d > Len(T) THEN 0 ELSE T[d]
        /\ NetworkWord(T, k) \in Word16
    BY ONLY <2>3, WordsCompared
  <2>5. NetworkWord(msg, j) = 256 * msg[a] + IF b > Len(msg) THEN 0 ELSE msg[b]
    BY <2>3, WordsCompared
  <2>6. Congruent(256 * Word(msg, j), NetworkWord(msg, j))
    BY ONLY <2>3, WordsCompared, Z3T(30) DEF Congruent
  <2> HIDE DEF a, b, c, d
  <2>7. T[c] = msg[a]
    BY <1>12, <2>1, <2>2
  <2>8. (d > Len(T)) = (b > Len(msg))
    BY <1>1, <1>12, <2>1
  <2>9. ~(b > Len(msg)) => T[d] = msg[b]
    BY <1>12, <2>1, <2>2
  <2>10. NetworkWord(T, k) = NetworkWord(msg, j)
    BY <2>4, <2>5, <2>7, <2>8, <2>9
  <2> QED BY <2>4, <2>6, <2>10 DEF k
<1>15. ASSUME NEW k \in 1 .. 10 PROVE Word(head, k) \in Int
  <2>1. k \in 1 .. (Len(head) + 1) \div 2
    BY <1>2
  <2>2. Word(head, k) \in Nat
    BY <2>1, WordType
  <2> QED BY <2>2
<1>16. ASSUME NEW j \in 1 .. q PROVE Word(msg, j) \in Int
  <2>1. j \in 1 .. (Len(msg) + 1) \div 2
    BY DEF q, m
  <2> QED BY <2>1, WordType
\* the header
<1> DEFINE S == {k \in 0 .. 9 : Congruent(256 * h[k], N[k]) /\ (k >= 5 => N[k] > 0)}
<1>17. \A k \in 0 .. 10 + q : N[k] \in Word16 /\ N[k] \in Int /\ N[k] >= 0
  BY <1>6, WordRange
<1>18. 0 \in S
  <2>1. 0 = 0 + (WordMod - 1) * 0
    BY WordModType
  <2>2. Congruent(0, 0)
    BY <2>1 DEF Congruent
  <2>3. 256 * h[0] = 0
    BY <1>3
  <2> QED BY <1>6, <2>2, <2>3
<1>19. ASSUME NEW k \in 1 .. 9, k - 1 \in S PROVE k \in S
  <2> DEFINE s == h[k - 1]
             w == Word(head, k)
             word == NetworkWord(T, k)
  <2>1. /\ k \in 1 .. 10 /\ k \in 1 .. 10 + q /\ k - 1 \in 0 .. 10
        /\ k - 1 \in 0 .. 10 + q /\ k \in 0 .. 9
    BY ONLY <1>0
  <2>2. h[k] = s + w /\ N[k] = OnesAdd(N[k - 1], word)
    BY <1>3, <1>6, <2>1
  <2>3. s \in Int /\ w \in Int /\ N[k - 1] \in Word16 /\ N[k - 1] >= 0
    <3>1. h[k - 1] \in Nat
      BY <1>3, <2>1
    <3>2. w \in Int
      BY <1>15, <2>1
    <3>3. N[k - 1] \in Word16 /\ N[k - 1] >= 0
      BY <1>17, <2>1
    <3> QED BY <3>1, <3>2, <3>3
  <2>4. word \in Word16 /\ Congruent(256 * w, word)
    BY <1>13
  <2>5. Congruent(256 * s, N[k - 1]) /\ (k - 1 >= 5 => N[k - 1] > 0)
    BY <1>19
  <2>6. k = 5 => word > 0
    <3>1. ASSUME k = 5 PROVE word > 0
      <4>1. word = 256 * head[9] + head[10]
        BY ONLY <1>13, <3>1
      <4> QED BY <4>1
    <3> QED BY <3>1
  <2> HIDE DEF s, w, word
  <2>7. Congruent(256 * (s + w), OnesAdd(N[k - 1], word))
    BY ONLY <2>3, <2>4, <2>5, CongruentStep, ZenonT(40)
  <2>8. k >= 5 => OnesAdd(N[k - 1], word) > 0
    <3>1. ASSUME k >= 5 PROVE OnesAdd(N[k - 1], word) > 0
      <4>1. N[k - 1] > 0 \/ word > 0
        BY <2>5, <2>6, <3>1
      <4> QED BY <2>3, <2>4, <4>1, OnesAddType
    <3> QED BY <3>1
  <2> QED BY <2>1, <2>2, <2>7, <2>8
<1> HIDE DEF S
<1>20. Congruent(256 * h[9], N[9]) /\ N[9] > 0
  <2>1. 9 \in Nat /\ 9 \in 0 .. 9
    OBVIOUS
  <2>2. 9 \in S
    BY <1>18, <1>19, <2>1, BoundedInduction
  <2> QED BY <2>2 DEF S
\* the word of the checksum
<1>21. Congruent(256 * (h[10] + comp), N[10]) /\ N[10] > 0
  <2>1. h[10] = h[9] /\ h[9] \in Int
    <3>1. h[10] = h[10 - 1] + Word(head, 10) /\ h[9] \in Nat
      BY <1>3
    <3>2. Word(head, 10) = 0
      BY SMT DEF Word
    <3> QED BY <3>1, <3>2
  <2>2. /\ 10 \in 1 .. 10 + q /\ 9 \in 0 .. 10 + q /\ 10 \in 1 .. (Len(T) + 1) \div 2
        /\ ~(20 > t)
    BY <1>1, <1>12
  <2>3. N[10] = OnesAdd(N[9], NetworkWord(T, 10)) /\ N[9] \in Word16
    <3>1. N[10] = OnesAdd(N[10 - 1], NetworkWord(T, 10))
      BY <1>6, <2>2
    <3> QED BY <1>17, <2>2, <3>1
  <2>4. NetworkWord(T, 10) = pg_bswap16(comp)
    <3>1. NetworkWord(T, 10) = 256 * T[2 * 10 - 1] + IF 2 * 10 > Len(T) THEN 0 ELSE T[2 * 10]
      BY ONLY <2>2, WordsCompared
    <3> QED BY <1>10, <1>12, <2>2, <3>1
  <2>5. pg_bswap16(comp) \in Word16 /\ Congruent(256 * comp, pg_bswap16(comp))
    BY <1>9, CongruentSwap
  <2>6. Congruent(256 * (h[9] + comp), OnesAdd(N[9], pg_bswap16(comp)))
    BY ONLY <1>11, <1>20, <2>1, <2>3, <2>5, CongruentStep, Z3T(30)
  <2>7. OnesAdd(N[9], pg_bswap16(comp)) > 0
    BY <1>20, <2>3, <2>5, OnesAddType
  <2> QED BY <2>1, <2>3, <2>4, <2>6, <2>7
\* the message
<1> DEFINE R == {j \in 0 .. q : Congruent(256 * (u[j] + comp), N[10 + j]) /\ N[10 + j] > 0}
<1>22. 0 \in R
  <2>1. 0 \in 0 .. q /\ 10 + 0 = 10
    BY <1>1
  <2> QED BY <1>5, <1>21, <2>1
<1>23. ASSUME NEW j \in 1 .. q, j - 1 \in R PROVE j \in R
  <2> DEFINE s == u[j - 1]
             w == Word(msg, j)
             word == NetworkWord(T, 10 + j)
             sum == N[10 + (j - 1)]
  <2>1. /\ 10 + j \in 1 .. 10 + q /\ 10 + (j - 1) \in 0 .. 10 + q /\ j - 1 \in 0 .. q
        /\ (10 + j) - 1 = 10 + (j - 1) /\ j \in 0 .. q
    BY <1>0
  <2>2. u[j] = s + w /\ N[10 + j] = OnesAdd(sum, word)
    BY <1>5, <1>6, <2>1
  <2>3. s \in Int /\ w \in Int /\ sum \in Word16
    <3>1. u[j - 1] \in Nat
      BY <1>5, <2>1
    <3>2. w \in Int
      BY <1>16
    <3>3. sum \in Word16
      BY <1>17, <2>1
    <3> QED BY <3>1, <3>2, <3>3
  <2>4. word \in Word16 /\ Congruent(256 * w, word)
    BY <1>14
  <2>5. Congruent(256 * (s + comp), sum) /\ sum > 0
    BY <1>23
  <2> HIDE DEF s, w, word, sum
  <2>6. s + comp \in Int /\ (s + comp) + w = (s + w) + comp
    BY <1>11, <2>3
  <2>7. Congruent(256 * ((s + comp) + w), OnesAdd(sum, word))
    BY ONLY <2>3, <2>4, <2>5, <2>6, CongruentStep, Z3T(30)
  <2>8. OnesAdd(sum, word) > 0
    BY <2>3, <2>4, <2>5, OnesAddType
  <2> QED BY <2>1, <2>2, <2>6, <2>7, <2>8
<1> HIDE DEF R
<1>24. Congruent(256 * (u[q] + comp), N[10 + q]) /\ N[10 + q] > 0
  <2>1. q \in 0 .. q
    BY <1>1
  <2>2. q \in R
    BY <1>1, <1>22, <1>23, <2>1, BoundedInduction
  <2> QED BY <2>2 DEF R
\* a positive multiple of 65535 below 65536
<1>25. N[10 + q] = WordMod - 1
  <2>1. PICK z \in Int : 256 * (u[q] + comp) = N[10 + q] + (WordMod - 1) * z
    BY <1>24 DEF Congruent
  <2>2. PICK k \in Nat : u[q] + comp = (WordMod - 1) * k
    BY <1>9
  <2>3. 10 + q \in 0 .. 10 + q
    BY <1>1
  <2> DEFINE x == N[10 + q]
  <2>4. x \in Int /\ 0 < x /\ x < WordMod
    BY <1>17, <1>24, <2>3, WordRange
  <2>5. 256 * ((WordMod - 1) * k) = x + (WordMod - 1) * z
    BY <2>1, <2>2
  <2> HIDE DEF x
  <2> DEFINE y == 256 * k - z
  <2>6. y \in Int /\ x = (WordMod - 1) * y
    BY <2>4, <2>5, SMT DEF WordMod
  <2> HIDE DEF y
  <2>7. y = 1
    BY <2>4, <2>6, SMT DEF WordMod
  <2>8. x = WordMod - 1
    BY <2>6, <2>7, SMT DEF WordMod
  <2> QED BY <2>8 DEF x
<1> QED BY <1>1, <1>25 DEF NetworkSum, N

-----------------------------------------------------------------------------
(***************************************************************************)
(* Packets: where their parts lie, and that the receiver accepts them.     *)
(***************************************************************************)
\* The text part lies in bytes, behind the first n.
Lies(bytes, n, part) == \A i \in 1 .. Len(part) : bytes[n + i] = part[i]

\* The parts, each behind so many bytes, lie in bytes.
Laid(bytes, parts) ==
  /\ bytes \in Seq(Byte8)
  /\ \A x \in parts : /\ x[1] \in Nat /\ x[2] \in Seq(Byte8)
                      /\ x[1] + Len(x[2]) <= Len(bytes)
                      /\ Lies(bytes, x[1], x[2])

\* A part alone.
LEMMA LaidAlone ==
  ASSUME NEW s \in Seq(Byte8)
  PROVE  Laid(s, {<<0, s>>})
<1>1. Len(s) \in Nat /\ 0 + Len(s) = Len(s)
  BY LenProperties
<1>2. \A i \in 1 .. Len(s) : 0 + i = i
  BY <1>1
<1> QED BY <1>1, <1>2 DEF Laid, Lies

\* Appending puts a part at the end and moves nothing.
LEMMA Appended ==
  ASSUME NEW s, NEW parts, Laid(s, parts), NEW t \in Seq(Byte8), NEW n, n = Len(s)
  PROVE  /\ Laid(s \o t, parts \cup {<<n, t>>})
         /\ Len(s \o t) = n + Len(t)
<1>1. s \in Seq(Byte8) /\ Len(s) \in Nat /\ Len(t) \in Nat
  BY LenProperties DEF Laid
<1>2. /\ s \o t \in Seq(Byte8)
      /\ Len(s \o t) = Len(s) + Len(t)
      /\ \A i \in 1 .. Len(s) : (s \o t)[i] = s[i]
      /\ \A i \in 1 .. Len(t) : (s \o t)[Len(s) + i] = t[i]
  BY <1>1, ConcatBytes
<1> DEFINE u == s \o t
<1>3. ASSUME NEW x \in parts
      PROVE  /\ x[1] \in Nat /\ x[2] \in Seq(Byte8)
             /\ x[1] + Len(x[2]) <= Len(u)
             /\ Lies(u, x[1], x[2])
  <2> DEFINE k == x[1]
             part == x[2]
  <2>1. k \in Nat /\ part \in Seq(Byte8) /\ k + Len(part) <= Len(s) /\ Lies(s, k, part)
    BY <1>3 DEF Laid
  <2> HIDE DEF k, part, u
  <2>2. Len(part) \in Nat
    BY <2>1, LenProperties
  <2>3. k + Len(part) <= Len(u)
    BY <1>1, <1>2, <2>1, <2>2 DEF u
  <2>4. ASSUME NEW i \in 1 .. Len(part) PROVE u[k + i] = part[i]
    <3>1. k + i \in 1 .. Len(s)
      BY <1>1, <2>1, <2>2
    <3>2. s[k + i] = part[i]
      BY <2>1 DEF Lies
    <3> QED BY <1>2, <3>1, <3>2 DEF u
  <2>5. Lies(u, k, part)
    BY <2>4 DEF Lies
  <2> QED BY <2>1, <2>3, <2>5 DEF k, part
<1>4. Lies(u, n, t) /\ n + Len(t) <= Len(u)
  BY <1>1, <1>2 DEF Lies
<1> HIDE DEF u
<1>5. Laid(u, parts \cup {<<n, t>>})
  <2>1. ASSUME NEW x \in parts \cup {<<n, t>>}
        PROVE  /\ x[1] \in Nat /\ x[2] \in Seq(Byte8)
               /\ x[1] + Len(x[2]) <= Len(u)
               /\ Lies(u, x[1], x[2])
    <3>1. CASE x \in parts
      BY <1>3, <3>1
    <3>2. CASE x = <<n, t>>
      BY <1>1, <1>4, <3>2
    <3> QED BY <3>1, <3>2
  <2>2. u \in Seq(Byte8)
    BY <1>2 DEF u
  <2> QED BY <2>1, <2>2 DEF Laid
<1> QED BY <1>1, <1>2, <1>5 DEF u

\* A part that is laid lies where it has been put.
LEMMA LaidPart ==
  ASSUME NEW bytes, NEW parts, Laid(bytes, parts), NEW n, NEW part, <<n, part>> \in parts
  PROVE  Lies(bytes, n, part)
<1> DEFINE x == <<n, part>>
<1>1. Lies(bytes, x[1], x[2])
  BY DEF Laid
<1> QED BY <1>1

\* The bytes of a word, most significant first.
LEMMA WordBytes ==
  ASSUME NEW val \in Word16
  PROVE  /\ Val16ToBytes(val) \in Seq(Byte8)
         /\ Len(Val16ToBytes(val)) = 2
         /\ 256 * Val16ToBytes(val)[1] + Val16ToBytes(val)[2] = val
         /\ Val16FromBytes(Val16ToBytes(val)) = val
<1> DEFINE high == val \div 256
           low == val % 256
<1>1. val \in Int /\ 0 <= val /\ val < WordMod
  BY WordRange
<1>2. high \in Int /\ 0 <= high /\ high <= 255 /\ low \in Int /\ 0 <= low /\ low <= 255
      /\ val = 256 * high + low
  BY <1>1, SMT DEF WordMod
<1>3. Val16ToBytes(val) = <<high, low>>
  BY DEF Val16ToBytes
<1> HIDE DEF high, low
<1>4. high \in Byte8 /\ low \in Byte8
  BY <1>2, ByteRange
<1>5. /\ <<high, low>> \in Seq(Byte8) /\ Len(<<high, low>>) = 2
      /\ <<high, low>>[1] = high /\ <<high, low>>[2] = low
  BY <1>4
<1>6. high * 256 + low = val
  BY <1>2
<1> QED BY <1>2, <1>3, <1>5, <1>6, ZenonT(40) DEF Val16FromBytes

\* The fixed parts of the headers.
LEMMA FixedParts ==
  /\ <<69, 0>> \in Seq(Byte8)
  /\ <<0, 0, 0, 0, 128, 17, 0, 0>> \in Seq(Byte8)
  /\ <<0, 17>> \in Seq(Byte8)
  /\ <<0, 0>> \in Seq(Byte8)
<1>1. 0 \in Byte8 /\ 69 \in Byte8 /\ 128 \in Byte8 /\ 17 \in Byte8
  BY ByteRange
<1> QED BY <1>1

\* The numbers in the headers.
LEMMA HeaderNumbers ==
  ASSUME NEW src \in Endpoint, NEW dest \in Endpoint, NEW m \in Nat, m + 28 < WordMod
  PROVE  /\ src.addr \in Seq(Byte8) /\ Len(src.addr) = 4 /\ src.port \in Word16
         /\ dest.addr \in Seq(Byte8) /\ Len(dest.addr) = 4 /\ dest.port \in Word16
         /\ KC_IPV4_UDP_HEADER_SIZE + m \in Word16
         /\ KC_UDP_HEADER_SIZE + m \in Word16
         /\ KC_IPV4_UDP_HEADER_SIZE = 28 /\ KC_UDP_HEADER_SIZE = 8
<1>1. /\ src.addr \in Seq(Byte8) /\ Len(src.addr) = 4 /\ src.port \in Word16
      /\ dest.addr \in Seq(Byte8) /\ Len(dest.addr) = 4 /\ dest.port \in Word16
  BY DEF Endpoint, Address
<1>2. KC_IPV4_UDP_HEADER_SIZE = 28 /\ KC_UDP_HEADER_SIZE = 8
  BY DEF KC_IPV4_UDP_HEADER_SIZE, KC_UDP_HEADER_SIZE, KC_IPV4_HEADER_SIZE
<1>3. 28 + m \in Word16 /\ 8 + m \in Word16
  BY WordModType, WordRange
<1> QED BY <1>1, <1>2, <1>3

\* The header over which the checksum is computed first.
FakeParts(src, dest, m) ==
  {<<0, src.addr>>, <<4, dest.addr>>, <<8, <<0, 17>>>>,
   <<10, Val16ToBytes(KC_UDP_HEADER_SIZE + m)>>,
   <<12, Val16ToBytes(src.port)>>, <<14, Val16ToBytes(dest.port)>>,
   <<16, Val16ToBytes(KC_UDP_HEADER_SIZE + m)>>, <<18, <<0, 0>>>>}

\* FakeHeader consists of these parts.
LEMMA FakeHeaderParts ==
  ASSUME NEW src \in Endpoint, NEW dest \in Endpoint, NEW m \in Nat, m + 28 < WordMod
  PROVE  LET head == FakeHeader(src.addr, src.port, dest.addr, dest.port, m)
         IN Laid(head, FakeParts(src, dest, m)) /\ Len(head) = 20
<1> DEFINE a == src.addr
           b == dest.addr
           p == Val16ToBytes(src.port)
           q == Val16ToBytes(dest.port)
           size == Val16ToBytes(KC_UDP_HEADER_SIZE + m)
           x == <<0, 17>>
           z == <<0, 0>>
<1>1. /\ a \in Seq(Byte8) /\ Len(a) = 4 /\ b \in Seq(Byte8) /\ Len(b) = 4
      /\ p \in Seq(Byte8) /\ Len(p) = 2 /\ q \in Seq(Byte8) /\ Len(q) = 2
      /\ size \in Seq(Byte8) /\ Len(size) = 2
      /\ x \in Seq(Byte8) /\ Len(x) = 2 /\ z \in Seq(Byte8) /\ Len(z) = 2
  BY HeaderNumbers, WordBytes, FixedParts, ZenonT(40)
<1>2. FakeHeader(src.addr, src.port, dest.addr, dest.port, m)
        = a \o b \o x \o size \o p \o q \o size \o z
  BY DEF FakeHeader, IPPROTO_UDP
<1>3. FakeParts(src, dest, m)
        = {<<0, a>>, <<4, b>>, <<8, x>>, <<10, size>>, <<12, p>>, <<14, q>>,
           <<16, size>>, <<18, z>>}
  BY DEF FakeParts
<1> HIDE DEF a, b, p, q, size, x, z
<1> DEFINE parts1 == {<<0, a>>}
<1>4. Laid(a, parts1)
  BY <1>1, LaidAlone
<1> HIDE DEF parts1
<1> DEFINE bytes2 == a \o b
           parts2 == parts1 \cup {<<4, b>>}
<1>5. Laid(bytes2, parts2) /\ Len(bytes2) = 8
  <2>1. Laid(a, parts1) /\ b \in Seq(Byte8) /\ 4 = Len(a)
    BY <1>1, <1>4
  <2>2. Laid(a \o b, parts1 \cup {<<4, b>>}) /\ Len(a \o b) = 4 + Len(b)
    BY <2>1, Appended
  <2> QED BY <1>1, <2>2
<1> HIDE DEF bytes2, parts2
<1> DEFINE bytes3 == bytes2 \o x
           parts3 == parts2 \cup {<<8, x>>}
<1>6. Laid(bytes3, parts3) /\ Len(bytes3) = 10
  <2>1. Laid(bytes2, parts2) /\ x \in Seq(Byte8) /\ 8 = Len(bytes2)
    BY <1>1, <1>5
  <2>2. Laid(bytes2 \o x, parts2 \cup {<<8, x>>}) /\ Len(bytes2 \o x) = 8 + Len(x)
    BY <2>1, Appended
  <2> QED BY <1>1, <2>2
<1> HIDE DEF bytes3, parts3
<1> DEFINE bytes4 == bytes3 \o size
           parts4 == parts3 \cup {<<10, size>>}
<1>7. Laid(bytes4, parts4) /\ Len(bytes4) = 12
  <2>1. Laid(bytes3, parts3) /\ size \in Seq(Byte8) /\ 10 = Len(bytes3)
    BY <1>1, <1>6
  <2>2. Laid(bytes3 \o size, parts3 \cup {<<10, size>>}) /\ Len(bytes3 \o size) = 10 + Len(size)
    BY <2>1, Appended
  <2> QED BY <1>1, <2>2
<1> HIDE DEF bytes4, parts4
<1> DEFINE bytes5 == bytes4 \o p
           parts5 == parts4 \cup {<<12, p>>}
<1>8. Laid(bytes5, parts5) /\ Len(bytes5) = 14
  <2>1. Laid(bytes4, parts4) /\ p \in Seq(Byte8) /\ 12 = Len(bytes4)
    BY <1>1, <1>7
  <2>2. Laid(bytes4 \o p, parts4 \cup {<<12, p>>}) /\ Len(bytes4 \o p) = 12 + Len(p)
    BY <2>1, Appended
  <2> QED BY <1>1, <2>2
<1> HIDE DEF bytes5, parts5
<1> DEFINE bytes6 == bytes5 \o q
           parts6 == parts5 \cup {<<14, q>>}
<1>9. Laid(bytes6, parts6) /\ Len(bytes6) = 16
  <2>1. Laid(bytes5, parts5) /\ q \in Seq(Byte8) /\ 14 = Len(bytes5)
    BY <1>1, <1>8
  <2>2. Laid(bytes5 \o q, parts5 \cup {<<14, q>>}) /\ Len(bytes5 \o q) = 14 + Len(q)
    BY <2>1, Appended
  <2> QED BY <1>1, <2>2
<1> HIDE DEF bytes6, parts6
<1> DEFINE bytes7 == bytes6 \o size
           parts7 == parts6 \cup {<<16, size>>}
<1>10. Laid(bytes7, parts7) /\ Len(bytes7) = 18
  <2>1. Laid(bytes6, parts6) /\ size \in Seq(Byte8) /\ 16 = Len(bytes6)
    BY <1>1, <1>9
  <2>2. Laid(bytes6 \o size, parts6 \cup {<<16, size>>}) /\ Len(bytes6 \o size) = 16 + Len(size)
    BY <2>1, Appended
  <2> QED BY <1>1, <2>2
<1> HIDE DEF bytes7, parts7
<1> DEFINE bytes8 == bytes7 \o z
           parts8 == parts7 \cup {<<18, z>>}
<1>11. Laid(bytes8, parts8) /\ Len(bytes8) = 20
  <2>1. Laid(bytes7, parts7) /\ z \in Seq(Byte8) /\ 18 = Len(bytes7)
    BY <1>1, <1>10
  <2>2. Laid(bytes7 \o z, parts7 \cup {<<18, z>>}) /\ Len(bytes7 \o z) = 18 + Len(z)
    BY <2>1, Appended
  <2> QED BY <1>1, <2>2
<1> HIDE DEF bytes8, parts8
<1>12. FakeHeader(src.addr, src.port, dest.addr, dest.port, m) = bytes8
  BY <1>2 DEF bytes8, bytes7, bytes6, bytes5, bytes4, bytes3, bytes2
<1>13. FakeParts(src, dest, m) = parts8
  BY <1>3 DEF parts8, parts7, parts6, parts5, parts4, parts3, parts2, parts1
<1> QED BY <1>11, <1>12, <1>13

\* The headers of a packet and the message.
PacketParts(src, dest, msg, sum) ==
  {<<0, <<69, 0>>>>, <<2, Val16ToBytes(KC_IPV4_UDP_HEADER_SIZE + Len(msg))>>,
   <<4, <<0, 0, 0, 0, 128, 17, 0, 0>>>>, <<12, src.addr>>, <<16, dest.addr>>,
   <<20, Val16ToBytes(src.port)>>, <<22, Val16ToBytes(dest.port)>>,
   <<24, Val16ToBytes(KC_UDP_HEADER_SIZE + Len(msg))>>, <<26, Val16ToBytes(sum)>>,
   <<28, msg>>}

\* A packet consists of these parts.
LEMMA PacketIsLaid ==
  ASSUME NEW src \in Endpoint, NEW dest \in Endpoint, NEW msg \in Seq(Byte8),
         Len(msg) + 28 < WordMod,
         NEW sum \in Word16,
         sum = kcCheckUdpSum(src.addr, src.port, dest.addr, dest.port, msg)
  PROVE  /\ Laid(Packet(src, dest, msg), PacketParts(src, dest, msg, sum))
         /\ Len(Packet(src, dest, msg)) = 28 + Len(msg)
<1> DEFINE v == <<69, 0>>
           w == <<0, 0, 0, 0, 128, 17, 0, 0>>
           a == src.addr
           b == dest.addr
           p == Val16ToBytes(src.port)
           q == Val16ToBytes(dest.port)
           total == Val16ToBytes(KC_IPV4_UDP_HEADER_SIZE + Len(msg))
           size == Val16ToBytes(KC_UDP_HEADER_SIZE + Len(msg))
           check == Val16ToBytes(sum)
<1>1. /\ v \in Seq(Byte8) /\ Len(v) = 2 /\ w \in Seq(Byte8) /\ Len(w) = 8
      /\ a \in Seq(Byte8) /\ Len(a) = 4 /\ b \in Seq(Byte8) /\ Len(b) = 4
      /\ p \in Seq(Byte8) /\ Len(p) = 2 /\ q \in Seq(Byte8) /\ Len(q) = 2
      /\ total \in Seq(Byte8) /\ Len(total) = 2 /\ size \in Seq(Byte8) /\ Len(size) = 2
      /\ check \in Seq(Byte8) /\ Len(check) = 2 /\ Len(msg) \in Nat
  <2>1. Len(msg) \in Nat
    BY LenProperties
  <2> QED BY <2>1, HeaderNumbers, WordBytes, FixedParts
<1>2. Packet(src, dest, msg)
        = (v \o total \o w \o a \o b) \o p \o q \o size \o check \o msg
  BY DEF Packet, IpHeader, IPPROTO_UDP
<1>3. PacketParts(src, dest, msg, sum)
        = {<<0, v>>, <<2, total>>, <<4, w>>, <<12, a>>, <<16, b>>, <<20, p>>, <<22, q>>,
           <<24, size>>, <<26, check>>, <<28, msg>>}
  BY DEF PacketParts
<1> HIDE DEF v, w, a, b, p, q, total, size, check
<1> DEFINE parts1 == {<<0, v>>}
<1>4. Laid(v, parts1)
  BY <1>1, LaidAlone
<1> HIDE DEF parts1
<1> DEFINE bytes2 == v \o total
           parts2 == parts1 \cup {<<2, total>>}
<1>5. Laid(bytes2, parts2) /\ Len(bytes2) = 4
  <2>1. Laid(v, parts1) /\ total \in Seq(Byte8) /\ 2 = Len(v)
    BY <1>1, <1>4
  <2>2. Laid(v \o total, parts1 \cup {<<2, total>>}) /\ Len(v \o total) = 2 + Len(total)
    BY <2>1, Appended
  <2> QED BY <1>1, <2>2
<1> HIDE DEF bytes2, parts2
<1> DEFINE bytes3 == bytes2 \o w
           parts3 == parts2 \cup {<<4, w>>}
<1>6. Laid(bytes3, parts3) /\ Len(bytes3) = 12
  <2>1. Laid(bytes2, parts2) /\ w \in Seq(Byte8) /\ 4 = Len(bytes2)
    BY <1>1, <1>5
  <2>2. Laid(bytes2 \o w, parts2 \cup {<<4, w>>}) /\ Len(bytes2 \o w) = 4 + Len(w)
    BY <2>1, Appended
  <2> QED BY <1>1, <2>2
<1> HIDE DEF bytes3, parts3
<1> DEFINE bytes4 == bytes3 \o a
           parts4 == parts3 \cup {<<12, a>>}
<1>7. Laid(bytes4, parts4) /\ Len(bytes4) = 16
  <2>1. Laid(bytes3, parts3) /\ a \in Seq(Byte8) /\ 12 = Len(bytes3)
    BY <1>1, <1>6
  <2>2. Laid(bytes3 \o a, parts3 \cup {<<12, a>>}) /\ Len(bytes3 \o a) = 12 + Len(a)
    BY <2>1, Appended
  <2> QED BY <1>1, <2>2
<1> HIDE DEF bytes4, parts4
<1> DEFINE bytes5 == bytes4 \o b
           parts5 == parts4 \cup {<<16, b>>}
<1>8. Laid(bytes5, parts5) /\ Len(bytes5) = 20
  <2>1. Laid(bytes4, parts4) /\ b \in Seq(Byte8) /\ 16 = Len(bytes4)
    BY <1>1, <1>7
  <2>2. Laid(bytes4 \o b, parts4 \cup {<<16, b>>}) /\ Len(bytes4 \o b) = 16 + Len(b)
    BY <2>1, Appended
  <2> QED BY <1>1, <2>2
<1> HIDE DEF bytes5, parts5
<1> DEFINE bytes6 == bytes5 \o p
           parts6 == parts5 \cup {<<20, p>>}
<1>9. Laid(bytes6, parts6) /\ Len(bytes6) = 22
  <2>1. Laid(bytes5, parts5) /\ p \in Seq(Byte8) /\ 20 = Len(bytes5)
    BY <1>1, <1>8
  <2>2. Laid(bytes5 \o p, parts5 \cup {<<20, p>>}) /\ Len(bytes5 \o p) = 20 + Len(p)
    BY <2>1, Appended
  <2> QED BY <1>1, <2>2
<1> HIDE DEF bytes6, parts6
<1> DEFINE bytes7 == bytes6 \o q
           parts7 == parts6 \cup {<<22, q>>}
<1>10. Laid(bytes7, parts7) /\ Len(bytes7) = 24
  <2>1. Laid(bytes6, parts6) /\ q \in Seq(Byte8) /\ 22 = Len(bytes6)
    BY <1>1, <1>9
  <2>2. Laid(bytes6 \o q, parts6 \cup {<<22, q>>}) /\ Len(bytes6 \o q) = 22 + Len(q)
    BY <2>1, Appended
  <2> QED BY <1>1, <2>2
<1> HIDE DEF bytes7, parts7
<1> DEFINE bytes8 == bytes7 \o size
           parts8 == parts7 \cup {<<24, size>>}
<1>11. Laid(bytes8, parts8) /\ Len(bytes8) = 26
  <2>1. Laid(bytes7, parts7) /\ size \in Seq(Byte8) /\ 24 = Len(bytes7)
    BY <1>1, <1>10
  <2>2. Laid(bytes7 \o size, parts7 \cup {<<24, size>>}) /\ Len(bytes7 \o size) = 24 + Len(size)
    BY <2>1, Appended
  <2> QED BY <1>1, <2>2
<1> HIDE DEF bytes8, parts8
<1> DEFINE bytes9 == bytes8 \o check
           parts9 == parts8 \cup {<<26, check>>}
<1>12. Laid(bytes9, parts9) /\ Len(bytes9) = 28
  <2>1. Laid(bytes8, parts8) /\ check \in Seq(Byte8) /\ 26 = Len(bytes8)
    BY <1>1, <1>11
  <2>2. Laid(bytes8 \o check, parts8 \cup {<<26, check>>}) /\ Len(bytes8 \o check) = 26 + Len(check)
    BY <2>1, Appended
  <2> QED BY <1>1, <2>2
<1> HIDE DEF bytes9, parts9
<1> DEFINE bytes10 == bytes9 \o msg
           parts10 == parts9 \cup {<<28, msg>>}
<1>13. Laid(bytes10, parts10) /\ Len(bytes10) = 28 + Len(msg)
  <2>1. Laid(bytes9, parts9) /\ msg \in Seq(Byte8) /\ 28 = Len(bytes9)
    BY <1>1, <1>12
  <2>2. Laid(bytes9 \o msg, parts9 \cup {<<28, msg>>}) /\ Len(bytes9 \o msg) = 28 + Len(msg)
    BY <2>1, Appended
  <2> QED BY <1>1, <2>2
<1> HIDE DEF bytes10, parts10
<1>14. Packet(src, dest, msg) = bytes10
  BY <1>2 DEF bytes10, bytes9, bytes8, bytes7, bytes6, bytes5, bytes4, bytes3, bytes2
<1>15. PacketParts(src, dest, msg, sum) = parts10
  BY <1>3 DEF parts10, parts9, parts8, parts7, parts6, parts5, parts4, parts3, parts2, parts1
<1> QED BY <1>13, <1>14, <1>15

\* The checksum of a datagram is a word.
LEMMA ChecksumType ==
  ASSUME NEW src \in Endpoint, NEW dest \in Endpoint, NEW msg \in Seq(Byte8),
         Len(msg) + 28 < WordMod
  PROVE  kcCheckUdpSum(src.addr, src.port, dest.addr, dest.port, msg) \in Word16
<1> DEFINE head == FakeHeader(src.addr, src.port, dest.addr, dest.port, Len(msg))
           first == kcCheckUdpSumV1(head, 0)
           all == kcCheckUdpSumV1(msg, first)
<1>1. head \in Seq(Byte8)
  BY FakeHeaderParts, LenProperties DEF Laid
<1>2. \A bytes \in Seq(Byte8), udpSum \in Nat : kcCheckUdpSumV1(bytes, udpSum) \in Nat
  <2> SUFFICES ASSUME NEW bytes \in Seq(Byte8), NEW udpSum \in Nat
               PROVE  kcCheckUdpSumV1(bytes, udpSum) \in Nat
    OBVIOUS
  <2> DEFINE n == (Len(bytes) + 1) \div 2
             sums == Sums(bytes, udpSum)
  <2>1. sums \in [0 .. n -> Nat]
    BY SumsAreSteps
  <2>2. n \in Nat
    <3>1. Len(bytes) \in Nat
      BY LenProperties
    <3> QED BY <3>1, SMT
  <2> HIDE DEF n, sums
  <2>3. n \in 0 .. n
    BY <2>2
  <2>4. sums[n] \in Nat
    BY <2>1, <2>3
  <2> QED BY <2>4 DEF kcCheckUdpSumV1, n, sums
<1> HIDE DEF head
<1>3. first \in Nat
  BY <1>1, <1>2
<1> HIDE DEF first
<1>4. all \in Nat
  BY <1>2, <1>3
<1> HIDE DEF all
<1>5. Folded(all) \in Int
  BY <1>4, SMT DEF Folded, WordMod
<1> DEFINE folded == Folded(all)
<1>6. Complement(folded) \in Int /\ 0 <= Complement(folded) /\ Complement(folded) < WordMod
  <2> HIDE DEF folded
  <2>1. folded \in Int
    BY <1>5 DEF folded
  <2> QED BY <2>1, SMT DEF Complement, WordMod
<1>7. pg_bswap16(Complement(folded)) \in Word16
  BY <1>6, WordRange, CongruentSwap
<1>8. kcCheckUdpSum(src.addr, src.port, dest.addr, dest.port, msg)
        = pg_bswap16(Complement(folded))
  BY DEF kcCheckUdpSum, head, first, all, folded
<1> QED BY <1>7, <1>8

\* The IP stack of the receiver accepts the packet of kcFiveFiftyReply, kcReplyId
\* and kcReplyStatus, whatever the addresses, the ports and the message are,
\* and hands over the message: header, lengths and checksum fit one another.
THEOREM PacketIsDelivered ==
  ASSUME NEW src \in Endpoint, NEW dest \in Endpoint, NEW msg \in Seq(Byte8),
         Len(msg) + 28 < WordMod
  PROVE  /\ Delivered(Packet(src, dest, msg), src, dest)
         /\ Message(Packet(src, dest, msg)) = msg
<1> DEFINE P == Packet(src, dest, msg)
           m == Len(msg)
           a == src.addr
           b == dest.addr
           p == Val16ToBytes(src.port)
           q == Val16ToBytes(dest.port)
           total == Val16ToBytes(KC_IPV4_UDP_HEADER_SIZE + m)
           size == Val16ToBytes(KC_UDP_HEADER_SIZE + m)
           sum == kcCheckUdpSum(src.addr, src.port, dest.addr, dest.port, msg)
           check == Val16ToBytes(sum)
           v == <<69, 0>>
           w == <<0, 0, 0, 0, 128, 17, 0, 0>>
           x == <<0, 17>>
           z == <<0, 0>>
           udp == SubSeq(P, 21, 28 + m)
           parts == PacketParts(src, dest, msg, sum)
<1>1. m \in Nat /\ m + 28 < WordMod
  BY LenProperties
<1>2. sum \in Word16
  BY ChecksumType
<1>3. Laid(P, parts) /\ Len(P) = 28 + m
  <2> HIDE DEF P, parts, m
  <2> QED BY <1>2, PacketIsLaid DEF P, parts, m
<1>4. /\ a \in Seq(Byte8) /\ Len(a) = 4 /\ b \in Seq(Byte8) /\ Len(b) = 4
      /\ p \in Seq(Byte8) /\ Len(p) = 2 /\ q \in Seq(Byte8) /\ Len(q) = 2
      /\ size \in Seq(Byte8) /\ Len(size) = 2 /\ total \in Seq(Byte8) /\ Len(total) = 2
      /\ check \in Seq(Byte8) /\ Len(check) = 2
      /\ x \in Seq(Byte8) /\ Len(x) = 2 /\ z \in Seq(Byte8) /\ Len(z) = 2
      /\ Len(v) = 2 /\ Len(w) = 8
  <2> HIDE DEF m
  <2> QED BY <1>1, <1>2, HeaderNumbers, WordBytes, FixedParts
<1>5. /\ <<0, v>> \in parts /\ <<2, total>> \in parts /\ <<4, w>> \in parts
      /\ <<12, a>> \in parts /\ <<16, b>> \in parts /\ <<20, p>> \in parts
      /\ <<22, q>> \in parts /\ <<24, size>> \in parts /\ <<26, check>> \in parts
      /\ <<28, msg>> \in parts
  BY DEF PacketParts
<1>6. v[1] = 69 /\ w[6] = 17 /\ x[1] = 0 /\ x[2] = 17 /\ z[1] = 0 /\ z[2] = 0
  OBVIOUS
<1>7. /\ 256 * total[1] + total[2] = 28 + m
      /\ 256 * size[1] + size[2] = 8 + m
      /\ 256 * check[1] + check[2] = sum
      /\ Val16FromBytes(total) = 28 + m /\ Val16FromBytes(size) = 8 + m
  <2> HIDE DEF m
  <2> QED BY <1>1, <1>2, HeaderNumbers, WordBytes
<1> HIDE DEF P, a, b, p, q, size, total, check, v, w, x, z, parts, m, sum
\* the bytes of the packet
<1>8. P \in Seq(Byte8)
  BY <1>3 DEF Laid
<1>9. /\ \A i \in 1 .. 2 : P[0 + i] = v[i]
      /\ \A i \in 1 .. 2 : P[2 + i] = total[i]
      /\ \A i \in 1 .. 8 : P[4 + i] = w[i]
      /\ \A i \in 1 .. 4 : P[12 + i] = a[i]
      /\ \A i \in 1 .. 4 : P[16 + i] = b[i]
  <2>1. Lies(P, 0, v)
    BY <1>3, <1>5, LaidPart
  <2>2. Lies(P, 2, total)
    BY <1>3, <1>5, LaidPart
  <2>3. Lies(P, 4, w)
    BY <1>3, <1>5, LaidPart
  <2>4. Lies(P, 12, a)
    BY <1>3, <1>5, LaidPart
  <2>5. Lies(P, 16, b)
    BY <1>3, <1>5, LaidPart
  <2> QED BY <1>4, <2>1, <2>2, <2>3, <2>4, <2>5 DEF Lies
<1>10. /\ \A i \in 1 .. 2 : P[20 + i] = p[i]
       /\ \A i \in 1 .. 2 : P[22 + i] = q[i]
       /\ \A i \in 1 .. 2 : P[24 + i] = size[i]
       /\ \A i \in 1 .. 2 : P[26 + i] = check[i]
       /\ \A i \in 1 .. m : P[28 + i] = msg[i]
  <2>1. Lies(P, 20, p)
    BY <1>3, <1>5, LaidPart
  <2>2. Lies(P, 22, q)
    BY <1>3, <1>5, LaidPart
  <2>3. Lies(P, 24, size)
    BY <1>3, <1>5, LaidPart
  <2>4. Lies(P, 26, check)
    BY <1>3, <1>5, LaidPart
  <2>5. Lies(P, 28, msg)
    BY <1>3, <1>5, LaidPart
  <2> QED BY <1>4, <2>1, <2>2, <2>3, <2>4, <2>5 DEF m, Lies
<1>11. P[1] = 69 /\ P[10] = 17
  <2>1. 1 \in 1 .. 2 /\ 0 + 1 = 1 /\ 6 \in 1 .. 8 /\ 4 + 6 = 10
    OBVIOUS
  <2> QED BY ONLY <1>6, <1>9, <2>1, SMTT(30)
<1>12. SubSeq(P, 3, 4) = total
  <2>1. /\ SubSeq(P, 3, 4) \in Seq(Byte8) /\ Len(SubSeq(P, 3, 4)) = 4 + 1 - 3
        /\ \A i \in 1 .. 4 + 1 - 3 : SubSeq(P, 3, 4)[i] = P[3 + i - 1]
    BY <1>1, <1>3, <1>8, SubBytes
  <2>2. \A i \in 1 .. 2 : SubSeq(P, 3, 4)[i] = total[i]
    <3>1. \A i \in 1 .. 2 : 3 + i - 1 = 2 + i /\ i \in 1 .. 4 + 1 - 3
      OBVIOUS
    <3> QED BY ONLY <1>9, <2>1, <3>1, SMTT(30)
  <2> QED BY <1>4, <2>1, <2>2, SeqEqual
<1>13. SubSeq(P, 13, 20) = a \o b
  <2> DEFINE s == SubSeq(P, 13, 20)
  <2>1. /\ s \in Seq(Byte8) /\ Len(s) = 20 + 1 - 13
        /\ \A i \in 1 .. 20 + 1 - 13 : s[i] = P[13 + i - 1]
    BY <1>1, <1>3, <1>8, SubBytes
  <2>2. /\ a \o b \in Seq(Byte8) /\ Len(a \o b) = 4 + 4
        /\ \A i \in 1 .. 4 : (a \o b)[i] = a[i]
        /\ \A i \in 1 .. 4 : (a \o b)[4 + i] = b[i]
    <3>1. /\ a \o b \in Seq(Byte8) /\ Len(a \o b) = Len(a) + Len(b)
          /\ \A i \in 1 .. Len(a) : (a \o b)[i] = a[i]
          /\ \A i \in 1 .. Len(b) : (a \o b)[Len(a) + i] = b[i]
      <4>1. a \in Seq(Byte8) /\ b \in Seq(Byte8)
        BY <1>4
      <4> QED BY <4>1, ConcatBytes
    <3> QED BY <1>4, <3>1
  <2> HIDE DEF s
  <2>3. ASSUME NEW i \in 1 .. 8 PROVE s[i] = (a \o b)[i]
    <3>1. s[i] = P[12 + i]
      BY <2>1, Z3T(30)
    <3>2. CASE i <= 4
      <4>1. i \in 1 .. 4
        BY <3>2
      <4> QED BY <1>9, <2>2, <3>1, <4>1
    <3>3. CASE ~(i <= 4)
      <4>1. PICK k \in 1 .. 4 : 12 + i = 16 + k /\ i = 4 + k
        <5>1. i - 4 \in 1 .. 4 /\ 12 + i = 16 + (i - 4) /\ i = 4 + (i - 4)
          BY <3>3
        <5> QED BY <5>1
      <4>2. P[16 + k] = b[k] /\ (a \o b)[4 + k] = b[k]
        BY <1>9, <2>2
      <4> QED BY <3>1, <4>1, <4>2
    <3> QED BY <3>2, <3>3
  <2>4. Len(s) = 8 /\ Len(a \o b) = 8
    BY <2>1, <2>2
  <2>5. s = a \o b
    BY <2>1, <2>2, <2>3, <2>4, SeqEqual
  <2> QED BY <2>5 DEF s
\* the datagram in it
<1>14. /\ udp \in Seq(Byte8) /\ Len(udp) = 8 + m
       /\ \A i \in 1 .. 8 + m : udp[i] = P[20 + i]
  <2>1. 21 \in Nat \ {0} /\ 28 + m \in Nat /\ 21 <= (28 + m) + 1 /\ 28 + m <= Len(P)
        /\ (28 + m) + 1 - 21 = 8 + m
    BY <1>1, <1>3
  <2>2. /\ udp \in Seq(Byte8) /\ Len(udp) = (28 + m) + 1 - 21
        /\ \A i \in 1 .. (28 + m) + 1 - 21 : udp[i] = P[21 + i - 1]
    BY ONLY <1>8, <2>1, SubBytes, Z3T(30)
  <2>3. \A i \in 1 .. 8 + m : 21 + i - 1 = 20 + i
    BY <1>1
  <2> QED BY <2>1, <2>2, <2>3
<1> HIDE DEF udp
<1>15. SubSeq(udp, 5, 6) = size
  <2> DEFINE s == SubSeq(udp, 5, 6)
  <2>1. /\ s \in Seq(Byte8) /\ Len(s) = 6 + 1 - 5
        /\ \A i \in 1 .. 6 + 1 - 5 : s[i] = udp[5 + i - 1]
    BY <1>1, <1>14, SubBytes
  <2> HIDE DEF s
  <2>2. \A i \in 1 .. 2 : s[i] = size[i]
    <3>1. \A i \in 1 .. 2 : /\ 5 + i - 1 = 4 + i /\ i \in 1 .. 6 + 1 - 5
                            /\ 4 + i \in 1 .. 8 + m /\ 20 + (4 + i) = 24 + i
      BY <1>1
    <3> QED BY <1>10, <1>14, <2>1, <3>1, SMTT(30)
  <2>3. s = size
    <3>1. s \in Seq(Byte8) /\ size \in Seq(Byte8) /\ Len(s) = Len(size)
          /\ \A i \in 1 .. Len(s) : s[i] = size[i]
      BY <1>4, <2>1, <2>2
    <3> QED BY <3>1, SeqEqual
  <2> QED BY <2>3 DEF s
<1>16. SubSeq(udp, 1, 4) = p \o q
  <2> DEFINE s == SubSeq(udp, 1, 4)
  <2>1. /\ s \in Seq(Byte8) /\ Len(s) = 4 + 1 - 1
        /\ \A i \in 1 .. 4 + 1 - 1 : s[i] = udp[1 + i - 1]
    BY <1>1, <1>14, SubBytes
  <2>2. /\ p \o q \in Seq(Byte8) /\ Len(p \o q) = 2 + 2
        /\ \A i \in 1 .. 2 : (p \o q)[i] = p[i]
        /\ \A i \in 1 .. 2 : (p \o q)[2 + i] = q[i]
    <3>1. /\ p \o q \in Seq(Byte8) /\ Len(p \o q) = Len(p) + Len(q)
          /\ \A i \in 1 .. Len(p) : (p \o q)[i] = p[i]
          /\ \A i \in 1 .. Len(q) : (p \o q)[Len(p) + i] = q[i]
      <4>1. p \in Seq(Byte8) /\ q \in Seq(Byte8)
        BY <1>4
      <4> QED BY <4>1, ConcatBytes
    <3> QED BY <1>4, <3>1
  <2> HIDE DEF s
  <2>3. ASSUME NEW i \in 1 .. 4 PROVE s[i] = (p \o q)[i]
    <3>1. s[i] = P[20 + i]
      <4>1. i \in 1 .. 4 + 1 - 1 /\ 1 + i - 1 = i /\ i \in 1 .. 8 + m
        BY <1>1
      <4> QED BY <1>14, <2>1, <4>1
    <3>2. CASE i <= 2
      <4>1. i \in 1 .. 2
        BY <3>2
      <4> QED BY <1>10, <2>2, <3>1, <4>1
    <3>3. CASE ~(i <= 2)
      <4>1. PICK k \in 1 .. 2 : 20 + i = 22 + k /\ i = 2 + k
        <5>1. i - 2 \in 1 .. 2 /\ 20 + i = 22 + (i - 2) /\ i = 2 + (i - 2)
          BY <3>3
        <5> QED BY <5>1
      <4>2. P[22 + k] = q[k] /\ (p \o q)[2 + k] = q[k]
        BY <1>10, <2>2
      <4> QED BY <3>1, <4>1, <4>2
    <3> QED BY <3>2, <3>3
  <2>4. Len(s) = 4 /\ Len(p \o q) = 4
    BY <2>1, <2>2
  <2>5. s = p \o q
    BY <2>1, <2>2, <2>3, <2>4, SeqEqual
  <2> QED BY <2>5 DEF s
\* what the receiver's checksum covers
<1> DEFINE pseudo == SubSeq(P, 13, 20) \o <<0, P[10]>> \o SubSeq(udp, 5, 6)
           T == pseudo \o udp
<1>17. Laid(pseudo, {<<0, a>>} \cup {<<4, b>>} \cup {<<8, x>>} \cup {<<10, size>>})
       /\ Len(pseudo) = 12
  <2>1. pseudo = a \o b \o x \o size
    BY <1>11, <1>13, <1>15 DEF x
  <2>2. Laid(a, {<<0, a>>})
    BY <1>4, LaidAlone
  <2>3. Laid(a, {<<0, a>>}) /\ b \in Seq(Byte8) /\ 4 = Len(a)
    BY <1>4, <2>2
  <2>4. Laid(a \o b, {<<0, a>>} \cup {<<4, b>>}) /\ Len(a \o b) = 4 + Len(b)
    BY <2>3, Appended
  <2> DEFINE c == a \o b
             k == {<<0, a>>} \cup {<<4, b>>}
  <2>5. Laid(c, k) /\ x \in Seq(Byte8) /\ 8 = Len(c)
    BY <1>4, <2>4
  <2> HIDE DEF c, k
  <2>6. Laid(c \o x, k \cup {<<8, x>>}) /\ Len(c \o x) = 8 + Len(x)
    BY <2>5, Appended
  <2> DEFINE d == c \o x
             j == k \cup {<<8, x>>}
  <2>7. Laid(d, j) /\ size \in Seq(Byte8) /\ 10 = Len(d)
    BY <1>4, <2>6
  <2> HIDE DEF d, j
  <2>8. Laid(d \o size, j \cup {<<10, size>>}) /\ Len(d \o size) = 10 + Len(size)
    BY <2>7, Appended
  <2>9. 10 + Len(size) = 12
    BY <1>4
  <2> QED BY <2>1, <2>8, <2>9 DEF c, d, j, k
<1> HIDE DEF pseudo
<1> DEFINE layers == {<<0, a>>} \cup {<<4, b>>} \cup {<<8, x>>} \cup {<<10, size>>}
<1>18. Laid(T, layers \cup {<<12, udp>>}) /\ Len(T) = 20 + m
  <2>1. Laid(pseudo, layers) /\ udp \in Seq(Byte8) /\ 12 = Len(pseudo)
    BY <1>14, <1>17
  <2> HIDE DEF layers
  <2>2. Laid(T, layers \cup {<<12, udp>>}) /\ Len(T) = 12 + Len(udp)
    BY <2>1, Appended
  <2>3. 12 + Len(udp) = 20 + m
    BY <1>1, <1>14
  <2> QED BY <2>2, <2>3
<1> HIDE DEF T
<1>19. /\ T \in Seq(Byte8)
       /\ \A i \in 1 .. 4 : T[0 + i] = a[i]
       /\ \A i \in 1 .. 4 : T[4 + i] = b[i]
       /\ \A i \in 1 .. 2 : T[8 + i] = x[i]
       /\ \A i \in 1 .. 2 : T[10 + i] = size[i]
       /\ \A i \in 1 .. 8 + m : T[12 + i] = udp[i]
  <2> DEFINE all == layers \cup {<<12, udp>>}
  <2>1. /\ <<0, a>> \in all /\ <<4, b>> \in all /\ <<8, x>> \in all /\ <<10, size>> \in all
        /\ <<12, udp>> \in all
    OBVIOUS
  <2>2. T \in Seq(Byte8)
    BY <1>18 DEF Laid
  <2>3. Laid(T, all)
    BY <1>18
  <2> HIDE DEF all
  <2>4. Lies(T, 0, a)
    BY <2>1, <2>3, LaidPart
  <2>5. Lies(T, 4, b)
    BY <2>1, <2>3, LaidPart
  <2>6. Lies(T, 8, x)
    BY <2>1, <2>3, LaidPart
  <2>7. Lies(T, 10, size)
    BY <2>1, <2>3, LaidPart
  <2>8. Lies(T, 12, udp)
    BY <2>1, <2>3, LaidPart
  <2> QED BY <1>4, <1>14, <2>2, <2>4, <2>5, <2>6, <2>7, <2>8 DEF Lies
\* the header the checksum is computed over
<1> DEFINE head == FakeHeader(src.addr, src.port, dest.addr, dest.port, Len(msg))
           shown == FakeParts(src, dest, Len(msg))
<1>20. Laid(head, shown) /\ Len(head) = 20
  <2> HIDE DEF shown
  <2> QED BY <1>1, FakeHeaderParts DEF m, shown
<1>21. sum = pg_bswap16(Complement(Folded(kcCheckUdpSumV1(msg, kcCheckUdpSumV1(head, 0)))))
  BY DEF sum, kcCheckUdpSum
<1>22. /\ <<0, a>> \in shown /\ <<4, b>> \in shown /\ <<8, x>> \in shown
       /\ <<10, size>> \in shown /\ <<12, p>> \in shown /\ <<14, q>> \in shown
       /\ <<16, size>> \in shown /\ <<18, z>> \in shown
  BY DEF FakeParts, a, b, x, size, p, q, z, m
<1> HIDE DEF head, shown
<1>23. head \in Seq(Byte8)
  BY <1>20 DEF Laid
<1>24. /\ \A i \in 1 .. 4 : head[0 + i] = a[i]
       /\ \A i \in 1 .. 4 : head[4 + i] = b[i]
       /\ \A i \in 1 .. 2 : head[8 + i] = x[i]
       /\ \A i \in 1 .. 2 : head[10 + i] = size[i]
       /\ \A i \in 1 .. 2 : head[12 + i] = p[i]
       /\ \A i \in 1 .. 2 : head[14 + i] = q[i]
       /\ \A i \in 1 .. 2 : head[16 + i] = size[i]
       /\ \A i \in 1 .. 2 : head[18 + i] = z[i]
  <2>1. Lies(head, 0, a)
    BY <1>20, <1>22, LaidPart
  <2>2. Lies(head, 4, b)
    BY <1>20, <1>22, LaidPart
  <2>3. Lies(head, 8, x)
    BY <1>20, <1>22, LaidPart
  <2>4. Lies(head, 10, size)
    BY <1>20, <1>22, LaidPart
  <2>5. Lies(head, 12, p)
    BY <1>20, <1>22, LaidPart
  <2>6. Lies(head, 14, q)
    BY <1>20, <1>22, LaidPart
  <2>7. Lies(head, 16, size)
    BY <1>20, <1>22, LaidPart
  <2>8. Lies(head, 18, z)
    BY <1>20, <1>22, LaidPart
  <2> QED BY <1>4, <2>1, <2>2, <2>3, <2>4, <2>5, <2>6, <2>7, <2>8 DEF Lies
<1>25. /\ \A i \in 1 .. 2 : T[12 + i] = p[i]
       /\ \A i \in 1 .. 2 : T[14 + i] = q[i]
       /\ \A i \in 1 .. 2 : T[16 + i] = size[i]
       /\ \A i \in 1 .. 2 : T[18 + i] = check[i]
       /\ \A i \in 1 .. m : T[20 + i] = msg[i]
  <2>1. \A i \in 1 .. 8 + m : T[12 + i] = P[20 + i]
    BY <1>14, <1>19
  <2>2. \A i \in 1 .. 2 : /\ i \in 1 .. 8 + m /\ 2 + i \in 1 .. 8 + m
                          /\ 4 + i \in 1 .. 8 + m /\ 6 + i \in 1 .. 8 + m
                          /\ 12 + (2 + i) = 14 + i /\ 12 + (4 + i) = 16 + i
                          /\ 12 + (6 + i) = 18 + i
                          /\ 20 + (2 + i) = 22 + i /\ 20 + (4 + i) = 24 + i
                          /\ 20 + (6 + i) = 26 + i
    BY <1>1
  <2>3. \A i \in 1 .. m : /\ 8 + i \in 1 .. 8 + m /\ 12 + (8 + i) = 20 + i
                          /\ 20 + (8 + i) = 28 + i
    BY <1>1
  <2>4. \A i \in 1 .. 2 : T[12 + i] = P[20 + i] /\ T[14 + i] = P[22 + i]
    BY <2>1, <2>2
  <2>5. \A i \in 1 .. 2 : T[16 + i] = P[24 + i] /\ T[18 + i] = P[26 + i]
    BY <2>1, <2>2, ZenonT(40)
  <2>6. \A i \in 1 .. m : T[20 + i] = P[28 + i]
    BY <2>1, <2>3
  <2> QED BY <1>10, <2>4, <2>5, <2>6
<1>26. \A i \in 1 .. 18 : T[i] = head[i]
  <2> SUFFICES ASSUME NEW i \in 1 .. 18 PROVE T[i] = head[i]
    OBVIOUS
  <2>1. CASE i <= 4
    <3>1. PICK k \in 1 .. 4 : i = 0 + k
      <4>1. i \in 1 .. 4 /\ i = 0 + i
        BY <2>1
      <4> QED BY <4>1
    <3> QED BY <1>19, <1>24, <3>1
  <2>2. CASE 4 < i /\ i <= 8
    <3>1. PICK k \in 1 .. 4 : i = 4 + k
      <4>1. i - 4 \in 1 .. 4 /\ i = 4 + (i - 4)
        BY <2>2
      <4> QED BY <4>1
    <3> QED BY ONLY <1>19, <1>24, <3>1, ZenonT(40)
  <2>3. CASE 8 < i /\ i <= 10
    <3>1. PICK k \in 1 .. 2 : i = 8 + k
      <4>1. i - 8 \in 1 .. 2 /\ i = 8 + (i - 8)
        BY <2>3
      <4> QED BY <4>1
    <3> QED BY ONLY <1>19, <1>24, <3>1, ZenonT(40)
  <2>4. CASE 10 < i /\ i <= 12
    <3>1. PICK k \in 1 .. 2 : i = 10 + k
      <4>1. i - 10 \in 1 .. 2 /\ i = 10 + (i - 10)
        BY <2>4
      <4> QED BY <4>1
    <3> QED BY <1>19, <1>24, <3>1, ZenonT(40)
  <2>5. CASE 12 < i /\ i <= 14
    <3>1. PICK k \in 1 .. 2 : i = 12 + k
      <4>1. i - 12 \in 1 .. 2 /\ i = 12 + (i - 12)
        BY <2>5
      <4> QED BY <4>1
    <3> QED BY ONLY <1>24, <1>25, <3>1, ZenonT(40)
  <2>6. CASE 14 < i /\ i <= 16
    <3>1. PICK k \in 1 .. 2 : i = 14 + k
      <4>1. i - 14 \in 1 .. 2 /\ i = 14 + (i - 14)
        BY <2>6
      <4> QED BY <4>1
    <3> QED BY <1>24, <1>25, <3>1, Z3T(30)
  <2>7. CASE 16 < i
    <3>1. PICK k \in 1 .. 2 : i = 16 + k
      <4>1. i - 16 \in 1 .. 2 /\ i = 16 + (i - 16)
        BY <2>7
      <4> QED BY <4>1
    <3> QED BY <1>24, <1>25, <3>1, ZenonT(40)
  <2> QED BY <2>1, <2>2, <2>3, <2>4, <2>5, <2>6, <2>7
<1>27. head[9] = 0 /\ head[10] = 17 /\ head[19] = 0 /\ head[20] = 0
  <2>1. 1 \in 1 .. 2 /\ 2 \in 1 .. 2 /\ 8 + 1 = 9 /\ 8 + 2 = 10 /\ 18 + 1 = 19 /\ 18 + 2 = 20
    OBVIOUS
  <2> QED BY ONLY <1>6, <1>24, <2>1, Z3T(30)
<1>28. 256 * T[19] + T[20]
         = pg_bswap16(Complement(Folded(kcCheckUdpSumV1(msg, kcCheckUdpSumV1(head, 0)))))
  <2>1. 1 \in 1 .. 2 /\ 2 \in 1 .. 2 /\ 18 + 1 = 19 /\ 18 + 2 = 20
    OBVIOUS
  <2>2. T[19] = check[1] /\ T[20] = check[2]
    BY <1>25, <2>1
  <2> QED BY <1>7, <1>21, <2>2
<1>29. NetworkSum(T) = WordMod - 1
  <2>1. Len(msg) < WordMod
    BY <1>1, WordModType DEF m
  <2>2. Len(T) = 20 + Len(msg) /\ \A i \in 1 .. Len(msg) : T[20 + i] = msg[i]
    BY <1>18, <1>25 DEF m
  <2> QED BY ONLY <1>19, <1>20, <1>23, <1>26, <1>27, <1>28, <2>1, <2>2, ChecksumVerifies, ZenonT(40)
<1>30. Message(P) = msg
  <2> DEFINE s == SubSeq(P, 29, 28 + m)
  <2>1. 29 \in Nat \ {0} /\ 28 + m \in Nat /\ 29 <= (28 + m) + 1 /\ 28 + m <= Len(P)
        /\ (28 + m) + 1 - 29 = m /\ \A i \in 1 .. m : 29 + i - 1 = 28 + i
    BY <1>1, <1>3
  <2>2. /\ s \in Seq(Byte8) /\ Len(s) = (28 + m) + 1 - 29
        /\ \A i \in 1 .. (28 + m) + 1 - 29 : s[i] = P[29 + i - 1]
    BY ONLY <1>8, <2>1, SubBytes, Z3T(30)
  <2> HIDE DEF s
  <2>3. Len(s) = Len(msg) /\ \A i \in 1 .. Len(s) : s[i] = msg[i]
    <3>1. Len(s) = m /\ \A i \in 1 .. m : s[i] = P[29 + i - 1]
      BY <2>1, <2>2
    <3>2. ASSUME NEW i \in 1 .. m PROVE s[i] = msg[i]
      <4>1. s[i] = P[29 + i - 1] /\ 29 + i - 1 = 28 + i
        BY <2>1, <3>1
      <4>2. P[28 + i] = msg[i]
        BY <1>10
      <4> QED BY <4>1, <4>2
    <3> QED BY <3>1, <3>2 DEF m
  <2>4. s = msg
    BY <2>2, <2>3, SeqEqual
  <2>5. Message(P) = s
    BY <1>3 DEF Message, KC_IPV4_UDP_HEADER_SIZE, KC_UDP_HEADER_SIZE, KC_IPV4_HEADER_SIZE, s
  <2> QED BY <2>4, <2>5
<1>31. Delivered(P, src, dest)
  <2>1. SubSeq(P, KC_IPV4_HEADER_SIZE + 1, Len(P)) = udp
    BY <1>3 DEF KC_IPV4_HEADER_SIZE, udp
  <2>2. Val16FromBytes(SubSeq(P, 3, 4)) = Len(P)
    BY <1>3, <1>7, <1>12
  <2>3. Val16FromBytes(SubSeq(udp, 5, 6)) = Len(udp)
    BY <1>7, <1>14, <1>15
  <2>4. UdpSumVerifies(pseudo, udp)
    BY <1>29 DEF UdpSumVerifies, T
  <2>5. SubSeq(P, 13, 20) = src.addr \o dest.addr
    BY <1>13 DEF a, b
  <2>6. SubSeq(udp, 1, 4) = Val16ToBytes(src.port) \o Val16ToBytes(dest.port)
    BY <1>16 DEF p, q
  <2> QED BY <1>11, <2>1, <2>2, <2>3, <2>4, <2>5, <2>6 DEF Delivered, IPPROTO_UDP, pseudo
<1> QED BY <1>30, <1>31 DEF P

\* A part is what is taken from where it lies.
LEMMA LyingPart ==
  ASSUME NEW bytes \in Seq(Byte8), NEW part \in Seq(Byte8), NEW n \in Nat,
         n + Len(part) <= Len(bytes), Lies(bytes, n, part)
  PROVE  SubSeq(bytes, n + 1, n + Len(part)) = part
<1> DEFINE first == n + 1
           last == n + Len(part)
           s == SubSeq(bytes, first, last)
<1>1. Len(part) \in Nat
  BY LenProperties
<1>2. /\ first \in Nat \ {0} /\ last \in Nat /\ first <= last + 1 /\ last + 1 - first = Len(part)
      /\ \A i \in 1 .. Len(part) : first + i - 1 = n + i
  BY <1>1
<1> HIDE DEF first, last
<1>3. /\ s \in Seq(Byte8) /\ Len(s) = last + 1 - first
      /\ \A i \in 1 .. last + 1 - first : s[i] = bytes[first + i - 1]
  <2>1. last <= Len(bytes)
    BY DEF last
  <2> QED BY <1>2, <2>1, SubBytes
<1> HIDE DEF s
<1>4. ASSUME NEW i \in 1 .. Len(part) PROVE s[i] = part[i]
  <2>1. s[i] = bytes[first + i - 1] /\ first + i - 1 = n + i
    BY <1>2, <1>3
  <2>2. bytes[n + i] = part[i]
    BY DEF Lies
  <2> QED BY <2>1, <2>2
<1>5. Len(s) = Len(part)
  BY <1>2, <1>3
<1>6. s = part
  BY <1>3, <1>4, <1>5, SeqEqual
<1> QED BY <1>6 DEF s, first, last

-----------------------------------------------------------------------------
(***************************************************************************)
(* The replies of both plugins.                                            *)
(***************************************************************************)
\* A part at the begin of a sequence.
LEMMA FirstPart ==
  ASSUME NEW s \in Seq(Byte8), NEW t \in Seq(Byte8)
  PROVE  SubSeq(s \o t, 1, Len(s)) = s
<1>1. Laid(s, {<<0, s>>})
  BY LaidAlone
<1>2. Laid(s \o t, {<<0, s>>} \cup {<<Len(s), t>>}) /\ Len(s \o t) = Len(s) + Len(t)
  BY <1>1, Appended
<1>3. <<0, s>> \in {<<0, s>>} \cup {<<Len(s), t>>}
  OBVIOUS
<1> DEFINE u == s \o t
           parts == {<<0, s>>} \cup {<<Len(s), t>>}
<1>4. u \in Seq(Byte8) /\ Laid(u, parts) /\ <<0, s>> \in parts
  BY <1>2, <1>3 DEF Laid
<1>5. 0 \in Nat /\ 0 + Len(s) <= Len(u) /\ 0 + 1 = 1 /\ 0 + Len(s) = Len(s)
  BY <1>2, LenProperties
<1> HIDE DEF u, parts
<1>6. Lies(u, 0, s)
  BY <1>4, LaidPart
<1>7. SubSeq(u, 0 + 1, 0 + Len(s)) = s
  BY <1>4, <1>5, <1>6, LyingPart
<1> QED BY <1>5, <1>7 DEF u

\* The parts behind it.
LEMMA LastPart ==
  ASSUME NEW s \in Seq(Byte8), NEW t \in Seq(Byte8)
  PROVE  SubSeq(s \o t, Len(s) + 1, Len(s) + Len(t)) = t
<1>1. Laid(s, {<<0, s>>})
  BY LaidAlone
<1>2. Laid(s \o t, {<<0, s>>} \cup {<<Len(s), t>>}) /\ Len(s \o t) = Len(s) + Len(t)
  BY <1>1, Appended
<1>3. <<Len(s), t>> \in {<<0, s>>} \cup {<<Len(s), t>>}
  OBVIOUS
<1> DEFINE u == s \o t
           parts == {<<0, s>>} \cup {<<Len(s), t>>}
<1>4. u \in Seq(Byte8) /\ Laid(u, parts) /\ <<Len(s), t>> \in parts
  BY <1>2, <1>3 DEF Laid
<1>5. Len(s) \in Nat /\ Len(s) + Len(t) <= Len(u)
  BY <1>2, LenProperties
<1> HIDE DEF u, parts
<1>6. Lies(u, Len(s), t)
  BY <1>4, LaidPart
<1>7. SubSeq(u, Len(s) + 1, Len(s) + Len(t)) = t
  BY <1>4, <1>5, <1>6, LyingPart
<1> QED BY <1>7 DEF u

\* Fields and CRC that fill the message exactly are sent as they are, whatever
\* the buffer has held; kcCheckUdpSum does not refuse them.
LEMMA RepliesFit ==
  ASSUME NEW src, NEW dest, NEW fields \in Seq(Byte8), NEW old \in Seq(Byte8),
         Len(fields) <= 100, Len(old) >= Len(fields) + 2
  PROVE  Replies(src, dest, fields, Len(fields) + 2, old)
           = {Packet(src, dest, fields \o Val16ToBytes(kcCrc16(fields, Preset)))}
<1> DEFINE n == Len(fields)
           size == Len(fields) + 2
           crc == Val16ToBytes(kcCrc16(fields, Preset))
           content == fields \o crc
           behind == SubSeq(old, n + 1, Len(old))
           rest == SubSeq(old, Len(content) + 1, Len(old))
<1>1. n \in Nat /\ size - 2 = n /\ Len(old) >= n + 2
  BY LenProperties
<1>2. crc \in Seq(Byte8) /\ Len(crc) = 2
  BY CrcType, WordRange, WordBytes
<1>3. /\ n + 1 \in Nat \ {0} /\ n + 2 \in Nat /\ n + 1 <= (n + 2) + 1
      /\ (n + 2) + 1 \in Nat \ {0} /\ (n + 2) + 1 <= (n + 2) + 1 /\ n + 2 <= n + 2
  BY <1>1
<1> HIDE DEF n, crc
<1>4. content \in Seq(Byte8) /\ Len(content) = n + 2
  <2>1. content \in Seq(Byte8) /\ Len(content) = Len(fields) + Len(crc)
    BY <1>2, ConcatBytes
  <2> QED BY <1>2, <2>1 DEF n
<1> HIDE DEF content
<1>5. behind \in Seq(Byte8)
  BY <1>1, <1>3, SubBytes
<1>6. rest \in Seq(Byte8)
  BY <1>1, <1>3, <1>4, SubBytes
<1>7. Written(fields, old) = fields \o behind /\ Written(content, old) = content \o rest
  BY DEF Written, n
<1> HIDE DEF behind, rest
<1>8. SubSeq(Written(fields, old), 1, size - 2) = fields
  BY <1>1, <1>5, <1>7, FirstPart DEF n
<1>9. SubSeq(Written(content, old), 1, size) = content
  <2>1. SubSeq(content \o rest, 1, Len(content)) = content
    BY <1>4, <1>6, FirstPart
  <2>2. Len(content) = size
    BY <1>4 DEF n
  <2> QED BY <1>7, <2>1, <2>2
<1>10. ~(Len(content) > size)
  <2>1. Len(content) = size
    BY <1>4 DEF n
  <2> QED BY <2>1
<1>11. Replies(src, dest, fields, size, old) = PacketsOf(src, dest, content)
  BY <1>8, <1>9, <1>10 DEF Replies, content, crc
<1>12. ~TooLong(content)
  <2>1. Len(content) <= 102
    BY <1>1, <1>4 DEF n
  <2>2. Len(content) \in Nat
    BY <1>1, <1>4
  <2> QED BY ONLY <2>1, <2>2, SMT DEF TooLong, MAXLEN, KC_UDP_BUFFER_SIZE
<1>13. PacketsOf(src, dest, content) = {Packet(src, dest, content)}
  BY <1>12, Zenon DEF PacketsOf
<1> QED BY <1>11, <1>13 DEF content, crc

\* Fields and CRC that do not fit are not sent.
LEMMA RepliesTooLong ==
  ASSUME NEW src, NEW dest, NEW fields \in Seq(Byte8), NEW size \in Nat,
         size < Len(fields) + 2, NEW old \in Seq(Byte8), Len(old) >= size, size >= 2
  PROVE  Replies(src, dest, fields, size, old) = {}
<1> DEFINE taken == SubSeq(Written(fields, old), 1, size - 2)
           crc == Val16ToBytes(kcCrc16(taken, Preset))
<1>1. Len(fields) \in Nat
  BY LenProperties
<1> DEFINE behind == SubSeq(old, Len(fields) + 1, Len(old))
<1>2. behind \in Seq(Byte8)
  <2>1. CASE Len(fields) + 1 <= Len(old) + 1
    <3>1. Len(fields) + 1 \in Nat \ {0} /\ Len(old) \in Nat /\ Len(old) <= Len(old)
      BY <1>1
    <3> QED BY <2>1, <3>1, SubBytes
  <2>2. CASE ~(Len(fields) + 1 <= Len(old) + 1)
    <3>1. Len(fields) + 1 \in Int /\ Len(old) \in Int
          /\ \A i \in Len(fields) + 1 .. Len(old) : old[i] \in Byte8
      BY <1>1, <2>2
    <3> QED BY <3>1, SubSeqProperties
  <2> QED BY <2>1, <2>2
<1> HIDE DEF behind
<1>3. fields \o behind \in Seq(Byte8) /\ Len(fields \o behind) = Len(fields) + Len(behind)
  BY <1>2, ConcatBytes
<1>4. taken \in Seq(Byte8)
  <2>1. Written(fields, old) = fields \o behind
    BY DEF Written, behind
  <2> DEFINE all == fields \o behind
  <2>2. all \in Seq(Byte8) /\ 1 \in Nat \ {0} /\ size - 2 \in Nat /\ 1 <= (size - 2) + 1
        /\ size - 2 <= Len(all)
    BY <1>1, <1>2, <1>3, LenProperties
  <2> HIDE DEF all
  <2>3. SubSeq(all, 1, size - 2) \in Seq(Byte8)
    BY <2>2, SubBytes
  <2> QED BY <2>1, <2>3 DEF all
<1> HIDE DEF taken
<1>5. crc \in Seq(Byte8) /\ Len(crc) = 2
  BY <1>4, CrcType, WordRange, WordBytes
<1> HIDE DEF crc
<1>6. Len(fields \o crc) = Len(fields) + 2
  <2>1. Len(fields \o crc) = Len(fields) + Len(crc)
    BY <1>5, ConcatBytes
  <2> QED BY <1>5, <2>1
<1>7. Len(fields \o crc) > size
  BY <1>1, <1>6
<1> QED BY <1>7 DEF Replies, taken, crc

\* What is sent when fields and CRC fill the message exactly is accepted by the
\* receiver's IP stack and carries the fields and their CRC.
LEMMA RepliesAreAnswers ==
  ASSUME NEW src \in Endpoint, NEW dest \in Endpoint, NEW fields \in Seq(Byte8),
         Len(fields) <= 100, NEW old \in Seq(Byte8), Len(old) >= Len(fields) + 2
  PROVE  AreReplies(Replies(src, dest, fields, Len(fields) + 2, old), src, dest,
                    Len(fields) + 2, fields)
<1> DEFINE n == Len(fields)
           crc == Val16ToBytes(kcCrc16(fields, Preset))
           msg == fields \o crc
           p == Packet(src, dest, msg)
<1>1. Replies(src, dest, fields, n + 2, old) = {p}
  BY RepliesFit
<1>2. crc \in Seq(Byte8) /\ Len(crc) = 2 /\ crc = Val16ToBytes(Remainder(fields))
  BY CrcType, CrcIsRemainder, WordRange, WordBytes
<1>3. n \in Nat /\ n <= 100
  BY LenProperties
<1> HIDE DEF crc
<1>4. msg \in Seq(Byte8) /\ Len(msg) = Len(fields) + Len(crc)
  BY <1>2, ConcatBytes
<1>5. SubSeq(msg, 1, Len(fields)) = fields
  BY <1>2, FirstPart
<1>6. SubSeq(msg, Len(fields) + 1, Len(fields) + Len(crc)) = crc
  BY <1>2, LastPart
<1> HIDE DEF msg
<1>7. Len(msg) + 28 < WordMod
  <2>1. Len(msg) = n + 2
    BY <1>2, <1>4
  <2> HIDE DEF n
  <2>2. 130 < WordMod
    BY SMT DEF WordMod
  <2>3. Len(msg) + 28 <= 130
    BY <1>3, <2>1
  <2>4. WordMod \in Int
    BY SMT DEF WordMod
  <2> QED BY <1>3, <2>1, <2>2, <2>3, <2>4
<1>8. Delivered(p, src, dest) /\ Message(p) = msg
  BY <1>4, <1>7, PacketIsDelivered
<1> HIDE DEF p
<1>9. n + 2 - 2 = n /\ n + 2 - 1 = n + 1 /\ Len(msg) = n + 2 /\ Len(fields) + Len(crc) = n + 2
  <2>1. Len(crc) = 2 /\ Len(msg) = n + Len(crc)
    BY <1>2, <1>4
  <2>2. n + 2 - 2 = n /\ n + 2 - 1 = n + 1
    <3> HIDE DEF n
    <3> QED BY <1>3
  <2> QED BY ONLY <2>1, <2>2
<1>10. /\ Len(Message(p)) = n + 2
       /\ SubSeq(Message(p), 1, n + 2 - 2) = fields
       /\ SubSeq(Message(p), n + 2 - 1, n + 2) = Val16ToBytes(Remainder(fields))
  BY <1>2, <1>5, <1>6, <1>8, <1>9
<1> DEFINE size == n + 2
<1>11. /\ Len(Message(p)) = size
       /\ SubSeq(Message(p), 1, size - 2) = fields
       /\ SubSeq(Message(p), size - 1, size) = Val16ToBytes(Remainder(fields))
  BY <1>10
<1> HIDE DEF n, size
<1>12. AreReplies({p}, src, dest, size, fields)
  BY <1>8, <1>11, Zenon DEF AreReplies
<1> QED BY <1>1, <1>12 DEF n, size

\* The answers of both plugins, for an identifier of two bytes: whatever an
\* earlier answer has left in the buffer, the sender's IP stack accepts them, and
\* they carry the fields of kcFiveFiftyReply, kcReplyId and kcReplyStatus.
THEOREM EveryReplyIsAccepted ==
  ASSUME NEW src \in Endpoint, NEW dest \in Endpoint,
         NEW identifier \in Seq(Byte8), Len(identifier) = 2,
         NEW cmd \in Byte8, NEW old \in Seq(Byte8)
  PROVE  /\ \A reading \in [addres : Byte8, cmd : Byte8], errCode \in Byte8 :
              Len(old) >= KC_REPLY_OK_SIZE =>
                AreReplies(kcFiveFiftyReply(src, dest, identifier, reading, errCode, old),
                           src, dest, KC_REPLY_OK_SIZE,
                           identifier \o <<reading.addres, reading.cmd, 1, errCode>>)
         /\ \A snowflakeId \in Seq(Byte8) :
              Len(snowflakeId) = 8 /\ Len(old) >= KC_REPLY_ID_SIZE =>
                AreReplies(kcReplyId(src, dest, identifier, cmd, snowflakeId, old),
                           src, dest, KC_REPLY_ID_SIZE, identifier \o <<cmd>> \o snowflakeId)
         /\ \A statusCode \in Word16 :
              Len(old) >= KC_REPLY_STATUS_SIZE =>
                AreReplies(kcReplyStatus(src, dest, identifier, cmd, statusCode, old),
                           src, dest, KC_REPLY_STATUS_SIZE,
                           identifier \o <<cmd>> \o Val16ToBytes(statusCode))
<1>1. ASSUME NEW fields \in Seq(Byte8), NEW size \in {7, 8, 13},
             Len(fields) = size - 2, Len(old) >= size
      PROVE  AreReplies(Replies(src, dest, fields, size, old), src, dest, size, fields)
  <2>1. Len(fields) + 2 = size /\ Len(old) >= Len(fields) + 2 /\ Len(fields) <= 100
    BY <1>1
  <2>2. AreReplies(Replies(src, dest, fields, Len(fields) + 2, old), src, dest,
                   Len(fields) + 2, fields)
    BY <2>1, RepliesAreAnswers
  <2> QED BY <2>1, <2>2
<1>2. \A s \in Seq(Byte8) : /\ identifier \o s \in Seq(Byte8)
                            /\ Len(identifier \o s) = Len(identifier) + Len(s)
  BY ConcatBytes
<1>3. ASSUME NEW reading \in [addres : Byte8, cmd : Byte8], NEW errCode \in Byte8,
             Len(old) >= KC_REPLY_OK_SIZE
      PROVE  AreReplies(kcFiveFiftyReply(src, dest, identifier, reading, errCode, old),
                        src, dest, KC_REPLY_OK_SIZE,
                        identifier \o <<reading.addres, reading.cmd, 1, errCode>>)
  <2> DEFINE s == <<reading.addres, reading.cmd, 1, errCode>>
             fields == identifier \o s
  <2>1. s \in Seq(Byte8) /\ Len(s) = 4
    <3>1. 1 \in Byte8
      BY ONLY ByteRange, SMTT(30)
    <3>2. reading.addres \in Byte8 /\ reading.cmd \in Byte8
      OBVIOUS
    <3> QED BY <3>1, <3>2
  <2> HIDE DEF s
  <2>2. fields \in Seq(Byte8) /\ Len(fields) = 8 - 2
    <3>1. fields \in Seq(Byte8) /\ Len(fields) = Len(identifier) + Len(s)
      BY <1>2, <2>1, Zenon
    <3> HIDE DEF fields
    <3> QED BY <2>1, <3>1
  <2>3. Len(old) >= 8 /\ 8 \in {7, 8, 13}
    BY <1>3 DEF KC_REPLY_OK_SIZE
  <2> HIDE DEF fields
  <2>4. AreReplies(Replies(src, dest, fields, 8, old), src, dest, 8, fields)
    BY <1>1, <2>2, <2>3
  <2> QED BY <2>4 DEF kcFiveFiftyReply, KC_REPLY_OK_SIZE, fields, s
<1>4. ASSUME NEW snowflakeId \in Seq(Byte8), Len(snowflakeId) = 8,
             Len(old) >= KC_REPLY_ID_SIZE
      PROVE  AreReplies(kcReplyId(src, dest, identifier, cmd, snowflakeId, old),
                        src, dest, KC_REPLY_ID_SIZE, identifier \o <<cmd>> \o snowflakeId)
  <2> DEFINE s == <<cmd>>
             fields == (identifier \o s) \o snowflakeId
  <2>1. s \in Seq(Byte8) /\ Len(s) = 1
    OBVIOUS
  <2> HIDE DEF s
  <2>2. identifier \o s \in Seq(Byte8) /\ Len(identifier \o s) = 3
    <3>1. /\ identifier \o s \in Seq(Byte8)
          /\ Len(identifier \o s) = Len(identifier) + Len(s)
      BY <1>2, <2>1, Zenon
    <3> QED BY <2>1, <3>1
  <2>3. /\ fields \in Seq(Byte8)
        /\ Len(fields) = Len(identifier \o s) + Len(snowflakeId)
    BY <2>2, ConcatBytes
  <2> HIDE DEF fields
  <2>4. Len(fields) = 13 - 2
    BY <1>4, <2>2, <2>3
  <2>5. Len(old) >= 13 /\ 13 \in {7, 8, 13}
    BY <1>4 DEF KC_REPLY_ID_SIZE
  <2>6. AreReplies(Replies(src, dest, fields, 13, old), src, dest, 13, fields)
    BY <1>1, <2>3, <2>4, <2>5
  <2> QED BY <2>6 DEF kcReplyId, KC_REPLY_ID_SIZE, fields, s
<1>5. ASSUME NEW statusCode \in Word16, Len(old) >= KC_REPLY_STATUS_SIZE
      PROVE  AreReplies(kcReplyStatus(src, dest, identifier, cmd, statusCode, old),
                        src, dest, KC_REPLY_STATUS_SIZE,
                        identifier \o <<cmd>> \o Val16ToBytes(statusCode))
  <2> DEFINE s == <<cmd>>
             code == Val16ToBytes(statusCode)
             fields == (identifier \o s) \o code
  <2>1. s \in Seq(Byte8) /\ Len(s) = 1 /\ code \in Seq(Byte8) /\ Len(code) = 2
    BY WordBytes
  <2> HIDE DEF s, code
  <2>2. identifier \o s \in Seq(Byte8) /\ Len(identifier \o s) = 3
    <3>1. /\ identifier \o s \in Seq(Byte8)
          /\ Len(identifier \o s) = Len(identifier) + Len(s)
      BY <1>2, <2>1, Zenon
    <3> QED BY <2>1, <3>1
  <2>3. /\ fields \in Seq(Byte8)
        /\ Len(fields) = Len(identifier \o s) + Len(code)
    BY <2>1, <2>2, ConcatBytes
  <2> HIDE DEF fields
  <2>4. Len(fields) = 7 - 2
    BY <2>1, <2>2, <2>3
  <2>5. Len(old) >= 7 /\ 7 \in {7, 8, 13}
    BY <1>5 DEF KC_REPLY_STATUS_SIZE
  <2>6. AreReplies(Replies(src, dest, fields, 7, old), src, dest, 7, fields)
    BY <1>1, <2>3, <2>4, <2>5
  <2> QED BY <2>6 DEF kcReplyStatus, KC_REPLY_STATUS_SIZE, fields, s, code
<1> QED BY <1>3, <1>4, <1>5

\* With a longer identifier none of them sends anything.
THEOREM LongIdentifiersGetNoReply ==
  ASSUME NEW src, NEW dest, NEW identifier \in Seq(Byte8), Len(identifier) > 2,
         NEW cmd \in Byte8, NEW old \in Seq(Byte8)
  PROVE  /\ \A reading \in [addres : Byte8, cmd : Byte8], errCode \in Byte8 :
              Len(old) >= KC_REPLY_OK_SIZE =>
                kcFiveFiftyReply(src, dest, identifier, reading, errCode, old) = {}
         /\ \A snowflakeId \in Seq(Byte8) :
              Len(snowflakeId) = 8 /\ Len(old) >= KC_REPLY_ID_SIZE =>
                kcReplyId(src, dest, identifier, cmd, snowflakeId, old) = {}
         /\ \A statusCode \in Word16 :
              Len(old) >= KC_REPLY_STATUS_SIZE =>
                kcReplyStatus(src, dest, identifier, cmd, statusCode, old) = {}
<1>1. ASSUME NEW fields \in Seq(Byte8), NEW size \in {7, 8, 13},
             Len(fields) > size - 2, Len(old) >= size
      PROVE  Replies(src, dest, fields, size, old) = {}
  <2>1. size \in Nat /\ size >= 2 /\ size < Len(fields) + 2
    BY <1>1, LenProperties
  <2> QED BY <1>1, <2>1, RepliesTooLong
<1>2. \A s \in Seq(Byte8) : /\ identifier \o s \in Seq(Byte8)
                            /\ Len(identifier \o s) = Len(identifier) + Len(s)
  BY ConcatBytes
<1>3. Len(identifier) \in Nat
  BY LenProperties
<1>4. ASSUME NEW reading \in [addres : Byte8, cmd : Byte8], NEW errCode \in Byte8,
             Len(old) >= KC_REPLY_OK_SIZE
      PROVE  kcFiveFiftyReply(src, dest, identifier, reading, errCode, old) = {}
  <2> DEFINE s == <<reading.addres, reading.cmd, 1, errCode>>
             fields == identifier \o s
  <2>1. s \in Seq(Byte8) /\ Len(s) = 4
    <3>1. 1 \in Byte8
      BY ONLY ByteRange, Z3T(30)
    <3>2. reading.addres \in Byte8 /\ reading.cmd \in Byte8
      OBVIOUS
    <3> QED BY <3>1, <3>2
  <2> HIDE DEF s
  <2>2. fields \in Seq(Byte8) /\ Len(fields) > 8 - 2
    <3>1. fields \in Seq(Byte8) /\ Len(fields) = Len(identifier) + Len(s)
      BY <1>2, <2>1, Zenon
    <3> HIDE DEF fields
    <3> QED BY <1>3, <2>1, <3>1
  <2>3. Len(old) >= 8 /\ 8 \in {7, 8, 13}
    BY <1>4 DEF KC_REPLY_OK_SIZE
  <2> HIDE DEF fields
  <2>4. Replies(src, dest, fields, 8, old) = {}
    BY <1>1, <2>2, <2>3
  <2> QED BY <2>4 DEF kcFiveFiftyReply, KC_REPLY_OK_SIZE, fields, s
<1>5. ASSUME NEW tail \in Seq(Byte8), NEW size \in {7, 8, 13},
             Len(tail) = size - 5, Len(old) >= size
      PROVE  Replies(src, dest, identifier \o <<cmd>> \o tail, size, old) = {}
  <2> DEFINE s == <<cmd>>
             fields == (identifier \o s) \o tail
  <2>1. s \in Seq(Byte8) /\ Len(s) = 1
    OBVIOUS
  <2> HIDE DEF s
  <2>2. identifier \o s \in Seq(Byte8) /\ Len(identifier \o s) = Len(identifier) + 1
    BY <1>2, <2>1
  <2>3. /\ fields \in Seq(Byte8)
        /\ Len(fields) = Len(identifier \o s) + Len(tail)
    BY <2>2, ConcatBytes
  <2> HIDE DEF fields
  <2>4. Len(fields) > size - 2
    BY <1>3, <1>5, <2>2, <2>3
  <2>5. Replies(src, dest, fields, size, old) = {}
    BY <1>1, <1>5, <2>3, <2>4
  <2> QED BY <2>5 DEF fields, s
<1>6. ASSUME NEW snowflakeId \in Seq(Byte8), Len(snowflakeId) = 8,
             Len(old) >= KC_REPLY_ID_SIZE
      PROVE  kcReplyId(src, dest, identifier, cmd, snowflakeId, old) = {}
  <2>1. Len(old) >= 13 /\ 13 \in {7, 8, 13} /\ Len(snowflakeId) = 13 - 5
    BY <1>6 DEF KC_REPLY_ID_SIZE
  <2> QED BY <1>5, <2>1 DEF kcReplyId, KC_REPLY_ID_SIZE
<1>7. ASSUME NEW statusCode \in Word16, Len(old) >= KC_REPLY_STATUS_SIZE
      PROVE  kcReplyStatus(src, dest, identifier, cmd, statusCode, old) = {}
  <2>1. /\ Len(old) >= 7 /\ 7 \in {7, 8, 13}
        /\ Val16ToBytes(statusCode) \in Seq(Byte8) /\ Len(Val16ToBytes(statusCode)) = 7 - 5
    BY <1>7, WordBytes DEF KC_REPLY_STATUS_SIZE
  <2> QED BY <1>5, <2>1 DEF kcReplyStatus, KC_REPLY_STATUS_SIZE
<1> QED BY <1>4, <1>6, <1>7
=============================================================================
