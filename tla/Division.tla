------------------------------- MODULE Division -------------------------------
(***************************************************************************)
(* Exclusive or, and the division of polynomials that defines a CRC.  A    *)
(* number of several bytes is the sequence of these bytes, most            *)
(* significant first; the least significant bit has the highest power.     *)
(***************************************************************************)
EXTENDS Integers, Sequences

\* Exclusive or of two bytes and of two numbers, without the recursion of the
\* community module, so that it can be reasoned about.
Bit(a, power) == (a \div power) % 2

XorBit(a, b, power) == power * ((Bit(a, power) + Bit(b, power)) % 2)

XorByte ==
  [a \in 0 .. 255 |-> [b \in 0 .. 255 |->
     XorBit(a, b, 1) + XorBit(a, b, 2) + XorBit(a, b, 4) + XorBit(a, b, 8)
       + XorBit(a, b, 16) + XorBit(a, b, 32) + XorBit(a, b, 64) + XorBit(a, b, 128)]]

XorBytes(a, b) == [k \in DOMAIN a |-> XorByte[a[k]][b[k]]]

-----------------------------------------------------------------------------
\* Shifted right by one bit, and by eight.
HalfByte(byte, carry) == (byte \div 2) + 128 * carry

Half(crc) ==
  <<HalfByte(crc[1], 0)>> \o [k \in 1 .. Len(crc) - 1 |-> HalfByte(crc[k + 1], crc[k] % 2)]

ByteOn(crc) == <<0>> \o SubSeq(crc, 1, Len(crc) - 1)

\* A bit leaves the register, and when it is set the polynomial is taken off.
ShiftOut(poly, crc) ==
  IF crc[Len(poly)] % 2 = 1 THEN XorBytes(Half(crc), poly) ELSE Half(crc)

TwoBits(poly, crc) == ShiftOut(poly, ShiftOut(poly, crc))
EightBits(poly, crc) == TwoBits(poly, TwoBits(poly, TwoBits(poly, TwoBits(poly, crc))))

\* A byte of the data comes into the register, and leaves it bit by bit.
Divided(poly, crc, byte) ==
  EightBits(poly, [crc EXCEPT ![Len(poly)] = XorByte[@][byte]])

RemaindersOf(poly, start, data) ==
  LET Taken(byte) == [crc \in Seq(0 .. 255) |-> Divided(poly, crc, byte)]
      remainder[i \in 0 .. Len(data)] ==
        IF i = 0 THEN start ELSE Taken(data[i])[remainder[i - 1]]
  IN remainder

RemainderOf(poly, start, data) == RemaindersOf(poly, start, data)[Len(data)]

\* A byte as a number of n bytes.
Alone(n, byte) == [k \in 1 .. n |-> IF k = n THEN byte ELSE 0]
=============================================================================
