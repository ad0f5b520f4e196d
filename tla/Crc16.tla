-------------------------------- MODULE Crc16 --------------------------------
(***************************************************************************)
(* kcCrc16 of kmblack/KcCrc.c: the 16-bit CRC of a sequence of bytes,      *)
(* computed with two tables, one for each byte of the register.            *)
(***************************************************************************)
EXTENDS Division

KC_CRC16_TAB_HIG == <<
  0, 193, 129, 64, 1, 192, 128, 65, 1, 192, 128, 65, 0, 193, 129, 64,
  1, 192, 128, 65, 0, 193, 129, 64, 0, 193, 129, 64, 1, 192, 128, 65,
  1, 192, 128, 65, 0, 193, 129, 64, 0, 193, 129, 64, 1, 192, 128, 65,
  0, 193, 129, 64, 1, 192, 128, 65, 1, 192, 128, 65, 0, 193, 129, 64,
  1, 192, 128, 65, 0, 193, 129, 64, 0, 193, 129, 64, 1, 192, 128, 65,
  0, 193, 129, 64, 1, 192, 128, 65, 1, 192, 128, 65, 0, 193, 129, 64,
  0, 193, 129, 64, 1, 192, 128, 65, 1, 192, 128, 65, 0, 193, 129, 64,
  1, 192, 128, 65, 0, 193, 129, 64, 0, 193, 129, 64, 1, 192, 128, 65,
  1, 192, 128, 65, 0, 193, 129, 64, 0, 193, 129, 64, 1, 192, 128, 65,
  0, 193, 129, 64, 1, 192, 128, 65, 1, 192, 128, 65, 0, 193, 129, 64,
  0, 193, 129, 64, 1, 192, 128, 65, 1, 192, 128, 65, 0, 193, 129, 64,
  1, 192, 128, 65, 0, 193, 129, 64, 0, 193, 129, 64, 1, 192, 128, 65,
  0, 193, 129, 64, 1, 192, 128, 65, 1, 192, 128, 65, 0, 193, 129, 64,
  1, 192, 128, 65, 0, 193, 129, 64, 0, 193, 129, 64, 1, 192, 128, 65,
  1, 192, 128, 65, 0, 193, 129, 64, 0, 193, 129, 64, 1, 192, 128, 65,
  0, 193, 129, 64, 1, 192, 128, 65, 1, 192, 128, 65, 0, 193, 129, 64>>

KC_CRC16_TAB_LOW == <<
  0, 192, 193, 1, 195, 3, 2, 194, 198, 6, 7, 199, 5, 197, 196, 4,
  204, 12, 13, 205, 15, 207, 206, 14, 10, 202, 203, 11, 201, 9, 8, 200,
  216, 24, 25, 217, 27, 219, 218, 26, 30, 222, 223, 31, 221, 29, 28, 220,
  20, 212, 213, 21, 215, 23, 22, 214, 210, 18, 19, 211, 17, 209, 208, 16,
  240, 48, 49, 241, 51, 243, 242, 50, 54, 246, 247, 55, 245, 53, 52, 244,
  60, 252, 253, 61, 255, 63, 62, 254, 250, 58, 59, 251, 57, 249, 248, 56,
  40, 232, 233, 41, 235, 43, 42, 234, 238, 46, 47, 239, 45, 237, 236, 44,
  228, 36, 37, 229, 39, 231, 230, 38, 34, 226, 227, 35, 225, 33, 32, 224,
  160, 96, 97, 161, 99, 163, 162, 98, 102, 166, 167, 103, 165, 101, 100, 164,
  108, 172, 173, 109, 175, 111, 110, 174, 170, 106, 107, 171, 105, 169, 168, 104,
  120, 184, 185, 121, 187, 123, 122, 186, 190, 126, 127, 191, 125, 189, 188, 124,
  180, 116, 117, 181, 119, 183, 182, 118, 114, 178, 179, 115, 177, 113, 112, 176,
  80, 144, 145, 81, 147, 83, 82, 146, 150, 86, 87, 151, 85, 149, 148, 84,
  156, 92, 93, 157, 95, 159, 158, 94, 90, 154, 155, 91, 153, 89, 88, 152,
  136, 72, 73, 137, 75, 139, 138, 74, 78, 142, 143, 79, 141, 77, 76, 140,
  68, 132, 133, 69, 135, 71, 70, 134, 130, 66, 67, 131, 65, 129, 128, 64>>

\* Mutant: the tables are swapped.
Step_SwapsTables(crc, byte) ==
  LET iIndex == XorByte[crc.lo][byte] + 1
  IN [lo |-> XorByte[crc.hi][KC_CRC16_TAB_LOW[iIndex]], hi |-> KC_CRC16_TAB_HIG[iIndex]]

\* One turn of the loop.
Step(crc, byte) ==
  LET iIndex == XorByte[crc.lo][byte] + 1
  IN [lo |-> XorByte[crc.hi][KC_CRC16_TAB_HIG[iIndex]], hi |-> KC_CRC16_TAB_LOW[iIndex]]

\* The register after each turn.
Registers(data, preval) ==
  LET crc[i \in 0 .. Len(data)] ==
        IF i = 0 THEN [lo |-> preval % 256, hi |-> preval \div 256]
        ELSE Step(crc[i - 1], data[i])
  IN crc

Preset == 65535  \* what every caller gives for preval

kcCrc16(data, preval) ==
  LET crc == Registers(data, preval)[Len(data)]
  IN crc.hi * 256 + crc.lo

-----------------------------------------------------------------------------
(***************************************************************************)
(* The definition kcCrc16 is checked against: the remainder of the         *)
(* division by the polynomial 0xA001.                                      *)
(***************************************************************************)
Poly16 == <<160, 1>>

Remainder(data) ==
  LET remainder == RemainderOf(Poly16, <<255, 255>>, data)
  IN remainder[1] * 256 + remainder[2]

\* The tables hold the two bytes of the remainder of each single byte, and the
\* second, from which the high byte of the register comes, has every byte once.
ASSUME TablesAssumption ==
  \A byte \in 0 .. 255 :
    /\ KC_CRC16_TAB_HIG[byte + 1] \in 0 .. 255 /\ KC_CRC16_TAB_LOW[byte + 1] \in 0 .. 255
    /\ EightBits(Poly16, Alone(2, byte))
         = <<KC_CRC16_TAB_LOW[byte + 1], KC_CRC16_TAB_HIG[byte + 1]>>
    /\ \A other \in 0 .. 255 :
         KC_CRC16_TAB_LOW[other + 1] = KC_CRC16_TAB_LOW[byte + 1] => other = byte
=============================================================================
