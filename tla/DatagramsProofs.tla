---------------------------- MODULE DatagramsProofs ----------------------------
(***************************************************************************)
(* FiveFifty notices every damaged byte of a device's datagram, and takes  *)
(* from any other only its own bytes, unless it is too short; a device's   *)
(* answer is about a reading that is saved.  For all addresses, readings,  *)
(* datagrams, damages and plugins.                                         *)
(***************************************************************************)
EXTENDS Datagrams, FunctionsProofs

-----------------------------------------------------------------------------
(***************************************************************************)
(* The datagrams of devices, and what damage does to them.                 *)
(***************************************************************************)
\* What a reading consists of.
LEMMA ReadingType ==
  ASSUME NEW r \in FiveFiftyReading
  PROVE  /\ r.addres \in Byte8 /\ r.cmd \in Byte8 /\ r.len \in Byte8
         /\ r.temperature \in Seq(Byte8) /\ Len(r.temperature) = 4
         /\ r.humidity \in Seq(Byte8) /\ Len(r.humidity) = 4
BY DEF FiveFiftyReading, FourBytes

\* The body of a datagram.
LEMMA BodyParts ==
  ASSUME NEW r \in FiveFiftyReading
  PROVE  /\ Laid(Body(r), {<<0, <<r.addres, r.cmd, r.len>>>>} \cup {<<3, r.temperature>>}
                            \cup {<<7, r.humidity>>})
         /\ Len(Body(r)) = 11
<1> DEFINE a == <<r.addres, r.cmd, r.len>>
           b == r.temperature
           c == r.humidity
<1>1. a \in Seq(Byte8) /\ Len(a) = 3 /\ b \in Seq(Byte8) /\ Len(b) = 4
      /\ c \in Seq(Byte8) /\ Len(c) = 4
  BY ReadingType
<1>2. Body(r) = a \o b \o c
  BY DEF Body
<1> HIDE DEF a, b, c
<1>3. Laid(a, {<<0, a>>})
  BY <1>1, LaidAlone
<1>4. Laid(a, {<<0, a>>}) /\ b \in Seq(Byte8) /\ 3 = Len(a)
  BY <1>1, <1>3
<1>5. Laid(a \o b, {<<0, a>>} \cup {<<3, b>>}) /\ Len(a \o b) = 3 + Len(b)
  BY <1>4, Appended
<1> DEFINE d == a \o b
           k == {<<0, a>>} \cup {<<3, b>>}
<1>6. Laid(d, k) /\ c \in Seq(Byte8) /\ 7 = Len(d)
  BY <1>1, <1>5
<1> HIDE DEF d, k
<1>7. Laid(d \o c, k \cup {<<7, c>>}) /\ Len(d \o c) = 7 + Len(c)
  BY <1>6, Appended
<1>8. 7 + Len(c) = 11
  BY <1>1
<1> QED BY <1>2, <1>7, <1>8 DEF a, b, c, d, k

\* The CRC of a sequence of bytes in the processor's order is a word, and
\* different CRCs stay different when their bytes are exchanged.
LEMMA SwapType ==
  ASSUME NEW v \in Word16, NEW w \in Word16
  PROVE  /\ pg_bswap16(v) \in Word16
         /\ pg_bswap16(v) = pg_bswap16(w) => v = w
<1> DEFINE a == v \div 256
           b == v % 256
           c == w \div 256
           d == w % 256
<1>1. v \in Int /\ 0 <= v /\ v < WordMod /\ w \in Int /\ 0 <= w /\ w < WordMod
  BY WordRange
<1>2. /\ a \in Int /\ 0 <= a /\ a <= 255 /\ b \in Int /\ 0 <= b /\ b <= 255
      /\ v = 256 * a + b
  BY <1>1, SMT DEF WordMod
<1>3. /\ c \in Int /\ 0 <= c /\ c <= 255 /\ d \in Int /\ 0 <= d /\ d <= 255
      /\ w = 256 * c + d
  BY <1>1, SMT DEF WordMod
<1>4. pg_bswap16(v) = b * 256 + a /\ pg_bswap16(w) = d * 256 + c
  BY DEF pg_bswap16
<1> HIDE DEF a, b, c, d
<1>5. b * 256 + a = d * 256 + c => v = w
  BY <1>2, <1>3, SMT
<1> QED BY <1>4, <1>5, CongruentSwap

\* The datagram of a reading: identifier, body and CRC.
LEMMA DatagramBytes ==
  ASSUME NEW r \in FiveFiftyReading
  PROVE  LET bytes == DeviceDatagram(r)
             crc == pg_bswap16(kcCrc16(Body(r), Preset))
         IN /\ Body(r) \in Seq(Byte8) /\ Len(Body(r)) = 11
            /\ bytes \in Seq(Byte8) /\ Len(bytes) = 15
            /\ bytes[1] = 5 /\ bytes[2] = 81
            /\ Lies(bytes, 2, Body(r))
            /\ 256 * bytes[14] + bytes[15] = crc
<1> DEFINE a == <<5, 81>>
           b == Body(r)
           crc == pg_bswap16(kcCrc16(Body(r), Preset))
           c == Val16ToBytes(crc)
<1>1. b \in Seq(Byte8) /\ Len(b) = 11
  BY BodyParts DEF Laid
<1>2. a \in Seq(Byte8) /\ Len(a) = 2 /\ a[1] = 5 /\ a[2] = 81
  <2>1. 5 \in Byte8 /\ 81 \in Byte8
    BY ByteRange
  <2> QED BY <2>1
<1>3. crc \in Word16
  BY <1>1, CrcType, WordRange, SwapType
<1>4. c \in Seq(Byte8) /\ Len(c) = 2 /\ 256 * c[1] + c[2] = crc
  <2> HIDE DEF crc
  <2> QED BY <1>3, WordBytes
<1>5. DeviceDatagram(r) = a \o b \o c
  BY <1>1, CrcIsRemainder DEF DeviceDatagram
<1> HIDE DEF a, b, c, crc
<1>6. Laid(a, {<<0, a>>})
  BY <1>2, LaidAlone
<1>7. Laid(a, {<<0, a>>}) /\ b \in Seq(Byte8) /\ 2 = Len(a)
  BY <1>1, <1>2, <1>6
<1>8. Laid(a \o b, {<<0, a>>} \cup {<<2, b>>}) /\ Len(a \o b) = 2 + Len(b)
  BY <1>7, Appended
<1> DEFINE d == a \o b
           k == {<<0, a>>} \cup {<<2, b>>}
<1>9. Laid(d, k) /\ c \in Seq(Byte8) /\ 13 = Len(d)
  BY <1>1, <1>4, <1>8
<1>10. <<0, a>> \in k \cup {<<13, c>>} /\ <<2, b>> \in k \cup {<<13, c>>}
       /\ <<13, c>> \in k \cup {<<13, c>>}
  OBVIOUS
<1> HIDE DEF d, k
<1> DEFINE bytes == d \o c
           all == k \cup {<<13, c>>}
<1>11. Laid(bytes, all) /\ Len(bytes) = 13 + Len(c)
  BY <1>9, Appended
<1>12. <<0, a>> \in all /\ <<2, b>> \in all /\ <<13, c>> \in all
  BY <1>10
<1>13. bytes \in Seq(Byte8) /\ DeviceDatagram(r) = bytes
  BY <1>5, <1>11 DEF Laid, d
<1> HIDE DEF bytes, all
<1>14. Lies(bytes, 0, a) /\ Lies(bytes, 2, b) /\ Lies(bytes, 13, c)
  BY <1>11, <1>12, LaidPart
<1>15. bytes[1] = 5 /\ bytes[2] = 81 /\ bytes[14] = c[1] /\ bytes[15] = c[2]
  <2>1. 1 \in 1 .. 2 /\ 2 \in 1 .. 2 /\ 0 + 1 = 1 /\ 0 + 2 = 2 /\ 13 + 1 = 14 /\ 13 + 2 = 15
    OBVIOUS
  <2>2. /\ \A i \in 1 .. 2 : bytes[0 + i] = a[i]
        /\ \A i \in 1 .. 2 : bytes[13 + i] = c[i]
    BY <1>2, <1>4, <1>14 DEF Lies
  <2> QED BY <1>2, <2>1, <2>2
<1>16. Len(bytes) = 15
  BY <1>4, <1>11
<1>17. 256 * bytes[14] + bytes[15] = crc
  BY <1>4, <1>15
<1> QED BY <1>1, <1>13, <1>14, <1>15, <1>16, <1>17 DEF b, crc

\* FiveFifty finds the CRC of these bytes right.
CrcFits(bytes) ==
  LET n == Len(bytes)
  IN Val16FromBytes(SubSeq(bytes, n - 1, n))
       = pg_bswap16(kcCrc16(SubSeq(bytes, 3, n - 2), Preset))

\* A damaged byte is another byte.
LEMMA DamageChanges ==
  ASSUME NEW a \in Byte8, NEW x \in Byte8 \ {0}
  PROVE  XorByte[a][x] \in Byte8 /\ XorByte[a][x] # a
<1>1. x \in Byte8 /\ x # 0
  OBVIOUS
<1>2. XorByte[a][x] \in Byte8
  BY <1>1, XorType DEF Byte8
<1>3. XorByte[a][0] = a
  BY XorZero DEF Byte8
<1>4. 0 \in Byte8
  BY ByteRange
<1>5. XorByte[a][x] = XorByte[a][0] => x = 0
  BY ONLY <1>1, <1>4, XorCancels, ZenonT(40) DEF Byte8
<1> QED BY <1>1, <1>2, <1>3, <1>5

\* The last two bytes of a datagram as a number.
LastWord(bytes, n) ==
  Val16FromBytes(SubSeq(bytes, n - 1, n)) = 256 * bytes[n - 1] + bytes[n]

LEMMA LastBytes ==
  ASSUME NEW bytes \in Seq(Byte8), NEW n, n = Len(bytes), n >= 4
  PROVE  LastWord(bytes, n)
<1> DEFINE s == SubSeq(bytes, n - 1, n)
<1>1. /\ n - 1 \in Nat \ {0} /\ n \in Nat /\ n - 1 <= n + 1 /\ n <= Len(bytes)
      /\ n + 1 - (n - 1) = 2 /\ (n - 1) + 1 - 1 = n - 1 /\ (n - 1) + 2 - 1 = n
      /\ n - 1 \in 1 .. Len(bytes) /\ n \in 1 .. Len(bytes)
  BY LenProperties
<1>2. \A i \in 1 .. n + 1 - (n - 1) : s[i] = bytes[(n - 1) + i - 1]
  BY <1>1, SubBytes
<1>3. 1 \in 1 .. n + 1 - (n - 1) /\ 2 \in 1 .. n + 1 - (n - 1)
  BY <1>1
<1>4. s[1] = bytes[n - 1] /\ s[2] = bytes[n]
  BY <1>1, <1>2, <1>3
<1> DEFINE high == bytes[n - 1]
           low == bytes[n]
<1>5. high \in Byte8 /\ low \in Byte8
  BY <1>1, ElementOfSeq
<1>6. Val16FromBytes(s) = high * 256 + low
  BY <1>4 DEF Val16FromBytes
<1> HIDE DEF high, low, s
<1>7. high * 256 + low = 256 * high + low
  BY <1>5, ByteIsInt
<1> QED BY <1>6, <1>7 DEF high, low, s, LastWord

\* Damage to one byte of a device's datagram is noticed, wherever it is: the
\* identifier is another one, or FiveFifty finds that the CRC is wrong.
THEOREM DamageIsNoticed ==
  ASSUME NEW r \in FiveFiftyReading, NEW k \in DOMAIN DeviceDatagram(r),
         NEW y \in Byte8, y # DeviceDatagram(r)[k],
         NEW damaged, damaged = [DeviceDatagram(r) EXCEPT ![k] = y],
         damaged[1] = 5, damaged[2] = 81
  PROVE  ~CrcFits(damaged)
<1> DEFINE bytes == DeviceDatagram(r)
           b == Body(r)
           taken == SubSeq(damaged, 3, 13)
<1>1. /\ b \in Seq(Byte8) /\ Len(b) = 11
      /\ bytes \in Seq(Byte8) /\ Len(bytes) = 15
      /\ bytes[1] = 5 /\ bytes[2] = 81
      /\ Lies(bytes, 2, b)
      /\ 256 * bytes[14] + bytes[15] = pg_bswap16(kcCrc16(b, Preset))
  BY DatagramBytes
<1>2. k \in 1 .. 15
  BY <1>1, LenProperties
<1> HIDE DEF bytes, b
<1>3. /\ damaged \in Seq(Byte8) /\ Len(damaged) = 15
      /\ \A j \in 1 .. 15 : damaged[j] = IF j = k THEN y ELSE bytes[j]
  <2>1. bytes \in Seq(Byte8) /\ k \in 1 .. Len(bytes) /\ y \in Byte8
    BY <1>1, <1>2
  <2>2. /\ [bytes EXCEPT ![k] = y] \in Seq(Byte8)
        /\ Len([bytes EXCEPT ![k] = y]) = Len(bytes)
        /\ \A j \in 1 .. Len(bytes) : [bytes EXCEPT ![k] = y][j] = IF j = k THEN y ELSE bytes[j]
    BY ONLY <2>1, ExceptSeq
  <2>3. damaged = [bytes EXCEPT ![k] = y] /\ Len(bytes) = 15
    BY <1>1 DEF bytes
  <2> QED BY ONLY <2>2, <2>3
<1>4. y # bytes[k]
  BY DEF bytes
<1>5. k # 1 /\ k # 2
  <2>1. 1 \in 1 .. 15 /\ 2 \in 1 .. 15
    OBVIOUS
  <2> QED BY <1>1, <1>3, <1>4, <2>1
<1>6. Val16FromBytes(SubSeq(damaged, 14, 15)) = 256 * damaged[14] + damaged[15]
  <2>1. 15 = Len(damaged) /\ 15 >= 4 /\ 15 - 1 = 14
    BY <1>3
  <2>2. Val16FromBytes(SubSeq(damaged, 15 - 1, 15)) = 256 * damaged[15 - 1] + damaged[15]
    <3>1. LastWord(damaged, 15)
      BY ONLY <1>3, <2>1, LastBytes
    <3> QED BY ONLY <3>1, Zenon DEF LastWord
  <2> QED BY <2>1, <2>2
<1>7. \A i \in 1 .. 11 : bytes[2 + i] = b[i]
  BY <1>1 DEF Lies
<1>8. /\ taken \in Seq(Byte8) /\ Len(taken) = 11
      /\ \A i \in 1 .. 11 : taken[i] = damaged[2 + i]
  <2>1. 3 \in Nat \ {0} /\ 13 \in Nat /\ 3 <= 13 + 1 /\ 13 <= Len(damaged) /\ 13 + 1 - 3 = 11
        /\ \A i \in 1 .. 11 : 3 + i - 1 = 2 + i
    <3>1. Len(damaged) = 15
      BY <1>3
    <3>2. 3 \in Nat \ {0} /\ 13 \in Nat /\ 3 <= 13 + 1 /\ 13 <= Len(damaged) /\ 13 + 1 - 3 = 11
      BY ONLY <3>1
    <3>3. \A i \in 1 .. 11 : 3 + i - 1 = 2 + i
      BY ONLY <3>1
    <3> QED BY <3>2, <3>3
  <2>2. /\ taken \in Seq(Byte8) /\ Len(taken) = 13 + 1 - 3
        /\ \A i \in 1 .. 13 + 1 - 3 : taken[i] = damaged[3 + i - 1]
    BY <1>3, <2>1, SubBytes, Z3T(30)
  <2> HIDE DEF taken
  <2> QED BY <2>1, <2>2
<1> HIDE DEF taken
<1>9. CrcFits(damaged) => 256 * damaged[14] + damaged[15] = pg_bswap16(kcCrc16(taken, Preset))
  <2>1. Len(damaged) - 1 = 14 /\ Len(damaged) - 2 = 13 /\ Len(damaged) = 15
    BY <1>3
  <2> QED BY ONLY <1>6, <2>1 DEF CrcFits, taken
<1>10. ASSUME CrcFits(damaged), k <= 13 PROVE FALSE
  <2>1. PICK i \in 1 .. 11 : k = 2 + i
    <3>1. k - 2 \in 1 .. 11 /\ k = 2 + (k - 2)
      BY <1>2, <1>5, <1>10
    <3> QED BY <3>1
  <2>2. y # b[i]
    BY <1>4, <1>7, <2>1
  <2> DEFINE other == [b EXCEPT ![i] = y]
  <2>3. /\ other \in Seq(Byte8) /\ Len(other) = 11
        /\ \A j \in 1 .. 11 : other[j] = IF j = i THEN y ELSE b[j]
    <3>1. b \in Seq(Byte8) /\ i \in 1 .. Len(b) /\ y \in Byte8
      BY <1>1
    <3>2. /\ other \in Seq(Byte8) /\ Len(other) = Len(b)
          /\ \A j \in 1 .. Len(b) : other[j] = IF j = i THEN y ELSE b[j]
      BY ONLY <3>1, ExceptSeq
    <3> QED BY <1>1, <3>2
  <2>4. kcCrc16(other, Preset) # kcCrc16(b, Preset)
    <3>1. i \in 1 .. Len(b)
      BY <1>1
    <3> QED BY <1>1, <2>2, <3>1, CrcNoticesDamage, ZenonT(40)
  <2> HIDE DEF other
  <2>5. ASSUME NEW j \in 1 .. 11 PROVE taken[j] = other[j]
    <3>1. taken[j] = damaged[2 + j] /\ bytes[2 + j] = b[j]
      BY <1>7, <1>8
    <3>2. 2 + j \in 1 .. 15 /\ (2 + j = k <=> j = i)
      BY <2>1
    <3>3. damaged[2 + j] = IF 2 + j = k THEN y ELSE bytes[2 + j]
      BY <1>3, <3>2
    <3> QED BY <2>3, <3>1, <3>2, <3>3
  <2>6. taken = other
    <3>1. Len(taken) = Len(other) /\ \A j \in 1 .. Len(taken) : taken[j] = other[j]
      BY <1>8, <2>3, <2>5
    <3> QED BY ONLY <1>8, <2>3, <3>1, SeqEqual
  <2>7. damaged[14] = bytes[14] /\ damaged[15] = bytes[15]
    <3>1. 14 \in 1 .. 15 /\ 15 \in 1 .. 15 /\ k # 14 /\ k # 15
      BY <1>10
    <3> QED BY <1>3, <3>1
  <2>8. pg_bswap16(kcCrc16(b, Preset)) = pg_bswap16(kcCrc16(other, Preset))
    BY <1>1, <1>9, <1>10, <2>6, <2>7
  <2>9. kcCrc16(b, Preset) \in Word16 /\ kcCrc16(other, Preset) \in Word16
    BY <1>1, <2>3, CrcType, WordRange
  <2> QED BY <2>4, <2>8, <2>9, SwapType
<1>11. ASSUME CrcFits(damaged), k > 13 PROVE FALSE
  <2>1. k = 14 \/ k = 15
    BY <1>2, <1>11
  <2>2. ASSUME NEW j \in 1 .. 11 PROVE taken[j] = b[j]
    <3>1. taken[j] = damaged[2 + j] /\ bytes[2 + j] = b[j]
      BY <1>7, <1>8
    <3>2. 2 + j \in 1 .. 15 /\ 2 + j # k
      BY <1>11
    <3> QED BY ONLY <1>3, <3>1, <3>2
  <2>3. taken = b
    <3>1. Len(taken) = Len(b) /\ \A j \in 1 .. Len(taken) : taken[j] = b[j]
      BY <1>1, <1>8, <2>2
    <3> QED BY ONLY <1>1, <1>8, <3>1, SeqEqual, ZenonT(40)
  <2> DEFINE p == bytes[14]
             q == bytes[15]
             s == damaged[14]
             t == damaged[15]
  <2>4. 14 \in 1 .. 15 /\ 15 \in 1 .. 15
    OBVIOUS
  <2>5. 256 * p + q = 256 * s + t
    BY <1>1, <1>9, <1>11, <2>3
  <2>6. p \in Byte8 /\ q \in Byte8 /\ s \in Byte8 /\ t \in Byte8
    BY <1>1, <1>3, <2>4, ElementOfSeq, ZenonT(40)
  <2>7. p # s \/ q # t
    BY <1>3, <1>4, <2>1, <2>4
  <2>8. (p = s) \/ (q = t)
    BY <1>3, <2>1, <2>4
  <2> HIDE DEF p, q, s, t
  <2>9. p \in Int /\ q \in Int /\ s \in Int /\ t \in Int
    BY <2>6, ByteIsInt
  <2>10. CASE p = s
    <3>1. q = t
      BY <2>5, <2>9, <2>10
    <3> QED BY <2>7, <2>10, <3>1
  <2>11. CASE q = t
    <3>1. p = s
      BY <2>5, <2>9, <2>11
    <3> QED BY <2>7, <2>11, <3>1
  <2> QED BY <2>8, <2>10, <2>11
<1> QED BY <1>2, <1>10, <1>11

-----------------------------------------------------------------------------
(***************************************************************************)
(* The invariant of Datagrams.                                             *)
(***************************************************************************)
\* The answer to a reading, and the packet that brings it.
Answer(r) ==
  LET said == <<5, 81, r.addres, r.cmd, 1, 0>>
  IN said \o Val16ToBytes(kcCrc16(said, Preset))

AnswerPacket(d, r) == [to |-> d, bytes |-> Packet(Server, d, Answer(r))]

\* The datagram in the buffer, without what an earlier one has left behind it.
Content == SubSeq(data, 1, len)

SentInv ==
  \A m \in sent : /\ m.from \in Device /\ m.reading \in Reading[m.from]
                  /\ m.bytes = DeviceDatagram(m.reading)

BufferInv ==
  /\ data \in Seq(Byte8) /\ Len(data) = BufferSize /\ len \in 0 .. Len(data)
  /\ sender \in Device \cup {None}
  /\ received \in BOOLEAN /\ refused \in BOOLEAN /\ crashed \in BOOLEAN
  /\ strays \in 0 .. StrayMax
  /\ received => /\ sender \in Device
                 /\ \/ Content \in Foreign
                    \/ \E m \in sent : m.from = sender /\ Content \in Arriving(m.bytes)

\* Where a saved reading comes from.
ItsDevices(s) == \E m \in sent : m.from = s.from /\ m.reading = s.reading /\ m.bytes = s.bin

FromForeign(s) ==
  /\ s.bin \in Foreign
  /\ SubSeq(s.bin, 1, 2) = <<5, 81>> /\ Len(s.bin) >= 4
  /\ \A k \in (3 .. 13) \ Stale(s.bin) : Body(s.reading)[k - 2] = s.bin[k]

\* An answer to what is saved is on the way.
SavedInv ==
  \A s \in saved : /\ s.from \in Device /\ s.reading \in FiveFiftyReading
                   /\ ItsDevices(s) \/ FromForeign(s)
                   /\ AnswerPacket(s.from, s.reading) \in replies

\* No other packets are on the way.
RepliesInv == \A p \in replies : \E s \in saved : p = AnswerPacket(s.from, s.reading)

AnsweredInv ==
  \A a \in answered : \E s \in saved : s.from = a.at /\ a.msg = Answer(s.reading)

IInv == SentInv /\ BufferInv /\ SavedInv /\ RepliesInv /\ AnsweredInv

\* The datagram in the buffer is what the buffer begins with.
LEMMA ContentBytes ==
  ASSUME data \in Seq(Byte8), len \in 0 .. Len(data)
  PROVE  /\ Content \in Seq(Byte8) /\ Len(Content) = len
         /\ \A i \in 1 .. len : Content[i] = data[i]
<1>1. 1 \in Nat \ {0} /\ len \in Nat /\ 1 <= len + 1 /\ len <= Len(data) /\ len + 1 - 1 = len
      /\ \A i \in 1 .. len : 1 + i - 1 = i
  BY LenProperties
<1>2. /\ Content \in Seq(Byte8) /\ Len(Content) = len + 1 - 1
      /\ \A i \in 1 .. len + 1 - 1 : Content[i] = data[1 + i - 1]
  BY <1>1, SubBytes DEF Content
<1> QED BY <1>1, <1>2

\* What is taken from the datagram is taken from the buffer.
LEMMA SubContent ==
  ASSUME data \in Seq(Byte8), len \in 0 .. Len(data),
         NEW a \in Nat \ {0}, NEW b \in Nat, a <= b + 1, b <= len
  PROVE  SubSeq(Content, a, b) = SubSeq(data, a, b)
<1>1. /\ Content \in Seq(Byte8) /\ Len(Content) = len
      /\ \A i \in 1 .. len : Content[i] = data[i]
  BY ContentBytes
<1>2. b <= Len(data) /\ b <= Len(Content) /\ b + 1 - a \in Nat
      /\ \A i \in 1 .. b + 1 - a : a + i - 1 \in 1 .. len
  BY <1>1, LenProperties
<1> DEFINE s == SubSeq(Content, a, b)
           t == SubSeq(data, a, b)
<1>3. /\ s \in Seq(Byte8) /\ Len(s) = b + 1 - a
      /\ \A i \in 1 .. b + 1 - a : s[i] = Content[a + i - 1]
  BY <1>1, <1>2, SubBytes
<1>4. /\ t \in Seq(Byte8) /\ Len(t) = b + 1 - a
      /\ \A i \in 1 .. b + 1 - a : t[i] = data[a + i - 1]
  BY <1>2, SubBytes
<1> HIDE DEF s, t
<1>5. ASSUME NEW i \in 1 .. b + 1 - a PROVE s[i] = t[i]
  <2>1. Content[a + i - 1] = data[a + i - 1]
    BY <1>1, <1>2
  <2> QED BY <1>3, <1>4, <2>1
<1>6. Len(s) = Len(t) /\ \A i \in 1 .. Len(s) : s[i] = t[i]
  BY <1>3, <1>4, <1>5
<1>7. s = t
  BY <1>3, <1>4, <1>6, SeqEqual
<1> QED BY <1>7 DEF s, t

\* FiveFifty computes the CRC of the datagram, not of what lies behind it.
LEMMA CrcOfContent ==
  ASSUME data \in Seq(Byte8), len \in 0 .. Len(data), len >= 4
  PROVE  FiveFiftyCrcOk <=> CrcFits(Content)
<1>1. Len(Content) = len
  BY ContentBytes
<1>2. /\ len - 1 \in Nat \ {0} /\ len \in Nat /\ len - 1 <= len + 1 /\ len <= len
      /\ 3 \in Nat \ {0} /\ len - 2 \in Nat /\ 3 <= (len - 2) + 1 /\ len - 2 <= len
      /\ (len - 2) + 1 = len - 1 /\ (len - 2) + 2 = len
      /\ 2 + 1 = 3 /\ 2 + (len - 4) = len - 2
  BY LenProperties
<1>3. SubSeq(Content, len - 1, len) = SubSeq(data, len - 1, len)
  BY <1>2, SubContent
<1>4. SubSeq(Content, 3, len - 2) = SubSeq(data, 3, len - 2)
  BY <1>2, SubContent
<1>5. Bytes(len - 2, 2) = SubSeq(data, len - 1, len)
  BY <1>2 DEF Bytes
<1>6. Bytes(2, len - 4) = SubSeq(data, 3, len - 2)
  BY <1>2 DEF Bytes
<1> QED BY <1>1, <1>3, <1>4, <1>5, <1>6 DEF FiveFiftyCrcOk, dataCrc16, CrcFits

\* The first bytes of the buffer when they are those of a datagram.
LEMMA Identified ==
  ASSUME data \in Seq(Byte8), len \in 0 .. Len(data), len >= 4, Bytes(0, 2) = <<5, 81>>
  PROVE  /\ Content[1] = 5 /\ Content[2] = 81
         /\ SubSeq(Content, 1, 2) = <<5, 81>>
<1>1. 1 \in Nat \ {0} /\ 2 \in Nat /\ 1 <= 2 + 1 /\ 2 <= len /\ 2 <= Len(data)
      /\ 1 \in 1 .. len /\ 2 \in 1 .. len /\ 0 + 1 = 1 /\ 0 + 2 = 2
      /\ 2 + 1 - 1 = 2 /\ 1 \in 1 .. 2 /\ 2 \in 1 .. 2 /\ 1 + 1 - 1 = 1 /\ 1 + 2 - 1 = 2
  BY LenProperties
<1>2. Bytes(0, 2) = SubSeq(data, 1, 2)
  BY <1>1 DEF Bytes
<1>3. SubSeq(Content, 1, 2) = SubSeq(data, 1, 2)
  BY <1>1, SubContent
<1>4. \A i \in 1 .. 2 + 1 - 1 : SubSeq(data, 1, 2)[i] = data[1 + i - 1]
  BY <1>1, SubBytes
<1>5. SubSeq(data, 1, 2)[1] = data[1] /\ SubSeq(data, 1, 2)[2] = data[2]
  BY <1>1, <1>4
<1>6. data[1] = 5 /\ data[2] = 81
  BY <1>2, <1>5
<1>7. \A i \in 1 .. len : Content[i] = data[i]
  BY ContentBytes
<1> QED BY <1>1, <1>2, <1>3, <1>6, <1>7

\* The fields that FiveFifty reads are bytes of the buffer.
LEMMA ParsedBody ==
  ASSUME data \in Seq(Byte8), Len(data) >= 13
  PROVE  /\ Parsed(2) \in FiveFiftyReading
         /\ \A i \in 1 .. 11 : Body(Parsed(2))[i] = data[2 + i]
<1> DEFINE r == Parsed(2)
           first == <<r.addres, r.cmd, r.len>>
           t == r.temperature
           h == r.humidity
           b == Body(r)
           all == {<<0, first>>} \cup {<<3, t>>} \cup {<<7, h>>}
<1>1. \A i \in 1 .. 13 : data[i] \in Byte8
  <2>1. Len(data) \in Nat
    BY LenProperties
  <2>2. \A i \in 1 .. 13 : i \in 1 .. Len(data)
    BY <2>1
  <2> QED BY <2>2, ElementOfSeq
<1>2. r.addres = data[3] /\ r.cmd = data[4] /\ r.len = data[5]
  <2>1. 2 + 1 = 3 /\ 2 + 2 = 4 /\ 2 + 3 = 5
    OBVIOUS
  <2> QED BY <2>1 DEF Parsed
<1>3. ASSUME NEW n \in {5, 9}
      PROVE  /\ Bytes(n, 4) \in Seq(Byte8) /\ Len(Bytes(n, 4)) = 4
             /\ \A i \in 1 .. 4 : Bytes(n, 4)[i] = data[n + i]
  <2>1. /\ n + 1 \in Nat \ {0} /\ n + 4 \in Nat /\ n + 1 <= (n + 4) + 1 /\ n + 4 <= Len(data)
        /\ (n + 4) + 1 - (n + 1) = 4 /\ \A i \in 1 .. 4 : (n + 1) + i - 1 = n + i
    BY LenProperties
  <2> DEFINE s == SubSeq(data, n + 1, n + 4)
  <2>2. /\ s \in Seq(Byte8) /\ Len(s) = (n + 4) + 1 - (n + 1)
        /\ \A i \in 1 .. (n + 4) + 1 - (n + 1) : s[i] = data[(n + 1) + i - 1]
    BY <2>1, SubBytes
  <2>3. Bytes(n, 4) = s
    BY DEF Bytes
  <2> HIDE DEF s
  <2> QED BY <2>1, <2>2, <2>3
<1>4. t = Bytes(5, 4) /\ h = Bytes(9, 4)
  <2>1. 2 + 3 = 5 /\ 2 + 7 = 9
    OBVIOUS
  <2> QED BY <2>1 DEF Parsed
<1>5. t \in FourBytes /\ h \in FourBytes
  <2>1. 5 \in {5, 9} /\ 9 \in {5, 9}
    OBVIOUS
  <2> QED BY <1>3, <1>4, <2>1 DEF FourBytes
<1>6. r \in FiveFiftyReading
  <2>1. r.addres \in Byte8 /\ r.cmd \in Byte8 /\ r.len \in Byte8
    <3>1. 3 \in 1 .. 13 /\ 4 \in 1 .. 13 /\ 5 \in 1 .. 13
      OBVIOUS
    <3> QED BY <1>1, <1>2, <3>1
  <2>2. r = [addres |-> r.addres, cmd |-> r.cmd, len |-> r.len, temperature |-> t, humidity |-> h]
    BY DEF Parsed
  <2> HIDE DEF r
  <2> QED BY <1>5, <2>1, <2>2 DEF FiveFiftyReading
<1> HIDE DEF r
<1>7. Laid(b, all)
  BY <1>6, BodyParts
<1>8. <<0, first>> \in all /\ <<3, t>> \in all /\ <<7, h>> \in all
  OBVIOUS
<1>9. Len(first) = 3 /\ first[1] = data[3] /\ first[2] = data[4] /\ first[3] = data[5]
  BY <1>2
<1>10. Len(t) = 4 /\ Len(h) = 4
  BY <1>5 DEF FourBytes
<1> HIDE DEF b, first, all
<1>11. Lies(b, 0, first) /\ Lies(b, 3, t) /\ Lies(b, 7, h)
  BY <1>7, <1>8, LaidPart
<1>12. ASSUME NEW i \in 1 .. 11 PROVE b[i] = data[2 + i]
  <2>1. CASE i \in 1 .. 3
    <3>1. b[0 + i] = first[i] /\ 0 + i = i
      BY <1>9, <1>11, <2>1 DEF Lies
    <3>2. i = 1 \/ i = 2 \/ i = 3
      BY <2>1
    <3>3. 2 + 1 = 3 /\ 2 + 2 = 4 /\ 2 + 3 = 5
      OBVIOUS
    <3> QED BY <1>9, <3>1, <3>2, <3>3
  <2>2. CASE i \in 4 .. 7
    <3>1. i - 3 \in 1 .. 4 /\ 3 + (i - 3) = i /\ 5 + (i - 3) = 2 + i /\ 5 \in {5, 9}
      BY <2>2
    <3>2. b[3 + (i - 3)] = t[i - 3]
      BY <1>10, <1>11, <3>1 DEF Lies
    <3>3. t[i - 3] = data[5 + (i - 3)]
      BY <1>3, <1>4, <3>1
    <3> QED BY <3>1, <3>2, <3>3
  <2>3. CASE i \in 8 .. 11
    <3>1. i - 7 \in 1 .. 4 /\ 7 + (i - 7) = i /\ 9 + (i - 7) = 2 + i /\ 9 \in {5, 9}
      BY <2>3
    <3>2. b[7 + (i - 7)] = h[i - 7]
      BY <1>10, <1>11, <3>1 DEF Lies
    <3>3. h[i - 7] = data[9 + (i - 7)]
      BY <1>3, <1>4, <3>1
    <3> QED BY <3>1, <3>2, <3>3
  <2>4. i \in 1 .. 3 \/ i \in 4 .. 7 \/ i \in 8 .. 11
    OBVIOUS
  <2> QED BY <2>1, <2>2, <2>3, <2>4
<1> QED BY <1>6, <1>12 DEF b, r

\* FiveFifty reads the reading that the device has sent.
LEMMA ParsedIsSent ==
  ASSUME data \in Seq(Byte8), len \in 0 .. Len(data),
         NEW r \in FiveFiftyReading, Content = DeviceDatagram(r)
  PROVE  Parsed(2) = r
<1> DEFINE b == Body(r)
           first == <<r.addres, r.cmd, r.len>>
           t == r.temperature
           h == r.humidity
           all == {<<0, first>>} \cup {<<3, t>>} \cup {<<7, h>>}
<1>1. /\ r.addres \in Byte8 /\ r.cmd \in Byte8 /\ r.len \in Byte8
      /\ t \in Seq(Byte8) /\ Len(t) = 4 /\ h \in Seq(Byte8) /\ Len(h) = 4
  BY ReadingType
<1>2. Laid(b, all)
  BY BodyParts
<1>3. <<0, first>> \in all /\ <<3, t>> \in all /\ <<7, h>> \in all
  OBVIOUS
<1>4. Len(first) = 3 /\ first[1] = r.addres /\ first[2] = r.cmd /\ first[3] = r.len
  OBVIOUS
<1>5. /\ b \in Seq(Byte8) /\ Len(b) = 11 /\ Len(DeviceDatagram(r)) = 15
      /\ Lies(DeviceDatagram(r), 2, b)
  BY DatagramBytes
<1> HIDE DEF b, first, t, h, all
<1>6. Lies(b, 0, first) /\ Lies(b, 3, t) /\ Lies(b, 7, h)
  BY <1>2, <1>3, LaidPart
<1>7. len = 15 /\ Len(data) >= 15
  BY <1>5, ContentBytes, LenProperties
<1>8. \A i \in 1 .. 11 : data[2 + i] = b[i]
  <2>1. \A i \in 1 .. 15 : Content[i] = data[i]
    BY <1>7, ContentBytes
  <2>2. \A i \in 1 .. 11 : Content[2 + i] = b[i]
    BY <1>5 DEF Lies
  <2>3. \A i \in 1 .. 11 : 2 + i \in 1 .. 15
    OBVIOUS
  <2> QED BY <2>1, <2>2, <2>3
<1>9. data[3] = r.addres /\ data[4] = r.cmd /\ data[5] = r.len
  <2>1. /\ 1 \in 1 .. 3 /\ 2 \in 1 .. 3 /\ 3 \in 1 .. 3
        /\ 0 + 1 = 1 /\ 0 + 2 = 2 /\ 0 + 3 = 3
        /\ 1 \in 1 .. 11 /\ 2 \in 1 .. 11 /\ 3 \in 1 .. 11
        /\ 2 + 1 = 3 /\ 2 + 2 = 4 /\ 2 + 3 = 5
    OBVIOUS
  <2>2. \A i \in 1 .. 3 : b[0 + i] = first[i]
    BY <1>4, <1>6 DEF Lies
  <2>3. b[1] = first[1] /\ b[2] = first[2] /\ b[3] = first[3]
    BY <2>1, <2>2
  <2>4. data[3] = b[1] /\ data[4] = b[2] /\ data[5] = b[3]
    BY <1>8, <2>1
  <2> QED BY <1>4, <2>3, <2>4
<1>10. ASSUME NEW n \in {3, 7}, NEW part \in Seq(Byte8), Len(part) = 4, Lies(b, n, part)
       PROVE  SubSeq(data, (n + 2) + 1, (n + 2) + 4) = part
  <2>1. ASSUME NEW i \in 1 .. 4 PROVE data[(n + 2) + i] = part[i]
    <3>1. n + i \in 1 .. 11 /\ 2 + (n + i) = (n + 2) + i
      OBVIOUS
    <3>2. b[n + i] = part[i]
      BY <1>10 DEF Lies
    <3>3. data[2 + (n + i)] = b[n + i]
      BY <1>8, <3>1
    <3> QED BY <3>1, <3>2, <3>3
  <2>2. Lies(data, n + 2, part)
    BY <1>10, <2>1 DEF Lies
  <2>3. n + 2 \in Nat /\ (n + 2) + Len(part) <= Len(data)
    BY <1>7, <1>10, LenProperties
  <2>4. SubSeq(data, (n + 2) + 1, (n + 2) + Len(part)) = part
    BY <2>2, <2>3, LyingPart
  <2> QED BY <1>10, <2>4
<1>11. Bytes(2 + 3, 4) = t
  <2>1. SubSeq(data, (3 + 2) + 1, (3 + 2) + 4) = t
    BY <1>1, <1>6, <1>10
  <2>2. (3 + 2) + 1 = (2 + 3) + 1 /\ (3 + 2) + 4 = (2 + 3) + 4
    OBVIOUS
  <2> QED BY <2>1, <2>2 DEF Bytes
<1>12. Bytes(2 + 7, 4) = h
  <2>1. SubSeq(data, (7 + 2) + 1, (7 + 2) + 4) = h
    BY <1>1, <1>6, <1>10
  <2>2. (7 + 2) + 1 = (2 + 7) + 1 /\ (7 + 2) + 4 = (2 + 7) + 4
    OBVIOUS
  <2> QED BY <2>1, <2>2 DEF Bytes
<1>13. Parsed(2) = [addres |-> r.addres, cmd |-> r.cmd, len |-> r.len,
                    temperature |-> t, humidity |-> h]
  <2>1. 2 + 1 = 3 /\ 2 + 2 = 4 /\ 2 + 3 = 5
    OBVIOUS
  <2> QED BY <1>9, <1>11, <1>12, <2>1 DEF Parsed
<1>14. r = [addres |-> r.addres, cmd |-> r.cmd, len |-> r.len,
            temperature |-> r.temperature, humidity |-> r.humidity]
  BY DEF FiveFiftyReading
<1> QED BY <1>13, <1>14 DEF t, h

-----------------------------------------------------------------------------
(***************************************************************************)
(* The answers.                                                            *)
(***************************************************************************)
\* The answer consists of six bytes and their CRC, and confirms the reading.
LEMMA AnswerType ==
  ASSUME NEW r \in FiveFiftyReading
  PROVE  /\ Answer(r) \in Seq(Byte8) /\ Len(Answer(r)) = 8
         /\ Confirms(Answer(r), r)
<1> DEFINE said == <<5, 81, r.addres, r.cmd, 1, 0>>
           crc == Val16ToBytes(kcCrc16(said, Preset))
<1>1. said \in Seq(Byte8) /\ Len(said) = 6
  <2>1. 5 \in Byte8 /\ 81 \in Byte8 /\ 1 \in Byte8 /\ 0 \in Byte8
    BY ByteRange
  <2> QED BY <2>1, ReadingType
<1>2. Answer(r) = said \o crc
  BY DEF Answer
<1>3. Confirms(Answer(r), r) <=> /\ SubSeq(Answer(r), 1, 6) = said
                                 /\ SubSeq(Answer(r), 7, 8) = Val16ToBytes(Remainder(SubSeq(Answer(r), 1, 6)))
  BY DEF Confirms
<1> HIDE DEF said
<1>4. crc \in Seq(Byte8) /\ Len(crc) = 2
  BY <1>1, CrcType, WordRange, WordBytes
<1>5. crc = Val16ToBytes(Remainder(said))
  BY <1>1, CrcIsRemainder
<1> HIDE DEF crc
<1>6. said \o crc \in Seq(Byte8) /\ Len(said \o crc) = Len(said) + Len(crc)
  BY <1>1, <1>4, ConcatBytes
<1>7. SubSeq(said \o crc, 1, Len(said)) = said
  BY <1>1, <1>4, FirstPart
<1>8. SubSeq(said \o crc, Len(said) + 1, Len(said) + Len(crc)) = crc
  BY <1>1, <1>4, LastPart
<1>9. Len(said) + 1 = 7 /\ Len(said) + Len(crc) = 8 /\ Len(said) = 6
  BY <1>1, <1>4
<1>10. SubSeq(Answer(r), 1, 6) = said /\ SubSeq(Answer(r), 7, 8) = crc
  BY <1>2, <1>7, <1>8, <1>9
<1>11. Confirms(Answer(r), r)
  BY <1>3, <1>5, <1>10
<1> QED BY <1>2, <1>6, <1>9, <1>11

\* The packet that FiveFifty sends for a reading of the sender.
LEMMA ReplyIsAnswer ==
  ASSUME NEW r \in FiveFiftyReading, Bytes(0, 2) = <<5, 81>>
  PROVE  Reply(2, r) = {AnswerPacket(sender, r)}
<1> DEFINE fields == <<5, 81>> \o <<r.addres, r.cmd, 1, 0>>
           said == <<5, 81, r.addres, r.cmd, 1, 0>>
           old == [k \in 1 .. 8 |-> 0]
<1>1. fields = said
  <2> DEFINE a == <<5, 81>>
             b == <<r.addres, r.cmd, 1, 0>>
  <2>1. a \in Seq(Byte8) /\ b \in Seq(Byte8) /\ Len(a) = 2 /\ Len(b) = 4
    <3>1. 5 \in Byte8 /\ 81 \in Byte8 /\ 1 \in Byte8 /\ 0 \in Byte8
      BY ByteRange
    <3> QED BY <3>1, ReadingType
  <2>2. a[1] = 5 /\ a[2] = 81 /\ b[1] = r.addres /\ b[2] = r.cmd /\ b[3] = 1 /\ b[4] = 0
    OBVIOUS
  <2>3. fields = a \o b
    OBVIOUS
  <2>4. /\ Len(said) = 6 /\ said[1] = 5 /\ said[2] = 81 /\ said[3] = r.addres
        /\ said[4] = r.cmd /\ said[5] = 1 /\ said[6] = 0
    OBVIOUS
  <2>5. said \in Seq(Byte8)
    <3>1. 5 \in Byte8 /\ 81 \in Byte8 /\ 1 \in Byte8 /\ 0 \in Byte8
      BY ByteRange
    <3> QED BY <3>1, ReadingType
  <2> HIDE DEF a, b, said, fields
  <2>6. /\ a \o b \in Seq(Byte8) /\ Len(a \o b) = Len(a) + Len(b)
        /\ \A i \in 1 .. Len(a) : (a \o b)[i] = a[i]
        /\ \A i \in 1 .. Len(b) : (a \o b)[Len(a) + i] = b[i]
    BY <2>1, ConcatBytes
  <2>7. /\ a \o b \in Seq(Byte8) /\ Len(a \o b) = 6
        /\ \A i \in 1 .. 2 : (a \o b)[i] = a[i]
        /\ \A i \in 1 .. 4 : (a \o b)[2 + i] = b[i]
    BY <2>1, <2>6, Z3T(30)
  <2>8. ASSUME NEW i \in 1 .. 6 PROVE (a \o b)[i] = said[i]
    <3>1. i = 1 \/ i = 2 \/ i = 2 + 1 \/ i = 2 + 2 \/ i = 2 + 3 \/ i = 2 + 4
      OBVIOUS
    <3>2. 2 + 1 = 3 /\ 2 + 2 = 4 /\ 2 + 3 = 5 /\ 2 + 4 = 6
      OBVIOUS
    <3>3. 1 \in 1 .. 2 /\ 2 \in 1 .. 2 /\ 1 \in 1 .. 4 /\ 2 \in 1 .. 4 /\ 3 \in 1 .. 4
          /\ 4 \in 1 .. 4
      OBVIOUS
    <3> QED BY ONLY <2>2, <2>4, <2>7, <3>1, <3>2, <3>3, ZenonT(40)
  <2>9. Len(a \o b) = Len(said) /\ \A i \in 1 .. Len(a \o b) : (a \o b)[i] = said[i]
    BY <2>4, <2>7, <2>8
  <2>10. a \o b = said
    BY <2>5, <2>7, <2>9, SeqEqual
  <2> QED BY <2>3, <2>10
<1>2. said \in Seq(Byte8) /\ Len(said) = 6
  <2>1. 5 \in Byte8 /\ 81 \in Byte8 /\ 1 \in Byte8 /\ 0 \in Byte8
    BY ByteRange
  <2> QED BY <2>1, ReadingType
<1>3. old \in Seq(Byte8) /\ Len(old) = 8
  <2>1. 0 \in Byte8
    BY ByteRange
  <2>2. old \in [1 .. 8 -> Byte8]
    BY <2>1
  <2>3. old \in Seq(Byte8)
    <3> HIDE DEF old
    <3>1. 8 \in Nat
      OBVIOUS
    <3> QED BY <2>2, <3>1, SeqDef
  <2> QED BY <2>2, <2>3
<1>4. kcFiveFiftyReply(Server, sender, <<5, 81>>, r, 0, old)
        = Replies(Server, sender, said, 8, old)
  BY <1>1 DEF kcFiveFiftyReply, KC_REPLY_OK_SIZE
<1>5. Answer(r) = said \o Val16ToBytes(kcCrc16(said, Preset))
  BY DEF Answer
<1>6. Reply(2, r) = {[to |-> sender, bytes |-> packet] :
                       packet \in kcFiveFiftyReply(Server, sender, <<5, 81>>, r, 0, old)}
  BY DEF Reply, KC_REPLY_OK_SIZE
<1> HIDE DEF said, old, fields
<1>7. Replies(Server, sender, said, 8, old) = {Packet(Server, sender, Answer(r))}
  <2>1. 8 \in Nat /\ 8 = Len(said) + 2 /\ said \in Seq(Byte8) /\ old \in Seq(Byte8) /\ Len(old) = 8
    BY <1>2, <1>3
  <2>2. Replies(Server, sender, said, 8, old)
          = {Packet(Server, sender, said \o Val16ToBytes(kcCrc16(said, Preset)))}
    <3>1. said \in Seq(Byte8) /\ old \in Seq(Byte8) /\ Len(old) >= Len(said) + 2
          /\ Len(said) <= 100
      <4>1. Len(said) + 2 \in Nat
        BY LenProperties, <2>1
      <4> QED BY <1>2, <2>1, <4>1
    <3>2. Replies(Server, sender, said, Len(said) + 2, old)
            = {Packet(Server, sender, said \o Val16ToBytes(kcCrc16(said, Preset)))}
      BY ONLY <3>1, RepliesFit
    <3> QED BY <2>1, <3>2
  <2> QED BY <1>5, <2>2
<1>8. Reply(2, r) = {[to |-> sender, bytes |-> packet] :
                       packet \in {Packet(Server, sender, Answer(r))}}
  BY <1>4, <1>6, <1>7
<1> QED BY <1>8 DEF AnswerPacket

\* Only the device that a packet is for takes it.
LEMMA DeliveredToOne ==
  ASSUME NEW src \in Endpoint, NEW d \in Endpoint, NEW e \in Endpoint,
         NEW msg \in Seq(Byte8), Len(msg) + 28 < WordMod,
         Delivered(Packet(src, d, msg), src, e)
  PROVE  d = e
<1> DEFINE P == Packet(src, d, msg)
           udp == SubSeq(P, KC_IPV4_HEADER_SIZE + 1, Len(P))
<1>1. Delivered(P, src, d)
  BY PacketIsDelivered
<1>2. /\ SubSeq(P, 13, 20) = src.addr \o d.addr /\ SubSeq(P, 13, 20) = src.addr \o e.addr
      /\ SubSeq(udp, 1, 4) = Val16ToBytes(src.port) \o Val16ToBytes(d.port)
      /\ SubSeq(udp, 1, 4) = Val16ToBytes(src.port) \o Val16ToBytes(e.port)
  BY <1>1 DEF Delivered
<1> HIDE DEF P, udp
<1>3. ASSUME NEW s \in Seq(Byte8), NEW t \in Seq(Byte8), NEW u \in Seq(Byte8),
             s \o t = s \o u, Len(t) = Len(u)
      PROVE  t = u
  <2>1. SubSeq(s \o t, Len(s) + 1, Len(s) + Len(t)) = t
    BY LastPart
  <2>2. SubSeq(s \o u, Len(s) + 1, Len(s) + Len(u)) = u
    BY LastPart
  <2> QED BY <1>3, <2>1, <2>2
<1>4. /\ src.addr \in Seq(Byte8) /\ d.addr \in Seq(Byte8) /\ e.addr \in Seq(Byte8)
      /\ Len(d.addr) = 4 /\ Len(e.addr) = 4
      /\ src.port \in Word16 /\ d.port \in Word16 /\ e.port \in Word16
  BY DEF Endpoint, Address
<1>5. d.addr = e.addr
  <2>1. src.addr \o d.addr = src.addr \o e.addr /\ Len(d.addr) = Len(e.addr)
    BY <1>2, <1>4
  <2> QED BY <1>3, <1>4, <2>1
<1>6. Val16ToBytes(d.port) = Val16ToBytes(e.port)
  <2>1. /\ Val16ToBytes(src.port) \in Seq(Byte8)
        /\ Val16ToBytes(d.port) \in Seq(Byte8) /\ Val16ToBytes(e.port) \in Seq(Byte8)
        /\ Len(Val16ToBytes(d.port)) = 2 /\ Len(Val16ToBytes(e.port)) = 2
    BY <1>4, WordBytes
  <2>2. Val16ToBytes(src.port) \o Val16ToBytes(d.port) = Val16ToBytes(src.port) \o Val16ToBytes(e.port)
    BY <1>2
  <2>3. Len(Val16ToBytes(d.port)) = Len(Val16ToBytes(e.port))
    BY <2>1
  <2> QED BY <1>3, <2>1, <2>2, <2>3
<1>7. d.port = e.port
  <2>1. Val16FromBytes(Val16ToBytes(d.port)) = d.port /\ Val16FromBytes(Val16ToBytes(e.port)) = e.port
    BY <1>4, WordBytes
  <2> QED BY <1>6, <2>1
<1>8. d = [addr |-> d.addr, port |-> d.port] /\ e = [addr |-> e.addr, port |-> e.port]
  BY DEF Endpoint
<1> QED BY <1>5, <1>7, <1>8

-----------------------------------------------------------------------------
(***************************************************************************)
(* The steps.                                                              *)
(***************************************************************************)
\* What may arrive of a datagram that a device has sent.
LEMMA ArrivingType ==
  ASSUME SentInv, NEW m \in sent, NEW bytes \in Arriving(m.bytes)
  PROVE  /\ m.from \in Device /\ m.reading \in FiveFiftyReading
         /\ bytes \in Seq(Byte8) /\ Len(bytes) = 15
         /\ bytes # DeviceDatagram(m.reading) =>
              \E k \in DOMAIN DeviceDatagram(m.reading), y \in Byte8 :
                /\ y # DeviceDatagram(m.reading)[k]
                /\ bytes = [DeviceDatagram(m.reading) EXCEPT ![k] = y]
<1> DEFINE all == DeviceDatagram(m.reading)
<1>1. m.from \in Device /\ m.reading \in FiveFiftyReading /\ m.bytes = all
  BY ReadingAssumption DEF SentInv
<1>2. all \in Seq(Byte8) /\ Len(all) = 15
  BY <1>1, DatagramBytes
<1> HIDE DEF all
<1>3. CASE bytes = all
  BY <1>1, <1>2, <1>3 DEF all
<1>4. CASE \E k \in DOMAIN all, x \in Byte8 \ {0} : bytes = [all EXCEPT ![k] = XorByte[all[k]][x]]
  <2>1. PICK k \in DOMAIN all, x \in Byte8 \ {0} : bytes = [all EXCEPT ![k] = XorByte[all[k]][x]]
    BY <1>4
  <2>2. k \in 1 .. Len(all) /\ all[k] \in Byte8
    BY <1>2, <2>1, LenProperties, ElementOfSeq
  <2> DEFINE y == XorByte[all[k]][x]
  <2>3. y \in Byte8 /\ y # all[k]
    BY <2>2, DamageChanges
  <2> HIDE DEF y
  <2>4. bytes = [all EXCEPT ![k] = y]
    BY <2>1 DEF y
  <2>5. [all EXCEPT ![k] = y] \in Seq(Byte8) /\ Len([all EXCEPT ![k] = y]) = Len(all)
    <3>1. all \in Seq(Byte8) /\ k \in 1 .. Len(all) /\ y \in Byte8
      BY <1>2, <2>2, <2>3
    <3> QED BY ONLY <3>1, ExceptSeq
  <2> QED BY <1>1, <1>2, <2>1, <2>3, <2>4, <2>5 DEF all
<1>5. bytes = all \/ \E k \in DOMAIN all, x \in Byte8 \ {0} : bytes = [all EXCEPT ![k] = XorByte[all[k]][x]]
  <2>1. ASSUME NEW d \in Damage, d[1] \in DOMAIN all,
               bytes = [all EXCEPT ![d[1]] = XorByte[all[d[1]]][d[2]]]
        PROVE  \E k \in DOMAIN all, x \in Byte8 \ {0} : bytes = [all EXCEPT ![k] = XorByte[all[k]][x]]
    <3>1. d[2] \in Byte8 \ {0}
      BY DamageAssumption
    <3> QED BY ONLY <2>1, <3>1
  <2> QED BY <1>1, <2>1 DEF Arriving
<1> QED BY <1>3, <1>4, <1>5

\* What FiveFifty accepts, the sender has sent, or a foreign datagram brings it.
LEMMA AcceptedOrigin ==
  ASSUME SentInv, BufferInv, received, Bytes(0, 2) = <<5, 81>>, len >= 4, FiveFiftyCrcOk
  PROVE  /\ sender \in Device /\ Parsed(2) \in FiveFiftyReading
         /\ ItsDevices(Row(Parsed(2))) \/ FromForeign(Row(Parsed(2)))
<1> DEFINE row == Row(Parsed(2))
<1>1. data \in Seq(Byte8) /\ Len(data) >= 15 /\ len \in 0 .. Len(data) /\ sender \in Device
  BY BufferAssumption DEF BufferInv
<1>2. /\ Content \in Seq(Byte8) /\ Len(Content) = len
      /\ \A i \in 1 .. len : Content[i] = data[i]
  BY <1>1, ContentBytes
<1>3. /\ Parsed(2) \in FiveFiftyReading
      /\ \A i \in 1 .. 11 : Body(Parsed(2))[i] = data[2 + i]
  <2>1. Len(data) >= 13
    BY <1>1, LenProperties
  <2> QED BY <1>1, <2>1, ParsedBody
<1>4. row.from = sender /\ row.reading = Parsed(2) /\ row.bin = Content
  <2>1. 0 + 1 = 1 /\ 0 + len = len
    BY <1>1, LenProperties
  <2> QED BY <2>1 DEF Row, Bytes, Content
<1>5. CASE Content \in Foreign
  <2>1. SubSeq(Content, 1, 2) = <<5, 81>>
    BY <1>1, Identified
  <2>2. ASSUME NEW k \in (3 .. 13) \ Stale(Content)
        PROVE  Body(Parsed(2))[k - 2] = Content[k]
    <3>1. k - 2 \in 1 .. 11 /\ 2 + (k - 2) = k
      OBVIOUS
    <3>2. k \in 1 .. len
      <4>1. k \in 3 .. 13 /\ ~(k > len)
        BY <1>2 DEF Stale
      <4> QED BY <1>1, <4>1, LenProperties
    <3>3. Body(Parsed(2))[k - 2] = data[2 + (k - 2)]
      BY <1>3, <3>1
    <3> QED BY <1>2, <3>1, <3>2, <3>3
  <2> HIDE DEF row
  <2>3. Len(Content) >= 4
    BY <1>2
  <2>4. FromForeign(row)
    BY ONLY <1>4, <1>5, <2>1, <2>2, <2>3 DEF FromForeign
  <2> QED BY <1>1, <1>3, <2>4 DEF row
<1>6. CASE ~(Content \in Foreign)
  <2>4. PICK m \in sent : m.from = sender /\ Content \in Arriving(m.bytes)
    BY <1>6 DEF BufferInv
  <2>5. /\ m.reading \in FiveFiftyReading /\ m.bytes = DeviceDatagram(m.reading)
        /\ Content # DeviceDatagram(m.reading) =>
             \E k \in DOMAIN DeviceDatagram(m.reading), y \in Byte8 :
               /\ y # DeviceDatagram(m.reading)[k]
               /\ Content = [DeviceDatagram(m.reading) EXCEPT ![k] = y]
    BY <2>4, ArrivingType DEF SentInv
  <2>6. CrcFits(Content) /\ Content[1] = 5 /\ Content[2] = 81
    BY <1>1, CrcOfContent, Identified
  <2>7. Content = DeviceDatagram(m.reading)
    <3> DEFINE c == Content
    <3>1. CrcFits(c) /\ c[1] = 5 /\ c[2] = 81
      BY <2>6
    <3>2. ASSUME NEW k \in DOMAIN DeviceDatagram(m.reading), NEW y \in Byte8,
                 y # DeviceDatagram(m.reading)[k],
                 c = [DeviceDatagram(m.reading) EXCEPT ![k] = y]
          PROVE  FALSE
      <4> HIDE DEF c
      <4> QED BY <2>5, <3>1, <3>2, DamageIsNoticed
    <3> QED BY <2>5, <3>2
  <2>8. Parsed(2) = m.reading
    BY <1>1, <2>5, <2>7, ParsedIsSent
  <2> HIDE DEF row
  <2>9. ItsDevices(row)
    BY ONLY <1>4, <2>4, <2>5, <2>7, <2>8, Zenon DEF ItsDevices
  <2> QED BY <1>1, <1>3, <2>9 DEF row
<1> QED BY <1>5, <1>6

\* The initial state satisfies the invariant.
LEMMA InitHolds == Init => IInv
<1> SUFFICES ASSUME Init PROVE IInv
  OBVIOUS
<1>1. /\ sent = {} /\ saved = {} /\ replies = {} /\ answered = {} /\ data \in Memory /\ len = 0
      /\ sender = None /\ received = FALSE /\ refused = FALSE /\ crashed = FALSE /\ strays = 0
  BY DEF Init
<1>2. data \in Seq(Byte8) /\ Len(data) = BufferSize
  BY <1>1, BufferAssumption
<1>3. len \in 0 .. Len(data) /\ strays \in 0 .. StrayMax
  BY <1>1, <1>2, BufferAssumption, BoundAssumption
<1>4. BufferInv
  BY <1>1, <1>2, <1>3, Zenon DEF BufferInv
<1>5. SentInv /\ SavedInv /\ RepliesInv /\ AnsweredInv
  BY <1>1 DEF SentInv, SavedInv, RepliesInv, AnsweredInv
<1> QED BY <1>4, <1>5 DEF IInv

\* A step that leaves the records of what is saved and answered alone.
LEMMA RecordsKept ==
  ASSUME IInv, sent \subseteq sent', saved' = saved, replies' = replies, answered' = answered
  PROVE  SavedInv' /\ RepliesInv' /\ AnsweredInv'
<1>1. SavedInv'
  <2>1. \A s : ItsDevices(s) => ItsDevices(s)'
    BY DEF ItsDevices
  <2>2. \A s : FromForeign(s)' = FromForeign(s)
    BY DEF FromForeign, Stale, Body
  <2>3. \A d, q : AnswerPacket(d, q)' = AnswerPacket(d, q)
    BY DEF AnswerPacket, Answer
  <2>4. ASSUME NEW s \in saved'
        PROVE  /\ s.from \in Device /\ s.reading \in FiveFiftyReading
               /\ ItsDevices(s)' \/ FromForeign(s)'
               /\ AnswerPacket(s.from, s.reading)' \in replies'
    BY <2>1, <2>2, <2>3 DEF IInv, SavedInv
  <2> QED BY ONLY <2>4, Zenon DEF SavedInv
<1>2. RepliesInv'
  BY DEF IInv, RepliesInv, AnswerPacket, Answer
<1>3. AnsweredInv'
  BY ZenonT(40) DEF IInv, AnsweredInv, Answer
<1> QED BY <1>1, <1>2, <1>3

\* A device sends a reading.
LEMMA SendKeeps ==
  ASSUME IInv, NEW d \in Device, NEW r \in Reading[d], Send(d, r)
  PROVE  IInv'
<1>1. /\ sent' = sent \cup {[from |-> d, reading |-> r, bytes |-> DeviceDatagram(r)]}
      /\ UNCHANGED <<data, len, sender, received, strays, saved, replies, refused, crashed,
                     answered>>
  BY DEF Send
<1>2. SentInv'
  BY <1>1 DEF IInv, SentInv
<1>3. BufferInv'
  <2>1. sent \subseteq sent' /\ Content' = Content
    BY <1>1 DEF Content
  <2> QED BY <1>1, <2>1 DEF IInv, BufferInv
<1>4. SavedInv' /\ RepliesInv' /\ AnsweredInv'
  BY <1>1, RecordsKept
<1> QED BY <1>2, <1>3, <1>4 DEF IInv

\* A datagram is put into the buffer.
LEMMA StoreKeeps ==
  ASSUME IInv, NEW d \in Device, NEW bytes \in Seq(Byte8), Len(bytes) <= BufferSize,
         bytes \in Foreign \/ \E m \in sent : m.from = d /\ bytes \in Arriving(m.bytes),
         Store(d, bytes), strays' \in 0 .. StrayMax
  PROVE  IInv'
<1> DEFINE n == Len(bytes)
           rest == SubSeq(data, n + 1, Len(data))
<1>1. /\ data' = bytes \o rest /\ len' = n /\ sender' = d /\ received' = TRUE /\ refused' = FALSE
      /\ UNCHANGED <<sent, saved, replies, crashed, answered>>
  BY DEF Store
<1>2. n \in Nat /\ data \in Seq(Byte8) /\ Len(data) \in Nat /\ Len(data) = BufferSize /\ n <= Len(data)
  BY LenProperties DEF IInv, BufferInv
<1>3. rest \in Seq(Byte8) /\ Len(rest) = Len(data) - n
  <2> HIDE DEF n
  <2> DEFINE a == n + 1
             b == Len(data)
  <2>1. a \in Nat \ {0} /\ b \in Nat /\ a <= b + 1 /\ b <= Len(data) /\ b + 1 - a = Len(data) - n
    BY <1>2
  <2> HIDE DEF a, b
  <2>2. SubSeq(data, a, b) \in Seq(Byte8) /\ Len(SubSeq(data, a, b)) = b + 1 - a
    BY <1>2, <2>1, SubBytes
  <2> QED BY <2>1, <2>2 DEF a, b
<1> HIDE DEF rest
<1>4. bytes \o rest \in Seq(Byte8) /\ Len(bytes \o rest) = Len(bytes) + Len(rest)
  BY <1>3, ConcatBytes
<1>5. SubSeq(bytes \o rest, 1, Len(bytes)) = bytes
  BY <1>3, FirstPart
<1>6. Content' = bytes
  BY <1>1, <1>5 DEF Content
<1>7. data' \in Seq(Byte8) /\ Len(data') = BufferSize /\ len' \in 0 .. Len(data')
  <2>1. Len(bytes \o rest) = Len(data)
    BY <1>2, <1>3, <1>4
  <2> QED BY <1>1, <1>2, <1>4, <2>1
<1>8. BufferInv'
  BY <1>1, <1>6, <1>7 DEF IInv, BufferInv
<1>9. SentInv'
  BY <1>1 DEF IInv, SentInv
<1>10. SavedInv' /\ RepliesInv' /\ AnsweredInv'
  BY <1>1, RecordsKept
<1> QED BY <1>8, <1>9, <1>10 DEF IInv

\* recvfrom, whether it takes a datagram or fails.
LEMMA ReceiveKeeps ==
  ASSUME IInv, Receive \/ ReceiveForeign \/ ReceiveFails
  PROVE  IInv'
<1>1. CASE Receive
  <2>1. PICK m \in sent : \E b \in Arriving(m.bytes) : Store(m.from, b) /\ strays' = strays
    BY <1>1 DEF Receive
  <2> PICK bytes \in Arriving(m.bytes) : Store(m.from, bytes) /\ strays' = strays
    BY <2>1
  <2>2. m.from \in Device /\ bytes \in Seq(Byte8) /\ Len(bytes) = 15
    BY ArrivingType DEF IInv
  <2>3. Len(bytes) <= BufferSize /\ \E q \in sent : q.from = m.from /\ bytes \in Arriving(q.bytes)
    BY <2>2, BufferAssumption
  <2> DEFINE d == m.from
  <2>4. d \in Device /\ Store(d, bytes) /\ \E q \in sent : q.from = d /\ bytes \in Arriving(q.bytes)
    BY <2>2, <2>3
  <2> HIDE DEF d
  <2>5. strays' \in 0 .. StrayMax
    BY DEF IInv, BufferInv
  <2> QED BY <2>2, <2>3, <2>4, <2>5, StoreKeeps
<1>2. CASE ReceiveForeign
  <2>1. PICK d \in Device, bytes \in Foreign : Store(d, bytes)
    BY <1>2 DEF ReceiveForeign
  <2>2. bytes \in Seq(Byte8) /\ Len(bytes) <= BufferSize
    BY ForeignAssumption
  <2>3. strays' \in 0 .. StrayMax
    <3>1. strays < StrayMax /\ strays' = strays + 1 /\ strays \in 0 .. StrayMax
      BY <1>2 DEF ReceiveForeign, IInv, BufferInv
    <3> QED BY <3>1, BoundAssumption
  <2> QED BY <2>1, <2>2, <2>3, StoreKeeps
<1>3. CASE ReceiveFails
  <2>1. /\ data' = [data EXCEPT ![1] = 0] /\ len' = 0 /\ refused' = FALSE /\ received = FALSE
        /\ UNCHANGED <<sent, sender, received, strays, saved, replies, crashed, answered>>
    BY <1>3 DEF ReceiveFails, IInv, BufferInv
  <2>2. data \in Seq(Byte8) /\ 1 \in 1 .. Len(data) /\ 0 \in Byte8
    <3>1. data \in Seq(Byte8) /\ Len(data) >= 1
      BY BufferAssumption DEF IInv, BufferInv
    <3>2. Len(data) \in Nat
      BY <3>1, LenProperties
    <3> QED BY <3>1, <3>2, ByteRange
  <2>3. [data EXCEPT ![1] = 0] \in Seq(Byte8) /\ Len([data EXCEPT ![1] = 0]) = Len(data)
    BY ONLY <2>2, ExceptSeq
  <2>4. data' \in Seq(Byte8) /\ Len(data') = BufferSize /\ len' \in 0 .. Len(data')
    <3>1. Len(data) = BufferSize /\ Len(data) \in Nat
      BY LenProperties DEF IInv, BufferInv
    <3> QED BY <2>1, <2>3, <3>1
  <2>5. BufferInv'
    BY <2>1, <2>4 DEF IInv, BufferInv
  <2>6. SentInv'
    BY <2>1 DEF IInv, SentInv
  <2>7. SavedInv' /\ RepliesInv' /\ AnsweredInv'
    BY <2>1, RecordsKept
  <2> QED BY <2>5, <2>6, <2>7 DEF IInv
<1> QED BY <1>1, <1>2, <1>3

\* A worker that frees the slot and saves nothing.
LEMMA DoneKeeps ==
  ASSUME IInv, Done, saved' = saved, replies' = replies, refused' \in BOOLEAN
  PROVE  IInv'
<1>1. received' = FALSE /\ UNCHANGED <<sent, data, len, sender, strays, crashed, answered>>
  BY DEF Done
<1>2. BufferInv'
  BY <1>1 DEF IInv, BufferInv
<1>3. SentInv'
  BY <1>1 DEF IInv, SentInv
<1>4. SavedInv' /\ RepliesInv' /\ AnsweredInv'
  BY <1>1, RecordsKept
<1> QED BY <1>2, <1>3, <1>4 DEF IInv

\* A worker in FiveFifty.
LEMMA FiveFiftyKeeps ==
  ASSUME IInv, received, Bytes(0, 2) = <<5, 81>>, FiveFifty(2)
  PROVE  IInv'
<1>1. refused \in BOOLEAN
  BY DEF IInv, BufferInv
<1>2. CASE ~FiveFiftyCrcOk /\ Refuse
  BY <1>2, DoneKeeps DEF Refuse
<1>3. CASE Done /\ UNCHANGED <<saved, replies, refused>>
  BY <1>1, <1>3, DoneKeeps
<1>4. CASE CrcLeavesMemory
  <2>1. /\ crashed' = TRUE
        /\ UNCHANGED <<sent, data, len, sender, received, strays, saved, replies, refused,
                       answered>>
    BY <1>4 DEF CrcLeavesMemory
  <2>2. BufferInv'
    BY <2>1 DEF IInv, BufferInv, Content
  <2>3. SentInv'
    BY <2>1 DEF IInv, SentInv
  <2>4. SavedInv' /\ RepliesInv' /\ AnsweredInv'
    BY <2>1, RecordsKept
  <2> QED BY <2>2, <2>3, <2>4 DEF IInv
<1>5. CASE /\ len >= 4 /\ FiveFiftyCrcOk /\ Done
           /\ saved' = saved \cup {Row(Parsed(2))}
           /\ replies' = replies \cup Reply(2, Parsed(2))
           /\ UNCHANGED refused
  <2> DEFINE r == Parsed(2)
             s == Row(r)
             p == AnswerPacket(sender, r)
  <2>1. sender \in Device /\ r \in FiveFiftyReading /\ (ItsDevices(s) \/ FromForeign(s))
    BY <1>5, AcceptedOrigin DEF IInv
  <2>2. Reply(2, r) = {p}
    BY <2>1, ReplyIsAnswer
  <2>3. /\ saved' = saved \cup {s} /\ replies' = replies \cup {p}
        /\ received' = FALSE
        /\ UNCHANGED <<sent, data, len, sender, strays, crashed, answered, refused>>
    BY <1>5, <2>2 DEF Done
  <2>4. s.from = sender /\ s.reading = r /\ p = AnswerPacket(s.from, s.reading)
    BY DEF Row
  <2> HIDE DEF r, s, p
  <2>5. BufferInv'
    BY <2>3 DEF IInv, BufferInv
  <2>6. SentInv'
    BY <2>3 DEF IInv, SentInv
  <2>7. SavedInv'
    <3>1. \A t : ItsDevices(t)' = ItsDevices(t)
      BY <2>3 DEF ItsDevices
    <3>2. \A t : FromForeign(t)' = FromForeign(t)
      BY DEF FromForeign, Stale, Body
    <3>3. \A d, q : AnswerPacket(d, q)' = AnswerPacket(d, q)
      BY DEF AnswerPacket, Answer
    <3>4. ASSUME NEW t \in saved
          PROVE  /\ t.from \in Device /\ t.reading \in FiveFiftyReading
                 /\ ItsDevices(t) \/ FromForeign(t)
                 /\ AnswerPacket(t.from, t.reading) \in replies
      BY DEF IInv, SavedInv
    <3>5. ASSUME NEW t \in saved'
          PROVE  /\ t.from \in Device /\ t.reading \in FiveFiftyReading
                 /\ ItsDevices(t)' \/ FromForeign(t)'
                 /\ AnswerPacket(t.from, t.reading)' \in replies'
      <4>1. CASE t \in saved
        BY ONLY <2>3, <3>1, <3>2, <3>3, <3>4, <4>1
      <4>2. CASE t = s
        BY ONLY <2>1, <2>3, <2>4, <3>1, <3>2, <3>3, <4>2
      <4> QED BY <2>3, <4>1, <4>2
    <3> QED BY ONLY <3>5, Zenon DEF SavedInv
  <2>8. RepliesInv'
    <3>1. \A t \in replies : \E q \in saved : t = AnswerPacket(q.from, q.reading)
      BY DEF IInv, RepliesInv
    <3>2. \A t \in replies' : \E q \in saved' : t = AnswerPacket(q.from, q.reading)
      BY <2>3, <2>4, <3>1
    <3> QED BY <3>2 DEF RepliesInv, AnswerPacket, Answer
  <2>9. AnsweredInv'
    BY <2>3, ZenonT(40) DEF IInv, AnsweredInv, Answer
  <2> QED BY <2>5, <2>6, <2>7, <2>8, <2>9 DEF IInv
<1> QED BY <1>2, <1>3, <1>4, <1>5 DEF FiveFifty

\* A turn of a worker.
LEMMA ProcessKeeps ==
  ASSUME IInv, Process
  PROVE  IInv'
<1>1. refused \in BOOLEAN
  BY DEF IInv, BufferInv
<1>2. CASE NotFound
  BY <1>1, <1>2, DoneKeeps DEF NotFound
<1>3. ASSUME NEW p \in DOMAIN Plugins, Found(p)
      PROVE  /\ Plugins[p].process = "FiveFifty" /\ FiveFifty(Len(Plugins[p].identifier)) => IInv'
             /\ LargeFile => IInv'
  <2>1. ASSUME Plugins[p].process = "FiveFifty", FiveFifty(Len(Plugins[p].identifier)) PROVE IInv'
    <3>1. Plugins[p].identifier = <<5, 81>>
      BY <2>1, PluginsAssumption
    <3>2. Len(Plugins[p].identifier) = 2
      BY <3>1
    <3>3. received /\ Bytes(0, 2) = <<5, 81>> /\ FiveFifty(2)
      BY <1>3, <2>1, <3>1, <3>2 DEF Found, Matches
    <3> QED BY <3>3, FiveFiftyKeeps
  <2>2. ASSUME LargeFile PROVE IInv'
    <3>1. CASE Refuse
      BY <3>1, DoneKeeps DEF Refuse
    <3>2. CASE Done /\ UNCHANGED <<saved, replies, refused>>
      BY <1>1, <3>2, DoneKeeps
    <3> QED BY <2>2, <3>1, <3>2 DEF LargeFile
  <2> QED BY <2>1, <2>2
<1> QED BY <1>2, <1>3 DEF Process

\* A device takes an answer.
LEMMA TakeAnswerKeeps ==
  ASSUME IInv, NEW d \in Device, TakeAnswer(d)
  PROVE  IInv'
<1>1. PICK p \in replies : /\ Delivered(p.bytes, Server, d)
                           /\ answered' = answered \cup {[at |-> d, msg |-> Message(p.bytes)]}
  BY DEF TakeAnswer
<1>2. UNCHANGED <<sent, data, len, sender, received, strays, saved, replies, refused, crashed>>
  BY DEF TakeAnswer
<1>3. PICK s \in saved : p = AnswerPacket(s.from, s.reading)
  BY DEF IInv, RepliesInv
<1>4. s.from \in Device /\ s.reading \in FiveFiftyReading
  BY DEF IInv, SavedInv
<1> DEFINE msg == Answer(s.reading)
           e == s.from
<1>5. p.bytes = Packet(Server, e, msg)
  BY <1>3 DEF AnswerPacket
<1>6. msg \in Seq(Byte8) /\ Len(msg) + 28 < WordMod
  <2>1. msg \in Seq(Byte8) /\ Len(msg) = 8
    BY <1>4, AnswerType
  <2>2. 8 + 28 < WordMod
    BY SMT DEF WordMod
  <2> QED BY <2>1, <2>2
<1>7. Server \in Endpoint /\ d \in Endpoint /\ e \in Endpoint
  BY <1>4, EndpointsAssumption
<1> HIDE DEF msg, e
<1>8. e = d /\ Message(p.bytes) = msg
  <2>1. Delivered(Packet(Server, e, msg), Server, d)
    BY <1>1, <1>5
  <2>2. e = d
    BY <1>6, <1>7, <2>1, DeliveredToOne
  <2>3. Message(Packet(Server, e, msg)) = msg
    BY <1>6, <1>7, PacketIsDelivered
  <2> QED BY <1>5, <2>2, <2>3
<1>9. answered' = answered \cup {[at |-> d, msg |-> Answer(s.reading)]} /\ s.from = d
  BY <1>1, <1>8 DEF msg, e
<1>10. BufferInv'
  BY <1>2 DEF IInv, BufferInv, Content
<1>11. SentInv'
  BY <1>2 DEF IInv, SentInv
<1>12. SavedInv' /\ RepliesInv'
  BY <1>2 DEF IInv, SavedInv, RepliesInv, ItsDevices, FromForeign, Stale, Body, AnswerPacket,
              Answer
<1>13. AnsweredInv'
  <2>1. \A a \in answered' : \E t \in saved : t.from = a.at /\ a.msg = Answer(t.reading)
    BY <1>9 DEF IInv, AnsweredInv
  <2> QED BY <1>2, <2>1 DEF AnsweredInv, Answer
<1> QED BY <1>10, <1>11, <1>12, <1>13 DEF IInv

\* The invariant holds in every state.
THEOREM InvariantHolds == Spec => []IInv
<1>1. IInv /\ [Next]_vars => IInv'
  <2> SUFFICES ASSUME IInv, [Next]_vars PROVE IInv'
    OBVIOUS
  <2>1. CASE \E d \in Device : \E r \in Reading[d] : Send(d, r)
    BY <2>1, SendKeeps
  <2>2. CASE Receive \/ ReceiveForeign \/ ReceiveFails
    BY <2>2, ReceiveKeeps
  <2>3. CASE Process
    BY <2>3, ProcessKeeps
  <2>4. CASE \E d \in Device : TakeAnswer(d)
    BY <2>4, TakeAnswerKeeps
  <2>5. CASE UNCHANGED vars
    <3>1. UNCHANGED <<sent, data, len, sender, received, strays, saved, replies, refused,
                      crashed, answered>>
      BY <2>5 DEF vars
    <3>2. BufferInv'
      BY <3>1 DEF IInv, BufferInv, Content
    <3>3. SentInv'
      BY <3>1 DEF IInv, SentInv
    <3>4. SavedInv' /\ RepliesInv' /\ AnsweredInv'
      BY <3>1, RecordsKept
    <3> QED BY <3>2, <3>3, <3>4 DEF IInv
  <2> QED BY <2>1, <2>2, <2>3, <2>4, <2>5 DEF Next
<1> QED BY <1>1, InitHolds, PTL DEF Spec

-----------------------------------------------------------------------------
\* Every variable keeps its type, whatever arrives.
THEOREM TypeCorrect == Spec => []TypeOK
<1>1. IInv => TypeOK
  <2> SUFFICES ASSUME IInv PROVE TypeOK
    OBVIOUS
  <2>1. \A m \in sent : m.from \in Device /\ m.reading \in Reading[m.from]
    BY DEF IInv, SentInv
  <2>2. Len(data) = BufferSize /\ \A k \in 1 .. BufferSize : data[k] \in 0 .. 255
    <3>1. data \in Seq(Byte8) /\ Len(data) = BufferSize
      BY DEF IInv, BufferInv
    <3>2. \A k \in 1 .. Len(data) : data[k] \in Byte8
      BY <3>1, ElementOfSeq
    <3> QED BY <3>1, <3>2 DEF Byte8
  <2>3. /\ len \in 0 .. BufferSize /\ sender \in Device \cup {None}
        /\ received \in BOOLEAN /\ refused \in BOOLEAN /\ crashed \in BOOLEAN
        /\ strays \in 0 .. StrayMax
    BY DEF IInv, BufferInv
  <2>4. \A s \in saved : s.from \in Device
    BY DEF IInv, SavedInv
  <2>5. \A p \in replies : p.to \in Device
    BY <2>4 DEF IInv, RepliesInv, AnswerPacket
  <2>6. \A a \in answered : a.at \in Device
    BY <2>4 DEF IInv, AnsweredInv
  <2> QED BY <2>1, <2>2, <2>3, <2>4, <2>5, <2>6 DEF TypeOK
<1> QED BY <1>1, InvariantHolds, PTL

\* What is saved from a datagram of a device is the reading it has sent, although
\* one byte may be damaged; what is saved from a foreign datagram are its own
\* fields, as far as it has them: only what lies behind a datagram that is too
\* short, which FiveFifty does not notice, is left from an earlier one.
THEOREM OnlySentIsSaved == Spec => []SavedAsSent
<1>1. IInv => SavedAsSent
  BY DEF IInv, SavedInv, SavedAsSent, ItsDevices, FromForeign
<1> QED BY <1>1, InvariantHolds, PTL

\* A device that gets an answer has had the reading saved that it confirms.
THEOREM AnswersAreTrue == Spec => []AnswerMeansSaved
<1>1. IInv => AnswerMeansSaved
  <2> SUFFICES ASSUME IInv, NEW a \in answered
               PROVE  \E s \in saved : s.from = a.at /\ Confirms(a.msg, s.reading)
    BY DEF AnswerMeansSaved
  <2>1. PICK s \in saved : s.from = a.at /\ a.msg = Answer(s.reading)
    BY DEF IInv, AnsweredInv
  <2>2. s.reading \in FiveFiftyReading
    BY DEF IInv, SavedInv
  <2>3. Confirms(Answer(s.reading), s.reading)
    BY <2>2, AnswerType
  <2> QED BY <2>1, <2>3
<1> QED BY <1>1, InvariantHolds, PTL

\* For each saved reading the server has sent a packet that the IP stack of its
\* device accepts and that confirms it.
THEOREM EverySavedIsAnswered == Spec => []SavedIsAnswered
<1>1. IInv => SavedIsAnswered
  <2> SUFFICES ASSUME IInv, NEW s \in saved
               PROVE  \E p \in replies : /\ p.to = s.from
                                         /\ Delivered(p.bytes, Server, s.from)
                                         /\ Confirms(Message(p.bytes), s.reading)
    BY DEF SavedIsAnswered
  <2> DEFINE p == AnswerPacket(s.from, s.reading)
             msg == Answer(s.reading)
             e == s.from
  <2>1. p \in replies /\ e \in Device /\ s.reading \in FiveFiftyReading
    BY DEF IInv, SavedInv
  <2>2. p.to = e /\ p.bytes = Packet(Server, e, msg)
    BY DEF AnswerPacket
  <2>3. msg \in Seq(Byte8) /\ Len(msg) = 8 /\ Confirms(msg, s.reading)
    BY <2>1, AnswerType
  <2>4. Server \in Endpoint /\ e \in Endpoint
    BY <2>1, EndpointsAssumption
  <2> HIDE DEF p, msg, e
  <2>5. Len(msg) + 28 < WordMod
    <3>1. 8 + 28 < WordMod
      BY SMT DEF WordMod
    <3> QED BY <2>3, <3>1
  <2>6. /\ Delivered(Packet(Server, e, msg), Server, e)
        /\ Message(Packet(Server, e, msg)) = msg
    BY <2>3, <2>4, <2>5, PacketIsDelivered
  <2> QED BY <2>1, <2>2, <2>3, <2>6 DEF e
<1> QED BY <1>1, InvariantHolds, PTL

================================================================================
