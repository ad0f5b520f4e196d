------------------------------ MODULE Checksums ------------------------------
(***************************************************************************)
(* kcCheckUdpSum of kmblack/KcUdp.c: the checksum of a UDP datagram over   *)
(* IPv4, and the byte operations of kmblack/KcStdio.h it uses.  Numbers of *)
(* more than 16 bits are sequences of bytes, most significant first.       *)
(***************************************************************************)
EXTENDS Integers, Sequences

IPPROTO_UDP == 17
KC_IPV4_HEADER_SIZE == 20
KC_UDP_HEADER_SIZE == 8
KC_IPV4_UDP_HEADER_SIZE == KC_IPV4_HEADER_SIZE + KC_UDP_HEADER_SIZE

\* KC_UDP_BUFFER_SIZE of kmblack/KcUtility.h, and what a message may have of it
\* beside struct udp_fake_head and struct udp_hdr.
KC_UDP_BUFFER_SIZE == 548
MAXLEN == KC_UDP_BUFFER_SIZE - 12 - 8

WordMod == 65536  \* number of values of a 16-bit word

\* uint8_t and uint16_t.
Byte8 == 0 .. 255
Word16 == 0 .. WordMod - 1

\* KC_VAL16_TO_BYTES and KC_VAL16_FROM_BYTES: most significant byte first.
Val16ToBytes(val) == <<val \div 256, val % 256>>
Val16FromBytes(bytes) == bytes[1] * 256 + bytes[2]

pg_bswap16(val) == (val % 256) * 256 + val \div 256

\* The k-th 16-bit word as the processor loads it; an odd byte ends the text.
Word(bytes, k) ==
  bytes[2 * k - 1] + (IF 2 * k > Len(bytes) THEN 0 ELSE 256 * bytes[2 * k])

\* The sum after each word.
Sums(bytes, udpSum) ==
  LET sum[k \in 0 .. (Len(bytes) + 1) \div 2] ==
        IF k = 0 THEN udpSum ELSE sum[k - 1] + Word(bytes, k)
  IN sum

kcCheckUdpSumV1(bytes, udpSum) == Sums(bytes, udpSum)[(Len(bytes) + 1) \div 2]

\* Mutant: the carry of the first addition is lost.
Folded_Once(sum) == (sum \div WordMod) + (sum % WordMod)

\* "add back carry outs from top 16 bits to low 16 bits"
Folded(sum) ==
  LET once == (sum \div WordMod) + (sum % WordMod)
  IN once + (once \div WordMod)

\* ~sum, truncated to 16 bits.
Complement(sum) == WordMod - 1 - (sum % WordMod)

\* struct udp_fake_head and struct udp_hdr.
FakeHeader(srcAddr, srcPort, destAddr, destPort, msgLen) ==
  srcAddr \o destAddr \o <<0, IPPROTO_UDP>>
    \o Val16ToBytes(KC_UDP_HEADER_SIZE + msgLen)
    \o Val16ToBytes(srcPort) \o Val16ToBytes(destPort)
    \o Val16ToBytes(KC_UDP_HEADER_SIZE + msgLen) \o <<0, 0>>

\* A longer message is refused.
TooLong(msg) == Len(msg) > MAXLEN

\* Mutant: the checksum is left in the processor's byte order.
kcCheckUdpSum_HostOrder(srcAddr, srcPort, destAddr, destPort, msg) ==
  LET head == FakeHeader(srcAddr, srcPort, destAddr, destPort, Len(msg))
  IN Complement(Folded(kcCheckUdpSumV1(msg, kcCheckUdpSumV1(head, 0))))

\* *udpSum for a message that is not refused.
kcCheckUdpSum(srcAddr, srcPort, destAddr, destPort, msg) ==
  LET head == FakeHeader(srcAddr, srcPort, destAddr, destPort, Len(msg))
  IN pg_bswap16(Complement(Folded(kcCheckUdpSumV1(msg, kcCheckUdpSumV1(head, 0)))))

-----------------------------------------------------------------------------
(***************************************************************************)
(* What kcCheckUdpSum is checked against: the receiver's test of RFC 768,  *)
(* which adds the words in network order with end-around carry.            *)
(***************************************************************************)
OnesAdd(a, b) == IF a + b >= WordMod THEN a + b - (WordMod - 1) ELSE a + b

\* The k-th word in network order, and the sum after each word.
NetworkWord(bytes, k) == Val16FromBytes(SubSeq(bytes \o <<0>>, 2 * k - 1, 2 * k))

NetworkSums(bytes) ==
  LET sum[k \in 0 .. (Len(bytes) + 1) \div 2] ==
        IF k = 0 THEN 0 ELSE OnesAdd(sum[k - 1], NetworkWord(bytes, k))
  IN sum

NetworkSum(bytes) == NetworkSums(bytes)[(Len(bytes) + 1) \div 2]

\* pseudo is the pseudo header, datagram the UDP header and the data.
UdpSumVerifies(pseudo, datagram) ==
  \/ SubSeq(datagram, 7, 8) = <<0, 0>>
  \/ NetworkSum(pseudo \o datagram) = WordMod - 1
=============================================================================
