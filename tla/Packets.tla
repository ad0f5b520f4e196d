-------------------------------- MODULE Packets --------------------------------
(***************************************************************************)
(* The packets that plugins write into item->sendData and give to a raw    *)
(* socket, headers included: kcFiveFiftyReply of FiveFifty, kcReplyId and  *)
(* kcReplyStatus of LargeFile.  The three functions differ in the fields   *)
(* before the CRC and in the size of the message, a constant of each.      *)
(***************************************************************************)
EXTENDS Checksums, Crc16

\* struct sockaddr_in: the address and the port of a socket.
Address == {a \in Seq(Byte8) : Len(a) = 4}
Endpoint == [addr : Address, port : Word16]

IpHeader(src, dest, msgLen) ==
  <<69, 0>> \o Val16ToBytes(KC_IPV4_UDP_HEADER_SIZE + msgLen)
    \o <<0, 0, 0, 0, 128, IPPROTO_UDP, 0, 0>> \o src.addr \o dest.addr

\* The headers with the checksum, and the message.
Packet(src, dest, msg) ==
  LET sum == kcCheckUdpSum(src.addr, src.port, dest.addr, dest.port, msg)
  IN IpHeader(src, dest, Len(msg))
       \o Val16ToBytes(src.port) \o Val16ToBytes(dest.port)
       \o Val16ToBytes(KC_UDP_HEADER_SIZE + Len(msg)) \o Val16ToBytes(sum) \o msg

\* The packets that bring a message: none when kcCheckUdpSum refuses it.
PacketsOf(src, dest, msg) == IF TooLong(msg) THEN {} ELSE {Packet(src, dest, msg)}

\* What the buffer holds after bytes have been written at its begin.
Written(bytes, old) == bytes \o SubSeq(old, Len(bytes) + 1, Len(old))

\* Mutant: the size of the message is not checked.
Replies_AnySize(src, dest, fields, size, old) ==
  LET crc     == kcCrc16(SubSeq(Written(fields, old), 1, size - 2), Preset)
      content == fields \o Val16ToBytes(crc)
  IN PacketsOf(src, dest, SubSeq(Written(content, old), 1, size))

\* The packets given to sendto: none when the fields and the CRC exceed the
\* message's size, which KC_SET_BUFFER_EXCEED notices.  The CRC covers all but
\* the last two bytes of the size, high byte first.
Replies(src, dest, fields, size, old) ==
  LET crc     == kcCrc16(SubSeq(Written(fields, old), 1, size - 2), Preset)
      content == fields \o Val16ToBytes(crc)
  IN IF Len(content) > size THEN {}
     ELSE PacketsOf(src, dest, SubSeq(Written(content, old), 1, size))

KC_REPLY_OK_SIZE == 8
KC_REPLY_ID_SIZE == 13
KC_REPLY_STATUS_SIZE == 7

kcFiveFiftyReply(config, sender, identifier, reading, errCode, old) ==
  Replies(config, sender, identifier \o <<reading.addres, reading.cmd, 1, errCode>>,
          KC_REPLY_OK_SIZE, old)

\* snowflakeId: eight bytes.
kcReplyId(config, sender, identifier, cmd, snowflakeId, old) ==
  Replies(config, sender, identifier \o <<cmd>> \o snowflakeId, KC_REPLY_ID_SIZE, old)

\* Mutant: the code of the status is sent low byte first.
kcReplyStatus_HostOrder(config, sender, identifier, cmd, statusCode, old) ==
  Replies(config, sender, identifier \o <<cmd>> \o Val16ToBytes(pg_bswap16(statusCode)),
          KC_REPLY_STATUS_SIZE, old)

kcReplyStatus(config, sender, identifier, cmd, statusCode, old) ==
  Replies(config, sender, identifier \o <<cmd>> \o Val16ToBytes(statusCode),
          KC_REPLY_STATUS_SIZE, old)

-----------------------------------------------------------------------------
(***************************************************************************)
(* The IP stack of the receiver.                                           *)
(***************************************************************************)
\* What follows the headers in a packet.
Message(packet) == SubSeq(packet, KC_IPV4_UDP_HEADER_SIZE + 1, Len(packet))

\* The stack of dest hands the packet to the program at its port.
Delivered(packet, src, dest) ==
  LET udp == SubSeq(packet, KC_IPV4_HEADER_SIZE + 1, Len(packet))
      pseudo == SubSeq(packet, 13, 20) \o <<0, packet[10]>> \o SubSeq(udp, 5, 6)
  IN /\ packet[1] = 69
     /\ packet[10] = IPPROTO_UDP
     /\ Val16FromBytes(SubSeq(packet, 3, 4)) = Len(packet)
     /\ Val16FromBytes(SubSeq(udp, 5, 6)) = Len(udp)
     /\ SubSeq(packet, 13, 20) = src.addr \o dest.addr
     /\ SubSeq(udp, 1, 4) = Val16ToBytes(src.port) \o Val16ToBytes(dest.port)
     /\ UdpSumVerifies(pseudo, udp)

\* The packets are such that the stack hands over the fields and their CRC.
AreReplies(packets, src, dest, size, fields) ==
  /\ packets # {}
  /\ \A p \in packets :
       /\ Delivered(p, src, dest)
       /\ Len(Message(p)) = size
       /\ SubSeq(Message(p), 1, size - 2) = fields
       /\ SubSeq(Message(p), size - 1, size) = Val16ToBytes(Remainder(fields))
=============================================================================
