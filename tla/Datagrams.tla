------------------------------ MODULE Datagrams ------------------------------
(***************************************************************************)
(* What a worker does with a datagram, byte by byte: kcServerPluginsFind   *)
(* (UdpServer/KcPlugins.c) and the plugins FiveFifty and LargeFile, with   *)
(* the devices and the network they talk to.                               *)
(*                                                                         *)
(* One slot suffices: a slot's buffers belong to one thread at a time      *)
(* (SlotOwnership of UdpServer), and plugins share nothing else.  The      *)
(* buffer keeps what a longer datagram has left behind a shorter one, and  *)
(* neither kcServerPluginsFind nor a plugin asks whether a datagram is as  *)
(* long as what it reads of it.                                            *)
(***************************************************************************)
EXTENDS Packets

CONSTANTS
  Server,    \* config->addres
  Device,    \* endpoints of devices
  Reading,   \* for each device the readings it may report
  Foreign,   \* other datagrams that arrive, of any length
  BufferSize,\* KC_UDP_BUFFER_SIZE, or less in an instance
  Memory,    \* what the buffer may hold before the first datagram
  StrayMax,  \* bound: how many of Foreign arrive
  Plugins,   \* the loaded plugins: a sequence of [identifier, process]
  Damage,    \* places and bit patterns by which the network may change a byte
  Faults     \* of "malloc", "recvfrom"

\* struct KC_FIVEFIFTY, without the identifier.
FourBytes == {b \in Seq(Byte8) : Len(b) = 4}
FiveFiftyReading ==
  [addres : Byte8, cmd : Byte8, len : Byte8, temperature : FourBytes, humidity : FourBytes]

ASSUME EndpointsAssumption == Server \in Endpoint /\ Device \subseteq Endpoint

ASSUME ReadingAssumption == \A d \in Device : Reading[d] \subseteq FiveFiftyReading

\* A byte that is damaged is changed.
ASSUME DamageAssumption == Damage \subseteq Nat \X (Byte8 \ {0})

\* plugins.json gives FiveFifty the identifier 0x0551.
ASSUME PluginsAssumption ==
  /\ Plugins \in Seq([identifier : Seq(Byte8), process : {"FiveFifty", "LargeFile"}])
  /\ \A p \in DOMAIN Plugins :
       Plugins[p].process = "FiveFifty" => Plugins[p].identifier = <<5, 81>>

\* A datagram of FiveFifty's layout, two bytes of identifier, eleven of fields
\* and two of CRC, has room in the buffer.
ASSUME BufferAssumption ==
  /\ BufferSize \in 15 .. KC_UDP_BUFFER_SIZE
  /\ Memory \subseteq {bytes \in Seq(Byte8) : Len(bytes) = BufferSize}

ASSUME BoundAssumption == StrayMax \in Nat

\* recvfrom cuts a datagram that is longer than the buffer.
ASSUME ForeignAssumption ==
  Foreign \subseteq {bytes \in Seq(Byte8) : Len(bytes) <= BufferSize}

VARIABLES
  sent,      \* datagrams that devices have sent
  data,      \* recv->data
  len,       \* recv->len
  sender,    \* item->sender
  received,  \* the slot holds a datagram
  strays,    \* how many of Foreign have arrived
  saved,     \* what kcFiveFiftySaveAsPostgreSQL was given, with the sender
  replies,   \* packets given to sendto
  refused,   \* the plugin found the CRC of the buffer's datagram wrong
  crashed,   \* the server has read beyond its memory and is no more
  answered   \* answers that devices have taken

vars ==
  <<sent, data, len, sender, received, strays, saved, replies, refused, crashed, answered>>

None == [addr |-> <<0, 0, 0, 0>>, port |-> 0]

Init ==
  /\ sent = {}
  /\ data \in Memory
  /\ len = 0
  /\ sender = None
  /\ received = FALSE
  /\ strays = 0
  /\ saved = {}
  /\ replies = {}
  /\ refused = FALSE
  /\ crashed = FALSE
  /\ answered = {}

-----------------------------------------------------------------------------
(***************************************************************************)
(* Devices and the network.  A datagram may be lost, delivered again and   *)
(* late, so what is sent stays available.                                  *)
(***************************************************************************)
Body(r) == <<r.addres, r.cmd, r.len>> \o r.temperature \o r.humidity

\* The CRC covers the body and is sent least significant byte first.
DeviceDatagram(r) ==
  <<5, 81>> \o Body(r) \o Val16ToBytes(pg_bswap16(Remainder(Body(r))))

Send(d, r) ==
  /\ sent' = sent \cup {[from |-> d, reading |-> r, bytes |-> DeviceDatagram(r)]}
  /\ UNCHANGED <<data, len, sender, received, strays, saved, replies, refused, crashed,
                 answered>>

\* What may arrive of a datagram: itself, or itself with one byte damaged.
Arriving(bytes) ==
  {bytes} \cup {[bytes EXCEPT ![d[1]] = XorByte[@][d[2]]] :
                  d \in {e \in Damage : e[1] \in DOMAIN bytes}}

\* Mutant: the length counts a terminator that is not there.
Store_CountsZero(d, bytes) ==
  /\ ~received /\ ~crashed
  /\ data' = bytes \o SubSeq(data, Len(bytes) + 1, Len(data))
  /\ len' = Len(bytes) + 1
  /\ sender' = d
  /\ received' = TRUE
  /\ refused' = FALSE
  /\ UNCHANGED <<sent, saved, replies, crashed, answered>>

\* recvfrom of the receiver thread: what lies behind the datagram stays.
Store(d, bytes) ==
  /\ ~received /\ ~crashed
  /\ data' = bytes \o SubSeq(data, Len(bytes) + 1, Len(data))
  /\ len' = Len(bytes)
  /\ sender' = d
  /\ received' = TRUE
  /\ refused' = FALSE
  /\ UNCHANGED <<sent, saved, replies, crashed, answered>>

Receive ==
  /\ \E m \in sent : \E bytes \in Arriving(m.bytes) : Store(m.from, bytes)
  /\ UNCHANGED strays

ReceiveForeign ==
  /\ strays < StrayMax
  /\ \E d \in Device, bytes \in Foreign : Store(d, bytes)
  /\ strays' = strays + 1

\* A failed recvfrom resets the buffer.
ReceiveFails ==
  /\ ~received /\ ~crashed
  /\ "recvfrom" \in Faults
  /\ data' = [data EXCEPT ![1] = 0]
  /\ len' = 0
  /\ refused' = FALSE
  /\ UNCHANGED <<sent, sender, received, strays, saved, replies, crashed, answered>>

-----------------------------------------------------------------------------
\* The bytes [first, first + count) of the buffer, counted from 0.
Bytes(first, count) == SubSeq(data, first + 1, first + count)

\* kcServerPluginsFind: memcmp with the buffer, whatever recv->len is.
Matches(p) == Bytes(0, Len(Plugins[p].identifier)) = Plugins[p].identifier

Found(p) ==
  /\ received /\ ~crashed
  /\ Matches(p)
  /\ \A q \in 1 .. p - 1 : ~Matches(q)

\* The worker frees the slot.
Done ==
  /\ received' = FALSE
  /\ UNCHANGED <<sent, data, len, sender, strays, crashed, answered>>

NotFound ==
  /\ received /\ ~crashed
  /\ \A p \in DOMAIN Plugins : ~Matches(p)
  /\ Done
  /\ UNCHANGED <<saved, replies, refused>>

\* A plugin returns KC_FAIL, which the worker logs.
Refuse ==
  /\ Done
  /\ refused' = TRUE
  /\ UNCHANGED <<saved, replies>>

dataCrc16 == Val16FromBytes(Bytes(len - 2, 2))

(***************************************************************************)
(* FiveFifty.                                                              *)
(***************************************************************************)
\* len - 4 is a size_t: below 4 it is as large as the address space, and the
\* loop of kcCrc16 leaves the memory of the process.
CrcLeavesMemory ==
  /\ len < 4
  /\ crashed' = TRUE
  /\ UNCHANGED <<sent, data, len, sender, received, strays, saved, replies, refused, answered>>

\* "skip the identifier 0x0551 that we have added ourselves"
FiveFiftyCrcOk ==
  dataCrc16 = pg_bswap16(kcCrc16(Bytes(2, len - 4), Preset))

\* Mutant: the length field is not skipped.
Parsed_KeepsLength(identifierLen) ==
  [addres      |-> data[identifierLen + 1],
   cmd         |-> data[identifierLen + 2],
   len         |-> data[identifierLen + 3],
   temperature |-> Bytes(identifierLen + 2, 4),
   humidity    |-> Bytes(identifierLen + 6, 4)]

\* struct KC_FIVEFIFTY, without the identifier.
Parsed(identifierLen) ==
  [addres      |-> data[identifierLen + 1],
   cmd         |-> data[identifierLen + 2],
   len         |-> data[identifierLen + 3],
   temperature |-> Bytes(identifierLen + 3, 4),
   humidity    |-> Bytes(identifierLen + 7, 4)]

\* The fields, and recv, which goes into the column bin.
Row(reading) == [from |-> sender, reading |-> reading, bin |-> Bytes(0, len)]

\* The packet of kcFiveFiftyReply for the datagram in the buffer.
Reply(identifierLen, reading) ==
  {[to |-> sender, bytes |-> packet] :
     packet \in kcFiveFiftyReply(Server, sender, Bytes(0, identifierLen), reading, 0,
                                 [k \in 1 .. KC_REPLY_OK_SIZE |-> 0])}

\* Mutant: the answer goes out although there is no memory to save with.
FiveFifty_AnswersAlways(identifierLen) ==
  LET reading == Parsed(identifierLen)
  IN \/ CrcLeavesMemory
     \/ len >= 4 /\ ~FiveFiftyCrcOk /\ Refuse
     \/ /\ len >= 4 /\ FiveFiftyCrcOk
        /\ Done
        /\ \/ saved' = saved \cup {Row(reading)}
           \/ "malloc" \in Faults /\ UNCHANGED saved
        /\ replies' = replies \cup Reply(identifierLen, reading)
        /\ UNCHANGED refused

\* kcFiveFiftyPluginProcessData of FiveFifty.
FiveFifty(identifierLen) ==
  LET reading == Parsed(identifierLen)
  IN \/ CrcLeavesMemory
     \/ len >= 4 /\ ~FiveFiftyCrcOk /\ Refuse
     \/ /\ len >= 4 /\ FiveFiftyCrcOk
        /\ "malloc" \in Faults
        /\ Done
        /\ UNCHANGED <<saved, replies, refused>>
     \/ /\ len >= 4 /\ FiveFiftyCrcOk
        /\ Done
        /\ saved' = saved \cup {Row(reading)}
        /\ replies' = replies \cup Reply(identifierLen, reading)
        /\ UNCHANGED refused

(***************************************************************************)
(* LargeFile.  What it accepts it parses and answers nothing; the checksum *)
(* it compares with the last two bytes covers these bytes too.  Of fewer   *)
(* than two bytes the last two lie in front of the buffer, and may be      *)
(* anything.                                                               *)
(***************************************************************************)
LargeFileCrcOk ==
  dataCrc16 = pg_bswap16(kcCrc16(Bytes(0, len), Preset))

\* kcFiveFiftyPluginProcessData of LargeFile.
LargeFile ==
  \/ (len >= 2 => ~LargeFileCrcOk) /\ Refuse
  \/ (len >= 2 => LargeFileCrcOk) /\ Done /\ UNCHANGED <<saved, replies, refused>>

\* One turn of kcUdpBackendThreadWorks.
Process ==
  \/ NotFound
  \/ \E p \in DOMAIN Plugins :
       /\ Found(p)
       /\ \/ /\ Plugins[p].process = "FiveFifty"
             /\ FiveFifty(Len(Plugins[p].identifier))
          \/ Plugins[p].process = "LargeFile" /\ LargeFile

-----------------------------------------------------------------------------
(***************************************************************************)
(* A device.                                                               *)
(***************************************************************************)
\* The message says that a reading with this address and command is saved.
Confirms(msg, r) ==
  /\ SubSeq(msg, 1, 6) = <<5, 81, r.addres, r.cmd, 1, 0>>
  /\ SubSeq(msg, 7, 8) = Val16ToBytes(Remainder(SubSeq(msg, 1, 6)))

TakeAnswer(d) ==
  /\ \E p \in replies :
       /\ Delivered(p.bytes, Server, d)
       /\ answered' = answered \cup {[at |-> d, msg |-> Message(p.bytes)]}
  /\ UNCHANGED <<sent, data, len, sender, received, strays, saved, replies, refused, crashed>>

Next ==
  \/ \E d \in Device : \E r \in Reading[d] : Send(d, r)
  \/ Receive \/ ReceiveForeign \/ ReceiveFails
  \/ Process
  \/ \E d \in Device : TakeAnswer(d)

Spec == Init /\ [][Next]_vars

-----------------------------------------------------------------------------
\* Every variable keeps its type.
TypeOK ==
  /\ \A m \in sent : m.from \in Device /\ m.reading \in Reading[m.from]
  /\ Len(data) = BufferSize /\ \A k \in 1 .. BufferSize : data[k] \in 0 .. 255
  /\ len \in 0 .. BufferSize
  /\ sender \in Device \cup {None}
  /\ received \in BOOLEAN /\ refused \in BOOLEAN /\ crashed \in BOOLEAN
  /\ strays \in 0 .. StrayMax
  /\ \A s \in saved : s.from \in Device
  /\ \A p \in replies : p.to \in Device
  /\ \A a \in answered : a.at \in Device

\* Gap: FiveFifty does not look at recv->len, so the fields that a foreign
\* datagram with a right CRC is too short for are what an earlier one has left.
Stale(bin) == {k \in 3 .. 13 : k > Len(bin)}

\* What is saved from a datagram of a device is the reading it has sent: damage
\* on the way is noticed.  A foreign datagram is saved when it has FiveFifty's
\* identifier and a right CRC; but for Stale the saved fields are its own.
SavedAsSent ==
  \A s \in saved :
    \/ \E m \in sent : m.from = s.from /\ m.reading = s.reading /\ m.bytes = s.bin
    \/ /\ s.bin \in Foreign
       /\ SubSeq(s.bin, 1, 2) = <<5, 81>> /\ Len(s.bin) >= 4
       /\ \A k \in (3 .. 13) \ Stale(s.bin) : Body(s.reading)[k - 2] = s.bin[k]

\* A device that gets an answer has had a reading with this address and command
\* saved, however often and in whatever order datagrams arrive.  The answer does
\* not tell two such readings of one device apart.
AnswerMeansSaved ==
  \A a \in answered : \E s \in saved :
    s.from = a.at /\ Confirms(a.msg, s.reading)

\* For each saved reading the server has sent a packet that the IP stack of
\* its device accepts: headers, lengths and checksum fit one another.
SavedIsAnswered ==
  \A s \in saved : \E p \in replies :
    /\ p.to = s.from
    /\ Delivered(p.bytes, Server, s.from)
    /\ Confirms(Message(p.bytes), s.reading)

-----------------------------------------------------------------------------
\* The datagrams of TextFile1.txt:3: "2 bytes identifier + 1 byte command ...
\* + 2 bytes crc16", the CRC being that of the bytes before it, in either byte
\* order, from the first byte or, as in FiveFifty, from the third.
IsDocumented(bytes) ==
  LET n == Len(bytes) - 2
  IN /\ SubSeq(bytes, 1, 2) = <<117, 103>>
     /\ \E first \in {1, 3} :
          LET crc == Remainder(SubSeq(bytes, first, n))
          IN SubSeq(bytes, n + 1, n + 2) \in {Val16ToBytes(crc), Val16ToBytes(pg_bswap16(crc))}

\* No datagram with the documented layout is refused for its checksum.
DocumentedIsAccepted == refused => ~IsDocumented(Bytes(0, len))
=============================================================================
