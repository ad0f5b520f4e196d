----------------------------- MODULE MCDatagrams -----------------------------
(***************************************************************************)
(* Datagrams with one or two devices and a buffer of 32 bytes, for TLC.    *)
(***************************************************************************)
EXTENDS Datagrams

MCServer == [addr |-> <<192, 168, 1, 167>>, port |-> 55431]

D1 == [addr |-> <<10, 0, 255, 1>>, port |-> 1025]
D2 == [addr |-> <<255, 254, 9, 2>>, port |-> 65535]
MCDevice == {D1, D2}
OneDevice == {D1}

\* The reading that ddostools/main.c sends, and a later one of the same address
\* and command.
Sample == [addres |-> 1, cmd |-> 3, len |-> 8,
           temperature |-> <<65, 220, 0, 0>>, humidity |-> <<66, 140, 204, 205>>]
Later == [Sample EXCEPT !.humidity = <<0, 0, 255, 255>>]

MCReading == [d \in MCDevice |-> IF d = D1 THEN {Sample} ELSE {Sample, Later}]

ASSUME SampleIsTheCodes ==
  DeviceDatagram(Sample) = <<5, 81, 1, 3, 8, 65, 220, 0, 0, 66, 140, 204, 205, 12, 224>>

MCPlugins == <<[identifier |-> <<5, 81>>, process |-> "FiveFifty"],
               [identifier |-> <<117, 103>>, process |-> "LargeFile"]>>

\* A part of a file: command 2, one byte of data at offset 0 of one byte.
FilePart == <<117, 103, 2, 0, 1>> \o [k \in 1 .. 8 |-> 0] \o <<0, 0, 0, 0, 0, 0, 0, 1>>
              \o [k \in 1 .. 8 |-> 0] \o <<170>>

WithCrc(bytes) == bytes \o Val16ToBytes(pg_bswap16(Remainder(bytes)))

\* One datagram that LargeFile refuses and one whose last bytes happen to be the
\* CRC of the whole; then those for FiveFifty, by their own bytes or by what lies
\* in the buffer: a byte, nothing but identifier and CRC, and an address and a
\* command with their CRC.
MCForeign ==
  {WithCrc(FilePart), <<117, 103, 2, 1, 137, 126>>,
   <<5>>, <<5, 81, 255, 255>>, <<5, 81>> \o WithCrc(<<9, 4>>)}

\* A byte of the identifier, the last of the fields and the last of the CRC.
MCDamage == {<<1, 2>>, <<13, 129>>, <<15, 64>>}

MCMemory == {[k \in 1 .. 32 |-> IF k = 1 THEN 0 ELSE 81]}
=============================================================================
