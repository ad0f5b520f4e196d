------------------------------ MODULE MCFunctions ------------------------------
(***************************************************************************)
(* The functions without state, called with many inputs one after another. *)
(***************************************************************************)
EXTENDS FunctionCalls, Bitwise

CONSTANTS
  LineLength,  \* arguments of a command line
  TextLength   \* bytes or characters of a text

SeqsUpTo(S, n) == UNION {[1 .. m -> S] : m \in 0 .. n}

\* Every single byte, so that every entry of the tables is used, and more.
CrcTexts ==
  {<<b>> : b \in 0 .. 255} \cup SeqsUpTo({0, 1, 128, 255}, 4) \cup {[k \in 1 .. 40 |-> 6 * k]}

MCEndpoints ==
  {[addr |-> <<192, 168, 1, 167>>, port |-> 55431],
   [addr |-> <<10, 0, 255, 1>>, port |-> 1025],
   [addr |-> <<255, 254, 9, 2>>, port |-> 65535]}

Identifiers == {<<117, 103>>, <<5, 81>>, <<117, 103, 1>>}

\* What sendData holds: nothing yet, or a longer message.
OldContents == {[k \in 1 .. 16 |-> 0], [k \in 1 .. 16 |-> 200 + k]}

Ids == {<<0, 0, 0, 0, 0, 0, 0, 1>>, <<255, 254, 253, 252, 0, 1, 2, 3>>}

\* The two bytes with which the low half of the sum becomes 0xffff, so that
\* the first addition of the carries carries again.
CarryingMessage(src, dest) ==
  LET sum == kcCheckUdpSumV1(FakeHeader(src.addr, src.port, dest.addr, dest.port, 2), 0)
  IN Val16ToBytes(pg_bswap16(WordMod - 1 - (sum % WordMod)))

Bytes == {0, 9, 47, 171, 255}

Flags == 0 .. 16

\* The bounds of the ranges of kcUtf8ZhRandom, and the characters used.
Codes == UNION {{c - 1, c, c + 1} : c \in {1, 128, 2048, 55296, 57343, 65536, 1114110}}
           \cup {48, 90, 122, 19968, 20901}

\* 'Q', 'U', '=', a space and a character behind the alphabet.
Base64Characters == {81, 85, 61, 32, 123}

SmallTimes == [sec : 0 .. 1, frac : 0 .. Unit - 1]

Elapsed == {5, 9994, 9995, 10000, 599994, 599996, 600000, 36000004, 864000000, 1500000007}

\* Arrays that fill the buffer of 256 bytes, need one byte more, or have a text for
\* which alone it is too small.
LongArrays ==
  LET Long(n) == [k \in 1 .. n |-> 97]
  IN {<<Long(n)>> : n \in {231, 232, 250, 251}}
       \cup {<<Long(100), Long(251), Long(n)>> : n \in {126, 127, 251}}

Args ==
  {[kind |-> "word", text |-> "w"], [kind |-> "end"],
   [kind |-> "short", letters |-> <<"s", "r">>],
   [kind |-> "short", letters |-> <<"q", "r">>],
   [kind |-> "short", letters |-> <<"r", "h">>],
   [kind |-> "long", neg |-> FALSE, name |-> "run", own |-> <<"1">>],
   [kind |-> "long", neg |-> TRUE, name |-> "run", own |-> <<>>],
   [kind |-> "long", neg |-> FALSE, name |-> "start", own |-> <<>>],
   [kind |-> "long", neg |-> TRUE, name |-> "help", own |-> <<>>]}

WindowsArgs ==
  Args \cup
  {[kind |-> "short", letters |-> <<"u", "d">>],
   [kind |-> "short", letters |-> <<"e", "d">>],
   [kind |-> "long", neg |-> FALSE, name |-> "depend", own |-> <<>>],
   [kind |-> "long", neg |-> FALSE, name |-> "depend", own |-> <<"tcpip">>],
   [kind |-> "long", neg |-> TRUE, name |-> "depend", own |-> <<>>]}

-----------------------------------------------------------------------------
Replying ==
  [name : {"reply"}, src : MCEndpoints, dest : MCEndpoints, identifier : Identifiers,
   cmd : {2}, id : Ids, old : OldContents]

Summing ==
  UNION {[name : {"sum"}, src : {src}, dest : {dest},
          msg : SeqsUpTo({0, 83, 170, 255}, 3) \cup {CarryingMessage(src, dest)}
                  \cup {[k \in 1 .. n |-> 255] : n \in MAXLEN .. MAXLEN + 1}]
         : src \in MCEndpoints, dest \in MCEndpoints}

MCCalls ==
  UNION {
    Replying, Summing,
    [name : {"bytes"}, bytes : SeqsUpTo(Bytes, TextLength)],
    [name : {"decode"}, text : SeqsUpTo(Base64Characters, TextLength)],
    [name : {"crc"}, bytes : CrcTexts],
    [name : {"replace"}, source : SeqsUpTo({92, 97, 98}, TextLength),
     substr : SeqsUpTo({92, 97}, 2) \ {<<>>}, dest : {<<>>, <<47>>, <<92, 97>>}],
    [name : {"log"}, context : SeqsUpTo({0, 1}, TextLength), bufferSize : {3}, failsAt : 0 .. 3],
    [name : {"random"}, flag : Flags, code : Codes, min : {3}, max : {1}],
    [name : {"time"}, x : SmallTimes, y : SmallTimes, z : SmallTimes],
    [name : {"wait"}, elapsed : Elapsed, tv : [sec : {7}, frac : {0, 1, 989999, 990000, 999999}],
     msec : {0, 10, 999, 1000}],
    [name : {"array"}, strObjects : SeqsUpTo(SeqsUpTo({0, 97}, 2), 3) \cup LongArrays],
    [name : {"main"}, windows : {FALSE}, args : SeqsUpTo(Args, LineLength)],
    [name : {"main"}, windows : {TRUE}, args : SeqsUpTo(WindowsArgs, LineLength)]}

\* XorByte is the exclusive or of the community module.
ASSUME XorAssumption == \A a, b \in Byte8 : XorByte[a][b] = a ^^ b
=============================================================================
