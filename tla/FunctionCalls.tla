------------------------------ MODULE FunctionCalls ------------------------------
(***************************************************************************)
(* The functions without state, called one after another; a state is a     *)
(* call, its name and its inputs.  The properties compare what the call    *)
(* computes with a definition of its own, or turn it back.                 *)
(***************************************************************************)
EXTENDS Packets, WideCrcs, Conversions, Times, StringArrays, LogFile, CommandLine, FiniteSets

CONSTANTS
  Calls,  \* the calls, each with its inputs
  Unit    \* parts of a second of a clock

Time == [sec : Int, frac : 0 .. Unit - 1]

\* A text and an array whose lengths a number of the array's format can tell.
ShortText == {text \in Seq(Byte8) : Len(text) < WordMod}
ShortArray == {texts \in Seq(ShortText) : Len(texts) < WordMod}

\* Every call there can be: a message fits a packet, an identifier has two
\* bytes or more, the buffer of a reply has the size of the longest.
AnyReply ==
  [name : {"reply"}, src : Endpoint, dest : Endpoint, cmd : Byte8,
   identifier : {bytes \in Seq(Byte8) : Len(bytes) >= 2},
   id : {bytes \in Seq(Byte8) : Len(bytes) = 8},
   old : {bytes \in Seq(Byte8) : Len(bytes) >= KC_REPLY_ID_SIZE}]

AnySum == [name : {"sum"}, src : Endpoint, dest : Endpoint, msg : Seq(Byte8)]

AnyRandom == [name : {"random"}, flag : Nat, code : Nat, min : Int, max : Int]

AnyTime == [name : {"time"}, x : Time, y : Time, z : Time]

\* struct timeval.
TimeVal == [sec : Nat, frac : {usec \in Nat : usec < 1000000}]

AnyWait == [name : {"wait"}, elapsed : Nat, tv : TimeVal, msec : Nat]

AnyArray == [name : {"array"}, strObjects : ShortArray]

\* An empty substr is found for ever.
AnyReplace ==
  [name : {"replace"}, source : Seq(Byte8), substr : Seq(Byte8) \ {<<>>}, dest : Seq(Byte8)]

AnyLog == [name : {"log"}, context : Seq(Byte8), bufferSize : Nat \ {0}, failsAt : Nat]

AnyMain == [name : {"main"}, windows : BOOLEAN, args : Seq(Arg)]

AnyCall ==
  AnyReply \cup AnySum \cup AnyRandom \cup AnyTime \cup AnyWait \cup AnyArray
    \cup AnyReplace \cup AnyLog \cup AnyMain
    \cup [name : {"bytes", "crc"}, bytes : Seq(Byte8)] \cup [name : {"decode"}, text : Seq(Byte8)]

ASSUME CallsAssumption == Unit \in Nat \ {0} /\ Calls \subseteq AnyCall

VARIABLE call

NoCall == [name |-> "none"]

Init == call = NoCall

\* A function is called, and returns.
Call == call = NoCall /\ call' \in Calls
Return == call # NoCall /\ call' = NoCall
Next == Call \/ Return

Spec == Init /\ [][Next]_call

-----------------------------------------------------------------------------
BytesComeBack ==
  call.name = "bytes" =>
    LET encoded == pg_b64_encode(call.bytes, pg_b64_enc_len(Len(call.bytes)))
        Hex(isFlag) == kcHexStringFromBytes(call.bytes, isFlag)
    IN /\ pg_b64_decode(encoded.text, pg_b64_dec_len(Len(encoded.text))) = KC_OK(call.bytes)
       /\ call.bytes # <<>> =>
            \A isFlag \in BOOLEAN : kcHexStringToBytes(Hex(isFlag).text) = KC_OK(call.bytes)

\* The room pg_b64_dec_len tells is never too small.
DecodedFits ==
  call.name = "decode" =>
    pg_b64_decode(call.text, pg_b64_dec_len(Len(call.text)))
      = pg_b64_decode(call.text, 3 * Len(call.text))

\* The code that UTF-8 decoding gives, by the number of bytes.
Utf8Code(bytes) ==
  LET Low(k) == bytes[k] - 128
  IN CASE Len(bytes) = 1 -> bytes[1]
       [] Len(bytes) = 2 -> (bytes[1] - 192) * 64 + Low(2)
       [] Len(bytes) = 3 -> (bytes[1] - 224) * 4096 + Low(2) * 64 + Low(3)
       [] Len(bytes) = 4 -> (bytes[1] - 240) * 262144 + Low(2) * 4096 + Low(3) * 64 + Low(4)

NoCharacter(code) == IsSurrogate(code) \/ code > 1114111

\* Only surrogates and what is behind the last character have no bytes, and
\* the room kcRandomString makes suffices for the longest characters.
CharactersComeBack ==
  call.name = "random" =>
    LET bytes == kcUtf8ZhRandom(call.code)
    IN /\ IF bytes = <<>> THEN NoCharacter(call.code)
          ELSE Utf8Code(bytes) = call.code
       /\ \A kind \in kcCkeckFlag(call.flag) : call.code \in kcNumAbcZhRandomV1(kind) =>
            \A count \in CharacterCounts(call.min, call.max) :
              Len(kcNumAbcZhRandom([k \in 1 .. count |-> call.code])) < RandomRoom(count)

IsTime(t, unit) == t.frac \in 0 .. unit - 1

TimesComeBack ==
  call.name = "time" =>
    LET x == call.x  y == call.y  z == call.z
        sum  == INSTR_TIME_ADD(x, y, Unit)
        diff == INSTR_TIME_SUBTRACT(y, z, Unit)
    IN /\ IsTime(sum, Unit) /\ IsTime(diff, Unit)
       /\ INSTR_TIME_SUBTRACT(sum, y, Unit) = x
       /\ INSTR_TIME_ACCUM_DIFF(x, y, z, Unit) = INSTR_TIME_ADD(x, diff, Unit)

WaitsComeBack ==
  call.name = "wait" =>
    LET printed == kcMilliseconds2String(call.elapsed)
        abs == KC_TIMEVAL2TIMESPEC(call.tv, call.msec)
        minutes == (printed.days * 24 + printed.hours) * 60 + printed.minutes
    IN /\ (printed.msec + 5) \div 10 = minutes * 60000 + printed.seconds
       /\ printed.hours < 24 /\ printed.minutes < 60 /\ printed.seconds <= 60000
       /\ IsTime(abs, 1000000000)
       /\ abs.sec * 1000 + (abs.frac \div 1000000) = TIMEVAL2MSEC(call.tv) + call.msec

\* The bytes of an array: two numbers, every second text from the first on with a
\* number and a zero byte, and the second array.
ArraySize(texts) ==
  LET count == (Len(texts) + 1) \div 2
      after[k \in 0 .. count] == IF k = 0 THEN 8 ELSE after[k - 1] + 5 + Len(texts[2 * k - 1])
  IN after[count] + 12

\* The even texts are all there, when the first buffer holds the whole array.  A larger
\* one leaves the buffer.
ArraysComeBack ==
  call.name = "array" =>
    LET texts == call.strObjects
        written == dynamicStringArray(texts)
        printed == printDynamicStringArray(written.text)
    IN IF ArraySize(texts) > INITIAL_EXPBUFFER_SIZE THEN written = Overrun
       ELSE /\ written # Overrun
            /\ Len(printed[1]) = (Len(texts) + 1) \div 2
            /\ \A k \in DOMAIN printed[1] : printed[1][k] = texts[2 * k - 1]
            /\ printed[2] = SecondArray

\* What one function of kmblack has converted its counterpart, or the usual
\* reading of the result, turns back into the same, within the room that the
\* function which tells the size has told; the array of texts does so in the 256
\* bytes of its buffer, and overruns it beyond.
ConvertedBack ==
  /\ BytesComeBack /\ DecodedFits /\ CharactersComeBack
  /\ TimesComeBack /\ WaitsComeBack /\ ArraysComeBack

-----------------------------------------------------------------------------
\* The replies of both plugins, with an identifier of two bytes, are packets
\* that the sender's IP stack accepts, whatever an earlier reply has left in
\* the buffer; with a longer identifier nothing is sent.  The checksum of every
\* message that has room in a buffer beside the headers it covers, of even or odd
\* length, passes the receiver's test, and there is none of a longer one.
RepliesAreAccepted ==
  /\ call.name = "reply" =>
       LET src == call.src  dest == call.dest  identifier == call.identifier
           bytes   == call.id
           reading == [addres |-> bytes[1], cmd |-> call.cmd]
           saved   == kcFiveFiftyReply(src, dest, identifier, reading, bytes[2], call.old)
           id      == kcReplyId(src, dest, identifier, call.cmd, bytes, call.old)
           code    == kcReplyStatus(src, dest, identifier, call.cmd,
                                    bytes[1] * 256 + bytes[2], call.old)
       IN IF Len(identifier) > 2 THEN saved \cup id \cup code = {}
          ELSE /\ AreReplies(saved, src, dest, KC_REPLY_OK_SIZE,
                            identifier \o <<bytes[1], call.cmd, 1, bytes[2]>>)
               /\ AreReplies(id, src, dest, KC_REPLY_ID_SIZE, identifier \o <<call.cmd>> \o bytes)
               /\ AreReplies(code, src, dest, KC_REPLY_STATUS_SIZE,
                            identifier \o <<call.cmd>> \o SubSeq(bytes, 1, 2))
  /\ call.name = "sum" =>
       LET packets == PacketsOf(call.src, call.dest, call.msg)
       IN /\ packets = {} <=> Len(call.msg) + 12 + KC_UDP_HEADER_SIZE > KC_UDP_BUFFER_SIZE
          /\ \A p \in packets : Delivered(p, call.src, call.dest)

-----------------------------------------------------------------------------
\* The three CRCs, computed with tables, are the remainders of polynomial
\* divisions.
CrcsAreRemainders ==
  call.name = "crc" =>
    /\ kcCrc16(call.bytes, Preset) = Remainder(call.bytes)
    /\ kcCrc32(call.bytes) = XorBytes(RemainderOf(Poly32, AllOnes, call.bytes), AllOnes)
    /\ kcCrc64(call.bytes) = RemainderOf(Poly64, AllZeros, call.bytes)

\* The places of source where substr is replaced: those where it occurs, unless
\* it overlaps one that is replaced before.
Overlapped(places, substr, k) == \E j \in places : j < k /\ k < j + Len(substr)

ArePlaces(places, source, substr) ==
  places = {k \in DOMAIN source : Occurs(source, substr, k) /\ ~Overlapped(places, substr, k)}

Replaced(places, source, substr, dest) ==
  Flatten([k \in DOMAIN source |->
             CASE k \in places -> dest
               [] k \notin places /\ Overlapped(places, substr, k) -> <<>>
               [] OTHER -> <<source[k]>>])

\* Every occurrence that does not overlap an earlier one is replaced.
TextsAreReplaced ==
  call.name = "replace" =>
    LET result == kcStringReplace(call.source, call.substr, call.dest)
    IN \E places \in SUBSET DOMAIN call.source :
         /\ ArePlaces(places, call.source, call.substr)
         /\ result.text = Replaced(places, call.source, call.substr, call.dest)
         /\ result.ok = (result.text # <<>>)

\* The kinds that a flag's bits name, any kind for another flag.
KindsAreTheFlags ==
  call.name = "random" =>
    kcCkeckFlag(call.flag) =
      IF call.flag \in 1 .. 14
      THEN {kind \in 1 .. 4 : (call.flag \div <<1, 2, 4, 8>>[kind]) % 2 = 1}
      ELSE {0}

\* A message that fits one write is logged as it is, and of a longer one no
\* entry that is ended has another length.
EntryIsMessage ==
  call.name = "log" =>
    LET entry == kcSaveLog(call.context, call.bufferSize, call.failsAt)
    IN entry.ended =>
         /\ Len(entry.text) = Len(call.context)
         /\ Len(call.context) <= call.bufferSize => entry.text = call.context

\* The functions of kmblack without an inverse agree with definitions that are
\* independent of their tables, loops and cases.
SameAsDefinition ==
  CrcsAreRemainders /\ TextsAreReplaced /\ KindsAreTheFlags /\ EntryIsMessage

-----------------------------------------------------------------------------
(***************************************************************************)
(* The command line, read argument by argument.                            *)
(***************************************************************************)
\* The options of main: by their letters those that are turned on and off
\* (switch) and those that want a text.
Linux ==
  [options |-> LinuxOptions, order |-> LinuxOrder,
   switch |-> [start |-> "s", run |-> "r"], text |-> <<>>]

Windows ==
  [options |-> WindowsOptions, order |-> WindowsOrder,
   switch |-> [install |-> "i", uninstall |-> "u", start |-> "s", stop |-> "k", run |-> "r"],
   text |-> [depend |-> "d", description |-> "e"]]

SwitchLetters(sys) == {sys.switch[o] : o \in DOMAIN sys.switch}
TextLetters(sys) == {sys.text[o] : o \in DOMAIN sys.text}

\* The place of the first letter of a cluster that is no switch, which decides
\* on those behind it; or the place behind the last.
Decider(sys, letters) ==
  CHOOSE i \in 1 .. Len(letters) + 1 :
    /\ \A j \in 1 .. i - 1 : letters[j] \in SwitchLetters(sys)
    /\ i <= Len(letters) => letters[i] \notin SwitchLetters(sys)

Deciding(sys, arg) == {arg.letters[i] : i \in {Decider(sys, arg.letters)} \cap DOMAIN arg.letters}

AsksForHelp(sys, arg) ==
  \/ arg.kind = "short" /\ "h" \in Deciding(sys, arg)
  \/ arg.kind = "long" /\ arg.name = "help" /\ ~arg.neg

AsksForText(sys, arg, name) ==
  \/ arg.kind = "short" /\ sys.text[name] \in Deciding(sys, arg)
  \/ arg.kind = "long" /\ arg.name = name /\ ~arg.neg

IsUnknown(sys, arg) ==
  \/ arg.kind = "short" /\ ~(Deciding(sys, arg) \subseteq TextLetters(sys) \cup {"h"})
  \/ arg.kind = "long" /\
       arg.name \notin DOMAIN sys.switch
                         \cup (IF arg.neg THEN {} ELSE DOMAIN sys.text \cup {"help"})

\* What is behind "=", or the letters behind the one that decides.
OwnText(sys, arg) ==
  CASE arg.kind = "short" -> SubSeq(arg.letters, Decider(sys, arg.letters) + 1, Len(arg.letters))
    [] arg.kind = "long" -> arg.own
    [] OTHER -> <<>>

\* Gap: a long option without a text of its own takes the one that an option
\* before it, which was unknown or wanted none, has left in optvalue.
TextFor(sys, arg, left) ==
  IF arg.kind = "long" /\ arg.own = <<>> THEN left ELSE OwnText(sys, arg)

\* What an argument leaves there.
LeavesText(sys, arg, left) ==
  CASE arg.kind = "short" ->
         IF IsUnknown(sys, arg)
         THEN SubSeq(arg.letters, Decider(sys, arg.letters), Len(arg.letters)) ELSE <<>>
    [] arg.kind = "long" /\ arg.name \in DOMAIN sys.switch /\ arg.own # <<>> -> arg.own
    [] arg.kind = "long" /\ arg.name \in DOMAIN sys.text /\ ~arg.neg -> <<>>
    [] OTHER -> left

\* What has been read: the words, the options' texts, the number of unknown
\* options, the text that is left, and the option that wants the next argument.
NothingRead(sys) ==
  [words |-> <<>>, texts |-> [name \in DOMAIN sys.text |-> <<>>], errors |-> 0,
   left |-> <<>>, wants |-> {}]

\* An argument more; an option that wants it takes whatever it is.
ReadMore(sys, read, arg) ==
  LET asks == {name \in DOMAIN sys.text : AsksForText(sys, arg, name)}
      text == TextFor(sys, arg, read.left)
      Given(names, t) == [name \in DOMAIN sys.text |->
                            IF name \in names THEN t ELSE read.texts[name]]
  IN IF read.wants # {}
     THEN [read EXCEPT !.texts = Given(read.wants, Text(arg)), !.wants = {}]
     ELSE [words  |-> IF arg.kind = "word" THEN Append(read.words, Text(arg)) ELSE read.words,
           texts  |-> IF text # <<>> THEN Given(asks, text) ELSE read.texts,
           errors |-> read.errors + (IF IsUnknown(sys, arg) THEN 1 ELSE 0),
           left   |-> LeavesText(sys, arg, read.left),
           wants  |-> IF text = <<>> THEN asks ELSE {}]

Reading(sys, args) ==
  LET read[k \in 0 .. Len(args)] ==
        IF k = 0 THEN NothingRead(sys) ELSE ReadMore(sys, read[k - 1], args[k])
  IN read

\* "--" and help end the options, unless an option takes them for its text.
EndsOptions(sys, args, k) ==
  /\ Reading(sys, args)[k - 1].wants = {}
  /\ args[k].kind = "end" \/ AsksForHelp(sys, args[k])

\* The n arguments in front of what ends the options, or all.
IsFront(sys, args, n) ==
  /\ \A k \in 1 .. n : ~EndsOptions(sys, args, k)
  /\ n # Len(args) => EndsOptions(sys, args, n + 1)

\* How often an argument turns an option on, less how often off.
Gain(sys, name, arg) ==
  CASE arg.kind = "short" ->
         Cardinality({i \in 1 .. Decider(sys, arg.letters) - 1 : arg.letters[i] = sys.switch[name]})
    [] arg.kind = "long" /\ arg.name = name -> IF arg.neg THEN -1 ELSE 1
    [] OTHER -> 0

Gains(sys, name, args) ==
  LET gain[k \in 0 .. Len(args)] ==
        IF k = 0 THEN 0
        ELSE gain[k - 1] + (IF Reading(sys, args)[k - 1].wants = {}
                            THEN Gain(sys, name, args[k]) ELSE 0)
  IN gain

\* After n arguments an option is on when it has been turned on more often than
\* off since some of them.
IsOn(sys, name, args, n) ==
  \E k \in 0 .. n : Gains(sys, name, args)[k] < Gains(sys, name, args)[n]

\* main asks for its options in their order.
ModeIs(sys, args, n, mode) ==
  IF \A k \in DOMAIN sys.order : ~IsOn(sys, sys.order[k], args, n) THEN mode = "usage"
  ELSE \E k \in DOMAIN sys.order :
         /\ mode = sys.order[k] /\ IsOn(sys, sys.order[k], args, n)
         /\ \A j \in 1 .. k - 1 : ~IsOn(sys, sys.order[j], args, n)

\* What main does with n arguments in front of what ends the options.
\* Gap: every unknown option is reported with the usage, but does not end the
\* program with EXIT_FAILURE, as the code means it to.
\* Gap: there is one usage; what a second makes of the program is left open.
IsAsGiven(sys, args, n, result) ==
  LET self == result.self
      read == Reading(sys, args)[n]
      usages == read.errors + (IF self.exit = "success" \/ result.mode = "usage" THEN 1 ELSE 0)
  IN /\ self.usages = usages
     /\ usages <= 1 =>
          CASE n < Len(args) /\ args[n + 1].kind # "end" ->
                 result.mode = "exit" /\ self.exit = "success"
            [] read.wants # {} -> result.mode = "exit" /\ self.exit = "failure"
            [] OTHER ->
                 /\ ModeIs(sys, args, n, result.mode)
                 /\ \A name \in DOMAIN sys.text : self.value[name] = read.texts[name]
                 /\ self.out = read.words
                      \o [k \in 1 .. Len(args) - n - 1 |-> Text(args[n + 1 + k])]

\* On Linux and on Windows main goes on with the first of the options that the
\* arguments have turned on and not off again, and each option that wants a text
\* has the last it was given: its own, or one that another has left (TextFor), or
\* the argument behind.  Help ends the program, and so does an option for whose
\* text there is no argument.  An unknown option ought to, but does not.
OptionsAsGiven ==
  call.name = "main" =>
    LET sys == IF call.windows THEN Windows ELSE Linux
        result == main(sys.options, sys.order, call.args)
    IN \E n \in 0 .. Len(call.args) :
         IsFront(sys, call.args, n) /\ IsAsGiven(sys, call.args, n, result)
=============================================================================
