---------------------------- MODULE LoadingProofs ----------------------------
(***************************************************************************)
(* For every content of the files, every number and every set of faults:   *)
(* only the texts of earlier entries are lost, all else is released, what  *)
(* is handed on is complete and what config.json says, and no pointer is   *)
(* followed that leads nowhere, but for the gaps that Loading names.       *)
(***************************************************************************)
EXTENDS Loading, TLAPS

Before  == {"configAccess", "config", "runing_path", "open", "logAccess",
            "pluginsAccess", "createFails", "startFails"}
Reading == {"descriptors", "seek", "read", "doc", "readError", "readFails"}
Rooting == {"nodes", "strAddress", "address", "numbers", "strLogPath", "log_path", "ranges"}
OfEntry == {"entryNodes", "hex", "identifier", "strLibrary", "entry_process_data",
            "library", "handler", "dlsym"}
Parsing == {"plugins", "items", "entry"} \cup OfEntry

IsText(b) == b[1] \in {"hex", "strLibrary"}

\* A pointer is set to NULL when its block is released.
PointersHeld == ptr \subseteq heap

\* All that has been lost so far are texts of earlier entries.
OnlyTextsLeak == heap \ ptr \subseteq EarlierTexts

\* What pointers there are at each place at most.
Reach ==
  /\ pc \in Before => ptr \subseteq Config
  /\ pc \in Reading => ptr \subseteq Config \cup Stream
  /\ pc \in Rooting => ptr \subseteq Config \cup Stream \cup Locals
  /\ pc \in {"plugins", "items"} => ptr \subseteq Config \cup Stream \cup Table
  /\ pc \in Parsing => \A b \in ptr :
       IsText(b) \/ b \in Config \cup Stream \cup Table \cup Items
  /\ pc = "close" => ptr \subseteq Config \cup Stream \cup Table \cup Items
  /\ pc = "close" /\ loading = "config" => ptr \subseteq Config \cup Stream
  /\ pc = "running" => ptr \subseteq Config \cup Table \cup Items
  /\ pc = "unload" => ptr \subseteq Config \cup Stream \cup Table \cup Items
  /\ pc = "crashed" => \A b \in ptr :
       IsText(b) \/ b \in Config \cup Stream \cup Locals \cup Table \cup Items
  /\ pc = "ended" => ptr = {}

\* Which file is being loaded at each place, and that the content of
\* plugins.json is unknown before it is parsed.
Phase ==
  /\ loading \in {"config", "plugins"}
  /\ pc \in Rooting \cup {"configAccess", "config", "runing_path", "logAccess"}
       => loading = "config"
  /\ pc \in Parsing \cup {"pluginsAccess", "startFails", "running", "unload"} => loading = "plugins"
  /\ (loading = "config" \/ pc \in {"pluginsAccess", "open", "descriptors", "seek", "read", "doc", "readError"})
       => entries = <<>>
  /\ pc = "startFails" \/ pc \in Before \cup Reading \cup Rooting \cup Parsing
       \cup {"close", "unload", "running", "ended", "crashed"}

\* The index is that of an entry, and pointers to texts are not ahead of it.
IndexInv ==
  /\ entries \in Seq(STRING)
  /\ index \in 0 .. Len(entries) + 1
  /\ pc = "entry" => index >= 1
  /\ pc \in OfEntry => index \in 1 .. Len(entries)
  /\ \A b \in ptr : IsText(b) =>
       b \in {<<name, i>> : name \in {"hex", "strLibrary"}, i \in 1 .. index}

IInv == PointersHeld /\ OnlyTextsLeak /\ Reach /\ Phase /\ IndexInv

\* Getting a block loses at most what its variable pointed to before.
LEMMA GetLoses ==
  ASSUME NEW blocks, NEW old, PointersHeld, Get(blocks, old)
  PROVE  PointersHeld' /\ heap' \ ptr' \subseteq (heap \ ptr) \cup (old \ blocks)
  BY DEF PointersHeld, Get

\* Freeing loses nothing.
LEMMA FreeLoses ==
  ASSUME NEW blocks, PointersHeld, Free(blocks)
  PROVE  /\ PointersHeld' /\ heap' \ ptr' \subseteq heap \ ptr
         /\ ptr' = ptr \ blocks
  BY DEF PointersHeld, Free

\* The blocks of the program's variables.
LEMMA Blocks ==
  /\ {<<"config", 0>>, <<"runing_path", 0>>, <<"log_path", 0>>} = Config
  /\ {<<"stream", 0>>, <<"doc", 0>>} = Stream
  /\ {<<"strAddress", 0>>, <<"strLogPath", 0>>} = Locals
  /\ {<<"plugins", 0>>, <<"items", 0>>} = Table
  /\ \A name : Var({name}) = {<<name, 0>>}
  BY DEF Config, Stream, Locals, Table, Var

\* The block of a variable is in the set the variable belongs to.
LEMMA BlockOf ==
  /\ \A name \in {"config", "runing_path", "log_path"} : Var({name}) \subseteq Config
  /\ \A name \in {"stream", "doc"} : Var({name}) \subseteq Stream
  /\ \A name \in {"strAddress", "strLogPath"} : Var({name}) \subseteq Locals
  /\ \A name \in {"plugins", "items"} : Var({name}) \subseteq Table
  BY DEF Config, Stream, Locals, Table, Var

\* A text is none of the program's other blocks.
LEMMA NoTexts ==
  \A b \in Config \cup Stream \cup Locals \cup Table : ~IsText(b)
  BY Blocks DEF IsText

\* What an entry acquires besides the texts is among its items.
LEMMA FieldsAreItems ==
  ASSUME IndexInv, pc \in OfEntry, NEW name \in {"identifier", "entry_process_data", "library", "handler"}
  PROVE  <<name, index>> \in Items
<1>1. index \in DOMAIN entries
  BY DEF IndexInv
<1>2. <<name, index>> \in Field(index)
  BY DEF Field
<1> QED BY <1>1, <1>2 DEF Items

\* The invariant holds at first.
LEMMA InitIInv == Init => IInv
<1> SUFFICES ASSUME Init PROVE IInv
  OBVIOUS
<1>1. PointersHeld /\ OnlyTextsLeak /\ Reach
  BY DEF Init, PointersHeld, OnlyTextsLeak, EarlierTexts, Reach, Before, Reading, Rooting,
    Parsing, OfEntry
<1>2. Phase
  BY DEF Init, Phase, Before, Reading, Rooting, Parsing, OfEntry
<1>3. IndexInv
  BY DEF Init, IndexInv, OfEntry
<1> QED BY <1>1, <1>2, <1>3 DEF IInv

\* A step that changes neither entries nor the texts keeps what may be lost.
LEMMA KeepsLeak ==
  ASSUME PointersHeld, OnlyTextsLeak, entries' = entries,
         Keep \/ (\E blocks : Get(blocks, {})) \/ (\E blocks : Free(blocks))
  PROVE  PointersHeld' /\ OnlyTextsLeak'
<1>1. CASE Keep
  BY <1>1 DEF Keep, PointersHeld, OnlyTextsLeak, EarlierTexts
<1>2. ASSUME NEW blocks, Get(blocks, {})
      PROVE  PointersHeld' /\ OnlyTextsLeak'
  BY <1>2, GetLoses DEF OnlyTextsLeak, EarlierTexts
<1>3. ASSUME NEW blocks, Free(blocks)
      PROVE  PointersHeld' /\ OnlyTextsLeak'
  BY <1>3, FreeLoses DEF OnlyTextsLeak, EarlierTexts
<1> QED BY <1>1, <1>2, <1>3

\* A step that keeps entries and index and gets no text keeps the index right.
LEMMA KeepsIndex ==
  ASSUME IndexInv, UNCHANGED <<entries, index>>, pc' \notin OfEntry \cup {"entry"} \/ pc \in OfEntry,
         \A b \in ptr' : b \in ptr \/ ~IsText(b)
  PROVE  IndexInv'
  BY DEF IndexInv, IsText

\* kcConfigCreate, its end, kcServerPluginsLoad, Stop and FreeConfig.
LEMMA OutsideStep ==
  ASSUME IInv, kcConfigCreate \/ Created \/ kcServerPluginsLoad \/ Stop \/ FreeConfig
  PROVE  IInv'
<1> USE DEF IInv
<1>1. entries' = entries /\ index' = index
  BY DEF kcConfigCreate, Created, kcServerPluginsLoad, Stop, FreeConfig
<1>2. PointersHeld' /\ OnlyTextsLeak'
  <2>1. Keep \/ (\E blocks : Get(blocks, {})) \/ (\E blocks : Free(blocks))
    BY DEF kcConfigCreate, Created, kcServerPluginsLoad, Stop, FreeConfig, Makes, Fails
  <2> QED BY <1>1, <2>1, KeepsLeak
<1>3. Items' = Items
  BY <1>1 DEF Items
<1>4. CASE kcConfigCreate
  <2>1. pc \in Before /\ pc' \in Before
    BY <1>4 DEF kcConfigCreate, Makes, Fails, Step, Before
  <2>2. ptr \subseteq Config
    BY <2>1 DEF Reach
  <2>3. ptr' \subseteq Config
    <3>1. CASE Keep
      BY <3>1, <2>2 DEF Keep
    <3>2. ASSUME NEW name \in {"config", "runing_path"}, Get(Var({name}), {})
          PROVE  ptr' \subseteq Config
      <4>1. Var({name}) \subseteq Config
        BY BlockOf
      <4> QED BY <4>1, <3>2, <2>2 DEF Get
    <3> QED BY <1>4, <3>1, <3>2 DEF kcConfigCreate, Makes, Fails
  <2>4. Reach'
    BY <2>1, <2>3 DEF Reach, Before, Reading, Rooting, Parsing, OfEntry
  <2>5. Phase'
    BY <1>1, <1>4, <2>1 DEF kcConfigCreate, Makes, Fails, Step, Phase, Before, Reading, Rooting,
      Parsing, OfEntry
  <2>6. IndexInv'
    BY <1>1, <2>1, <2>3, NoTexts, KeepsIndex DEF Before, OfEntry
  <2> QED BY <1>2, <2>4, <2>5, <2>6
<1>5. CASE Created \/ kcServerPluginsLoad
  <2>1. Reach'
    BY <1>5 DEF Created, kcServerPluginsLoad, Reach, Fails, Step, Keep, Before, Reading,
      Rooting, Parsing, OfEntry
  <2>2. Phase'
    BY <1>5 DEF Created, kcServerPluginsLoad, Phase, Fails, Step, Before, Reading,
      Rooting, Parsing, OfEntry
  <2>3. IndexInv'
    BY <1>5, KeepsIndex DEF Created, kcServerPluginsLoad, Fails, Step, Keep, OfEntry
  <2> QED BY <1>2, <2>1, <2>2, <2>3
<1>6. CASE Stop \/ FreeConfig
  <2>1. Reach'
    BY <1>6, <1>3 DEF Stop, FreeConfig, Free, Reach, Keep, Before, Reading,
      Rooting, Parsing, OfEntry
  <2>2. Phase'
    BY <1>6 DEF Stop, FreeConfig, Phase, Before, Reading, Rooting, Parsing, OfEntry
  <2>3. IndexInv'
    BY <1>6, KeepsIndex DEF Stop, FreeConfig, Free, Keep, OfEntry
  <2> QED BY <1>2, <2>1, <2>2, <2>3
<1> QED BY <1>4, <1>5, <1>6

\* Reading a file: nothing can be lost when the content becomes known.
LEMMA ReadFileStep ==
  ASSUME IInv, ReadFile
  PROVE  IInv'
<1> USE DEF IInv
<1>1. CASE Load
  <2>1. pc = "doc" /\ ptr \subseteq Config \cup Stream /\ entries = <<>>
    BY <1>1 DEF Load, Reach, Reading, Phase
  <2>2. PointersHeld' /\ OnlyTextsLeak'
    <3>1. heap \ ptr = {}
      BY <2>1 DEF OnlyTextsLeak, EarlierTexts
    <3>2. PointersHeld' /\ heap' \ ptr' \subseteq heap \ ptr
      BY <1>1, GetLoses DEF Load
    <3> QED BY <3>1, <3>2 DEF OnlyTextsLeak, EarlierTexts
  <2>3. ptr' \subseteq Config \cup Stream
    BY <1>1, <2>1, BlockOf DEF Load, Get
  <2>4. Reach'
    BY <1>1, <2>1, <2>3 DEF Load, Reach, Before, Reading, Rooting, Parsing, OfEntry
  <2>5. Phase'
    BY <1>1, <2>1 DEF Load, Phase, Before, Reading, Rooting, Parsing, OfEntry
  <2>6. IndexInv'
    <3>1. entries' \in Seq(STRING)
      <4>1. entries' \in Documents \/ entries' = <<>>
        BY <1>1, <2>1 DEF Load
      <4>2. Documents \subseteq Seq(STRING)
        BY LoadingAssumption
      <4>3. <<>> \in Seq(STRING)
        OBVIOUS
      <4> QED BY <4>1, <4>2, <4>3
    <3>2. index' \in 0 .. Len(entries') + 1
      <4>1. Len(<<>>) = 0 /\ index \in 0 .. Len(<<>>) + 1 /\ index' = index
        BY <1>1, <2>1 DEF Load, IndexInv
      <4>2. Len(entries') \in Nat
        BY <3>1
      <4>3. index' \in 0 .. 1
        BY <4>1
      <4> QED BY <4>2, <4>3
    <3> QED BY <1>1, <2>3, <3>1, <3>2, NoTexts DEF Load, IndexInv, OfEntry
  <2> QED BY <2>2, <2>4, <2>5, <2>6
<1>2. CASE Close \/ CloseFails
  <2>1. entries' = entries /\ index' = index /\ Items' = Items
    BY <1>2 DEF Close, CloseFails, Items
  <2>2. PointersHeld' /\ OnlyTextsLeak'
    BY <1>2, <2>1, KeepsLeak DEF Close, CloseFails
  <2>3. Reach'
    BY <1>2, <2>1 DEF Close, CloseFails, Free, Reach, Phase, Before, Reading, Rooting, Parsing, OfEntry
  <2>4. Phase'
    BY <1>2, <2>1 DEF Close, CloseFails, Phase, Before, Reading, Rooting, Parsing, OfEntry
  <2>5. IndexInv'
    BY <1>2, <2>1, KeepsIndex DEF Close, CloseFails, Free, OfEntry
  <2> QED BY <2>2, <2>3, <2>4, <2>5
<1>3. ASSUME ReadFile, ~Load, ~(Close \/ CloseFails)
      PROVE  IInv'
  <2>1. /\ entries' = entries /\ index' = index /\ loading' = loading
        /\ pc \in {"open"} \cup Reading /\ pc' \in Reading
    BY <1>3 DEF ReadFile, Open, Seek, Read, ReadFails, ReadError, ReadEnds, Makes, Fails, Step, Reading
  <2>2. Keep \/ Get(Var({"stream"}), {})
    BY <1>3 DEF ReadFile, Open, Seek, Read, ReadFails, ReadError, ReadEnds, Makes, Fails
  <2>3. PointersHeld' /\ OnlyTextsLeak'
    BY <2>1, <2>2, KeepsLeak
  <2>4. ptr \subseteq Config \cup Stream
    BY <2>1 DEF Reach, Before, Reading
  <2>5. ptr' \subseteq Config \cup Stream
    BY <2>2, <2>4, BlockOf DEF Keep, Get
  <2>6. Reach'
    BY <2>1, <2>5 DEF Reach, Before, Reading, Rooting, Parsing, OfEntry
  <2>7. entries = <<>>
    <3>1. CASE pc # "readFails"
      BY <2>1, <3>1 DEF Phase, Reading
    <3>2. pc # "readFails"
      BY <1>3 DEF ReadFile, Open, Seek, Read, ReadFails, ReadError, ReadEnds, Makes, Fails, Step
    <3> QED BY <3>1, <3>2
  <2>8. Phase'
    BY <2>1, <2>7 DEF Phase, Before, Reading, Rooting, Parsing, OfEntry
  <2>9. IndexInv'
    BY <2>1, <2>5, NoTexts, KeepsIndex DEF Reading, OfEntry
  <2> QED BY <2>3, <2>6, <2>8, <2>9
<1> QED BY <1>1, <1>2, <1>3

\* Parsing config.json.
LEMMA ParseRootStep ==
  ASSUME IInv, kcParseRoot
  PROVE  IInv'
<1> USE DEF IInv
<1>1. /\ entries' = entries /\ index' = index /\ loading' = loading /\ loading = "config"
      /\ pc \in Rooting
  BY DEF kcParseRoot, GetNumbers, CheckRanges, ParseRootFails, Makes, Step, Phase, Rooting
<1>2. pc' \in Rooting \cup {"close", "readFails"}
  BY DEF kcParseRoot, GetNumbers, CheckRanges, ParseRootFails, Makes, Step, Rooting
<1>3. PointersHeld' /\ OnlyTextsLeak'
  <2>1. Keep \/ (\E blocks : Get(blocks, {})) \/ (\E blocks : Free(blocks))
    BY DEF kcParseRoot, GetNumbers, CheckRanges, ParseRootFails, Makes
  <2> QED BY <1>1, <2>1, KeepsLeak
<1>4. /\ ptr' \subseteq Config \cup Stream \cup Locals
      /\ pc' \in {"close", "readFails"} => ptr' \subseteq Config \cup Stream
  <2>1. ptr \subseteq Config \cup Stream \cup Locals
    BY <1>1 DEF Reach
  <2>2. CASE GetNumbers \/ CheckRanges \/ ParseRootFails
    BY <2>1, <2>2 DEF GetNumbers, CheckRanges, ParseRootFails, Free, Keep, Step
  <2>3. CASE Keep /\ pc' \in {"strAddress", "numbers"}
    BY <2>1, <2>3 DEF Keep
  <2>4. ASSUME NEW name \in {"strAddress", "strLogPath", "log_path"}, Get(Var({name}), {}),
               pc' \in {"address", "log_path", "ranges"}
        PROVE  ptr' \subseteq Config \cup Stream \cup Locals
    <3>1. Var({name}) \subseteq Config \cup Stream \cup Locals
      BY BlockOf
    <3> QED BY <3>1, <2>1, <2>4 DEF Get
  <2> QED BY <2>2, <2>3, <2>4 DEF kcParseRoot, Makes, Step
<1>5. Reach'
  BY <1>1, <1>2, <1>4 DEF Reach, Before, Reading, Rooting, Parsing, OfEntry
<1>6. Phase'
  BY <1>1, <1>2 DEF Phase, Before, Reading, Rooting, Parsing, OfEntry
<1>7. IndexInv'
  BY <1>1, <1>2, <1>4, NoTexts, KeepsIndex DEF Rooting, OfEntry
<1> QED BY <1>3, <1>5, <1>6, <1>7

\* Parsing plugins.json: a new text takes the place of that of an earlier entry.
LEMMA TextStep ==
  ASSUME IInv, pc \in OfEntry, UNCHANGED <<entries, index>>,
         NEW name \in {"hex", "strLibrary"}, Get({<<name, index>>}, Texts(name))
  PROVE  PointersHeld' /\ OnlyTextsLeak'
<1> USE DEF IInv
<1>1. PointersHeld' /\ heap' \ ptr' \subseteq (heap \ ptr) \cup (Texts(name) \ {<<name, index>>})
  BY GetLoses
<1>2. index \in 1 .. Len(entries) /\ Len(entries) \in Nat
  BY DEF IndexInv
<1>3. ASSUME NEW b \in Texts(name) \ {<<name, index>>}
      PROVE  b \in EarlierTexts
  <2>1. b \in ptr /\ b[1] = name /\ b # <<name, index>>
    BY DEF Texts
  <2>2. PICK n \in {"hex", "strLibrary"}, i \in 1 .. index : b = <<n, i>>
    BY <2>1 DEF IndexInv, IsText
  <2>3. n = name /\ i # index
    BY <2>1, <2>2
  <2>4. i \in 1 .. Len(entries) - 1
    BY <1>2, <2>3
  <2> QED BY <2>2, <2>4 DEF EarlierTexts
<1> QED BY <1>1, <1>3 DEF OnlyTextsLeak, EarlierTexts

\* The places of an entry, with what the parser has acquired there.
LEMMA ParsingReach ==
  ASSUME IInv, pc \in Parsing, pc' \in OfEntry \cup {"entry"}, Items' = Items,
         \A b \in ptr' : b \in ptr \/ IsText(b) \/ b \in Table \cup Items
  PROVE  Reach'
<1>1. \A b \in ptr : IsText(b) \/ b \in Config \cup Stream \cup Table \cup Items
  BY DEF IInv, Reach
<1>2. \A b \in ptr' : IsText(b) \/ b \in Config \cup Stream \cup Table \cup Items
  BY <1>1
<1> QED BY <1>2 DEF Reach, Before, Reading, Rooting, Parsing, OfEntry

\* Within an entry.
LEMMA EntryStep ==
  ASSUME IInv, ParseEntry \/ OpenLibrary \/ FindFunction \/ NextEntry
  PROVE  IInv'
<1> USE DEF IInv
<1>1. /\ entries' = entries /\ loading' = loading
      /\ pc \in OfEntry \cup {"entry"} /\ pc' \in OfEntry \cup {"entry"}
  BY DEF ParseEntry, OpenLibrary, FindFunction, NextEntry, Text, MakesField, Step, OfEntry
<1>2. Items' = Items
  BY <1>1 DEF Items
<1>3. pc \in Parsing
  BY <1>1 DEF Parsing
<1>4. Phase'
  BY <1>1, <1>3 DEF Phase, Before, Reading, Rooting, Parsing, OfEntry
<1>5. ASSUME NEW name \in {"hex", "strLibrary"}, pc \in OfEntry, pc' \in OfEntry, index' = index,
             Get({<<name, index>>}, Texts(name))
      PROVE  IInv'
  <2>1. PointersHeld' /\ OnlyTextsLeak'
    BY <1>1, <1>5, TextStep
  <2>2. \A b \in ptr' : b \in ptr \/ b = <<name, index>>
    BY <1>5 DEF Get
  <2>3. IsText(<<name, index>>)
    BY DEF IsText
  <2>4. Reach'
    BY <1>1, <1>2, <1>3, <2>2, <2>3, ParsingReach
  <2>5. IndexInv'
    BY <1>1, <1>5, <2>2 DEF IndexInv, IsText
  <2> QED BY <1>4, <2>1, <2>4, <2>5
<1>6. ASSUME NEW name \in {"identifier", "entry_process_data", "library", "handler"},
             pc \in OfEntry, pc' \in OfEntry, index' = index, Get({<<name, index>>}, {})
      PROVE  IInv'
  <2>1. PointersHeld' /\ OnlyTextsLeak'
    BY <1>1, <1>6, KeepsLeak
  <2>2. \A b \in ptr' : b \in ptr \/ b = <<name, index>>
    BY <1>6 DEF Get
  <2>3. <<name, index>> \in Items
    BY <1>6, FieldsAreItems
  <2>4. Reach'
    BY <1>1, <1>2, <1>3, <2>2, <2>3, ParsingReach
  <2>5. ~IsText(<<name, index>>)
    BY DEF IsText
  <2>6. IndexInv'
    BY <1>1, <1>6, <2>2, <2>5, KeepsIndex
  <2> QED BY <1>4, <2>1, <2>4, <2>6
<1>7. ASSUME Keep
      PROVE  PointersHeld' /\ OnlyTextsLeak' /\ Reach'
  BY <1>1, <1>2, <1>3, <1>7, KeepsLeak, ParsingReach DEF Keep
<1>8. CASE ParseEntry \/ OpenLibrary
  <2>1. index' = index /\ pc \in OfEntry /\ pc' \in OfEntry
    BY <1>8 DEF ParseEntry, OpenLibrary, Text, MakesField, Step, OfEntry
  <2>2. CASE Keep
    BY <1>1, <1>4, <1>7, <2>1, <2>2, KeepsIndex DEF Keep
  <2>3. \/ Keep
        \/ \E name \in {"hex", "strLibrary"} : Get({<<name, index>>}, Texts(name))
        \/ \E name \in {"identifier", "entry_process_data", "library", "handler"} :
             Get({<<name, index>>}, {})
    BY <1>8 DEF ParseEntry, OpenLibrary, Text, MakesField
  <2> QED BY <1>5, <1>6, <2>1, <2>2, <2>3
<1>9. CASE FindFunction
  <2>1. pc \in OfEntry /\ pc' = "entry" /\ index' = index + 1 /\ Keep
    BY <1>9 DEF FindFunction, Step, OfEntry
  <2>2. IndexInv'
    BY <1>1, <2>1 DEF IndexInv, IsText, Keep, OfEntry
  <2> QED BY <1>4, <1>7, <2>1, <2>2
<1>10. CASE NextEntry
  <2>1. index <= Len(entries) /\ index' = index /\ Keep
    BY <1>10 DEF NextEntry
  <2>2. index \in 1 .. Len(entries)
    BY <1>10, <2>1 DEF NextEntry, IndexInv
  <2>3. IndexInv'
    BY <1>1, <2>1, <2>2 DEF IndexInv, IsText, Keep
  <2> QED BY <1>4, <1>7, <2>1, <2>3
<1> QED BY <1>8, <1>9, <1>10

\* Around the entries: the table, the end of the list, and the ways it fails.
LEMMA TableStep ==
  ASSUME IInv, MakeTable \/ Parsed \/ ParseFails \/ Unload
  PROVE  IInv'
<1> USE DEF IInv
<1>1. entries' = entries /\ loading' = loading /\ loading = "plugins"
  BY DEF MakeTable, Parsed, ParseFails, Unload, Makes, Step, Phase, Parsing
<1>2. Items' = Items
  BY <1>1 DEF Items
<1>3. PointersHeld' /\ OnlyTextsLeak'
  <2>1. Keep \/ (\E blocks : Get(blocks, {})) \/ (\E blocks : Free(blocks))
    BY DEF MakeTable, Parsed, ParseFails, Unload, Makes
  <2> QED BY <1>1, <2>1, KeepsLeak
<1>4. CASE MakeTable
  <2>1. /\ pc \in {"plugins", "items"} /\ pc' \in {"items", "entry"}
        /\ \E name \in {"plugins", "items"} : Get(Var({name}), {})
    BY <1>4 DEF MakeTable, Makes, Step
  <2>2. ptr \subseteq Config \cup Stream \cup Table
    BY <2>1 DEF Reach
  <2>3. ptr' \subseteq Config \cup Stream \cup Table
    BY <2>1, <2>2, BlockOf DEF Get
  <2>4. Reach'
    BY <2>1, <2>3 DEF Reach, Before, Reading, Rooting, Parsing, OfEntry
  <2>5. Phase'
    BY <1>1, <2>1 DEF Phase, Before, Reading, Rooting, Parsing, OfEntry
  <2>6. \A b \in ptr' : ~IsText(b)
    BY <2>3, NoTexts
  <2>7. IndexInv'
    <3>1. index' = 1 \/ (index' = index /\ pc' = "items")
      BY <1>4 DEF MakeTable, Makes, Step
    <3>2. index' \in 0 .. Len(entries) + 1
      BY <3>1 DEF IndexInv
    <3> QED BY <1>1, <2>1, <2>6, <3>1, <3>2 DEF IndexInv, IsText, OfEntry
  <2> QED BY <1>3, <2>4, <2>5, <2>7
<1>5. CASE Parsed \/ ParseFails
  <2>1. /\ pc \in Parsing /\ pc' \in {"close", "unload"} /\ index' = index
        /\ \A b \in ptr' : b \in ptr /\ b \notin AllTexts
    BY <1>5 DEF Parsed, ParseFails, Free, Parsing, OfEntry
  <2>2. \A b \in ptr : IsText(b) \/ b \in Config \cup Stream \cup Table \cup Items
    BY <2>1 DEF Reach
  <2>3. \A b \in ptr' : b \in Config \cup Stream \cup Table \cup Items
    BY <2>1, <2>2 DEF AllTexts, Texts, IsText
  <2>4. Reach'
    BY <1>1, <1>2, <2>1, <2>3 DEF Reach, Before, Reading, Rooting, Parsing, OfEntry
  <2>5. Phase'
    BY <1>1, <2>1 DEF Phase, Before, Reading, Rooting, Parsing, OfEntry
  <2>6. IndexInv'
    BY <1>1, <2>1, KeepsIndex DEF OfEntry
  <2> QED BY <1>3, <2>4, <2>5, <2>6
<1>6. CASE Unload
  <2>1. /\ pc = "unload" /\ pc' = "readFails" /\ index' = index
        /\ ptr' = ptr \ (Table \cup Items)
    BY <1>6 DEF Unload, Free
  <2>2. Reach'
    BY <2>1 DEF Reach, Before, Reading, Rooting, Parsing, OfEntry
  <2>3. Phase'
    BY <1>1, <2>1 DEF Phase, Before, Reading, Rooting, Parsing, OfEntry
  <2>4. IndexInv'
    BY <1>1, <2>1, KeepsIndex DEF OfEntry
  <2> QED BY <1>3, <2>2, <2>3, <2>4
<1> QED BY <1>4, <1>5, <1>6

\* Wherever the program is, its pointers are these.
LEMMA Pointers ==
  ASSUME IInv, NEW b \in ptr
  PROVE  IsText(b) \/ b \in Config \cup Stream \cup Locals \cup Table \cup Items
BY DEF IInv, Phase, Reach, Before, Reading, Rooting, Parsing, OfEntry

\* A crash leaves all as it is.
LEMMA CrashStep ==
  ASSUME IInv, Crash
  PROVE  IInv'
<1>1. pc' = "crashed" /\ UNCHANGED <<loading, entries, index, heap, ptr>>
  BY DEF Crash, Keep
<1>2. PointersHeld' /\ OnlyTextsLeak'
  BY <1>1 DEF IInv, PointersHeld, OnlyTextsLeak, EarlierTexts
<1>3. Reach'
  BY <1>1, Pointers DEF Reach, Items, Before, Reading, Rooting, Parsing, OfEntry
<1>4. Phase'
  BY <1>1 DEF IInv, Phase, Before, Reading, Rooting, Parsing, OfEntry
<1>5. IndexInv'
  BY <1>1, KeepsIndex DEF IInv, OfEntry
<1> QED BY <1>2, <1>3, <1>4, <1>5 DEF IInv

\* Every step keeps the invariant.
LEMMA StepIInv == IInv /\ [Next]_vars => IInv'
<1> SUFFICES ASSUME IInv, [Next]_vars PROVE IInv'
  OBVIOUS
<1>1. CASE kcConfigCreate \/ Created \/ kcServerPluginsLoad \/ Stop \/ FreeConfig
  BY <1>1, OutsideStep
<1>2. CASE ReadFile
  BY <1>2, ReadFileStep
<1>3. CASE kcParseRoot
  BY <1>3, ParseRootStep
<1>4. CASE kcServerPluginsParse
  BY <1>4, EntryStep, TableStep DEF kcServerPluginsParse
<1>5. CASE UNCHANGED vars
  BY <1>5 DEF vars, IInv, PointersHeld, OnlyTextsLeak, EarlierTexts, Reach, Items,
    Phase, IndexInv
<1>6. CASE Crash
  BY <1>6, CrashStep
<1> QED BY <1>1, <1>2, <1>3, <1>4, <1>5, <1>6 DEF Next

\* The invariant holds throughout.
LEMMA SpecIInv == Spec => []IInv
  BY InitIInv, StepIInv, PTL DEF Spec

\* At no time, and on no path, has the program lost anything but texts of
\* entries with another one behind them.
THEOREM OnlyTextsAreLost == Spec => []OnlyTextsLeak
<1>1. IInv => OnlyTextsLeak
  BY DEF IInv
<1> QED BY <1>1, SpecIInv, PTL

\* Whichever step fails, the program ends with everything released but those
\* texts.
THEOREM AllIsReleased == Spec => []EndedReleased
<1>1. IInv => EndedReleased
  BY DEF IInv, Reach, OnlyTextsLeak, EndedReleased
<1> QED BY <1>1, SpecIInv, PTL

-----------------------------------------------------------------------------
(***************************************************************************)
(* What is handed on.                                                      *)
(***************************************************************************)
\* What each entry before the present one has, and the entry itself so far.
Named(names, j) == {<<name, j>> : name \in names}
Names == {"identifier", "entry_process_data", "library"}
Entry(j) == Named(Names, j) \subseteq ptr /\ (entries[j] = "inProgram" \/ <<"handler", j>> \in ptr)

\* The number is in the range of its type, at every place.
ConfType == conf \in [DOMAIN NoNumbers -> -Int32Half .. Int32Half - 1]

\* The numbers of the file are numbers, and have been converted once.
GivenInv ==
  /\ \A name \in DOMAIN NoNumbers : given[name] \in Int
  /\ pc \in {"strLogPath", "log_path", "ranges"}
       => conf = [name \in DOMAIN NoNumbers |-> Int32(given[name])]

ConfSound ==
  \A name \in DOMAIN NoNumbers :
    /\ \E number \in Allowed[name] : conf[name] = number * Unit(name)
    /\ name \notin Cut =>
         given[name] \in Allowed[name] /\ conf[name] = given[name] * Unit(name)

\* Pointers to texts are those of entries, and a library that is open is not
\* that of an entry without one.
TextsInv ==
  /\ \A b \in ptr : IsText(b) => \E j \in DOMAIN entries : b \in {<<"hex", j>>, <<"strLibrary", j>>}
  /\ \A j \in DOMAIN entries : <<"handler", j>> \in ptr => entries[j] # "inProgram"

\* The end of the file has been seen only after its last byte.
WholeInv == (pc = "read" /\ eof) \/ pc = "doc" => len = size

\* From the check of the ranges on, the numbers are sound.
ConfInv ==
  loading = "plugins" \/ pc \in {"close", "logAccess"} => ConfSound

\* The configuration, as far as it has been made.
ConfigInv ==
  /\ pc = "runing_path" => Var({"config"}) \subseteq ptr
  /\ pc \in {"open", "descriptors", "seek", "read", "doc"} \cup Rooting
       => Var({"config", "runing_path"}) \subseteq ptr
  /\ pc = "ranges" => Config \subseteq ptr
  /\ pc \in {"close", "logAccess"} => Config \subseteq ptr
  /\ loading = "plugins" => pc = "ended" \/ Config \subseteq ptr

\* The table of the plugins, as far as it has been made.
TableInv ==
  /\ pc = "items" => Var({"plugins"}) \subseteq ptr
  /\ pc \in {"entry"} \cup OfEntry =>
       Table \subseteq ptr /\ \A j \in 1 .. index - 1 : Entry(j)
  /\ pc \in {"strLibrary", "entry_process_data", "library", "handler", "dlsym"}
       => Named({"identifier"}, index) \subseteq ptr
  /\ pc \in {"library", "handler", "dlsym"} => Named({"entry_process_data"}, index) \subseteq ptr
  /\ pc \in {"handler", "dlsym"} => Named({"library"}, index) \subseteq ptr
  /\ pc = "running" \/ (pc = "close" /\ loading = "plugins")
       => Table \subseteq ptr /\ \A j \in DOMAIN entries : Entry(j)

\* What else the next step follows.
UsesInv ==
  /\ pc \in {"configAccess", "config", "runing_path", "open"} => ~stale
  /\ pc \in {"descriptors", "seek", "read"} => Var({"stream"}) \subseteq ptr
  /\ pc \in Rooting \cup Parsing => Var({"doc"}) \subseteq ptr
  /\ pc = "address" => Var({"strAddress"}) \subseteq ptr
  /\ pc = "log_path" => Var({"strLogPath"}) \subseteq ptr
  /\ pc = "identifier" => Named({"hex"}, index) \subseteq ptr
  /\ pc \in {"entry_process_data", "library"} => Named({"strLibrary"}, index) \subseteq ptr

SInv ==
  /\ ConfType /\ GivenInv /\ ConfInv
  /\ TextsInv /\ WholeInv /\ ConfigInv /\ TableInv /\ UsesInv

-----------------------------------------------------------------------------
\* What the code's numbers have in common with those of an instance.
LEMMA Constants ==
  /\ Int32Half \in Nat \ {0} /\ PortMod \in Nat \ {0} /\ PortMod <= Int32Half
  /\ MaxTimeout \in Nat /\ MinTimeout \in Int /\ Thousand \in Nat \ {0}
  /\ MaxQueue \in Nat /\ MaxPool \in Nat
BY LoadingAssumption

\* A conversion to int32_t gives an int32_t.
LEMMA Int32Type == \A v \in Int : Int32(v) \in -Int32Half .. Int32Half - 1
BY Constants DEF Int32

\* A number below the modulus is its own remainder.
LEMMA SmallRemainder == ASSUME NEW m \in Nat \ {0}, NEW v \in 0 .. m - 1 PROVE v % m = v
OBVIOUS

\* The conversion keeps an int32_t.
LEMMA Int32Same == \A v \in -Int32Half .. Int32Half - 1 : Int32(v) = v
<1> TAKE v \in -Int32Half .. Int32Half - 1
<1>1. v + Int32Half \in 0 .. (2 * Int32Half) - 1
  BY Constants
<1>2. (v + Int32Half) % (2 * Int32Half) = v + Int32Half
  <2>1. 2 * Int32Half \in Nat \ {0}
    BY Constants
  <2> QED BY <1>1, <2>1, SmallRemainder
<1> QED BY <1>2, Constants DEF Int32

\* A timeout in range is an int32_t in milliseconds too.
LEMMA Milliseconds ==
  ASSUME NEW v \in MinTimeout .. MaxTimeout
  PROVE  v * Thousand \in -Int32Half .. Int32Half - 1
<1>1. MinTimeout * Thousand <= v * Thousand /\ v * Thousand <= MaxTimeout * Thousand
  <2>1. (MaxTimeout - v) * Thousand \in Nat /\ (v - MinTimeout) * Thousand \in Nat
    BY Constants
  <2>2. /\ (MaxTimeout - v) * Thousand = (MaxTimeout * Thousand) - (v * Thousand)
        /\ (v - MinTimeout) * Thousand = (v * Thousand) - (MinTimeout * Thousand)
    BY Constants
  <2>3. v * Thousand \in Int /\ MaxTimeout * Thousand \in Int /\ MinTimeout * Thousand \in Int
    BY Constants
  <2> QED BY <2>1, <2>2, <2>3
<1>2. v * Thousand \in Int /\ MaxTimeout * Thousand \in Int /\ MinTimeout * Thousand \in Int
  BY Constants
<1>3. -Int32Half <= MinTimeout * Thousand /\ MaxTimeout * Thousand < Int32Half
  BY LoadingAssumption
<1> QED BY <1>1, <1>2, <1>3, Constants

\* The second invariant holds at first.
LEMMA InitSInv == Init => SInv
BY Constants DEF Init, SInv, ConfType, GivenInv, ConfInv, TextsInv, WholeInv, ConfigInv, TableInv, UsesInv,
  NoNumbers, Rooting, Parsing, OfEntry

\* An entry stays complete as long as nothing but texts is released.
LEMMA EntryKept ==
  ASSUME UNCHANGED <<entries, loading>>, \A b \in ptr : IsText(b) \/ b \in ptr', NEW j, Entry(j)
  PROVE  Entry(j)'
BY DEF Entry, Named, Names, IsText

\* A step that leaves the numbers alone keeps them sound.
LEMMA NumbersKept ==
  ASSUME SInv, UNCHANGED numbers,
         pc' \in {"close", "logAccess"} => pc \in {"close", "logAccess"} \/ loading = "plugins",
         loading' = loading \/ pc = "logAccess",
         pc' \in {"strLogPath", "log_path", "ranges"} => pc \in {"strLogPath", "log_path", "ranges"}
  PROVE  ConfType' /\ GivenInv' /\ ConfInv'
<1>1. given' = given /\ conf' = conf
  BY DEF numbers
<1>2. Cut' = Cut
  BY <1>1 DEF Cut
<1>3. ConfSound => ConfSound'
  BY <1>1, <1>2 DEF ConfSound
<1> QED BY <1>1, <1>3 DEF SInv, ConfType, GivenInv, ConfInv

\* kcConfigCreate, its end, kcServerPluginsLoad, Stop and FreeConfig.
LEMMA OutsideSound ==
  ASSUME IInv, SInv, kcConfigCreate \/ Created \/ kcServerPluginsLoad \/ Stop \/ FreeConfig
  PROVE  SInv'
<1> USE DEF kcConfigCreate, Created, kcServerPluginsLoad, Stop, FreeConfig, Makes, Fails, Step
<1>1. ConfType' /\ GivenInv' /\ ConfInv'
  BY NumbersKept DEF IInv, Phase
<1>2. TextsInv'
  BY DEF SInv, TextsInv, Keep, Get, Free, IsText, Var
<1>3. WholeInv'
  BY DEF SInv, WholeInv, buffer
<1>4. ConfigInv'
  BY DEF IInv, Phase, SInv, ConfigInv, Keep, Get, Free, Config, Table, Items, Field, Var, Rooting
<1>5. TableInv'
  BY DEF TableInv, OfEntry
<1>6. UsesInv'
  BY DEF SInv, UsesInv, buffer, Rooting, Parsing, OfEntry
<1> QED BY <1>1, <1>2, <1>3, <1>4, <1>5, <1>6 DEF SInv

\* Reading a file: it is parsed only after its last byte.
LEMMA ReadFileSound ==
  ASSUME IInv, SInv, ReadFile
  PROVE  SInv'
<1> USE DEF ReadFile, Open, Seek, Read, ReadFails, ReadError, ReadEnds, Load, Close, CloseFails, Makes, Fails, Step
<1>1. ConfType' /\ GivenInv' /\ ConfInv'
  BY NumbersKept
<1>2. TextsInv'
  <2>1. CASE Load
    BY <2>1 DEF IInv, Reach, Reading, TextsInv, Get, IsText, Config, Stream, Var
  <2>2. CASE entries' = entries
    BY <2>2 DEF SInv, TextsInv, Keep, Get, Free, IsText, Var
  <2> QED BY <2>1, <2>2
<1>3. WholeInv'
  BY DEF SInv, WholeInv, AtEnd, buffer
<1>4. ConfigInv'
  BY DEF IInv, Phase, SInv, ConfigInv, Keep, Get, Free, Config, Stream, Var, Rooting
<1>5. TableInv'
  <2>1. CASE pc = "close" /\ loading = "plugins"
    <3>1. entries' = entries /\ loading' = loading /\ pc' = "running" /\ ptr' = ptr \ Stream
      BY <2>1 DEF Free
    <3>2. Table \subseteq ptr /\ \A j \in DOMAIN entries : Entry(j)
      BY <2>1 DEF SInv, TableInv
    <3>3. Table \subseteq ptr'
      BY <3>1, <3>2 DEF Table, Stream, Var
    <3>4. ASSUME NEW j \in DOMAIN entries PROVE Entry(j)'
      BY <3>1, <3>2 DEF Entry, Named, Names, Stream, Var
    <3> QED BY <3>1, <3>3, <3>4 DEF TableInv, OfEntry
  <2>2. CASE ~(pc = "close" /\ loading = "plugins")
    BY <2>2 DEF IInv, Phase, TableInv, OfEntry
  <2> QED BY <2>1, <2>2
<1>6. UsesInv'
  BY DEF SInv, UsesInv, Keep, Get, Var, Rooting, Parsing, OfEntry
<1> QED BY <1>1, <1>2, <1>3, <1>4, <1>5, <1>6 DEF SInv

\* The numbers of config.json are read into int32_t.
LEMMA GetNumbersSound == ASSUME IInv, SInv, GetNumbers PROVE ConfType' /\ GivenInv' /\ ConfInv'
<1>1. given' \in Numbers /\ conf' = [name \in DOMAIN NoNumbers |-> Int32(given'[name])]
  BY DEF GetNumbers
<1>2. \A name \in DOMAIN NoNumbers : given'[name] \in Int
  BY <1>1, LoadingAssumption DEF NoNumbers
<1>3. ConfType' /\ GivenInv'
  BY <1>1, <1>2, Int32Type DEF ConfType, GivenInv
<1>4. loading' = "config" /\ pc' = "strLogPath"
  BY DEF GetNumbers, Step, IInv, Phase, Rooting
<1> QED BY <1>3, <1>4 DEF ConfInv

\* kcParseRoot lets sound numbers pass only.
LEMMA CheckRangesSound == ASSUME SInv, CheckRanges PROVE ConfType' /\ GivenInv' /\ ConfInv'
<1>1. \A name \in DOMAIN NoNumbers : conf[name] \in Int
  BY Constants DEF SInv, ConfType
<1>2. CASE InRange
  <2>1. /\ conf.sendTimeout \in MinTimeout .. MaxTimeout /\ conf.recvTimeout \in MinTimeout .. MaxTimeout
        /\ conf.queue_max \in 1 .. MaxQueue /\ conf.threadPoolSize \in 1 .. MaxPool
    BY <1>1, <1>2, Constants DEF InRange, NoNumbers
  <2>2. conf' = [conf EXCEPT !.port = @ % PortMod,
                             !.sendTimeout = conf.sendTimeout * Thousand,
                             !.recvTimeout = conf.recvTimeout * Thousand]
    BY <1>2, <2>1, Milliseconds, Int32Same DEF CheckRanges
  <2>3. conf.port % PortMod \in 0 .. PortMod - 1
    BY <1>1, Constants DEF NoNumbers
  <2>4. /\ conf'.port \in 0 .. PortMod - 1
        /\ conf'.sendTimeout = conf.sendTimeout * Thousand
        /\ conf'.recvTimeout = conf.recvTimeout * Thousand
        /\ conf'.queue_max = conf.queue_max /\ conf'.threadPoolSize = conf.threadPoolSize
    BY <2>2, <2>3 DEF SInv, ConfType, NoNumbers
  <2>5. ConfSound'
    <3>1. given' = given /\ Cut' = Cut
      BY DEF CheckRanges, Cut
    <3>2. \A name \in DOMAIN NoNumbers : given[name] \in Int /\ conf[name] = Int32(given[name])
      BY DEF CheckRanges, SInv, GivenInv
    <3>3. ASSUME NEW name \in {"sendTimeout", "recvTimeout", "queue_max", "threadPoolSize"}
          PROVE  /\ conf[name] \in Allowed[name] /\ conf'[name] = conf[name] * Unit(name)
                 /\ name \notin Cut => conf[name] = given[name]
      <4>1. conf[name] \in Allowed[name]
        <5>1. CASE name = "sendTimeout"
          BY <2>1, <5>1 DEF Allowed
        <5>2. CASE name = "recvTimeout"
          BY <2>1, <5>2 DEF Allowed
        <5>3. CASE name = "queue_max"
          BY <2>1, <5>3 DEF Allowed
        <5>4. CASE name = "threadPoolSize"
          BY <2>1, <5>4 DEF Allowed
        <5> QED BY <5>1, <5>2, <5>3, <5>4
      <4>2. conf'[name] = conf[name] * Unit(name)
        BY <2>1, <2>4, Constants DEF Unit
      <4>3. name \in DOMAIN NoNumbers /\ name # "port"
        BY DEF NoNumbers
      <4>4. name \notin Cut => conf[name] = given[name]
        BY <3>2, <4>3, Int32Same DEF Cut
      <4> QED BY <4>1, <4>2, <4>4
    <3>4. /\ conf'.port \in Allowed.port /\ conf'.port = conf'.port * Unit("port")
          /\ "port" \notin Cut => given.port \in Allowed.port /\ conf'.port = given.port
      <4>1. Unit("port") = 1 /\ Allowed.port = 0 .. PortMod - 1 /\ "port" \in DOMAIN NoNumbers
        BY DEF Unit, Allowed, NoNumbers
      <4>2. conf'.port = conf.port % PortMod
        BY <2>2 DEF SInv, ConfType, NoNumbers
      <4>3. "port" \notin Cut => given.port \in 0 .. PortMod - 1
        BY <4>1 DEF Cut
      <4>4. ASSUME given.port \in 0 .. PortMod - 1 PROVE conf'.port = given.port
        <5>1. conf.port = given.port
          <6>1. given.port \in -Int32Half .. Int32Half - 1
            BY <4>4, Constants
          <6> QED BY <3>2, <4>1, <6>1, Int32Same
        <5> QED BY <4>2, <4>4, <5>1, SmallRemainder, Constants
      <4>5. conf'.port = conf'.port * 1
        BY <2>4, Constants
      <4> QED BY <2>4, <4>1, <4>3, <4>4, <4>5
    <3>5. ASSUME NEW name \in DOMAIN NoNumbers
          PROVE  /\ \E number \in Allowed[name] : conf'[name] = number * Unit(name)
                 /\ name \notin Cut' =>
                      given'[name] \in Allowed[name] /\ conf'[name] = given'[name] * Unit(name)
      <4>1. name = "port" \/ name \in {"sendTimeout", "recvTimeout", "queue_max", "threadPoolSize"}
        BY DEF NoNumbers
      <4>2. CASE name = "port"
        BY <3>1, <3>4, <4>2
      <4>3. CASE name # "port"
        BY <3>1, <3>3, <4>1, <4>3
      <4> QED BY <4>2, <4>3
    <3> QED BY <3>5 DEF ConfSound
  <2>6. ConfType'
    <3>1. conf.port % PortMod \in -Int32Half .. Int32Half - 1
      BY <2>3, Constants
    <3>2. \A name \in {"sendTimeout", "recvTimeout"} :
            conf[name] * Thousand \in -Int32Half .. Int32Half - 1
      BY <2>1, Milliseconds
    <3> QED BY <2>2, <3>1, <3>2 DEF SInv, ConfType, NoNumbers
  <2>7. GivenInv'
    BY <1>2 DEF CheckRanges, SInv, GivenInv
  <2> QED BY <2>5, <2>6, <2>7 DEF ConfInv
<1>3. CASE ~InRange
  <2>1. pc = "ranges" /\ pc' = "readFails" /\ loading' = loading /\ UNCHANGED numbers
    BY <1>3 DEF CheckRanges, numbers
  <2> QED BY <2>1, NumbersKept
<1> QED BY <1>2, <1>3

\* Parsing config.json.
LEMMA ParseRootSound ==
  ASSUME IInv, SInv, kcParseRoot
  PROVE  SInv'
<1>1. pc \in Rooting /\ loading = "config" /\ loading' = loading /\ entries' = entries
  BY DEF kcParseRoot, GetNumbers, CheckRanges, ParseRootFails, Makes, Step, IInv, Phase, Rooting
<1>2. pc' \in Rooting \cup {"close", "readFails"}
  BY DEF kcParseRoot, GetNumbers, CheckRanges, ParseRootFails, Makes, Step, Rooting
<1>3. ConfType' /\ GivenInv' /\ ConfInv'
  <2>1. CASE GetNumbers
    BY <2>1, GetNumbersSound
  <2>2. CASE CheckRanges
    BY <2>2, CheckRangesSound
  <2>3. CASE UNCHANGED numbers /\ pc' # "close" /\ pc' # "strLogPath" /\ (pc' # "log_path" \/ pc = "strLogPath")
             /\ (pc' # "ranges" \/ pc = "log_path")
    BY <1>1, <1>2, <2>3, NumbersKept DEF Rooting
  <2> QED BY <2>1, <2>2, <2>3 DEF kcParseRoot, ParseRootFails, Makes, Step
<1>4. TextsInv'
  BY <1>1 DEF kcParseRoot, GetNumbers, CheckRanges, ParseRootFails, Makes, SInv, TextsInv, Keep, Get,
    Free, IsText, Var
<1>5. WholeInv'
  BY <1>2 DEF WholeInv, Rooting
<1>6. ConfigInv'
  BY <1>1, <1>2 DEF kcParseRoot, GetNumbers, CheckRanges, ParseRootFails, Makes, Step, SInv, ConfigInv,
    Keep, Get, Free, Config, Locals, Var, Rooting
<1>7. TableInv'
  BY <1>1, <1>2 DEF TableInv, Rooting, OfEntry
<1>8. UsesInv'
  BY <1>1, <1>2 DEF kcParseRoot, GetNumbers, CheckRanges, ParseRootFails, Makes, Step, SInv, UsesInv,
    Keep, Get, Var, Rooting, Parsing, OfEntry
<1> QED BY <1>3, <1>4, <1>5, <1>6, <1>7, <1>8 DEF SInv

\* Within an entry: it is complete when the next one begins.
LEMMA EntrySound ==
  ASSUME IInv, SInv, ParseEntry \/ OpenLibrary \/ FindFunction \/ NextEntry
  PROVE  SInv'
<1> USE DEF ParseEntry, OpenLibrary, FindFunction, NextEntry, Text, MakesField, Step
<1>1. /\ pc \in {"entry"} \cup OfEntry /\ pc' \in {"entry"} \cup OfEntry
      /\ UNCHANGED <<entries, loading, numbers>> /\ loading = "plugins"
  BY DEF IInv, Phase, Parsing, OfEntry
<1>2. ConfType' /\ GivenInv' /\ ConfInv'
  BY <1>1, NumbersKept DEF OfEntry
<1>3. TextsInv'
  BY <1>1 DEF IInv, IndexInv, SInv, TextsInv, Right, Keep, Get, Texts, IsText, OfEntry
<1>4. WholeInv'
  BY <1>1 DEF WholeInv, OfEntry
<1>5. ConfigInv'
  BY <1>1 DEF SInv, ConfigInv, Keep, Get, Texts, Config, Var, OfEntry, Rooting
<1>6. TableInv'
  <2>1. \A b \in ptr : IsText(b) \/ b \in ptr'
    BY DEF Keep, Get, Texts, IsText
  <2>2. Table \subseteq ptr /\ \A j \in 1 .. index - 1 : Entry(j)
    BY <1>1 DEF SInv, TableInv
  <2>3. Table \subseteq ptr'
    BY <2>1, <2>2 DEF Table, Var, IsText
  <2>4. ASSUME NEW j, Entry(j) PROVE Entry(j)'
    BY <1>1, <2>1, <2>4, EntryKept
  <2>5. CASE ~FindFunction
    <3>1. index' = index
      BY <2>5
    <3>2. \A j \in 1 .. index' - 1 : Entry(j)'
      BY <2>2, <2>4, <3>1
    <3>3. /\ pc' \in {"strLibrary", "entry_process_data", "library", "handler", "dlsym"}
               => Named({"identifier"}, index) \subseteq ptr'
          /\ pc' \in {"library", "handler", "dlsym"} => Named({"entry_process_data"}, index) \subseteq ptr'
          /\ pc' \in {"handler", "dlsym"} => Named({"library"}, index) \subseteq ptr'
      BY <2>5, <2>1 DEF SInv, TableInv, Named, Get, IsText
    <3> QED BY <1>1, <2>3, <3>1, <3>2, <3>3 DEF TableInv, OfEntry
  <2>6. CASE FindFunction
    <3>1. pc = "dlsym" /\ pc' = "entry" /\ index' = index + 1 /\ FindsFunction
      BY <2>6
    <3>2. index \in 1 .. Len(entries) /\ Len(entries) \in Nat
      BY <3>1 DEF IInv, IndexInv, OfEntry
    <3>3. Entry(index)
      BY <3>1 DEF SInv, TableInv, Entry, Named, Names, FindsFunction, Right
    <3>4. ASSUME NEW j \in 1 .. index' - 1 PROVE Entry(j)'
      BY <2>2, <2>4, <3>1, <3>2, <3>3
    <3> QED BY <2>3, <3>1, <3>4 DEF TableInv, OfEntry
  <2> QED BY <2>5, <2>6
<1>7. UsesInv'
  <2>1. Var({"doc"}) \subseteq ptr'
    BY <1>1 DEF SInv, UsesInv, Keep, Get, Texts, Var, Parsing, OfEntry
  <2>2. /\ pc' = "identifier" => Named({"hex"}, index') \subseteq ptr'
        /\ pc' \in {"entry_process_data", "library"} => Named({"strLibrary"}, index') \subseteq ptr'
    BY <1>1 DEF SInv, UsesInv, Keep, Get, Texts, Named, OfEntry
  <2> QED BY <1>1, <2>1, <2>2 DEF UsesInv, Rooting, Parsing, OfEntry
<1> QED BY <1>2, <1>3, <1>4, <1>5, <1>6, <1>7 DEF SInv

\* Around the entries of plugins.json.
LEMMA TableSound ==
  ASSUME IInv, SInv, MakeTable \/ Parsed \/ ParseFails \/ Unload
  PROVE  SInv'
<1> USE DEF MakeTable, Parsed, ParseFails, Unload, Makes, Step
<1>1. loading = "plugins" /\ UNCHANGED <<entries, loading, numbers>>
  BY DEF IInv, Phase, Parsing
<1>2. ConfType' /\ GivenInv' /\ ConfInv'
  BY <1>1, NumbersKept
<1>3. TextsInv'
  BY <1>1 DEF SInv, TextsInv, Keep, Get, Free, IsText, Var
<1>4. WholeInv'
  BY DEF WholeInv
<1>5. ConfigInv'
  BY <1>1 DEF SInv, ConfigInv, Keep, Get, Free, AllTexts, Texts, Config, Table, Items, Field, Var, Rooting
<1>6. TableInv'
  <2>1. CASE MakeTable
    BY <2>1 DEF SInv, TableInv, Get, Table, Var, OfEntry
  <2>2. CASE Parsed
    <3>1. pc = "entry" /\ pc' = "close" /\ index > Len(entries) /\ ptr' = ptr \ AllTexts
      BY <2>2 DEF Free
    <3>2. Table \subseteq ptr /\ \A j \in 1 .. index - 1 : Entry(j)
      BY <3>1 DEF SInv, TableInv
    <3>3. \A b \in ptr : IsText(b) \/ b \in ptr'
      BY <3>1 DEF AllTexts, Texts, IsText
    <3>4. DOMAIN entries \subseteq 1 .. index - 1
      BY <3>1 DEF IInv, IndexInv
    <3>5. ASSUME NEW j \in DOMAIN entries PROVE Entry(j)'
      BY <1>1, <3>2, <3>3, <3>4, EntryKept
    <3>6. Table \subseteq ptr'
      BY <3>2, <3>3 DEF Table, Var, IsText
    <3> QED BY <1>1, <3>1, <3>5, <3>6 DEF TableInv, OfEntry
  <2>3. CASE ParseFails \/ Unload
    BY <2>3 DEF TableInv, OfEntry
  <2> QED BY <2>1, <2>2, <2>3
<1>7. UsesInv'
  BY DEF SInv, UsesInv, Get, Var, Rooting, Parsing, OfEntry
<1> QED BY <1>2, <1>3, <1>4, <1>5, <1>6, <1>7 DEF SInv

\* A crash leaves all as it is.
LEMMA CrashSound ==
  ASSUME IInv, SInv, Crash
  PROVE  SInv'
<1>1. /\ pc' = "crashed" /\ UNCHANGED <<loading, entries, index, heap, ptr, numbers>>
  BY DEF Crash, Keep
<1>2. pc # "ended"
  BY DEF Crash, Followed, Uses, EntryUses
<1>3. ConfType' /\ GivenInv' /\ ConfInv'
  BY <1>1, NumbersKept
<1>4. TextsInv' /\ WholeInv' /\ TableInv' /\ UsesInv'
  BY <1>1 DEF SInv, TextsInv, WholeInv, TableInv, UsesInv, Rooting, Parsing, OfEntry
<1>5. ConfigInv'
  BY <1>1, <1>2 DEF SInv, ConfigInv, Rooting
<1> QED BY <1>3, <1>4, <1>5 DEF SInv

\* Every step keeps the second invariant.
LEMMA StepSInv == IInv /\ SInv /\ [Next]_vars => SInv'
<1> SUFFICES ASSUME IInv, SInv, [Next]_vars PROVE SInv'
  OBVIOUS
<1>1. CASE kcConfigCreate \/ Created \/ kcServerPluginsLoad \/ Stop \/ FreeConfig
  BY <1>1, OutsideSound
<1>2. CASE ReadFile
  BY <1>2, ReadFileSound
<1>3. CASE kcParseRoot
  BY <1>3, ParseRootSound, GetNumbersSound, CheckRangesSound
<1>4. CASE kcServerPluginsParse
  BY <1>4, EntrySound, TableSound DEF kcServerPluginsParse
<1>5. CASE UNCHANGED vars
  BY <1>5 DEF vars, buffer, numbers, SInv, ConfType, GivenInv, ConfInv, ConfSound, Cut, TextsInv, WholeInv,
    ConfigInv, TableInv, UsesInv, Entry
<1>6. CASE Crash
  BY <1>6, CrashSound
<1> QED BY <1>1, <1>2, <1>3, <1>4, <1>5, <1>6 DEF Next

\* Both invariants hold throughout.
LEMMA SpecSInv == Spec => [](IInv /\ SInv)
<1>1. Init => IInv /\ SInv
  BY InitIInv, InitSInv
<1>2. IInv /\ SInv /\ [Next]_vars => IInv' /\ SInv'
  BY StepIInv, StepSInv
<1> QED BY <1>1, <1>2, PTL DEF Spec

\* The invariants contain the types.
LEMMA SoundIsTyped == IInv /\ SInv => TypeOK
<1> SUFFICES ASSUME IInv, SInv PROVE TypeOK
  OBVIOUS
<1>1. pc \in Places /\ loading \in {"config", "plugins"}
  BY DEF IInv, Phase, Places, Before, Reading, Rooting, Parsing, OfEntry
<1>2. ASSUME NEW b \in ptr
      PROVE  IsText(b) \/ b \in Config \cup Stream \cup Locals \cup Table \cup Items
  BY Pointers
<1>3. ASSUME NEW b \in ptr, IsText(b)
      PROVE  b \in {<<name, i>> : name \in {"hex", "strLibrary"}, i \in DOMAIN entries}
  BY <1>3 DEF SInv, TextsInv
<1>4. index \in 0 .. Len(entries) + 1 /\ conf \in [DOMAIN NoNumbers -> -Int32Half .. Int32Half - 1]
  BY DEF IInv, IndexInv, SInv, ConfType
<1> QED BY <1>1, <1>2, <1>3, <1>4 DEF TypeOK

\* Loading and releasing keep every variable's type, whatever the files hold.
THEOREM LoadingTypeCorrect == Spec => []TypeOK
BY SpecSInv, SoundIsTyped, PTL

\* A table that is handed on is complete.
LEMMA SoundWhenRunning == IInv /\ SInv => RunningIsComplete
<1> SUFFICES ASSUME IInv, SInv, pc = "running"
             PROVE  ptr = Config \cup Table \cup (Items \ NotOpened)
  BY DEF RunningIsComplete
<1>1. ptr \subseteq Config \cup Table \cup Items /\ loading = "plugins"
  BY DEF IInv, Reach, Phase
<1>2. Config \cup Table \subseteq ptr
  BY <1>1 DEF SInv, ConfigInv, TableInv
<1>3. \A j \in DOMAIN entries : Entry(j)
  BY DEF SInv, TableInv
<1>4. ASSUME NEW j \in DOMAIN entries, NEW b \in Field(j), ~(b = <<"handler", j>> /\ entries[j] = "inProgram")
      PROVE  b \in ptr
  BY <1>3, <1>4 DEF Entry, Named, Names, Field
<1>5. ASSUME NEW j \in DOMAIN entries, <<"handler", j>> \in ptr
      PROVE  entries[j] # "inProgram"
  BY <1>5 DEF SInv, TextsInv
<1>6. ptr \cap NotOpened = {}
  BY <1>5 DEF NotOpened
<1>8. Items \ NotOpened \subseteq ptr
  BY <1>4 DEF Items, NotOpened
<1> QED BY <1>1, <1>2, <1>6, <1>8

\* The server runs only with a configuration whose numbers are those of
\* config.json and in the ranges the messages name, unless they have been cut to
\* the width of their type (Cut), and with a complete table but for libraries that
\* could not be opened and whose function the program exports (NotOpened); and a
\* file is parsed only when all of it has been read.
THEOREM LoadedIsAlwaysSound == Spec => []LoadedIsSound
<1>1. IInv /\ SInv => ConfAsGiven
  BY DEF SInv, ConfInv, ConfSound, ConfAsGiven
<1>2. IInv /\ SInv => WholeFile
  BY DEF SInv, WholeInv, WholeFile
<1>3. IInv /\ SInv => LoadedIsSound
  BY <1>1, <1>2, SoundWhenRunning DEF LoadedIsSound
<1> QED BY <1>3, SpecSInv, PTL

-----------------------------------------------------------------------------
(***************************************************************************)
(* What is followed.                                                       *)
(***************************************************************************)
\* The pointers of the program that the next step follows.
LEMMA UsesLive ==
  ASSUME IInv, SInv, NEW name \in DOMAIN Uses, pc \in Uses[name]
  PROVE  <<name, 0>> \in Live \cup NameGone
<1>1. ASSUME <<name, 0>> \in ptr PROVE <<name, 0>> \in Live
  BY <1>1 DEF IInv, PointersHeld, Live
<1>2. CASE name \in {"config", "runing_path", "log_path"}
  <2>1. <<name, 0>> \in ptr
    <3>1. CASE name = "config"
      <4>1. pc \in {"runing_path", "address", "numbers", "log_path", "ranges", "logAccess",
                    "pluginsAccess", "library"}
        BY <3>1 DEF Uses
      <4>2. pc \in {"pluginsAccess", "library"} => loading = "plugins"
        BY DEF IInv, Phase, Parsing, OfEntry
      <4> QED BY <3>1, <4>1, <4>2 DEF SInv, ConfigInv, Config, Var, Rooting
    <3>2. CASE name = "runing_path" \/ name = "log_path"
      <4>1. pc \in {"pluginsAccess", "library", "logAccess"}
        BY <3>2 DEF Uses
      <4>2. pc \in {"pluginsAccess", "library"} => loading = "plugins"
        BY DEF IInv, Phase, Parsing, OfEntry
      <4> QED BY <3>2, <4>1, <4>2 DEF SInv, ConfigInv, Config, Var
    <3> QED BY <1>2, <3>1, <3>2
  <2> QED BY <1>1, <2>1
<1>3. CASE name \in {"stream", "doc", "strAddress", "strLogPath"}
  <2>1. <<name, 0>> \in ptr
    BY <1>3 DEF Uses, SInv, UsesInv, Var, Rooting, Parsing, OfEntry
  <2> QED BY <1>1, <2>1
<1>4. CASE name \in {"plugins", "items"}
  <2>1. <<name, 0>> \in ptr
    BY <1>4 DEF Uses, SInv, TableInv, Table, Var, OfEntry
  <2> QED BY <1>1, <2>1
<1>5. CASE name = "fullfile"
  <2>1. pc = "open" \/ pc = "readError"
    BY <1>5 DEF Uses
  <2>2. pc = "open" => ~stale
    BY DEF SInv, UsesInv
  <2> QED BY <1>5, <2>1, <2>2 DEF Live, NameGone, Var
<1> QED BY <1>2, <1>3, <1>4, <1>5 DEF Uses

\* Those of the entry.
LEMMA EntryUsesLive ==
  ASSUME IInv, SInv, NEW name \in DOMAIN EntryUses, pc \in EntryUses[name]
  PROVE  <<name, index>> \in Live
<1>1. <<name, index>> \in ptr
  BY DEF EntryUses, SInv, UsesInv, TableInv, Named
<1> QED BY <1>1 DEF IInv, PointersHeld, Live

\* Whichever steps have failed and whatever the files hold, no step follows a
\* pointer that is NULL or whose block is gone, but for the name of a file that
\* cannot be read and for items there is no memory for.
THEOREM FollowedIsAlwaysLive == Spec => []FollowedIsLive
<1>1. IInv /\ SInv => FollowedIsLive
  <2> SUFFICES ASSUME IInv, SInv, NEW b \in Followed
               PROVE  b \in Live \cup NameGone \cup ItemsMissing
    BY DEF FollowedIsLive
  <2>1. CASE b \in {<<name, 0>> : name \in {n \in DOMAIN Uses : pc \in Uses[n]}}
    BY <2>1, UsesLive
  <2>2. CASE b \in {<<name, index>> : name \in {n \in DOMAIN EntryUses : pc \in EntryUses[n]}}
    BY <2>2, EntryUsesLive
  <2>3. CASE pc = "unload" /\ b \in Walked
    <3>1. b = <<"items", 0>>
      BY <2>3 DEF Walked, Var
    <3> QED BY <2>3, <3>1 DEF IInv, PointersHeld, Live, ItemsMissing, Var
  <2> QED BY <2>1, <2>2, <2>3 DEF Followed
<1> QED BY <1>1, SpecSInv, PTL
=============================================================================
