------------------------------- MODULE Loading -------------------------------
(***************************************************************************)
(* How the program loads its configuration and its plugins, and releases   *)
(* them (UdpServer/KcConfig.c, UdpServer/KcPlugins.c): every file, block   *)
(* of memory and library it acquires, whichever step fails.                *)
(*                                                                         *)
(* A block is <<variable, index of the entry>>: the one that malloc or     *)
(* another function has returned for this variable, for a table entry.     *)
(* The buffer error is the caller's: it takes the contents of the file and *)
(* messages, and fullfile points into it.                                  *)
(***************************************************************************)
EXTENDS Integers, Sequences

CONSTANTS
  Documents,   \* what plugins.json may hold: for each entry the step at which
               \* it turns out to be wrong, or "none"; "inProgram" has no
               \* library, but the program exports the function it names
  Numbers,     \* the numbers that config.json may hold
  Sizes,       \* lengths of the files
  Faults,      \* steps that may fail
  Int32Half,   \* 2^31
  PortMod,     \* 2^16
  MinTimeout, MaxTimeout, Thousand,   \* -999999, 120, 1000
  MaxQueue, MaxPool,                  \* 8192, 1024
  Chunk, MaxAllocSize, IntMax         \* 256, 2^30 - 1, 2^31 - 1

\* What the code's numbers have in common with those of an instance.
ASSUME LoadingAssumption ==
  /\ {Int32Half, PortMod, MaxTimeout, Thousand, MaxQueue, MaxPool,
      Chunk, MaxAllocSize, IntMax} \subseteq Nat \ {0}
  /\ MinTimeout \in Int /\ -Int32Half <= MinTimeout * Thousand
  /\ MaxTimeout * Thousand < Int32Half
  /\ PortMod <= Int32Half
  /\ Sizes \subseteq Nat
  /\ Documents \subseteq Seq(STRING)
  /\ \A n \in Numbers : \A name \in {"port", "sendTimeout", "recvTimeout",
                                     "queue_max", "threadPoolSize"} : n[name] \in Int

VARIABLES
  pc,        \* where the program is: the next acquisition or check
  loading,   \* "config" or "plugins": the file being loaded, or loaded last
  heap,      \* blocks, files and libraries that have been acquired
  ptr,       \* those that the variable of their name points to
  entries,   \* the content of plugins.json
  index,     \* the entry kcServerPluginsParse is at
  given,     \* the numbers of config.json
  conf,      \* the numbers of KC_CONFIG
  size,      \* length of the file being read
  len, maxlen, eof,  \* of the StringBuffer it is read to; feof(stream)
  stale      \* realloc has moved error->data from where fullfile points

buffer == <<size, len, maxlen, eof, stale>>
numbers == <<given, conf>>
vars == <<pc, loading, heap, ptr, entries, index, numbers, buffer>>

NoNumbers == [port |-> 0, sendTimeout |-> 0, recvTimeout |-> 0,
              queue_max |-> 0, threadPoolSize |-> 0]

Init ==
  /\ pc = "configAccess"
  /\ loading = "config"
  /\ heap = {} /\ ptr = {}
  /\ entries = <<>>
  /\ index = 0
  /\ given = NoNumbers /\ conf = NoNumbers
  /\ size = 0 /\ len = 0 /\ maxlen = Chunk /\ eof = FALSE /\ stale = FALSE

Var(names) == {<<name, 0>> : name \in names}
Config == Var({"config", "runing_path", "log_path"})
Stream == Var({"stream", "doc"})
Table  == Var({"plugins", "items"})
Field(i) == {<<name, i>> : name \in {"identifier", "entry_process_data", "library", "handler"}}

\* The local pointers of kcServerPluginsParse, wherever they point.
Texts(name) == {b \in ptr : b[1] = name}

Keep == UNCHANGED <<heap, ptr>>

\* New blocks, and what the variables pointed to before is forgotten.
Get(blocks, old) ==
  /\ heap' = heap \cup blocks
  /\ ptr'  = (ptr \ old) \cup blocks

\* The KC_SAFE_ macros: free what is not NULL and set it to NULL.
Free(blocks) ==
  /\ heap' = heap \ (ptr \cap blocks)
  /\ ptr'  = ptr \ blocks

Step(from, to) == pc = from /\ pc' = to

Makes(from, name, to) == Step(from, to) /\ Get(Var({name}), {})

Fails(steps, to) == pc \in steps \cap Faults /\ pc' = to /\ Keep

-----------------------------------------------------------------------------
(***************************************************************************)
(* kcLoadConfig and kcServerPluginsLoadRead read a file in the same way.   *)
(***************************************************************************)
\* The size enlargeStringBuffer doubles to, for the length it must hold.
Doubled(needed) ==
  LET sizes == {maxlen * 2 ^ k : k \in 0 .. needed}
      least == CHOOSE n \in sizes : n >= needed /\ \A m \in sizes : m >= needed => n <= m
  IN IF least > IntMax THEN IntMax ELSE least

\* The buffer cannot hold another chunk, or "the file is too large".  That a
\* file of exactly MaxAllocSize - 1 bytes leaves the loop is not modelled: full
\* buffers hold one less than a doubled Chunk, which is never that many.
Refused == (len = MaxAllocSize - 1 /\ size > len) \/ Chunk >= IntMax - len

Open ==
  /\ Makes("open", "stream", "descriptors")
  /\ size' \in Sizes
  /\ UNCHANGED <<loading, entries, index, numbers, len, maxlen, eof, stale>>

Seek ==
  /\ Step("seek", "read")
  /\ len' = 0
  /\ eof' = FALSE
  /\ Keep /\ UNCHANGED <<loading, entries, index, numbers, size, maxlen, stale>>

\* Mutant: fread is called once.
AtEnd_Once(want) == TRUE

\* Mutant: the loop asks for errors only.
AtEnd_Never(want) == FALSE

\* feof: fread has got less than it wanted.
AtEnd(want) == size - len < want

\* realloc may move what it enlarges.
Enlarge(room) ==
  /\ maxlen' = room
  /\ stale' \in IF room > maxlen THEN {stale, TRUE} ELSE {stale}

\* One turn of the loop.
Read ==
  LET room == Doubled(len + Chunk + 1)
      want == room - len - 1
  IN /\ pc = "read" /\ ~eof /\ ~Refused
     /\ Enlarge(room)
     /\ len' = IF size - len < want THEN size ELSE len + want
     /\ eof' = AtEnd(want)
     /\ Keep /\ UNCHANGED <<pc, loading, entries, index, numbers, size>>

\* The file is too large, or the buffer cannot be enlarged.
ReadFails ==
  /\ pc = "read" /\ ~eof
  /\ ~Refused => "enlarge" \in Faults /\ Doubled(len + Chunk + 1) > maxlen
  /\ pc' = "readFails"
  /\ Keep /\ UNCHANGED <<loading, entries, index, numbers, buffer>>

\* The same turn with an error of fread; what is in the buffer is not used.
ReadError ==
  /\ pc = "read" /\ ~eof /\ ~Refused
  /\ "read" \in Faults
  /\ Enlarge(Doubled(len + Chunk + 1))
  /\ pc' = "readError"
  /\ Keep /\ UNCHANGED <<loading, entries, index, numbers, size, len, eof>>

ReadEnds ==
  /\ pc = "read" /\ eof
  /\ pc' = "doc"
  /\ Keep /\ UNCHANGED <<loading, entries, index, numbers, buffer>>

\* json_loadb
Load ==
  /\ pc = "doc"
  /\ Get(Var({"doc"}), {})
  /\ \/ loading = "config" /\ pc' = "nodes" /\ UNCHANGED entries
     \/ loading = "plugins" /\ pc' = "plugins" /\ entries' \in Documents
  /\ UNCHANGED <<loading, index, numbers, buffer>>

Close ==
  /\ pc = "close"
  /\ Free(Stream)
  /\ pc' = IF loading = "config" THEN "logAccess" ELSE "running"
  /\ UNCHANGED <<loading, entries, index, numbers, buffer>>

\* KC_ERROR_CLEAR of both functions.
CloseFails ==
  /\ pc = "readFails"
  /\ Free(Stream)
  /\ pc' = IF loading = "config" THEN "createFails" ELSE "startFails"
  /\ UNCHANGED <<loading, entries, index, numbers, buffer>>

ReadFile ==
  \/ Open \/ Seek \/ Read \/ ReadFails \/ ReadError \/ ReadEnds \/ Load \/ Close \/ CloseFails
  \/ /\ \/ Step("descriptors", "seek") /\ Keep
        \/ Step("readError", "readFails") /\ Keep
        \/ Fails({"open", "descriptors", "seek", "doc"}, "readFails")
     /\ UNCHANGED <<loading, entries, index, numbers, buffer>>

-----------------------------------------------------------------------------
(***************************************************************************)
(* kcConfigCreate.                                                         *)
(***************************************************************************)
\* Mutant: it is not asked whether there was memory for the path.
kcConfigCreate_NotChecked ==
  /\ \/ Step("configAccess", "config") /\ Keep
     \/ Makes("config", "config", "runing_path")
     \/ Makes("runing_path", "runing_path", "open")
     \/ Fails({"configAccess", "config", "logAccess"}, "createFails")
     \/ Fails({"runing_path"}, "open")
  /\ UNCHANGED <<loading, entries, index, numbers, buffer>>

kcConfigCreate ==
  /\ \/ Step("configAccess", "config") /\ Keep
     \/ Makes("config", "config", "runing_path")
     \/ Makes("runing_path", "runing_path", "open")
     \/ Fails({"configAccess", "config", "runing_path", "logAccess"}, "createFails")
  /\ UNCHANGED <<loading, entries, index, numbers, buffer>>

\* The configuration is complete, and Start loads the plugins.
Created ==
  /\ Step("logAccess", "pluginsAccess")
  /\ loading' = "plugins"
  /\ Keep /\ UNCHANGED <<entries, index, numbers, buffer>>

\* Mutant: the number is kept in a wider type.
Int32_Wide(v) == v

\* (int32_t)json_integer_value(value)
Int32(v) == ((v + Int32Half) % (2 * Int32Half)) - Int32Half

GetNumbers ==
  /\ Step("numbers", "strLogPath")
  /\ given' \in Numbers
  /\ conf' = [name \in DOMAIN NoNumbers |-> Int32(given'[name])]
  /\ Keep /\ UNCHANGED <<loading, entries, index, buffer>>

\* Mutant: one timeout is checked twice, the other never.
InRange_OneTimeout ==
  /\ conf.sendTimeout >= MinTimeout /\ conf.sendTimeout <= MaxTimeout
  /\ conf.queue_max >= 1 /\ conf.queue_max <= MaxQueue
  /\ conf.threadPoolSize >= 1 /\ conf.threadPoolSize <= MaxPool

InRange ==
  /\ conf.sendTimeout >= MinTimeout /\ conf.sendTimeout <= MaxTimeout
  /\ conf.recvTimeout >= MinTimeout /\ conf.recvTimeout <= MaxTimeout
  /\ conf.queue_max >= 1 /\ conf.queue_max <= MaxQueue
  /\ conf.threadPoolSize >= 1 /\ conf.threadPoolSize <= MaxPool

Locals == Var({"strAddress", "strLogPath"})

CheckRanges ==
  /\ pc = "ranges"
  /\ IF InRange
     THEN /\ pc' = "close"
          /\ conf' = [conf EXCEPT !.port = @ % PortMod,
                                  !.sendTimeout = Int32(@ * Thousand),
                                  !.recvTimeout = Int32(@ * Thousand)]
     ELSE pc' = "readFails" /\ UNCHANGED conf
  /\ Free(Locals)
  /\ UNCHANGED <<loading, entries, index, given, buffer>>

\* KC_ERROR_CLEAR; loading is still "config".
ParseRootFails ==
  /\ loading = "config"
  /\ pc \in Faults \cap {"nodes", "strAddress", "address", "numbers", "strLogPath", "log_path"}
  /\ pc' = "readFails"
  /\ Free(Locals)
  /\ UNCHANGED <<loading, entries, index, numbers, buffer>>

kcParseRoot ==
  \/ GetNumbers \/ CheckRanges \/ ParseRootFails
  \/ /\ \/ loading = "config" /\ Step("nodes", "strAddress") /\ Keep
        \/ loading = "config" /\ Makes("strAddress", "strAddress", "address")
        \/ Step("address", "numbers") /\ Keep
        \/ Makes("strLogPath", "strLogPath", "log_path")
        \/ Makes("log_path", "log_path", "ranges")
     /\ UNCHANGED <<loading, entries, index, numbers, buffer>>

-----------------------------------------------------------------------------
(***************************************************************************)
(* kcServerPluginsParse and kcServerPluginsLoadLibrary.                    *)
(***************************************************************************)
MakeTable ==
  /\ \/ Makes("plugins", "plugins", "items") /\ UNCHANGED index
     \/ Makes("items", "items", "entry") /\ index' = 1
  /\ UNCHANGED <<loading, entries, numbers, buffer>>

NextEntry ==
  /\ pc = "entry" /\ index <= Len(entries)
  /\ pc' = "entryNodes"
  /\ Keep /\ UNCHANGED <<loading, entries, index, numbers, buffer>>

Right(step) == entries[index] # step

\* hex and strLibrary point to the text of the last entry only.
Text(from, name, to) ==
  Step(from, to) /\ Right(from) /\ Get({<<name, index>>}, Texts(name))

MakesField(name, to) ==
  Step(name, to) /\ Right(name) /\ Get({<<name, index>>}, {})

ParseEntry ==
  /\ \/ Step("entryNodes", "hex") /\ Right("entryNodes") /\ Keep
     \/ Text("hex", "hex", "identifier")
     \/ MakesField("identifier", "strLibrary")
     \/ Text("strLibrary", "strLibrary", "entry_process_data")
     \/ MakesField("entry_process_data", "library")
     \/ MakesField("library", "handler")
  /\ UNCHANGED <<loading, entries, index, numbers, buffer>>

\* dlopen; when it fails the message is written and the code goes on.
OpenLibrary ==
  /\ \/ MakesField("handler", "dlsym") /\ Right("inProgram")
     \/ Step("handler", "dlsym") /\ (~Right("handler") \/ ~Right("inProgram")) /\ Keep
  /\ UNCHANGED <<loading, entries, index, numbers, buffer>>

\* Mutant: the result of dlsym is not looked at.
FindsFunction_NotChecked == TRUE

\* dlsym of a library, or with no library of the whole program.
FindsFunction ==
  IF <<"handler", index>> \in ptr THEN Right("dlsym") ELSE ~Right("inProgram")

FindFunction ==
  /\ Step("dlsym", "entry") /\ FindsFunction
  /\ index' = index + 1
  /\ Keep /\ UNCHANGED <<loading, entries, numbers, buffer>>

AllTexts == Texts("hex") \cup Texts("strLibrary")

Parsed ==
  /\ pc = "entry" /\ index > Len(entries)
  /\ pc' = "close"
  /\ Free(AllTexts)
  /\ UNCHANGED <<loading, entries, index, numbers, buffer>>

\* Mutant: the loop of kcServerPluginsUnload ends one item too early.
Items_AllButLast == UNION {Field(i) : i \in 1 .. Len(entries) - 1}

\* What kcServerPluginsUnload walks through.
Items == UNION {Field(i) : i \in DOMAIN entries}

\* The items that kcServerPluginsUnload walks through; plugins->count is set
\* before there is memory for them.
Walked == IF <<"plugins", 0>> \in ptr /\ entries # <<>> THEN Var({"items"}) ELSE {}

\* KC_ERROR_CLEAR, from wherever memory or the entry is missing.
ParseFails ==
  /\ loading = "plugins"
  /\ \/ pc \in Faults \cap {"plugins", "items"}
     \/ /\ pc \in {"entryNodes", "hex", "identifier", "strLibrary", "entry_process_data", "library"}
        /\ pc \in Faults \/ ~Right(pc)
     \/ pc = "dlsym" /\ ~FindsFunction
  /\ pc' = "unload"
  /\ Free(AllTexts)
  /\ UNCHANGED <<loading, entries, index, numbers, buffer>>

\* KC_SAFE_UNLOAD_SERVER_PLUGINS
Unload ==
  /\ pc = "unload" /\ Walked \subseteq ptr
  /\ pc' = "readFails"
  /\ Free(Table \cup Items)
  /\ UNCHANGED <<loading, entries, index, numbers, buffer>>

kcServerPluginsParse ==
  \/ MakeTable \/ NextEntry \/ ParseEntry \/ OpenLibrary \/ FindFunction
  \/ Parsed \/ ParseFails \/ Unload

-----------------------------------------------------------------------------
(***************************************************************************)
(* kcServerPluginsLoad, and the end of the program.                        *)
(***************************************************************************)
\* The name of the file is written to error, and fullfile points to it.
kcServerPluginsLoad ==
  /\ \/ Step("pluginsAccess", "open") /\ Keep
     \/ Fails({"pluginsAccess"}, "startFails")
  /\ stale' = FALSE
  /\ UNCHANGED <<loading, entries, index, numbers, size, len, maxlen, eof>>

\* Stop, called by consoleRuning; shared->plugins is set when the table is
\* complete.
Stop ==
  /\ \/ pc = "running" /\ Free(Table \cup Items)
     \/ pc = "startFails" /\ Keep
  /\ pc' = "createFails"
  /\ UNCHANGED <<loading, entries, index, numbers, buffer>>

\* kcConfigFree
FreeConfig ==
  /\ pc = "createFails"
  /\ pc' = "ended"
  /\ Free(Config)
  /\ UNCHANGED <<loading, entries, index, numbers, buffer>>

-----------------------------------------------------------------------------
(***************************************************************************)
(* Which pointers the code follows without looking whether they are NULL,  *)
(* at the places where it does.                                            *)
(***************************************************************************)
Uses ==
  [config      |-> {"runing_path", "address", "numbers", "log_path", "ranges", "logAccess",
                    "pluginsAccess", "library"},
   runing_path |-> {"pluginsAccess", "library"},
   log_path    |-> {"logAccess"},
   fullfile    |-> {"open", "readError"},
   stream      |-> {"seek", "read"},
   doc         |-> {"nodes", "strAddress", "numbers", "strLogPath", "items", "entry",
                    "entryNodes", "hex", "strLibrary", "entry_process_data"},
   strAddress  |-> {"address"},
   strLogPath  |-> {"log_path"},
   plugins     |-> {"items", "running"},
   items       |-> {"identifier", "entry_process_data", "library", "handler", "dlsym", "running"}]

EntryUses ==
  [hex |-> {"identifier"}, strLibrary |-> {"library"}, library |-> {"handler"},
   entry_process_data |-> {"dlsym"}]

Followed ==
  {<<name, 0>> : name \in {n \in DOMAIN Uses : pc \in Uses[n]}}
    \cup {<<name, index>> : name \in {n \in DOMAIN EntryUses : pc \in EntryUses[n]}}
    \cup (IF pc = "unload" THEN Walked ELSE {})

\* What there is to be followed.
Live == (ptr \cap heap) \cup (IF stale THEN {} ELSE Var({"fullfile"}))

\* To follow NULL, or what has been given back to the system, ends the program.
\* An old buffer that malloc has kept can still be read.
Crash ==
  /\ ~(Followed \subseteq Live)
  /\ pc' = "crashed"
  /\ Keep /\ UNCHANGED <<loading, entries, index, numbers, buffer>>

Next ==
  \/ kcConfigCreate \/ Created \/ ReadFile \/ kcParseRoot
  \/ kcServerPluginsLoad \/ kcServerPluginsParse
  \/ Stop \/ FreeConfig \/ Crash

Spec == Init /\ [][Next]_vars

\* The program is scheduled; no read need fail.
FairSpec ==
  /\ Spec
  /\ WF_vars(pc # "read" /\ Next)
  /\ WF_vars(Read \/ ReadEnds \/ (Refused /\ ReadFails))

-----------------------------------------------------------------------------
Places ==
  {"configAccess", "config", "runing_path", "open", "descriptors", "seek", "read",
   "doc", "nodes", "strAddress", "address", "numbers", "strLogPath", "log_path",
   "ranges", "close", "logAccess", "pluginsAccess", "plugins", "items", "entry",
   "entryNodes", "hex", "identifier", "strLibrary", "entry_process_data", "library",
   "handler", "dlsym", "running", "readError", "unload", "readFails", "createFails", "startFails", "ended", "crashed"}

\* Every variable keeps its type.
TypeOK ==
  /\ pc \in Places
  /\ loading \in {"config", "plugins"}
  /\ ptr \subseteq Config \cup Stream \cup Locals \cup Table \cup Items
       \cup {<<name, i>> : name \in {"hex", "strLibrary"}, i \in DOMAIN entries}
  /\ index \in 0 .. Len(entries) + 1
  /\ conf \in [DOMAIN NoNumbers -> -Int32Half .. Int32Half - 1]

\* Gap: the message of a read error names the file, and the name has gone with
\* the buffer that the contents were read to.
NameGone == IF pc = "readError" /\ stale THEN Var({"fullfile"}) ELSE {}

\* Gap: there was no memory for the items that are counted already.
ItemsMissing == IF pc = "unload" /\ Var({"items"}) \cap ptr = {} THEN Var({"items"}) ELSE {}

\* Whichever step has failed before, the code follows no pointer that is NULL or
\* whose block is gone, but for these two.
FollowedIsLive == Followed \subseteq Live \cup NameGone \cup ItemsMissing

\* The texts kcServerPluginsParse reads for an entry with another one behind it.
EarlierTexts ==
  {<<name, i>> : name \in {"hex", "strLibrary"}, i \in 1 .. Len(entries) - 1}

\* When the program ends it has released every file, document, library and
\* table, whichever step failed; it has lost nothing but texts of earlier
\* entries.
EndedReleased == pc = "ended" => ptr = {} /\ heap \subseteq EarlierTexts

\* Gap: that a library cannot be opened is an error (its message is written),
\* but when the program itself exports the function the table counts as right.
NotOpened == {<<"handler", i>> : i \in {j \in DOMAIN entries : entries[j] = "inProgram"}}

\* The server runs only with a complete configuration and a table in which each
\* entry has its identifier, names and, but for NotOpened, library; and nothing
\* else is held.
RunningIsComplete ==
  pc = "running" => ptr = Config \cup Table \cup (Items \ NotOpened)

\* The ranges that the messages of kcParseRoot name, and that of a port.
Allowed ==
  [port |-> 0 .. PortMod - 1, sendTimeout |-> MinTimeout .. MaxTimeout,
   recvTimeout |-> MinTimeout .. MaxTimeout, queue_max |-> 1 .. MaxQueue,
   threadPoolSize |-> 1 .. MaxPool]

\* Gap: a number of more than 32 bits is cut before its range is checked; a port
\* is not checked, and cut to 16 bits.
Cut ==
  {name \in DOMAIN NoNumbers :
     given[name] \notin IF name = "port" THEN Allowed.port ELSE -Int32Half .. Int32Half - 1}

Unit(name) == IF name \in {"sendTimeout", "recvTimeout"} THEN Thousand ELSE 1

\* What the rest of the program is given are the numbers of config.json, which
\* are in range, with timeouts in milliseconds: but for Cut.  The numbers that
\* have been cut are others, which are in range, too.
ConfAsGiven ==
  loading = "plugins" =>
    \A name \in DOMAIN NoNumbers :
      /\ \E number \in Allowed[name] : conf[name] = number * Unit(name)
      /\ name \notin Cut =>
           given[name] \in Allowed[name] /\ conf[name] = given[name] * Unit(name)

\* A document is parsed only when the whole file is in the buffer.
WholeFile == pc = "doc" => len = size

\* What kcConfigCreate and kcServerPluginsLoad hand on is what the files say,
\* whole and in range, but for the gaps NotOpened and Cut.
LoadedIsSound == RunningIsComplete /\ ConfAsGiven /\ WholeFile

\* Loading comes to an end, whatever the size of a file.
LoadEnds == pc = "configAccess" ~> pc \in {"running", "ended", "crashed"}
=============================================================================
