# A verification project for udpserver

`udpserver` is a UDP server in C with a series of sample programs ("part01"
to "part12") that lead up to it.  This directory holds TLA+ modules that model
the server's core, configurations that model-check them with TLC, and proofs
checked by TLAPS.  Paths and line numbers below are those of the repository.

## 1. The system

### Inventory

| Component | State | Operations | Correct when |
|---|---|---|---|
| **Backend threads** (`UdpServer/KcUdpBackedThreads.c`) | an array of `queue_max` slots (`KC_BACKEND_ITEM`: flag, receive buffer, sender, raw socket), `isRuning`, one mutex, condition variables `cond` and `condStart` | receiver: open and bind a socket; claim a free slot, `recvfrom`, mark it received. Worker: claim a received slot, find a plugin, call it, free the slot | a slot has one owner; no datagram lost or processed twice; no sleeper that should run; threads end when told to |
| **Start and stop** (`UdpServer/KcUdpBackedThreadsHead.c`, `main.c`) | `global_shared`, which resources exist (`shared->flag` and pointers), `threadRunCount`, thread handles | `kcUdpBackedThreadStart`, `kcThreadWorksCreate`, `kcQueueCreate`, `kcUdpBackedThreadStop`, `kcSharedFree` | start and stop end; what was acquired is released once, what was not is not touched; nothing is freed under a running thread |
| **Plugin table** (`UdpServer/KcPlugins.c`) | array of plugins (handle, function, identifier) | load and parse `plugins.json`, `dlopen`/`dlsym`, find by identifier, unload | a datagram reaches the plugin whose identifier it carries |
| **Configuration** (`UdpServer/KcConfig.c`) | `KC_CONFIG` | parse `config.json`, check ranges, convert | what is accepted fits the types it is stored in and the code that uses it |
| **FiveFifty plugin** (`FiveFifty/KcProcessData.c`) | none; PostgreSQL in disabled code, simulated by a delay | check CRC, parse, save, reply through the raw socket | every accepted record is answered and saved once |
| **LargeFile plugin** (`LargeFile/KcProcessData.c`) | SQLite database, the shared `rwlock`, transaction flags | check CRC, parse user data; validation against the database and replies, which nothing calls yet | lock and transaction are released on every path; identifiers are unique; the client can tell outcomes apart |
| **String buffer** (`kmblack/stringbuffer.c`) | `data`, `len`, `maxlen` | create, append, enlarge, reset, free | `len < maxlen`, zero-terminated, or marked broken |
| **Command line** (`UdpServer/argparse.c`, `main.c`; copies of `argparse.c` in part09 and part12) | `struct argparse`: what is left of `argv`, `optvalue`, the values of the options | parse, then one of the options in `main`'s order, or the usage | the server is started as the command line says; a wrong command line ends it |
| **Log** (`kmblack/KcLog.c`) | a file | `kcSaveLog` writes a message piece by piece | an entry is the message |
| **Checksums** (`KcCrc.c`, `KcUdp.c`) | none | CRC of 16, 32 and 64 bits, the UDP checksum | are the remainders they are named for |
| **Text conversions** (`KcString.c`, `base64.c`, `KcRandomString.c`, `KcDateTime.c`, `KcIpV4.c`) | none | hexadecimal, base64, replacement, random texts, elapsed times | give back what was converted; fit the room told |
| **Time arithmetic** (`instr_time.h`, macros of `KcUtility.h`) | none | sum, difference, deadline of a wait | stay normalised; are inverse |
| **JSON and SQLite helpers** (`KcJson.c`, `KcSqlite3.h`) | none | get a member of a document; open, prepare, step, release | part of the components that use them |
| **Thread samples** (`part05`, `part10`, `ddostools`) | `isRuning`, mutex, condition variables, handles, flag of what is initialised | start threads one by one, stop and join them, release | success is reported truly; no thread is left, none loses what it uses |
| **Database samples** (`part11`, `part12`) | `D:/data.db` through SQLite | create missing tables; insert a batch | the file takes a whole work or nothing; nothing is kept |
| **Other samples** (`stack_dynamic_string_array`, part01-04, ...) | none | an array of texts as bytes in a string buffer | is read back as it was written, as far as it fits the buffer |

The remaining samples demonstrate language and library features; part09 is an
earlier copy of the server's configuration and plugin code.

### How the parts interact

`main.c` reads the configuration and calls `kcUdpBackedThreadStart`, which
makes the synchronisation objects, loads the plugins, makes the slots and
starts the workers, one by one, and then the receiver, waiting on `condStart`
for each.  From then on receiver and workers communicate through the slots'
flags, under one mutex, and wake each other through `cond`.  A worker calls
the plugin without the mutex; plugins share the `rwlock` and the database.
When the operator presses ESC, `kcUdpBackedThreadStop` sets `isRuning` to 0,
broadcasts both condition variables, sends one byte to the server's own port
to end a `recvfrom`, joins all threads and frees everything.

`ddostools` is the device: its threads send readings to the server and wait for
the answer.  `part11`, `part12` and the unused part of LargeFile work on one
database file, so they meet in SQLite's locks; the threads of the server that
would use LargeFile meet in the server's `rwlock` as well.

### What is hard here

- Critical sections of several threads that form a protocol only through the
  flags; `isRuning` tested in some places and not in others; some tests outside
  the mutex.
- Condition variables used without a predicate (`condStart`) or shared by
  threads with different predicates (`cond`), woken by single signals.
- Stop racing with threads that are about to wait; the stop datagram, which can
  be lost; a start that fails half-way.
- Scans that always begin at the first slot.
- One buffer per slot that keeps what longer datagrams left behind shorter ones;
  byte orders and checksums that differ between request, reply and headers;
  datagrams and answers lost, repeated, late.
- Counters narrower than the configuration they are compared with.
- Start-up code with fourteen acquisitions, loading with two dozen, and one
  error path for all of them; the samples' error paths differ from each other.
- Transactions of several programs on one file, with a commit that can fail
  because of another's lock, and a program that is killed half-way.
- Tables of constants of which one wrong entry shows for few inputs only.

PROJECT.json lists the hazards one by one, each at its line and with the
properties that cover it.

## 2. The modules

| Module | What it is |
|---|---|
| `BackendThreads` | receiver and workers: state and one action per critical section or blocking call |
| `UdpServer` | composes `BackendThreads` with the main thread and the network; specification, fairness, properties, refinement mapping |
| `DatagramPool` | abstract specification of the backend: a bounded pool that hands each datagram to one worker |
| `MCUdpServer` | `UdpServer` with symmetry for TLC |
| `UdpServerProofs` | inductive invariant and safety theorems of `UdpServer`, its refinement of `DatagramPool`, and that no wakeup is lost with at most as many workers as slots |
| `ServerLifecycle` | every acquisition of Start, its failure, and what Stop and the error paths release |
| `ServerLifecycleProofs` | its inductive invariant and safety theorems |
| `StringBuffer` | the growing buffer: its doubling loop, its refusals, its retries of `vsnprintf` |
| `TextBuffer` | abstract specification of `StringBuffer`: a text that grows at once, or breaks |
| `StringBufferProofs` | inductive invariant, safety theorems and refinement of `StringBuffer` |
| `Datagrams` | what a worker does with a datagram: search of the plugin, FiveFifty, LargeFile; devices and network |
| `Division` | exclusive or, and the division of polynomials that defines a CRC of any width |
| `Crc16`, `WideCrcs` | `kcCrc16`; `kcCrc32`, `kcCrc64` and `kcStr2int` of part11; with the polynomials they are checked against |
| `Checksums` | `kcCheckUdpSum` on its pseudo header |
| `Packets` | the replies of both plugins byte by byte, and the IP stack that receives them |
| `DatagramsProofs` | FiveFifty's test of a datagram; inductive invariant and safety theorems of `Datagrams` |
| `MCDatagrams` | two devices, their readings and other datagrams, for TLC |
| `Loading` | reading `config.json` and `plugins.json`: every file, block and library, and its release on every path |
| `MCLoading` | documents, numbers and sizes for TLC |
| `LoadingProofs` | inductive invariant and theorems of `Loading` |
| `FunctionsProofs` | theorems about `kcCrc16`, `kcCheckUdpSum`, and the packets and replies made with them |
| `Conversions` | hexadecimal texts, `kcStringReplace`, base64, random texts |
| `Times` | `instr_time.h`, deadlines, the text of an elapsed time |
| `LogFile` | the loop of `kcSaveLog` |
| `StringArrays` | the array of texts in `stack_dynamic_string_array`, and the 256 bytes it has |
| `CommandLine` | `argparse.c` with the options of Linux and of Windows, and what `main` does with them |
| `FunctionCalls` | calls the functions without state one after another; its properties compare each with its inverse, with the receiver's test or with a definition of its own |
| `FunctionCallsProofs` | theorems about these functions, and the invariants of `FunctionCalls` |
| `MCFunctions` | inputs of `FunctionCalls` for TLC |
| `SampleThreads` | `part05` and `ddostools`: start, handshake, stop, joins, release |
| `SampleDatabase` | `part11`, `part12` and the steps of LargeFile's user validation on one database |
| `MCSamples` | either of the two: its programs with threads, or its clients of the database, for TLC |
| `SamplesProofs` | inductive invariants and safety theorems of both and of `MCSamples` |

### Correspondence with the code

`PROJECT.json` maps every definition to its lines.  `BackendThreads` and
`UdpServer`:

| TLA+ | C |
|---|---|
| `isRuning` | `shared->isRuning` |
| `flag[s]`, `buf[s]` | `items[s-1].flag`, the content of `items[s-1].recv` |
| `item[t]` | the local `backendItem` of thread `t` (0 is the receiver) |
| `pc[t]` | where thread `t` is; `"wait"` is asleep in `pthread_cond_wait(cond)`, `"woken"` is that wait ended and the mutex about to be taken again |
| `main` | where the main thread is; `"blocked"` is asleep on `condStart` |
| `threadRunCount` | `shared->threadRunCount` |
| `inbox` | the receive buffer of the UDP socket |
| `sent`, `processed` | history: datagrams that have arrived, and those whose plugin call has returned |

A critical section accesses only memory, so it is one step.  The reads of
`isRuning` that the code does outside the mutex (`kcUdpEnqueue`, line 46) are
steps of their own (`RecvCheck`).  The plugin call is one step
(`WorkerProcess`), outside the mutex.  `pthread_cond_signal` wakes any one of
the sleepers, of either kind; a signal nobody waits for is lost.  `recvfrom`
takes any datagram of `inbox`, since the network may reorder.

`UdpServer` starts where all objects of `kcUdpBackedThreadStart` have been made
(line 199), and assumes that `pthread_create` succeeds.  What happens before
that line, and when anything fails, is `ServerLifecycle`; there the handshake
with a new thread and the thread's own work are left out.

`ServerLifecycle`:

| TLA+ | C |
|---|---|
| `pc` | the acquisition `kcUdpBackedThreadStart` is at, or the part of Stop |
| `held`, `raw` | the pointers of `KC_SHARED` that are not NULL, with or without the bit of `shared->flag` |
| `item[s]` | what slot `s` has: `"empty"` is what `calloc` left |
| `i` | the loop counter of `kcQueueCreate`, then that of `kcThreadWorksCreate` |
| `handle[k]` | `threadWorks[k]`, and at -1 `threadRecv`; `Garbage` is memory that `pthread_create` has not filled in |
| `stdin` | descriptor 0 is open |
| `stuck` | workers that missed the broadcast of `cond` and sleep for ever |

Using an object whose memory could not be had crashes the program.  Other
undefined behaviour (a mutex or condition variable that is not initialised, the
join of a handle that is not filled in) crashes it, never returns (`"hung"`), or is
survived.  The handshakes and the broadcast are single choices here: a new thread's
signal, and the broadcast, are in time or missed; `BackendThreads` and `UdpServer`
say when.  No wait returns without a signal here.  Line 139-144, where
`kcThreadWorksCreate` would lock the mutex it holds, is unreachable: the loop
ends only with all workers counted.

`StringBuffer`:

| TLA+ | C |
|---|---|
| `data` | `str->data`: NULL, malloc'ed, or the shared `oom_buffer` |
| `len`, `maxlen` | `str->len`, `str->maxlen` |
| `nul` | the index of the zero byte last stored behind the text |
| `blocks` | history: blocks malloc'ed and not freed |
| `needed`, `newlen` | the locals of `enlargeStringBuffer` |

The contents are abstracted to their length.  One step is one pass of the
doubling loop or one call of `malloc`, `realloc` or `vsnprintf`.  `size_t` is
modelled by the naturals: `StoresFit` says that no value exceeds twice
`INT_MAX`.

`Datagrams` goes into the step that `UdpServer` takes as one, the plugin call.
One slot suffices, since its buffers belong to one thread at a time
(`SlotOwnership`) and the plugins share nothing else that they use:

| TLA+ | C |
|---|---|
| `data`, `len`, `sender` | `item->recv->data`, `item->recv->len`, `item->sender`, byte by byte |
| `received` | the slot's flag is past `RECV_COMPLETE` |
| `saved`, `replies` | history: calls of `kcFiveFiftySaveAsPostgreSQL` with the fields and the datagram they are given (`Row`), and of `sendto` on the raw socket |
| `crashed` | the CRC loop of FiveFifty has left the memory of the process (`CrcLeavesMemory`) |
| `strays` | counts the datagrams of `Foreign` that have arrived, up to the bound `StrayMax` |
| `sent`, `answered` | history: what devices have sent (as `ddostools/main.c` does) and the answers they have got |

Neither set shrinks, so anything may be lost, repeated or late.  The device's
IP stack (`Delivered`) accepts a packet whose lengths, addresses, ports and UDP
checksum fit; the IP header checksum, which the code leaves 0, the sending
kernel fills in.  `Server` is a concrete address, as in `config.json`: replies
carry `config->addres` as their source, so a server that listens at 0.0.0.0 would
send packets from there, which the model does not cover.  The processor is little-endian, as `KcStdio.h` assumes.

`Loading` follows the program from `kcConfigCreate` to the end, and of Start
only the call of `kcServerPluginsLoad`:

| TLA+ | C |
|---|---|
| `pc` | the next acquisition or check, named for the variable it fills; `"readError"` is the message about an error of `fread`, `"unload"` the release of a plugin table that is not complete; `"readFails"`, `"createFails"`, `"startFails"` are the error labels of the function that reads the file, of `kcConfigCreate`, of Start |
| `ptr` | the pointers that are not NULL: `<<variable, entry>>`, entry 0 outside `plugins.json` |
| `heap` | the blocks, files and libraries that exist |
| `entries`, `index` | the array in `plugins.json`, each entry by the step at which it turns out to be wrong; the entry the loop is at |
| `given`, `conf` | the numbers of `config.json`; those of `KC_CONFIG`, the port in host order |
| `size`, `len`, `maxlen`, `eof` | the file's length, the buffer's, `feof(stream)` |
| `stale` | `realloc` has moved the buffer away from where `fullfile` points |

Reading the two files is the same code twice, so it is the same actions
(`ReadFile`).  Each error label is one step, with all it releases.  `Uses` and
`EntryUses` list the pointers that each place follows without asking whether they
are NULL, and `Crash` is what happens when one of them is, or points to what is
gone; a block that has been given back may also still be readable.  A failing
`dlopen` goes on to `dlsym` as on Unix; dlsym with no library finds what the
program exports (`"inProgram"`).

`SampleThreads` has one program in each behaviour, since the two share all
functions but a few lines:

| TLA+ | C |
|---|---|
| `main` | the function the main thread is in and where; `"blocked"` is asleep on the condition variable of the handshake |
| `object`, `held`, `made` | the object `kcGenerateShared` makes next, the pointers that are not NULL, the bits of `shared->flag` |
| `i`, `handle[t]` | the loop counter, and the handle of thread `t`: NULL, allocated, or filled in by `pthread_create` |
| `pc[t]` | where thread `t` is |
| `locked` | main has left a critical section for the error label without unlocking the mutex |
| `early` | history: a wait of main has returned without a signal |

In `SampleDatabase` a client is one run of a program or one call of a step, and
follows the order of its calls (`Course`) until one fails:

| TLA+ | C |
|---|---|
| `at[c]` | the call that is next, or `"error"`, `"rollback"`, `"leave"`: the three parts of the error label |
| `has[c]` | statements, connection, transaction, lock, memory that the client must release |
| `file`, `work[c]` | what the file holds, and what the client's transaction has written |
| `shared`, `reserved` | SQLite's locks of the file |
| `todo[c]` | the tables still to be created, or the rows to be inserted |
| `matched[c]` | what `kcCheckGetMobile` has found |

SQLite is external: a deferred transaction takes a shared lock with its first
read and the reserved one with its first write; a call that meets another's lock
fails at once, since no program sets a busy timeout; a commit with writes needs
the file alone; the journal undoes what a killed program had written.

In `CommandLine` an argument is a record of one of four kinds (word, cluster of
short options, long option, `--`), and `self` is `struct argparse`; texts are
sequences of words, so that only what is compared is kept.  A turn of the two
loops of `argparse_parse` is a function of `self` (`LetterTurn`, `ArgumentTurn`),
and the loops are the values after each turn.  `FunctionCalls` has one variable,
`call`: a function's name and its inputs.  The properties compare what the function
computes with its inverse, with the receiver's test, or with a definition of their
own: polynomial division, the places where a text occurs, what the arguments say.

`OptionsAsGiven` reads the arguments as a user of the documentation would, without
`argparse.c`'s state: which letter of a cluster decides (`Decider`), which argument
an option wants (`ReadMore`), where the options end (`EndsOptions`), and which
switches have been turned on more often than off (`IsOn`).  Both systems are one
definition over a table of options (`Linux`, `Windows`).  Where the code departs
from that reading the property says so, as a gap: an unknown option is counted and
does not end the program, a later option takes the text it left (`LeavesText`,
`TextFor`), and where the usage would be written twice nothing but the count is
claimed.  Of Windows it is checked which branch of `main` is taken; all but the
console are empty there.

## 3. What TLC checks

| Run | Instance | Question |
|---|---|---|
| `safety` | 2 slots, 2 workers, socket buffer of 2, 3 datagrams, all faults | Do the flags give every slot one owner?  Is a datagram lost, processed twice, or changed while it waits?  Is anything freed too early?  Can all who could go on be asleep?  Do the threads implement `DatagramPool`? |
| `live` | 2 slots, 2 workers, 3 datagrams, failing `bind` and `recvfrom`, fair | Is every received datagram processed, every free slot used?  Does Start report success only when the server listens?  Do start and stop end, except in the gaps named by `SignalToCome` and `MissedBroadcast`? |
| `release` | 3 slots, 3 workers, any one of fourteen acquisitions or the `bind` failing, missed signals and broadcasts, fair | Does every failed Start that does not crash release what it has made, and does Start crash only where an object that it signals or joins was never made (`NothingLeft`)?  Does it tell the threads it has started to end, and come to an end but for the gaps in `MainHangs` (`LifeEnds`)?  Does a successful one have all its threads, and do they have all they use (`RunsWhole`)? |
| `sizes` | `INT_MAX` 45, first size 4, appends of 13 lengths, memory and format failing, fair | Does the buffer stay terminated and within its bounds (`Sound`)?  Is a store ever outside, does arithmetic wrap (`StoresFit`), a block leak, a call go on for ever?  Does the buffer implement `TextBuffer`? |
| `readings` | two devices, three readings, datagrams damaged in one of three bytes, one foreign datagram of 1, 4, 6 or 32 bytes, memory and `recvfrom` failing | Is what is saved of a device's datagram what it sent, and of a foreign one all but the fields it is too short for (`SavedAsSent`)?  Does an answer mean that a reading is saved?  Is a reading that is saved answered by a packet that the device's IP stack accepts? |
| `loading` | every document of up to two plugins and some of three, any of 24 kinds of step failing, numbers at and beyond every limit, files of 8 sizes, fair | Does any step follow a pointer that is NULL or stale, but for the gaps `NameGone` and `ItemsMissing` (`FollowedIsLive`)?  Is anything lost, or left when the program ends?  Does the server run only with a complete table and with the numbers of the file, in range, but for `NotOpened` and `Cut`, from a document read to its end (`LoadedIsSound`)?  Does loading end? |
| `samples` | 3 threads of which the error path joins 1, 2 rows a batch, six sets of up to three clients, every failure, programs killed, waits that return without a signal, fair | Do the thread and database programs report success truly (`SuccessIsTrue`) and leave nothing (`NothingIsLeft`), except in the gaps named?  Does the file change by whole works only (`WholeChanges`)?  Does everybody come to an end, except in the gaps named (`SamplesEnd`)? |
| `functions` | every function without state on its own inputs, command lines of up to 4 arguments, texts of up to 5 bytes | Do checksums and conversions agree with independent definitions, and come back?  Does a receiver accept the replies?  Is the server started as its arguments say? |
| `stop`, `start`, `crowded`, `documented` | small | counterexamples, see below |

Bounds.  Two slots and two workers are the least at which a slot can be free
while another is taken, and at which a signal can go to the wrong one of
several sleepers; three datagrams are one more than there are slots, so the
receiver has to wait for a worker.  `InboxMax` bounds the socket's buffer and
makes it overflow.  Every datagram is sent once, and with the fault `"resend"`
again after it has been processed; that bounds the counter-free history.

In `ServerLifecycle` three slots and workers give a failure a first, a middle
and a last place.  `CounterMod` is 4 instead of 256, the number of values of
the `uint8_t` counter: the pool is the greatest that it can count, so a counter
that wraps one too early is seen.  `MaxThreads` bounds the threads that the loop
would create if it did.

In `StringBuffer` the sizes keep the order of the code's constants: the first
size (256) exceeds the room below which formatting is not tried (16), and the
guess (32) lies between the first size and that room.  45 is not a power of two
times the first size, so the doubling overshoots the limit and is clamped, as
in the code.  The lengths lie at, just below and just above every one of these.

In `Datagrams` the second device has two readings of one address and command, so
that a late answer is taken for another's.  Foreign datagrams (`MCForeign`) have one
byte, which only the rest of the buffer can complete to an identifier; FiveFifty's
identifier and the CRC of nothing; the same with two fields; 32 bytes that LargeFile
refuses, and six it accepts.  One of them arrives in each behaviour (`StrayMax`),
before, between or after the devices' datagrams: what it finds in the buffer is
what one, or several of these, have left, or the initial contents (`Memory`, a null
byte and 81s, so that the byte 5 is completed before anything has arrived).
Damage changes one byte of the identifier, the last of the fields or the last of
the CRC; `DamageIsNoticed` is about every byte.  Addresses and ports are chosen so
that the sums carry; those that carry once more after the first folding are in
`functions`.  `BufferSize` is 32 instead of 548, as long as the longest datagram:
what lies behind is read by nobody.

In `Loading` three entries give a wrong one a first, a middle and a last place.
The ranges keep the order of the code's (`Int32Half` is above the largest
timeout times `Thousand`, the port's range below or at it), and the numbers lie
on both sides of each, some beyond `Int32Half`, so that they are in range again
after the conversion to 32 bits (131 becomes the timeout 3, 129 the number 1; 70
becomes the port 6).  `MaxAllocSize` and `IntMax` are one less than
`Chunk` doubled, as in the code, and the sizes lie around each doubling.

In `SampleThreads` three threads with one joined leave a thread between the
joined ones and one that fails, as 16 with 12 do.  In `SampleDatabase` a batch of
two rows for each table can be interrupted before, within and at the end of
both; the client sets hold each pair of programs that can meet at a lock, two
that insert the same rows, two that wait for the `rwlock` with a third that takes
the file, and the steps that meet nobody.  The file is empty, has part11's second
table, or has the tables part12 needs.

In `MCFunctions` the calls of `FunctionCalls` are `MCCalls`; the CRCs' inputs use
every entry of the tables, alone and behind another byte; texts end before, at and behind a group of base64
and a pair of hexadecimal digits; codes of characters lie at and around every
bound of UTF-8, times around every carry; messages end before, at and behind
multiples of the log's buffer; command lines hold every kind of argument twice.
`Unit` 4 stands for the 1000000 parts of a second, since only the carry counts.

Deadlock is not checked where programs end (`main = "freed"`, `pc = "ended"`, a
client that is `Over`), and the code has real deadlocks, which the liveness
properties describe.  `StringBuffer`, `Datagrams` and `MCFunctions` cannot stop,
and are checked for deadlock.

Fairness: weak fairness of each thread (`Fairness` in `UdpServer`, `FairSpec` in
`ServerLifecycle`, `ThreadsFairness` in `SampleThreads`), because the operating
system schedules every runnable thread and no critical section blocks; in
`ServerLifecycle` that of `ThreadEnds` holds for threads that are not `stuck`; of each
client (`DbFairness`), which may wait for the `rwlock` but never for another that
waits; in `StringBuffer` of the call in progress; in `Loading` of the program,
which is one thread, and of `Read`, which may fail but need not for ever.
`StopThread` is a step of the operator, `Kill` and the spurious wakeups are the
environment's, so none of them is in a fair action.  Nothing is assumed of the operator, of peers, of
callers or of faults.  A thread asleep in `pthread_cond_wait` has no enabled step, so no
fairness wakes it.

### Disagreements found

1. `stop`: a thread between its last look at `isRuning` and
   `pthread_cond_wait` misses Stop's only broadcast; the server never ends.
   `StopCompletes`, checked in `live`, says that this gap is the only cause.
2. `start`: a new thread may signal `condStart` before main waits on it; start
   hangs.  `StartProceeds` says that this is the only cause.
3. `crowded`: with more workers than slots, which the configuration accepts, a
   worker can swallow the signal meant for the receiver.  With at most as many
   workers as slots this cannot happen (`NoLostWakeup`, proved).
4. `documented`: LargeFile computes the CRC over the datagram with its CRC and
   compares the result with that CRC, so it refuses the datagrams that
   `TextFile1.txt:3` describes, whichever byte order they use.

Met while modelling, and visible in the models, though no run is spent on
them:

*Start and stop.*  After a spurious wakeup Start may report success although
`bind` fails later (`StartMeansListening` is checked without spurious wakeups).
When the mutex or one of the two condition variables cannot be made, the error path
of Start locks and broadcasts them all the same (`KcUdpBackedThreadsHead.c:232-235`,
`Stop` with some of `Signalled` not made): a null pointer ends the program before
anything is released, an object that is not initialised may also hang it or go
unnoticed.  When `pthread_create` fails, the error
path joins the unfilled handle (`Garbage`).  A slot whose raw socket could not be
made holds descriptor 0, and releasing the queue closes it; `NothingLeft` allows
it in this case only.  The counter of the loop that makes the workers is a
`uint8_t`, so with 256 workers or more, which the configuration accepts, the loop
never ends; the theorems about `ServerLifecycle` assume fewer.

*Receiving.*  FiveFifty does not ask how long a datagram is.  One with its identifier
and a right CRC that is shorter than 13 bytes, `<<5, 81, 255, 255>>` among them, is
saved and answered with the bytes that an earlier datagram has left in the place of
the fields it lacks (`Stale`); one of less than four bytes makes the length of the
CRC a `size_t` as large as the address space, and the loop leaves the memory of the
process (`CrcLeavesMemory`); a byte that the buffer's rest completes to an identifier
suffices.  LargeFile takes the CRC of less than two bytes from in front of the buffer.
An answer carries no sequence number, so a device may take a late one for the answer
to its next reading.  Scans begin at the first slot, so endless traffic can starve a
later one.  The receiver sets `recv->len` without storing the zero byte that
`stringbuffer.h:94` promises.

*Loading.*  A JSON number is cut to 32 bits before its range is checked, so
numbers outside the ranges that the messages of `KcConfig.c:151-158` name are
accepted, as other numbers in range, and the port has no range and is cut to 16
bits (`Cut`).  When there is no memory for the array of plugins, the error path
walks through it (`ItemsMissing`).  The texts of
all plugins but the last are lost (`EarlierTexts`).  A library that cannot be
opened is not an error on Unix, as it is on Windows: its message is written, and
when the program itself exports the function the table counts as right (`NotOpened`).  The test for
a file that is too large (`KcPlugins.c:42`) is never true, the limit of the buffer
ends the loop (`Refused`).  A `plugins.json` that is no array, or an empty one, is
a table without plugins.  An identifier `"0x"` is empty, and so matches every
datagram.  `fullfile` points into the buffer that the file is read to and that
error messages are written to: after a read error the message reads it from where
the buffer was before it was enlarged (`KcConfig.c:91`, `KcPlugins.c:64`; `NameGone`),
and the messages about a file that is missing or cannot be opened are formatted from
the text they overwrite (`KcPlugins.c:19,36`; only the text suffers).

*Thread samples.*  `part05` has the two gaps of the server (`SignalMissed`,
`BroadcastMissed`).  A wait that returns without a signal, as POSIX allows
(`part05/main.c:243`, `ddostools/main.c:227`), makes both report success before
their threads have started, and in `ddostools` although a thread may fail later
(`early`).  When a thread of `ddostools` cannot make its socket, main
keeps the mutex, joins the first 12 of 16 threads, which may be waiting for that
mutex, and is stuck (`NeverTold`); when the thread that failed is a later one, the
joins may end, and main frees the mutex under the threads between and loses the
handles from the thirteenth on (`ddostools/main.c:245`, `NeverJoined`); once main has
been woken without a signal, such a thread may also be alive although main has not
kept the mutex.  Joining a handle that `pthread_create` has not filled in may end the
program or never return.

*Database samples.*  Nothing in the repository creates the tables that `part12`
inserts into.  `step3` binds its first parameter at 0, where SQLite counts from 1,
so it always fails (`Bind`).  When there is no memory for the matches, `kcCheckGetMobile`
returns what `regcomp` left, `REG_OK`, and when there is none for the expression a
value that is not initialised, though its comment (`LargeFile/KcProcessData.c:99-100`)
says that `REG_OK` means success: step 1 then takes the error message for a mobile
number and succeeds (`NumberIsMessage`).  The case of
the first table in `part11` has no break, so a missing first table makes it create
the second as well (`Creates`); the statements' `if not exists` makes that
harmless.  The conversion `%86400)` that `part11/main.c:61` passes through a format
is undefined, though glibc prints it as it stands, and the `'%%s'` of line 80
passes through none, so it stays as it is.

*Conversions, log, command line.* `kcSaveLog` writes each piece from the start of
the message, so a longer one repeats its first bytes (`Pieces`). Base64 accepts
data behind `=`, and loses bytes of the groups that follow. `kcStringReplace` with
an empty pattern never ends. `kcRandomString` on a buffer with content writes at
its start but adds to its length. `kcMilliseconds2String` may print 60.000
seconds. In `stack_dynamic_string_array` the calls of `enlargeStringBuffer` do not
add up, since `str->len` stays 0, and the pointer into the buffer is kept from the
first (`main.c:39-85`): an array of more than 256 bytes, its numbers included,
overruns the buffer, or is written where `realloc` has moved it away from.
`dynamicStringArray` of the model is `Overrun` then, and `ArraysComeBack` says
that this happens exactly beyond the 256 bytes. A reply with an identifier of one
byte would send a stale byte. An unknown option does not end the program, though
`argparse.c:277` means it to: parsing goes on, a later option may take the text it
left (`LeavesText`), and the second usage text is read behind the array
(`argparse_usage`).

## 4. What is proved

For every `QueueMax >= 1`, `PoolSize` in 1..255, `InboxMax`, set of datagrams
and set of faults (the named assumptions of `BackendThreads`):

| Theorem | Statement |
|---|---|
| `TypeCorrect` | `Spec => []TypeOK` |
| `SlotsHaveOneOwner` | `Spec => []SlotOwnership` |
| `ProcessedAtMostOnce` | `Spec => []AtMostOnce` |
| `NothingIsLost` | `Spec => []NoLoss` |
| `ReceivedDataIsStable` | `Spec => ReceivedDataStable` |
| `FreedWhenUnused` | `Spec => []NoUseAfterFree` |
| `ServerImplementsPool` | `Spec => ImplementsPool` |
| `StartedMeansBound` | `"spurious" \notin Faults` implies `Spec => []StartMeansListening` |
| `NoWakeupIsLost` | `PoolSize <= QueueMax` implies `Spec => []NoLostWakeup` |

`SlotOwnership` is not inductive: that a step of a thread changes only slots
the thread owns needs to know at which places of its program it owns one.
`HoldersInv` says so: the receiver exactly between claiming a slot and marking
or resetting it, a worker exactly between claiming and freeing; with `StartInv`
(which threads exist while main starts them) and `DataInv` (what buffers hold)
it makes `IInv` inductive.  `AtMostOnce` and `NoLoss` need in addition that
everything in a buffer, in the socket or processed has been sent
(`ProvenanceInv`); `DeliveryInv` is their conjunction.  The refinement uses
`DeliveryInv`: a datagram being stored is new to the pool by `AtMostOnce`, and
there is room for it because received slots, busy workers and the receiver's
own slot are disjoint (`RoomForOne`, by the library's theorems on cardinality).

`StartedMeansBound` is about a handshake without a predicate: main goes on after
any wakeup.  `OpeningInv` says that only the thread main waits for has not yet
signalled, so that main leaves its last wait only after the receiver's signal,
which comes after its `bind`.  With spurious wakeups this is false, and TLC
finds the execution.

`NoWakeupIsLost` is a counting argument (`WakeupInv`): while a worker sleeps
there are at least as many workers about to scan as there are received slots,
and the receiver sleeps only while no slot is free and no worker sleeps.  When
the receiver goes to sleep every slot is received or in a worker's hands, so
with no more workers than slots none of them can be asleep; hence a signal
never finds sleepers of both kinds and cannot go to the wrong one.

For every size of queue and pool and every set of faults (`SizeAssumption`), as
long as the loop counter can count the pool (`PoolIsCounted`: `PoolSize <
CounterMod`, the hypothesis of each theorem):

| Theorem | Statement |
|---|---|
| `LifecycleTypeCorrect` | `Spec => []TypeOK` |
| `RunsWholeAlways` | `Spec => []RunsWhole` |
| `NothingIsLeft` | `Spec => []NothingLeft` |

`kcThreadWorksFree` stops at the first handle that is NULL, so joining everybody
needs that handles have no gap and each live thread has its handle at its own
place (`AliveInv`, `HandlesInv`); that nothing is missing or left needs to know
what exists at each place of Start and Stop (`HeldInv`).  `NothingIsLeft` is about
what a Stop that gets through leaves, and says of one that crashes which object was
missing; a hung one leaves everything.

For every value of the size constants and every set of lengths and faults
(`SizeAssumption` of `StringBuffer`):

| Theorem | Statement |
|---|---|
| `BufferTypeCorrect` | `Spec => []TypeOK` |
| `BufferIsSound` | `Spec => []Sound` |
| `StoresAlwaysFit` | `Spec => []StoresFit` |
| `BufferImplementsText` | `Spec => ImplementsText` |

Here the inductive invariant adds `PlacesInv`: what each place within a call
knows of the demand and the room, in particular that the doubled size stays
below twice the limit because the demand does.

For every set of documents, numbers, sizes and faults (`LoadingAssumption`):

| Theorem | Statement |
|---|---|
| `FollowedIsAlwaysLive` | `Spec => []FollowedIsLive` |
| `OnlyTextsAreLost` | `Spec => []OnlyTextsLeak`: at every moment, not only at the end |
| `AllIsReleased` | `Spec => []EndedReleased` |
| `LoadingTypeCorrect` | `Spec => []TypeOK` |
| `LoadedIsAlwaysSound` | `Spec => []LoadedIsSound` |

An error label releases a fixed set of variables, so the invariant has to say
which pointers there can be at each place (`Reach`), which file is being loaded
(`Phase`), and that texts belong to entries up to the present one (`IndexInv`):
then a text that is overwritten belongs to an entry with another behind it.
Three theorems need a second invariant on top (`SInv`): the numbers are those of
`config.json` cut to 32 bits (`GivenInv`), and sound from the check of their ranges
on, since a timeout in range stays so when it is multiplied; at each place the
pointers it follows have been acquired (`UsesInv`); every entry the loop has passed
has what the server uses of it; the buffer is at the end of the file when it is
parsed.

For every set of devices, readings, damages and plugins, foreign datagrams of every
length and contents, and every set of faults (the assumptions of `Datagrams` and
`Crc16`, below):

| Theorem | Statement |
|---|---|
| `DamageIsNoticed` | FiveFifty refuses every datagram of a device with one byte changed behind the identifier |
| `TypeCorrect` | `Spec => []TypeOK` |
| `OnlySentIsSaved` | `Spec => []SavedAsSent` |
| `AnswersAreTrue` | `Spec => []AnswerMeansSaved` |
| `EverySavedIsAnswered` | `Spec => []SavedIsAnswered` |

The invariant `IInv` says where everything comes from: what has been sent is a
datagram of a reading of its device (`SentInv`); what the buffer holds, up to
`len`, has been sent by `sender`, with at most one byte damaged, or is a foreign
datagram (`BufferInv`); what is saved has been sent (`ItsDevices`) or comes from a
foreign datagram, and then all but what that is too short for is its own
(`FromForeign`), and its answer is among the replies (`SavedInv`), which hold no other
packets (`RepliesInv`); what a device has taken confirms something saved
(`AnsweredInv`).  Saving keeps it by `DamageIsNoticed`, and an answer reaches its
device, and no other, by the theorems on packets below.

What is assumed of the constants: addresses and readings consist of bytes, damage
changes a byte (`DamageAssumption`), FiveFifty has the identifier that
`plugins.json:3` gives it (`PluginsAssumption`), and the buffer, from 15 to 548 bytes
long (`BufferAssumption`), holds every datagram, since `recvfrom` cuts what is longer
(`ForeignAssumption`).  `TablesAssumption`
of `Crc16` is about no parameter: it says what the 512 numbers of the two tables
in the code are, and TLC computes it in full in each of the runs that reach it.

About functions without state, for every argument (`FunctionsProofs`):

| Theorem | Statement |
|---|---|
| `CrcIsRemainder` | the two tables of `kcCrc16` compute the remainder of the polynomial division, for bytes of any number |
| `CrcNoticesDamage` | sequences of one length that differ in one byte have different CRCs |
| `ChecksumCompletesSum` | two additions fold every carry of a 32-bit sum: it and its checksum add up to a multiple of 65535 |
| `SwapMultiplies` | exchanging the bytes of a word multiplies it by 256 modulo 65535, and is its own inverse |
| `PacketIsDelivered` | an IP stack accepts every packet `CreateIpUdp` makes of a message that an IP packet can hold, and takes the message from it |
| `EveryReplyIsAccepted` | so do the sender's stack and all replies of both plugins, whatever an earlier one left in the buffer |
| `LongIdentifiersGetNoReply` | with an identifier of more than two bytes there is no reply at all |

`CrcNoticesDamage` holds because a step of the register can be undone: the table
from which the register's high byte comes has every byte once.
`ChecksumCompletesSum` and `SwapMultiplies` say why `kcCheckUdpSum` may add in the
processor's byte order and swap once at the end.  A packet is accepted because the
words that the receiver adds are those that `kcCheckUdpSum` added, and its
checksum: the sum of words is a function on sequences of every length, and that it
fits 32 bits, that it may be taken in either byte order, and that a byte at an odd
end counts as a word, are lemmas by induction on the length.

About the other functions, for every argument, and from that for every set of calls
and every unit of a clock (`CallsAssumption` of `FunctionCalls`; all in
`FunctionCallsProofs`):

| Theorem | Statement |
|---|---|
| `HexComesBack` | `kcHexStringToBytes` reads what `kcHexStringFromBytes` wrote of any bytes but none, with and without `0x` |
| `Base64ComesBack` | `pg_b64_decode` returns the bytes that `pg_b64_encode` got, each in the room its function tells |
| `RoomSuffices` | for any text, well-formed or not, more room than `pg_b64_dec_len` tells changes nothing |
| `CharactersDecode` | the bytes `kcUtf8ZhRandom` writes decode to the code; exactly surrogates and codes behind the last have none |
| `RandomTextsFit` | the room `kcRandomString` makes holds any characters it may draw, and the zero byte |
| `TimesAddUp` | sums and differences are normalised, a difference undoes a sum, and `INSTR_TIME_ACCUM_DIFF` is both |
| `WaitsAddUp` | a deadline is normalised and as many milliseconds later as asked; the parts of a printed time add up to it |
| `ArrayComesBack` | an array of texts that takes up to 256 bytes is read back as the texts with an even index, and the second array behind them; a larger one overruns the buffer |
| `Crc32IsRemainder`, `Crc64IsRemainder` | `kcCrc32` and `kcCrc64` with their tables compute the remainders of polynomial divisions |
| `ConversionsComeBack` | `Spec => []ConvertedBack` |
| `AllRepliesAreAccepted` | `Spec => []RepliesAreAccepted` |
| `CallsAreAsDefined` | `Spec => []SameAsDefinition` |
| `MainIsAsGiven` | for every table of options (`IsTable`, `IsOrder`; those of Linux and Windows are such) and all arguments, `main` does what `IsAsGiven` says, with the texts left over and the unknown options that go on |
| `OptionsAreAsGiven` | `Spec => []OptionsAsGiven` |

The invariant of the theorems about `Spec` (`IsCall`) says only that a call has inputs that
`AnyCall` allows, which are those the formats can tell: a message has any length (`kcCheckUdpSum` makes no checksum
of one above 528 bytes, `TooLong`),
texts and arrays have fewer than 2^16 elements (where the model of
`KC_VAL32_TO_BYTES` ends), a reply's buffer has the size of the longest reply, an
identifier has two bytes or more.  The work is in the theorems above them.  Texts
made of parts are handled by `Joined`: the prefix that has been put together after
each part, in which every earlier part lies where its predecessors' lengths say.
For base64 the variables of the decoding loop are known at every fourth character
(`Decoding`), within a group they are followed character by character.
`RoomSuffices` rests on a bound of what the loop has written: four times the bytes
stored plus three times the characters pending never exceed three times the
characters read (`FitsBytes`), also behind padding, where groups only lose bytes.
For the array the positions that the reader computes are those at which the writer
has put the elements; its length is what `ArraySize` adds up (`ArrayLength`), and
while that is at most 256 no single element asks for more, so nothing is moved.

The three CRCs are remainders for one reason, proved once for every width
(`DividedByTable`): eight steps of the division are linear with respect to exclusive
or, so a byte that enters the register may be divided alone, and its remainder is
the table's entry (`TablesAssumption`, `WideTablesAssumption`; TLC computes both in
full).  That `kcStringReplace` replaces the right places (`ReplacesPlaces`) follows
from where its search has got to: behind the last place it has replaced, and at the
next character otherwise.  An entry of the log is never longer than the message, and
as long as one piece suffices nothing but it (`Fits`).

The command line is followed turn by turn, for arguments of any number and clusters
of any length, and for every table of options.  The count of a switch after some
arguments is the most it has risen since any argument before (`IsRise`), because it
stops at zero: so it is on exactly when it has been turned on more often than off
since some argument.  In a cluster the turns stop at the letter that decides, since
behind an unknown one `optvalue` holds more than the letters that are left and
behind an option that has taken them for its text it holds none (`LettersStop`).
Between two turns of the outer loop the program is at some argument which no option
wants, with the words, texts, `optvalue` and number of errors that have been read
in front of it (`At`): a turn takes it one argument on, or two when an option wants
the next, or out of the loop (`TurnReads`, `TurnEnds`).

The theorems of the library about induction take an operator as parameter, which
no installed prover can instantiate.  Where an induction is needed here, it is
written out: the values of a recursive function come from its definition, and a
property holds for every length because the set of lengths at which it fails
would have a least member.

For every number of threads, of joined threads and every set of faults
(`SampleThreadsAssumption`), and for every set of clients and number of rows
(`DatabaseAssumption`; all in `SamplesProofs`):

| Theorem | Statement |
|---|---|
| `ThreadsTypeCorrect` | `ThreadsSpec => []ThreadsTypeOK` |
| `ThreadsHaveStarted` | `ThreadsSpec => []SuccessMeansStarted` |
| `ThreadsAreReleased` | `ThreadsSpec => []ThreadsLeaveNothing` |
| `TypeCorrect` | `Spec => []TypeOK` of `MCSamples` |
| `SuccessIsAlwaysTrue` | `Spec => []SuccessIsTrue` |
| `NothingIsEverLeft` | `Spec => []NothingIsLeft` |
| `ChangesAreWhole` | `Spec => WholeChanges` |

The handshake of the threads has no predicate, and yet success stands for started
threads as long as no wait of main returns without a signal: while main waits for
thread `i`, all earlier threads are past their signal, so only `i` can wake it
(`StartInv`); a thread ends before the stop only when it has set `isRuning` to
false, after which main cannot report success (`RunInv`).  After such a wakeup
success says only that the threads exist, and the theorems say no more than that.  That nothing is taken from a thread follows from which threads the
joins have passed (`JoinInv`) and from what it means that main keeps the mutex
(`LockInv`), and that no handle is lost from which of them are made (`HandleInv`).

The database file changes by whole works because a client writes only within a
transaction (`Holds`), so that everything waits in `work` for the commit, and at the
commit nothing of the work is missing: each table of part11 is still to be
created, in the work, or complete in the file (`CreateInv`), each row of part12
still to be inserted or in the work (`InsertInv`).  Since no table and row is ever
removed, the success that such a program reports stays true.  Locks are held
within transactions only (`LocksInv`), and what a client holds is known at each
place, which is what `NothingIsEverLeft` needs where it ends.

Only model-checked: all liveness, which is out of the prover's reach.  All
invariants of the passing runs, the action properties and the abstract
specifications are proved.  `MCFunctions` adds an assumption that TLC computes in
full: the exclusive or of `Division`, written so that it can be reasoned about, is
that of the community modules.

## 5. What is not modelled

The texts of error messages, which loading writes to the buffer that holds the
file, are left out, and so is what jansson does with a document.  In LargeFile
the fields of the user's data are values; the plugin itself calls neither the
replies nor the second and third step, which are modelled as functions.
Saving in FiveFifty is a delay that
succeeds; the disabled code for PostgreSQL is not modelled.

Of the log the opening of the file and its name; of the checksums `kcCheckSum`,
which nothing calls; of the conversions `KcIpV4.c`, the texts of addresses that
only part07 prints; of the thread samples `part10`, one thread that waits with a
timeout (its deadline is in `Times`).  The options of the raw socket, the layout of
log lines and usage texts, the service of Windows, which is a stub, and the
samples that only demonstrate language or library features keep no state and are
left out.  `part09` is an earlier copy of the server's configuration, plugin table
and command line: its `argparse.c` is the same file, so `CommandLine` stands for
it; its `KcConfig.c` and `KcPlugins.c` differ from those that `Loading` models in
one enlargement of the error text that they do not check.  Timeouts of the
server's socket are not modelled: `recvfrom` is given none that the loop
distinguishes from another failure (fault `"recvfrom"`).

## 6. Plan

What would add most next: the timed wait of `part10` and the texts of addresses of
`KcIpV4.c`.
