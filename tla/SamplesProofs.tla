---------------------------- MODULE SamplesProofs ----------------------------
(***************************************************************************)
(* Proofs about the samples: the clients of D:/data.db, for every set of   *)
(* clients that run together, every number of rows and every call that     *)
(* fails; the programs with threads, for every number of threads and of    *)
(* those the error path of ddostools joins; and their composition.         *)
(***************************************************************************)
EXTENDS MCSamples, TLAPS

(***************************************************************************)
(* The clients of the database                                             *)
(***************************************************************************)
AllStatements == {Stmt[k] : k \in 1 .. 3}
Belongings == {"db", "transaction", "rwlock", "userid", "password"} \cup AllStatements
Stopped == {"idle", "done", "failed", "killed"}
Tables == {"fivefifty", "filepointers"}
CoursePlaces(p) == {Course[p][k] : k \in DOMAIN Course[p]}
DbPlaces == Stopped \cup {"error", "rollback", "leave"} \cup UNION {CoursePlaces(p) : p \in DOMAIN Course}
Elements(s) == {s[k] : k \in 1 .. Len(s)}
Facts == Names(Objects \cup InsertTables) \cup UNION {RowsOf(c) : c \in Clients}

\* The domains and ranges of the variables.
Shapes ==
  /\ at \in [Clients -> DbPlaces]
  /\ has \in [Clients -> SUBSET Belongings]
  /\ work \in [Clients -> SUBSET Facts]
  /\ todo = [c \in Clients |-> todo[c]]
  /\ matched \in [Clients -> {"none", "found", "unknown"}]
  /\ file \subseteq Facts
  /\ shared \subseteq Clients /\ reserved \subseteq Clients

\* A client is at a place of its own program.
InCourse(c) == at[c] \in Stopped \cup {"error", "rollback", "leave"} \cup CoursePlaces(Program(c))

\* What a client holds at each place.
Holds(c) ==
  /\ at[c] \in Stopped => has[c] = {}
  /\ at[c] \notin {"check", "create", "insert", "finalize", "bind", "error"} =>
       has[c] \cap AllStatements = {}
  /\ at[c] \in {"key", "cache", "begin"} => "db" \in has[c]
  /\ at[c] \in {"prepare", "check", "create", "insert", "finalize", "commit"}
       /\ Program(c) \in {"part11", "part12"} => "transaction" \in has[c]
  /\ "transaction" \in has[c] => "db" \in has[c]

\* A file lock is held only by an open transaction.
LocksInv == \A c \in shared \cup reserved : "transaction" \in has[c]

\* Each table of part11 is still to be created or complete.
CreateInv(c) ==
  /\ todo[c] \in Seq(Tables) /\ work[c] \subseteq Names(Objects)
  /\ at[c] = "create" => \A t \in Tables :
       t \in Elements(todo[c]) \/ Names(Created[t]) \subseteq file \cup work[c]
  /\ at[c] \in {"finalize", "commit"} => Names(Objects) \subseteq file \cup work[c]
  /\ at[c] \in {"close", "done"} => Names(Objects) \subseteq file

\* Each row of part12 is still to be inserted or written.
InsertInv(c) ==
  /\ at[c] \in {"open", "key", "begin", "prepare"} => work[c] = {} /\ todo[c] = RowList(c)
  /\ todo[c] \in Seq(RowsOf(c)) /\ work[c] \subseteq RowsOf(c)
  /\ at[c] = "insert" => work[c] \cup Elements(todo[c]) = RowsOf(c)
  /\ at[c] \in {"finalize", "commit"} => work[c] = RowsOf(c)
  /\ at[c] \in {"close", "done"} => RowsOf(c) \subseteq file

\* step1 has its number, or had no memory to look for it.
Known(number) == number = "found" \/ (number = "unknown" /\ "memory" \in DbFaults)

ProgressInv(c) ==
  /\ Program(c) = "part11" => CreateInv(c)
  /\ Program(c) = "part12" => InsertInv(c)
  /\ Program(c) \notin {"part11", "part12"} => work[c] = {}
  /\ Program(c) = "step1" /\ at[c] \in {"password", "close", "done"} => Known(matched[c])

ClientInv(c) == InCourse(c) /\ Holds(c) /\ ProgressInv(c)

\* A table in the file has its index.
FileInv == \A t \in Tables : <<t>> \in file => Names(Created[t]) \subseteq file

DbInv == Shapes /\ LocksInv /\ FileInv /\ \A c \in Clients : ClientInv(c)

-----------------------------------------------------------------------------
\* A client is a pair of a program with a course and a number.
LEMMA ClientPrograms == \A c \in Clients : Program(c) \in DOMAIN Course
BY DatabaseAssumption DEF Clients, Program

\* The programs.
LEMMA Programs == DOMAIN Course = {"part11", "part12", "step1", "step2", "step3"}
BY DEF Course

\* Places of a course differ, so that the one after is found.
LEMMA AfterPlace ==
  ASSUME NEW c, NEW path, path = Course[Program(c)],
         \A a, b \in DOMAIN path : path[a] = path[b] => a = b
  PROVE  \A n \in DOMAIN path : at[c] = path[n] =>
           After(c) = IF n = Len(path) THEN "done" ELSE path[n + 1]
<1> TAKE n \in DOMAIN path
<1> HAVE at[c] = path[n]
<1> DEFINE p == Course[Program(c)]
           m == CHOOSE m \in DOMAIN p : p[m] = at[c]
<1>1. m = n
  OBVIOUS
<1>2. After(c) = IF m = Len(p) THEN "done" ELSE p[m + 1]
  BY Zenon DEF After
<1>3. p = path
  OBVIOUS
<1> HIDE DEF m, p
<1>4. QED  BY <1>1, <1>2, <1>3, Zenon

\* The course of part11.
LEMMA AfterPart11 ==
  ASSUME NEW c, Program(c) = "part11"
  PROVE  /\ CoursePlaces(Program(c)) = {"open", "key", "begin", "prepare", "check", "create", "finalize", "commit", "close"}
         /\ at[c] = "open" => After(c) = "key"
         /\ at[c] = "key" => After(c) = "begin"
         /\ at[c] = "begin" => After(c) = "prepare"
         /\ at[c] = "prepare" => After(c) = "check"
         /\ at[c] = "check" => After(c) = "create"
         /\ at[c] = "create" => After(c) = "finalize"
         /\ at[c] = "finalize" => After(c) = "commit"
         /\ at[c] = "commit" => After(c) = "close"
         /\ at[c] = "close" => After(c) = "done"
<1> DEFINE course == <<"open", "key", "begin", "prepare", "check", "create", "finalize", "commit", "close">>
<1>1. Course[Program(c)] = course
  BY DEF Course
<1>2. DOMAIN course = 1 .. 9 /\ Len(course) = 9
  OBVIOUS
<1>3. \A a, b \in DOMAIN course : course[a] = course[b] => a = b
  BY <1>2
<1>4. \A k \in 1 .. 9 : at[c] = course[k] =>
        After(c) = IF k = 9 THEN "done" ELSE course[k + 1]
  <2> HIDE DEF course
  <2>1. \A k \in DOMAIN course : at[c] = course[k] =>
          After(c) = IF k = Len(course) THEN "done" ELSE course[k + 1]
    BY <1>1, <1>3, AfterPlace
  <2>2. QED  BY <1>2, <2>1
<1>5. CoursePlaces(Program(c)) = {course[k] : k \in 1 .. 9}
  BY <1>1, <1>2 DEF CoursePlaces
<1>6. QED  BY <1>4, <1>5

\* The course of part12.
LEMMA AfterPart12 ==
  ASSUME NEW c, Program(c) = "part12"
  PROVE  /\ CoursePlaces(Program(c)) = {"open", "key", "begin", "prepare", "insert", "finalize", "commit", "close"}
         /\ at[c] = "open" => After(c) = "key"
         /\ at[c] = "key" => After(c) = "begin"
         /\ at[c] = "begin" => After(c) = "prepare"
         /\ at[c] = "prepare" => After(c) = "insert"
         /\ at[c] = "insert" => After(c) = "finalize"
         /\ at[c] = "finalize" => After(c) = "commit"
         /\ at[c] = "commit" => After(c) = "close"
         /\ at[c] = "close" => After(c) = "done"
<1> DEFINE course == <<"open", "key", "begin", "prepare", "insert", "finalize", "commit", "close">>
<1>1. Course[Program(c)] = course
  BY DEF Course
<1>2. DOMAIN course = 1 .. 8 /\ Len(course) = 8
  OBVIOUS
<1>3. \A a, b \in DOMAIN course : course[a] = course[b] => a = b
  BY <1>2
<1>4. \A k \in 1 .. 8 : at[c] = course[k] =>
        After(c) = IF k = 8 THEN "done" ELSE course[k + 1]
  <2> HIDE DEF course
  <2>1. \A k \in DOMAIN course : at[c] = course[k] =>
          After(c) = IF k = Len(course) THEN "done" ELSE course[k + 1]
    BY <1>1, <1>3, AfterPlace
  <2>2. QED  BY <1>2, <2>1
<1>5. CoursePlaces(Program(c)) = {course[k] : k \in 1 .. 8}
  BY <1>1, <1>2 DEF CoursePlaces
<1>6. QED  BY <1>4, <1>5

\* The course of step1.
LEMMA AfterStep1 ==
  ASSUME NEW c, Program(c) = "step1"
  PROVE  /\ CoursePlaces(Program(c)) = {"userid", "mobile", "password", "close"}
         /\ at[c] = "userid" => After(c) = "mobile"
         /\ at[c] = "mobile" => After(c) = "password"
         /\ at[c] = "password" => After(c) = "close"
         /\ at[c] = "close" => After(c) = "done"
<1> DEFINE course == <<"userid", "mobile", "password", "close">>
<1>1. Course[Program(c)] = course
  BY DEF Course
<1>2. DOMAIN course = 1 .. 4 /\ Len(course) = 4
  OBVIOUS
<1>3. \A a, b \in DOMAIN course : course[a] = course[b] => a = b
  BY <1>2
<1>4. \A k \in 1 .. 4 : at[c] = course[k] =>
        After(c) = IF k = 4 THEN "done" ELSE course[k + 1]
  <2> HIDE DEF course
  <2>1. \A k \in DOMAIN course : at[c] = course[k] =>
          After(c) = IF k = Len(course) THEN "done" ELSE course[k + 1]
    BY <1>1, <1>3, AfterPlace
  <2>2. QED  BY <1>2, <2>1
<1>5. CoursePlaces(Program(c)) = {course[k] : k \in 1 .. 4}
  BY <1>1, <1>2 DEF CoursePlaces
<1>6. QED  BY <1>4, <1>5

\* The course of step2.
LEMMA AfterStep2 ==
  ASSUME NEW c, Program(c) = "step2"
  PROVE  /\ CoursePlaces(Program(c)) = {"lock", "open", "key", "cache", "begin", "commit", "close"}
         /\ at[c] = "lock" => After(c) = "open"
         /\ at[c] = "open" => After(c) = "key"
         /\ at[c] = "key" => After(c) = "cache"
         /\ at[c] = "cache" => After(c) = "begin"
         /\ at[c] = "begin" => After(c) = "commit"
         /\ at[c] = "commit" => After(c) = "close"
         /\ at[c] = "close" => After(c) = "done"
<1> DEFINE course == <<"lock", "open", "key", "cache", "begin", "commit", "close">>
<1>1. Course[Program(c)] = course
  BY DEF Course
<1>2. DOMAIN course = 1 .. 7 /\ Len(course) = 7
  OBVIOUS
<1>3. \A a, b \in DOMAIN course : course[a] = course[b] => a = b
  BY <1>2
<1>4. \A k \in 1 .. 7 : at[c] = course[k] =>
        After(c) = IF k = 7 THEN "done" ELSE course[k + 1]
  <2> HIDE DEF course
  <2>1. \A k \in DOMAIN course : at[c] = course[k] =>
          After(c) = IF k = Len(course) THEN "done" ELSE course[k + 1]
    BY <1>1, <1>3, AfterPlace
  <2>2. QED  BY <1>2, <2>1
<1>5. CoursePlaces(Program(c)) = {course[k] : k \in 1 .. 7}
  BY <1>1, <1>2 DEF CoursePlaces
<1>6. QED  BY <1>4, <1>5

\* The course of step3.
LEMMA AfterStep3 ==
  ASSUME NEW c, Program(c) = "step3"
  PROVE  /\ CoursePlaces(Program(c)) = {"prepare", "bind"}
         /\ at[c] = "prepare" => After(c) = "bind"
         /\ at[c] = "bind" => After(c) = "done"
<1> DEFINE course == <<"prepare", "bind">>
<1>1. Course[Program(c)] = course
  BY DEF Course
<1>2. DOMAIN course = 1 .. 2 /\ Len(course) = 2
  OBVIOUS
<1>3. \A a, b \in DOMAIN course : course[a] = course[b] => a = b
  BY <1>2
<1>4. \A k \in 1 .. 2 : at[c] = course[k] =>
        After(c) = IF k = 2 THEN "done" ELSE course[k + 1]
  <2> HIDE DEF course
  <2>1. \A k \in DOMAIN course : at[c] = course[k] =>
          After(c) = IF k = Len(course) THEN "done" ELSE course[k + 1]
    BY <1>1, <1>3, AfterPlace
  <2>2. QED  BY <1>2, <2>1
<1>5. CoursePlaces(Program(c)) = {course[k] : k \in 1 .. 2}
  BY <1>1, <1>2 DEF CoursePlaces
<1>6. QED  BY <1>4, <1>5

Always == Stopped \cup {"error", "rollback", "leave"}

\* Where a client goes from each place of its course.
LEMMA Afters ==
  ASSUME NEW c \in Clients, InCourse(c)
  PROVE  /\ at[c] = "open" => Program(c) \in {"part11", "part12", "step2"} /\ After(c) = "key"
         /\ at[c] = "key" =>
              \/ Program(c) \in {"part11", "part12"} /\ After(c) = "begin"
              \/ Program(c) = "step2" /\ After(c) = "cache"
         /\ at[c] = "cache" => Program(c) = "step2" /\ After(c) = "begin"
         /\ at[c] = "begin" =>
              \/ Program(c) \in {"part11", "part12"} /\ After(c) = "prepare"
              \/ Program(c) = "step2" /\ After(c) = "commit"
         /\ at[c] = "prepare" =>
              \/ Program(c) = "part11" /\ After(c) = "check"
              \/ Program(c) = "part12" /\ After(c) = "insert"
              \/ Program(c) = "step3" /\ After(c) = "bind"
         /\ at[c] = "check" => Program(c) = "part11" /\ After(c) = "create"
         /\ at[c] = "create" => Program(c) = "part11" /\ After(c) = "finalize"
         /\ at[c] = "insert" => Program(c) = "part12" /\ After(c) = "finalize"
         /\ at[c] = "bind" => Program(c) = "step3"
         /\ at[c] = "finalize" => Program(c) \in {"part11", "part12"} /\ After(c) = "commit"
         /\ at[c] = "commit" => Program(c) \in {"part11", "part12", "step2"} /\ After(c) = "close"
         /\ at[c] = "close" => Program(c) # "step3" /\ After(c) = "done"
         /\ at[c] = "userid" => Program(c) = "step1" /\ After(c) = "mobile"
         /\ at[c] = "mobile" => Program(c) = "step1" /\ After(c) = "password"
         /\ at[c] = "password" => Program(c) = "step1" /\ After(c) = "close"
         /\ at[c] = "lock" => Program(c) = "step2" /\ After(c) = "open"
         /\ at[c] \notin Always => After(c) \in {"done"} \cup CoursePlaces(Program(c))
<1> USE DEF InCourse, Always, Stopped
<1>1. Program(c) \in {"part11", "part12", "step1", "step2", "step3"}
  BY ClientPrograms, Programs
<1>2. CASE Program(c) = "part11"  BY <1>2, AfterPart11
<1>3. CASE Program(c) = "part12"  BY <1>3, AfterPart12
<1>4. CASE Program(c) = "step1"  BY <1>4, AfterStep1
<1>5. CASE Program(c) = "step2"  BY <1>5, AfterStep2
<1>6. CASE Program(c) = "step3"  BY <1>6, AfterStep3
<1>7. QED  BY <1>1, <1>2, <1>3, <1>4, <1>5, <1>6

\* Nothing of the other clients changes.
Others(c) ==
  \A d \in Clients \ {c} :
    /\ at'[d] = at[d] /\ has'[d] = has[d] /\ work'[d] = work[d]
    /\ todo'[d] = todo[d] /\ matched'[d] = matched[d]

\* A client's step keeps what holds of the others, for the file only grows.
LEMMA Frame ==
  ASSUME DbInv, NEW c \in Clients, Shapes', LocksInv', FileInv', ClientInv(c)',
         file \subseteq file', Others(c)
  PROVE  DbInv'
<1>1. ASSUME NEW d \in Clients \ {c} PROVE ClientInv(d)'
  <2>1. ClientInv(d)
    BY DEF DbInv
  <2>2. InCourse(d)' /\ Holds(d)'
    BY <2>1 DEF ClientInv, InCourse, Holds, Others
  <2>3. CreateInv(d) => CreateInv(d)'
    BY DEF CreateInv, Others
  <2>4. InsertInv(d) => InsertInv(d)'
    BY DEF InsertInv, Others
  <2>5. ProgressInv(d)'
    BY <2>1, <2>3, <2>4 DEF ClientInv, ProgressInv, Others
  <2>6. QED  BY <2>2, <2>5 DEF ClientInv
<1>2. QED  BY <1>1 DEF DbInv

\* A step of a client that moves it and changes what it holds, no more.
LEMMA Moves ==
  ASSUME DbInv, NEW c \in Clients, SameData, NEW p, Go(c, p),
         p \in Always \cup CoursePlaces(Program(c)),
         NEW things \in SUBSET Belongings, has' = [has EXCEPT ![c] = things],
         "transaction" \in has[c] => "transaction" \in things,
         Holds(c)', ProgressInv(c)'
  PROVE  DbInv'
<1> USE DEF DbInv, SameData, Go
<1>1. p \in DbPlaces
  BY ClientPrograms DEF DbPlaces, Always
<1>2. Shapes'
  BY <1>1 DEF Shapes
<1>3. LocksInv'
  BY DEF LocksInv, Shapes
<1>4. FileInv'
  BY DEF FileInv
<1>5. Others(c)
  BY DEF Others, Shapes
<1>6. at'[c] = p
  BY DEF Shapes
<1>7. InCourse(c)'
  BY <1>6 DEF InCourse, Always
<1>8. QED  BY <1>2, <1>3, <1>4, <1>5, <1>7, Frame DEF ClientInv

\* What the invariant says of one client.
LEMMA Mine ==
  ASSUME DbInv, NEW c \in Clients
  PROVE  /\ InCourse(c) /\ Holds(c) /\ ProgressInv(c)
         /\ has[c] \in SUBSET Belongings /\ work[c] \in SUBSET Facts
         /\ at[c] \in DbPlaces
         /\ \A p : at' = [at EXCEPT ![c] = p] => at'[c] = p
         /\ \A things : has' = [has EXCEPT ![c] = things] => has'[c] = things
         /\ \A new : todo' = [todo EXCEPT ![c] = new] => todo'[c] = new
         /\ \A facts : work' = [work EXCEPT ![c] = facts] => work'[c] = facts
BY DEF DbInv, ClientInv, Shapes

\* has is a function.
LEMMA HasStays == ASSUME DbInv, NEW c \in Clients PROVE has = [has EXCEPT ![c] = has[c]]
BY DEF DbInv, Shapes

\* The statements are no locks, no connection and no memory.
LEMMA StatementNames ==
  AllStatements = {"stmt1", "stmt2", "stmt3"} /\ \A n \in 0 .. 3 : {Stmt[k] : k \in 1 .. n} \subseteq AllStatements
BY DEF AllStatements, Stmt

\* The rows part12 has to insert are the elements of its list.
LEMMA AllRows == \A c \in Clients : Elements(RowList(c)) = RowsOf(c) /\ RowList(c) \in Seq(RowsOf(c))
<1> TAKE c \in Clients
<1> DEFINE n == 3 * InsertCount
<1>1. n \in Nat
  BY DatabaseAssumption
<1>2. RowList(c) = [k \in 1 .. n |-> RowList(c)[k]]
  BY DEF RowList
<1>3. \A k \in 1 .. n : RowList(c)[k] \in RowsOf(c)
  BY DEF RowsOf
<1> HIDE DEF n
<1>4. RowList(c) \in Seq(RowsOf(c)) /\ Len(RowList(c)) = n
  BY <1>1, <1>2, <1>3
<1>5. QED  BY <1>4 DEF Elements, RowsOf, n

\* The error path: wherever a step fails, what the client holds may go on to be
\* released.
LEMMA Failing ==
  ASSUME DbInv, NEW c \in Clients, at[c] \notin Always, SameData, Go(c, "error"),
         NEW things \in SUBSET Belongings, has' = [has EXCEPT ![c] = things],
         has[c] \subseteq things, "transaction" \in things \ has[c] => "db" \in has[c]
  PROVE  DbInv'
<1>1. at'[c] = "error" /\ has'[c] = things
  BY Mine DEF Go
<1>2. Holds(c)'
  BY <1>1, Mine DEF Holds, Stopped, Always
<1>3. ProgressInv(c)'
  BY <1>1, Mine DEF ProgressInv, CreateInv, InsertInv, SameData
<1>4. QED  BY <1>2, <1>3, Moves DEF Always

\* pthread_rwlock_wrlock.
LEMMA LockKeeps == ASSUME DbInv, NEW c \in Clients, Lock(c) PROVE DbInv'
<1> USE DEF Lock, Takes, Succeeds, Go
<1>1. Program(c) = "step2" /\ After(c) = "open" /\ "open" \in CoursePlaces(Program(c))
  BY Mine, Afters DEF Always, Stopped
<1> DEFINE things == has[c] \cup {"rwlock"}
<1>2. at'[c] = "open" /\ has'[c] = things /\ things \in SUBSET Belongings
  BY <1>1, Mine DEF Belongings
<1>3. Holds(c)'
  BY <1>2, Mine, StatementNames DEF Holds, Stopped
<1>4. ProgressInv(c)'
  BY <1>1, <1>2, Mine DEF ProgressInv, SameData
<1>5. QED  BY <1>1, <1>2, <1>3, <1>4, Moves

\* sqlite3_open_v2.
LEMMA OpenKeeps == ASSUME DbInv, NEW c \in Clients, OpenDatabase(c) PROVE DbInv'
<1> USE DEF OpenDatabase, Takes, Fails, Succeeds
<1> DEFINE things == has[c] \cup {"db"}
<1>1. things \in SUBSET Belongings
  BY Mine DEF Belongings
<1>2. CASE Succeeds(c) /\ Takes(c, {"db"})
  <2> USE DEF Go
  <2>1. Program(c) \in {"part11", "part12", "step2"} /\ After(c) = "key" /\ "key" \in CoursePlaces(Program(c))
    BY Mine, Afters DEF Always, Stopped
  <2>2. at'[c] = "key" /\ has'[c] = things
    BY <1>2, <2>1, Mine
  <2>3. Holds(c)'
    BY <2>2, Mine, StatementNames DEF Holds, Stopped
  <2>4. ProgressInv(c)'
    BY <2>1, <2>2, Mine DEF ProgressInv, CreateInv, InsertInv, SameData
  <2>5. QED  BY <1>1, <1>2, <2>1, <2>2, <2>3, <2>4, Moves
<1>3. CASE Go(c, "error") /\ (Takes(c, {"db"}) \/ UNCHANGED has)
  BY <1>1, <1>3, HasStays, Failing, Mine DEF Always, Stopped
<1>4. QED  BY <1>2, <1>3

\* The key, and the settings of the cache.
LEMMA KeyKeeps == ASSUME DbInv, NEW c \in Clients, KeyAndCache(c) PROVE DbInv'
<1> USE DEF KeyAndCache, Fails, Succeeds
<1>1. CASE Succeeds(c)
  <2> USE DEF Go
  <2>1. /\ After(c) \in {"cache", "begin"} /\ After(c) \in CoursePlaces(Program(c))
        /\ Program(c) \in {"part11", "part12"} => at[c] = "key" /\ After(c) = "begin"
        /\ Program(c) # "step1"
    BY Mine, Afters DEF Always, Stopped
  <2>2. at'[c] = After(c) /\ has'[c] = has[c] /\ has' = [has EXCEPT ![c] = has[c]]
    BY <1>1, Mine, HasStays
  <2>3. Holds(c)'
    BY <2>1, <2>2, Mine, StatementNames DEF Holds, Stopped
  <2>4. ProgressInv(c)'
    BY <2>1, <2>2, Mine DEF ProgressInv, CreateInv, InsertInv, SameData
  <2>5. QED  BY <1>1, <2>1, <2>2, <2>3, <2>4, Mine, Moves
<1>2. CASE Go(c, "error")
  BY <1>2, HasStays, Failing, Mine DEF Always, Stopped
<1>3. QED  BY <1>1, <1>2

\* begin transaction.
LEMMA BeginKeeps == ASSUME DbInv, NEW c \in Clients, BeginTransaction(c) PROVE DbInv'
<1> USE DEF BeginTransaction, Fails, Succeeds, Takes
<1> DEFINE things == has[c] \cup {"transaction"}
<1>1. CASE Succeeds(c) /\ Takes(c, {"transaction"})
  <2> USE DEF Go
  <2>1. /\ Program(c) \in {"part11", "part12"} => After(c) = "prepare"
        /\ Program(c) \notin {"part11", "part12"} => Program(c) = "step2" /\ After(c) = "commit"
        /\ After(c) \in CoursePlaces(Program(c))
    BY Mine, Afters DEF Always, Stopped
  <2>2. at'[c] = After(c) /\ has'[c] = things /\ things \in SUBSET Belongings
    BY <1>1, Mine DEF Belongings
  <2>3. Holds(c)'
    BY <2>1, <2>2, Mine, StatementNames DEF Holds, Stopped
  <2>4. ProgressInv(c)'
    BY <2>1, <2>2, Mine DEF ProgressInv, CreateInv, InsertInv, SameData
  <2>5. QED  BY <1>1, <2>1, <2>2, <2>3, <2>4, Moves
<1>2. CASE Go(c, "error") /\ UNCHANGED has
  BY <1>2, HasStays, Failing, Mine DEF Always, Stopped
<1>3. QED  BY <1>1, <1>2

\* The statements of the program, or those before one that cannot be prepared.
LEMMA PrepareKeeps == ASSUME DbInv, NEW c \in Clients, Prepare(c) PROVE DbInv'
<1>1. /\ \/ Program(c) = "part11" /\ After(c) = "check"
         \/ Program(c) = "part12" /\ After(c) = "insert"
         \/ Program(c) = "step3" /\ After(c) = "bind"
      /\ After(c) \in CoursePlaces(Program(c))
  BY Mine, Afters DEF Prepare, Always, Stopped
<1>2. Statements[Program(c)] \in 1 .. 3
  BY <1>1 DEF Statements
<1>3. PICK n \in 0 .. 3 :
        /\ Takes(c, {Stmt[k] : k \in 1 .. n})
        /\ Succeeds(c) \/ Go(c, "error")
        /\ SameData /\ at[c] = "prepare"
  <2> DEFINE m == Statements[Program(c)]
  <2>1. SameData /\ at[c] = "prepare"
    BY DEF Prepare
  <2>2. CASE Succeeds(c) /\ Takes(c, {Stmt[k] : k \in 1 .. m})
    BY <1>2, <2>1, <2>2
  <2>3. CASE \E bad \in 1 .. m : Go(c, "error") /\ Takes(c, {Stmt[k] : k \in 1 .. bad - 1})
    <3>1. PICK bad \in 1 .. m : Go(c, "error") /\ Takes(c, {Stmt[k] : k \in 1 .. bad - 1})
      BY <2>3
    <3>2. bad - 1 \in 0 .. 3
      BY <1>2
    <3>3. QED  BY <2>1, <3>1, <3>2
  <2>4. QED  BY <2>2, <2>3, Zenon DEF Prepare
<1> DEFINE things == has[c] \cup {Stmt[k] : k \in 1 .. n}
<1>4. has[c] \subseteq things /\ things \in SUBSET Belongings /\ things \ has[c] \subseteq AllStatements
  BY Mine, StatementNames DEF Belongings
<1>5. has' = [has EXCEPT ![c] = things]
  BY <1>3 DEF Takes
<1> HIDE DEF things
<1>6. CASE Go(c, "error")
  <2>1. "transaction" \notin things \ has[c] /\ at[c] \notin Always
    BY <1>3, <1>4, StatementNames DEF Always, Stopped
  <2>2. QED  BY <1>3, <1>4, <1>5, <1>6, <2>1, Failing DEF things
<1>7. CASE Succeeds(c)
  <2>1. at'[c] = After(c) /\ has'[c] = things
    BY <1>5, <1>7, Mine DEF Succeeds, Go
  <2>2. Holds(c)'
    BY <1>1, <1>3, <1>4, <2>1, Mine, StatementNames DEF Holds, Stopped, things
  <2>3. ProgressInv(c)'
    BY <1>1, <1>3, <2>1, Mine, AllRows DEF ProgressInv, CreateInv, InsertInv, SameData
  <2>4. QED  BY <1>1, <1>3, <1>4, <1>5, <1>7, <2>1, <2>2, <2>3, Moves DEF Succeeds, things
<1>8. QED  BY <1>3, <1>6, <1>7

\* The binding that always fails.
LEMMA BindKeeps == ASSUME DbInv, NEW c \in Clients, Bind(c) PROVE DbInv'
BY HasStays, Failing, Mine DEF Bind, Always, Stopped

\* sqlite3_finalize.
LEMMA FinalizeKeeps == ASSUME DbInv, NEW c \in Clients, Finalize(c) PROVE DbInv'
<1> USE DEF Finalize, Succeeds, Drops, Go
<1>1. Program(c) \in {"part11", "part12"} /\ After(c) = "commit" /\ "commit" \in CoursePlaces(Program(c))
  BY Mine, Afters DEF Always, Stopped
<1> DEFINE things == has[c] \ AllStatements
<1>2. at'[c] = "commit" /\ has'[c] = things /\ things \in SUBSET Belongings
  BY <1>1, Mine DEF AllStatements
<1>3. Holds(c)'
  BY <1>1, <1>2, Mine, StatementNames DEF Holds, Stopped
<1>4. ProgressInv(c)'
  BY <1>1, <1>2, Mine DEF ProgressInv, CreateInv, InsertInv, SameData
<1>5. QED  BY <1>1, <1>2, <1>3, <1>4, Mine, Moves, StatementNames DEF AllStatements

\* kcValidateUserStep1 copies the name of the user and the password.
LEMMA TakeTextKeeps == ASSUME DbInv, NEW c \in Clients, TakeText(c) PROVE DbInv'
<1>1. CASE Takes(c, {at[c]}) /\ Succeeds(c)
  <2> USE DEF TakeText, Takes, Succeeds, Go
  <2> DEFINE things == has[c] \cup {at[c]}
  <2>1. /\ Program(c) = "step1"
        /\ (at[c] = "userid" /\ After(c) = "mobile") \/ (at[c] = "password" /\ After(c) = "close")
        /\ After(c) \in CoursePlaces(Program(c))
    BY Mine, Afters DEF Always, Stopped
  <2>2. at'[c] = After(c) /\ has'[c] = things /\ things \in SUBSET Belongings
    BY <1>1, <2>1, Mine DEF Belongings
  <2>3. Holds(c)'
    BY <2>1, <2>2, Mine, StatementNames DEF Holds, Stopped
  <2>4. ProgressInv(c)'
    BY <2>1, <2>2, Mine DEF ProgressInv, SameData
  <2>5. QED  BY <1>1, <2>1, <2>2, <2>3, <2>4, Moves
<1>2. CASE UNCHANGED has /\ Go(c, "error")
  BY <1>2, HasStays, Failing, Mine DEF TakeText, Always, Stopped
<1>3. QED  BY <1>1, <1>2 DEF TakeText

\* The error label releases the statements.
LEMMA ReleaseKeeps == ASSUME DbInv, NEW c \in Clients, ReleaseStatements(c) PROVE DbInv'
<1> USE DEF ReleaseStatements, Drops, Go
<1> DEFINE things == has[c] \ AllStatements
<1>1. at'[c] = "rollback" /\ has'[c] = things /\ things \in SUBSET Belongings
  BY Mine DEF AllStatements
<1>2. Holds(c)'
  BY <1>1, Mine, StatementNames DEF Holds, Stopped
<1>3. ProgressInv(c)'
  BY <1>1, Mine DEF ProgressInv, CreateInv, InsertInv, SameData
<1>4. QED  BY <1>1, <1>2, <1>3, Mine, Moves, StatementNames DEF AllStatements, Always

\* The first element of a sequence, and the others.
LEMMA FirstAndRest ==
  ASSUME NEW S, NEW s \in Seq(S), s # <<>>
  PROVE  /\ Head(s) \in S /\ Tail(s) \in Seq(S)
         /\ Elements(s) = {Head(s)} \cup Elements(Tail(s))
<1>1. Len(s) \in Nat \ {0} /\ Tail(s) \in Seq(S) /\ Head(s) = s[1] /\ Head(s) \in S
  OBVIOUS
<1>2. Len(Tail(s)) = Len(s) - 1 /\ \A k \in 1 .. Len(s) - 1 : Tail(s)[k] = s[k + 1]
  OBVIOUS
<1>3. ASSUME NEW k \in 1 .. Len(s) PROVE s[k] \in {Head(s)} \cup Elements(Tail(s))
  <2>1. CASE k = 1  BY <1>1, <2>1
  <2>2. CASE k # 1
    <3>1. k - 1 \in 1 .. Len(Tail(s)) /\ Tail(s)[k - 1] = s[k]
      BY <1>1, <1>2, <2>2
    <3>2. QED  BY <3>1 DEF Elements
  <2>3. QED  BY <2>1, <2>2
<1>4. ASSUME NEW k \in 1 .. Len(Tail(s)) PROVE Tail(s)[k] \in Elements(s)
  <2>1. k + 1 \in 1 .. Len(s) /\ Tail(s)[k] = s[k + 1]
    BY <1>1, <1>2
  <2>2. QED  BY <2>1 DEF Elements
<1>5. Head(s) \in Elements(s)
  BY <1>1 DEF Elements
<1>6. QED  BY <1>1, <1>3, <1>4, <1>5 DEF Elements

\* The list of missing tables names each that is not in the file.
LEMMA MissingTables ==
  LET missing == IfMissing("fivefifty") \o IfMissing("filepointers") IN
    missing \in Seq(Tables) /\ \A t \in Tables : <<t>> \in file \/ t \in Elements(missing)
<1> DEFINE missing == IfMissing("fivefifty") \o IfMissing("filepointers")
<1> DEFINE first == IfMissing("fivefifty")
           second == IfMissing("filepointers")
<1>1. /\ IF <<"fivefifty">> \in file THEN first = <<>> ELSE first = <<"fivefifty">>
      /\ IF <<"filepointers">> \in file THEN second = <<>> ELSE second = <<"filepointers">>
  BY DEF IfMissing
<1> HIDE DEF first, second, missing
<1>2. first \in Seq(Tables) /\ second \in Seq(Tables)
  <2>1. first \in {<<>>, <<"fivefifty">>} /\ second \in {<<>>, <<"filepointers">>}
    BY <1>1
  <2>2. {<<>>, <<"fivefifty">>, <<"filepointers">>} \subseteq Seq(Tables)
    BY DEF Tables
  <2>3. QED  BY <2>1, <2>2
<1>3. /\ Len(missing) = Len(first) + Len(second) /\ missing \in Seq(Tables)
      /\ \A k \in 1 .. Len(missing) :
           missing[k] = IF k <= Len(first) THEN first[k] ELSE second[k - Len(first)]
  <2> HIDE <1>1
  <2>1. \A S : \A s, t \in Seq(S) :
          /\ s \o t \in Seq(S) /\ Len(s \o t) = Len(s) + Len(t)
          /\ \A k \in 1 .. Len(s \o t) : (s \o t)[k] = IF k <= Len(s) THEN s[k] ELSE t[k - Len(s)]
    OBVIOUS
  <2>2. missing = first \o second
    BY DEF first, second, missing
  <2>3. QED  BY <1>2, <2>1, <2>2
<1>4. <<"fivefifty">> \in file \/ "fivefifty" \in Elements(missing)
  <2> SUFFICES ASSUME <<"fivefifty">> \notin file PROVE "fivefifty" \in Elements(missing)
    OBVIOUS
  <2>1. Len(first) = 1 /\ first[1] = "fivefifty" /\ Len(second) \in Nat
    BY <1>1, <1>2
  <2>2. 1 \in 1 .. Len(missing) /\ missing[1] = "fivefifty"
    BY <1>3, <2>1
  <2>3. QED  BY <2>2 DEF Elements
<1>5. <<"filepointers">> \in file \/ "filepointers" \in Elements(missing)
  <2> SUFFICES ASSUME <<"filepointers">> \notin file PROVE "filepointers" \in Elements(missing)
    OBVIOUS
  <2>1. Len(second) = 1 /\ second[1] = "filepointers" /\ Len(first) \in Nat
    BY <1>1, <1>2
  <2>2. Len(first) + 1 \in 1 .. Len(missing) /\ missing[Len(first) + 1] = "filepointers"
    BY <1>3, <2>1
  <2>3. QED  BY <2>2 DEF Elements
<1>6. QED  BY <1>3, <1>4, <1>5 DEF Tables, missing, first, second

\* The sets of what part11 and part12 write.
LEMMA Written ==
  /\ \A t \in Tables : t \in Objects /\ Created[t] \subseteq Objects /\ t \in Created[t]
  /\ \A t \in Tables : Created[t] \subseteq Creates(t) /\ Creates(t) \subseteq Objects
  /\ Objects = Created["fivefifty"] \cup Created["filepointers"]
  /\ Names(Objects) \subseteq Facts /\ \A c \in Clients : RowsOf(c) \subseteq Facts
  /\ \A S, T : S \subseteq T => Names(S) \subseteq Names(T)
<1>1. /\ \A t \in Tables : t \in Objects /\ Created[t] \subseteq Objects /\ t \in Created[t]
      /\ \A t \in Tables : Created[t] \subseteq Creates(t) /\ Creates(t) \subseteq Objects
      /\ Objects = Created["fivefifty"] \cup Created["filepointers"]
  BY DEF Tables, Objects, Created, Creates
<1>2. \A S, T : S \subseteq T => Names(S) \subseteq Names(T)
  BY DEF Names
<1>3. QED  BY <1>1, <1>2 DEF Facts

\* kcCheckSqlite3Object asks for the tables.
LEMMA CheckKeeps == ASSUME DbInv, NEW c \in Clients, CheckTables(c) PROVE DbInv'
<1> USE DEF CheckTables, Reads, Succeeds, Fails, Go
<1>1. Program(c) = "part11" /\ After(c) = "create" /\ "create" \in CoursePlaces(Program(c))
  BY Mine, Afters DEF Always, Stopped
<1> DEFINE missing == IfMissing("fivefifty") \o IfMissing("filepointers")
<1>2. missing \in Seq(Tables) /\ \A t \in Tables : <<t>> \in file \/ t \in Elements(missing)
  BY MissingTables
<1> HIDE DEF missing
<1>3. \/ at'[c] = "create" /\ todo'[c] = missing /\ at' = [at EXCEPT ![c] = "create"]
      \/ at'[c] = "error" /\ todo'[c] = todo[c] /\ at' = [at EXCEPT ![c] = "error"]
  BY <1>1, Mine DEF missing
<1>4. Others(c)
  BY DEF Others, DbInv, Shapes
<1>5. Shapes'
  <2>1. {"create", "error"} \subseteq DbPlaces
    BY <1>1, Programs DEF DbPlaces
  <2>2. at' \in [Clients -> DbPlaces] /\ todo' = [d \in Clients |-> todo'[d]]
    BY <1>3, <2>1, Z3T(30) DEF DbInv, Shapes
  <2>3. QED  BY <2>2 DEF DbInv, Shapes
<1>6. LocksInv'
  BY DEF DbInv, LocksInv
<1>7. FileInv'
  BY DEF DbInv, FileInv
<1>8. InCourse(c)'
  BY <1>1, <1>3 DEF InCourse
<1>9. Holds(c)'
  BY <1>1, <1>3, Mine DEF Holds, Stopped
<1>10. ProgressInv(c)'
  <2>1. \A t \in Tables : t \in Elements(missing) \/ Names(Created[t]) \subseteq file
    BY <1>2 DEF DbInv, FileInv
  <2>2. CreateInv(c)
    BY <1>1, Mine DEF ProgressInv
  <2>3. CreateInv(c)'
    BY <1>2, <1>3, <2>1, <2>2 DEF CreateInv
  <2>4. QED  BY <1>1, <2>3 DEF ProgressInv
<1>11. QED  BY <1>4, <1>5, <1>6, <1>7, <1>8, <1>9, <1>10, Frame DEF ClientInv

\* A step of part11 or part12 in its transaction, which may write and lock.
LEMMA Writing ==
  ASSUME DbInv, NEW c \in Clients, at[c] \in {"create", "insert"},
         UNCHANGED <<file, has, matched>>,
         NEW facts \in SUBSET Facts, work' = [work EXCEPT ![c] = facts],
         NEW rest, todo' = [todo EXCEPT ![c] = rest],
         shared' \subseteq shared \cup {c}, reserved' \subseteq reserved \cup {c},
         NEW p, at' = [at EXCEPT ![c] = p], p \in {at[c], "error", "finalize"},
         ProgressInv(c)'
  PROVE  DbInv'
<1>1. /\ Program(c) \in {"part11", "part12"} /\ "transaction" \in has[c]
      /\ "finalize" \in CoursePlaces(Program(c)) /\ at[c] \in CoursePlaces(Program(c))
  <2>1. Program(c) \in {"part11", "part12"} /\ at[c] \in CoursePlaces(Program(c))
    BY Mine, Afters DEF InCourse, Stopped
  <2>2. "finalize" \in CoursePlaces(Program(c))
    BY <2>1, AfterPart11, AfterPart12
  <2>3. QED  BY <2>1, <2>2, Mine DEF Holds
<1>2. at'[c] = p
  BY Mine
<1>3. Others(c)
  BY DEF Others, DbInv, Shapes
<1>4. Shapes'
  <2>1. p \in DbPlaces
    BY <1>1, ClientPrograms DEF DbPlaces
  <2>2. /\ at' \in [Clients -> DbPlaces] /\ work' \in [Clients -> SUBSET Facts]
        /\ todo' = [d \in Clients |-> todo'[d]]
    BY <2>1 DEF DbInv, Shapes
  <2>3. QED  BY <2>2 DEF DbInv, Shapes
<1>5. LocksInv'
  BY <1>1 DEF DbInv, LocksInv
<1>6. FileInv'
  BY DEF DbInv, FileInv
<1>7. InCourse(c)'
  BY <1>1, <1>2 DEF InCourse
<1>8. Holds(c)'
  BY <1>1, <1>2, Mine DEF Holds, Stopped
<1>9. QED  BY <1>3, <1>4, <1>5, <1>6, <1>7, <1>8, Frame DEF ClientInv

\* work, todo and at are functions.
LEMMA FunctionsStay ==
  ASSUME DbInv, NEW c \in Clients
  PROVE  /\ work = [work EXCEPT ![c] = work[c]] /\ todo = [todo EXCEPT ![c] = todo[c]]
         /\ at = [at EXCEPT ![c] = at[c]]
BY DEF DbInv, Shapes

\* What Writes does in a transaction.
LEMMA WritesMore ==
  ASSUME DbInv, NEW c \in Clients, "transaction" \in has[c], NEW facts, Writes(c, facts)
  PROVE  /\ work' = [work EXCEPT ![c] = work[c] \cup facts]
         /\ shared' \subseteq shared \cup {c} /\ reserved' \subseteq reserved \cup {c}
         /\ UNCHANGED <<file, matched>>
BY DEF Writes, Reads

\* kcCheckSqlite3Object creates the tables that are missing.
LEMMA CreateKeeps == ASSUME DbInv, NEW c \in Clients, CreateTables(c) PROVE DbInv'
<1>1. /\ Program(c) = "part11" /\ After(c) = "finalize" /\ at[c] = "create"
      /\ CreateInv(c) /\ "transaction" \in has[c] /\ work[c] \subseteq Facts
  BY Mine, Afters DEF CreateTables, Always, Stopped, ProgressInv, Holds
<1> DEFINE first == Head(todo[c])
           rest == Tail(todo[c])
<1>2. CASE todo[c] = <<>>
  <2>1. Succeeds(c) /\ SameData /\ UNCHANGED has
    BY <1>2 DEF CreateTables
  <2>2. Elements(todo[c]) = {}
    BY <1>2 DEF Elements
  <2>3. \A t \in Tables : Names(Created[t]) \subseteq file \cup work[c]
    BY <1>1, <2>2 DEF CreateInv
  <2>4. Names(Objects) \subseteq file \cup work[c]
    BY <2>3, Written DEF Tables, Names
  <2>5. at' = [at EXCEPT ![c] = "finalize"] /\ at'[c] = "finalize"
    BY <1>1, <2>1, Mine DEF Succeeds, Go
  <2>6. ProgressInv(c)'
    BY <1>1, <2>1, <2>4, <2>5 DEF ProgressInv, CreateInv, SameData
  <2>7. QED  BY <1>1, <2>1, <2>5, <2>6, Writing, FunctionsStay DEF SameData
<1>3. CASE todo[c] # <<>>
  <2>1. /\ first \in Tables /\ rest \in Seq(Tables)
        /\ Elements(todo[c]) = {first} \cup Elements(rest)
    BY <1>1, <1>3, FirstAndRest DEF CreateInv
  <2>2. /\ \/ Writes(c, Names(Creates(first))) /\ UNCHANGED at
           \/ Writes(c, Names({first})) /\ Fails(c, "exec")
           \/ Busy(c)
        /\ todo' = [todo EXCEPT ![c] = rest] /\ UNCHANGED has
    BY <1>3 DEF CreateTables
  <2>3. todo'[c] = rest
    BY <2>2, Mine
  <2> HIDE DEF first, rest
  <2>4. CASE Writes(c, Names(Creates(first))) /\ UNCHANGED at
    <3> DEFINE facts == work[c] \cup Names(Creates(first))
    <3>1. /\ Names(Creates(first)) \subseteq Names(Objects) /\ Names(Objects) \subseteq Facts
          /\ Names(Created[first]) \subseteq Names(Creates(first))
      BY <2>1, Written
    <3>2. /\ work' = [work EXCEPT ![c] = facts] /\ UNCHANGED <<file, matched>>
          /\ shared' \subseteq shared \cup {c} /\ reserved' \subseteq reserved \cup {c}
      BY <1>1, <2>4, WritesMore
    <3>3. work'[c] = facts /\ facts \in SUBSET Facts
      BY <1>1, <3>1, <3>2, Mine
    <3>4. CreateInv(c)'
      BY <1>1, <2>1, <2>3, <2>4, <3>1, <3>2, <3>3 DEF CreateInv
    <3>5. ProgressInv(c)'
      BY <1>1, <3>4 DEF ProgressInv
    <3> HIDE DEF facts
    <3>6. QED  BY <1>1, <2>2, <2>4, <3>2, <3>3, <3>5, Writing, FunctionsStay DEF facts, rest
  <2>5. CASE Writes(c, Names({first})) /\ Fails(c, "exec")
    <3> DEFINE facts == work[c] \cup Names({first})
    <3>1. Names({first}) \subseteq Names(Objects) /\ Names(Objects) \subseteq Facts
      BY <2>1, Written
    <3>2. /\ work' = [work EXCEPT ![c] = facts] /\ UNCHANGED <<file, matched>>
          /\ shared' \subseteq shared \cup {c} /\ reserved' \subseteq reserved \cup {c}
      BY <1>1, <2>5, WritesMore
    <3>3. work'[c] = facts /\ facts \in SUBSET Facts
      BY <1>1, <3>1, <3>2, Mine
    <3>4. at' = [at EXCEPT ![c] = "error"] /\ at'[c] = "error"
      BY <2>5, Mine DEF Fails, Go
    <3>5. CreateInv(c)'
      BY <1>1, <2>1, <2>3, <3>1, <3>3, <3>4 DEF CreateInv
    <3>6. ProgressInv(c)'
      BY <1>1, <3>5 DEF ProgressInv
    <3> HIDE DEF facts
    <3>7. QED  BY <1>1, <2>2, <3>2, <3>3, <3>4, <3>6, Writing DEF facts, rest
  <2>6. CASE Busy(c)
    <3>1. at' = [at EXCEPT ![c] = "error"] /\ at'[c] = "error"
      BY <2>6, Mine DEF Busy, Go
    <3>2. UNCHANGED <<file, work, reserved, shared, matched>>
      BY <2>6 DEF Busy
    <3>3. ProgressInv(c)'
      BY <1>1, <2>1, <2>3, <3>1, <3>2 DEF ProgressInv, CreateInv
    <3>4. QED  BY <1>1, <2>2, <3>1, <3>2, <3>3, Writing, FunctionsStay DEF rest
  <2>7. QED  BY <2>2, <2>4, <2>5, <2>6
<1>4. QED  BY <1>2, <1>3

\* kcInsert executes the statement of the next row.
LEMMA InsertKeeps == ASSUME DbInv, NEW c \in Clients, InsertRow(c) PROVE DbInv'
<1>1. /\ Program(c) = "part12" /\ After(c) = "finalize" /\ at[c] = "insert"
      /\ InsertInv(c) /\ "transaction" \in has[c] /\ work[c] \subseteq Facts
  BY Mine, Afters DEF InsertRow, Always, Stopped, ProgressInv, Holds
<1> DEFINE row == Head(todo[c])
           rest == Tail(todo[c])
<1>2. CASE todo[c] = <<>>
  <2>1. Succeeds(c) /\ SameData /\ UNCHANGED has
    BY <1>2 DEF InsertRow
  <2>2. Elements(todo[c]) = {}
    BY <1>2 DEF Elements
  <2>3. work[c] = RowsOf(c)
    BY <1>1, <2>2 DEF InsertInv
  <2>4. at' = [at EXCEPT ![c] = "finalize"] /\ at'[c] = "finalize"
    BY <1>1, <2>1, Mine DEF Succeeds, Go
  <2>5. ProgressInv(c)'
    BY <1>1, <2>1, <2>3, <2>4 DEF ProgressInv, InsertInv, SameData
  <2>6. QED  BY <1>1, <2>1, <2>4, <2>5, Writing, FunctionsStay DEF SameData
<1>3. CASE todo[c] # <<>>
  <2>1. /\ row \in RowsOf(c) /\ rest \in Seq(RowsOf(c))
        /\ Elements(todo[c]) = {row} \cup Elements(rest)
    BY <1>1, <1>3, FirstAndRest DEF InsertInv
  <2>2. /\ \/ Writes(c, {row}) /\ UNCHANGED at
           \/ Go(c, "error") /\ UNCHANGED <<file, work, reserved, shared, matched>>
        /\ todo' = [todo EXCEPT ![c] = rest] /\ UNCHANGED has
    BY <1>3 DEF InsertRow, Busy
  <2>3. todo'[c] = rest
    BY <2>2, Mine
  <2> HIDE DEF row, rest
  <2>4. CASE Writes(c, {row}) /\ UNCHANGED at
    <3> DEFINE facts == work[c] \cup {row}
    <3>1. row \in Facts
      BY <2>1, Written
    <3>2. /\ work' = [work EXCEPT ![c] = facts] /\ UNCHANGED <<file, matched>>
          /\ shared' \subseteq shared \cup {c} /\ reserved' \subseteq reserved \cup {c}
      BY <1>1, <2>4, WritesMore
    <3>3. work'[c] = facts /\ facts \in SUBSET Facts
      BY <1>1, <3>1, <3>2, Mine
    <3>4. InsertInv(c)'
      BY <1>1, <2>1, <2>3, <2>4, <3>2, <3>3 DEF InsertInv
    <3>5. ProgressInv(c)'
      BY <1>1, <3>4 DEF ProgressInv
    <3> HIDE DEF facts
    <3>6. QED  BY <1>1, <2>2, <2>4, <3>2, <3>3, <3>5, Writing, FunctionsStay DEF facts, rest
  <2>5. CASE Go(c, "error") /\ UNCHANGED <<file, work, reserved, shared, matched>>
    <3>1. at' = [at EXCEPT ![c] = "error"] /\ at'[c] = "error"
      BY <2>5, Mine DEF Go
    <3>2. ProgressInv(c)'
      BY <1>1, <2>1, <2>3, <2>5, <3>1 DEF ProgressInv, InsertInv
    <3>3. QED  BY <1>1, <2>2, <2>5, <3>1, <3>2, Writing, FunctionsStay DEF rest
  <2>6. QED  BY <2>2, <2>4, <2>5
<1>4. QED  BY <1>2, <1>3

\* A step that ends a transaction and its locks.
LEMMA Ending ==
  ASSUME DbInv, NEW c \in Clients, UNCHANGED <<todo, matched>>, LeavesLocks(c),
         file' = file \/ file' = file \cup work[c], FileInv',
         NEW things \in SUBSET Belongings, has' = [has EXCEPT ![c] = things],
         work' = [work EXCEPT ![c] = {}],
         NEW p, Go(c, p), p \in Always \cup CoursePlaces(Program(c)),
         Holds(c)', ProgressInv(c)'
  PROVE  DbInv'
<1> USE DEF Go
<1>1. at'[c] = p
  BY Mine
<1>2. Others(c)
  BY DEF Others, DbInv, Shapes
<1>3. Shapes'
  <2>1. p \in DbPlaces
    BY ClientPrograms DEF DbPlaces, Always
  <2>2. /\ at' \in [Clients -> DbPlaces] /\ work' \in [Clients -> SUBSET Facts]
        /\ has' \in [Clients -> SUBSET Belongings]
    BY <2>1 DEF DbInv, Shapes
  <2>3. file' \subseteq Facts
    BY Mine DEF DbInv, Shapes
  <2>4. QED  BY <2>2, <2>3 DEF DbInv, Shapes, LeavesLocks
<1>4. LocksInv'
  BY DEF DbInv, LocksInv, LeavesLocks, Shapes
<1>5. InCourse(c)'
  BY <1>1 DEF InCourse, Always
<1>6. QED  BY <1>2, <1>3, <1>4, <1>5, Frame DEF ClientInv

\* A row has three columns, and so is no table.
LEMMA RowsAreNoTables == \A c \in Clients : \A t : <<t>> \notin RowsOf(c)
<1> SUFFICES ASSUME NEW c \in Clients, NEW t, NEW n \in 1 .. 3 * InsertCount, RowList(c)[n] = <<t>>
             PROVE FALSE
  BY DEF RowsOf
<1>1. RowList(c)[n] = Row(c, (n + 2) \div 3, 1 + ((n - 1) % 3))
  BY DEF RowList
<1>2. \A a, b, d : <<a, b, d>> # <<t>>
  <2> TAKE a, b, d
  <2>1. Len(<<a, b, d>>) = 3 /\ Len(<<t>>) = 1
    OBVIOUS
  <2>2. QED  BY <2>1
<1>3. QED  BY <1>1, <1>2 DEF Row

\* What commit adds to the file keeps each table with its index.
LEMMA CommitsWhole ==
  ASSUME DbInv, NEW c \in Clients, at[c] = "commit", file' = file \cup work[c]
  PROVE  FileInv' /\ (\/ file' = file
                      \/ file \subseteq file' /\ Names(Objects) \subseteq file'
                      \/ file' = file \cup RowsOf(c))
<1>1. Program(c) \in {"part11", "part12", "step2"}
  BY Mine, Afters DEF Always, Stopped
<1>2. CASE Program(c) = "part11"
  <2>1. Names(Objects) \subseteq file'
    BY <1>2, Mine DEF ProgressInv, CreateInv
  <2>2. FileInv'
    BY <2>1, Written DEF FileInv
  <2>3. QED  BY <2>1, <2>2
<1>3. CASE Program(c) = "part12"
  <2>1. work[c] = RowsOf(c)
    BY <1>3, Mine DEF ProgressInv, InsertInv
  <2>2. FileInv'
    BY <2>1, RowsAreNoTables DEF DbInv, FileInv
  <2>3. QED  BY <2>1, <2>2
<1>4. CASE Program(c) = "step2"
  <2>1. work[c] = {}
    BY <1>4, Mine DEF ProgressInv
  <2>2. QED  BY <2>1 DEF DbInv, FileInv
<1>5. QED  BY <1>1, <1>2, <1>3, <1>4

\* commit, which fails when another client reads the file.
LEMMA CommitKeeps == ASSUME DbInv, NEW c \in Clients, Commit(c) PROVE DbInv'
<1>1. /\ Program(c) \in {"part11", "part12", "step2"} /\ After(c) = "close"
      /\ "close" \in CoursePlaces(Program(c)) /\ at[c] = "commit"
  BY Mine, Afters DEF Commit, Always, Stopped
<1> DEFINE things == has[c] \ {"transaction"}
<1>2. CASE /\ Succeeds(c) /\ file' = file \cup work[c] /\ LeavesLocks(c)
           /\ Drops(c, {"transaction"}) /\ work' = [work EXCEPT ![c] = {}]
           /\ UNCHANGED <<todo, matched>>
  <2>1. FileInv'
    BY <1>1, <1>2, CommitsWhole
  <2>2. /\ has' = [has EXCEPT ![c] = things] /\ Go(c, "close")
        /\ things \in SUBSET Belongings
    BY <1>1, <1>2, Mine DEF Drops, Succeeds
  <2>3. has'[c] = things /\ at'[c] = "close" /\ work'[c] = {}
    BY <1>2, <2>2, Mine DEF Go
  <2>4. Holds(c)'
    BY <1>1, <2>3, Mine DEF Holds, Stopped
  <2>5. ProgressInv(c)'
    BY <1>1, <1>2, <2>3, Mine DEF ProgressInv, CreateInv, InsertInv
  <2> HIDE DEF things
  <2>6. QED  BY <1>1, <1>2, <2>1, <2>2, <2>4, <2>5, Ending DEF things
<1>3. CASE Go(c, "error") /\ UNCHANGED <<file, work, has, shared, reserved, todo, matched>>
  BY <1>1, <1>3, HasStays, Failing, Mine DEF SameData, Always, Stopped
<1>4. QED  BY <1>2, <1>3 DEF Commit

\* sqlite3_close_v2, and the end of a program that has succeeded.
LEMMA CloseKeeps == ASSUME DbInv, NEW c \in Clients, Close(c) PROVE DbInv'
<1> USE DEF Close, Ends, Succeeds, Drops
<1>1. Program(c) # "step3" /\ After(c) = "done" /\ at[c] = "close"
  BY Mine, Afters DEF Always, Stopped
<1> DEFINE things == has[c] \ Everything(c)
<1>2. things = {}
  BY <1>1, Mine DEF Holds, Everything, Belongings
<1>3. has'[c] = {} /\ at'[c] = "done" /\ work'[c] = {} /\ Go(c, "done")
  BY <1>1, <1>2, Mine DEF Go
<1>4. Holds(c)'
  BY <1>3 DEF Holds, Stopped
<1>5. ProgressInv(c)'
  BY <1>1, <1>3, Mine DEF ProgressInv, CreateInv, InsertInv
<1>6. FileInv'
  BY DEF DbInv, FileInv
<1>7. QED  BY <1>2, <1>3, <1>4, <1>5, <1>6, Ending DEF Always, Stopped

\* kcCheckGetMobile.
LEMMA MatchKeeps == ASSUME DbInv, NEW c \in Clients, MatchMobile(c) PROVE DbInv'
<1> USE DEF MatchMobile, Succeeds, Go
<1>1. /\ Program(c) = "step1" /\ After(c) = "password" /\ at[c] = "mobile"
      /\ {"mobile", "password"} \subseteq CoursePlaces(Program(c))
  BY Mine, Afters, AfterStep1 DEF Always, Stopped
<1>2. /\ matched' \in [Clients -> {"none", "found", "unknown"}]
      /\ \A d \in Clients \ {c} : matched'[d] = matched[d]
      /\ \/ at' = [at EXCEPT ![c] = "password"] /\ Known(matched'[c])
         \/ at' = [at EXCEPT ![c] = "error"]
  BY <1>1 DEF DbInv, Shapes, Known
<1>3. (at'[c] = "password" /\ Known(matched'[c])) \/ at'[c] = "error"
  BY <1>2, Mine
<1>4. Others(c)
  BY <1>2 DEF Others, DbInv, Shapes
<1>5. Shapes'
  <2>1. {"password", "error"} \subseteq DbPlaces
    BY <1>1, ClientPrograms DEF DbPlaces
  <2>2. at' \in [Clients -> DbPlaces]
    BY <1>2, <2>1 DEF DbInv, Shapes
  <2>3. QED  BY <1>2, <2>2 DEF DbInv, Shapes
<1>6. LocksInv' /\ FileInv'
  BY DEF DbInv, LocksInv, FileInv
<1>7. InCourse(c)'
  BY <1>1, <1>3 DEF InCourse
<1>8. Holds(c)'
  BY <1>1, <1>3, Mine DEF Holds, Stopped
<1>9. ProgressInv(c)'
  BY <1>1, <1>3, Mine DEF ProgressInv
<1>10. QED  BY <1>4, <1>5, <1>6, <1>7, <1>8, <1>9, Frame DEF ClientInv

\* The error label rolls back.
LEMMA RollbackKeeps == ASSUME DbInv, NEW c \in Clients, Rollback(c) PROVE DbInv'
<1> USE DEF Rollback, Ends, Drops
<1> DEFINE things == has[c] \ {"transaction"}
<1>1. /\ has'[c] = things /\ things \in SUBSET Belongings /\ at'[c] = "leave" /\ work'[c] = {}
  BY Mine DEF Go
<1>2. Holds(c)'
  BY <1>1, Mine DEF Holds, Stopped
<1>3. ProgressInv(c)'
  BY <1>1, Mine DEF ProgressInv, CreateInv, InsertInv
<1>4. FileInv'
  BY DEF DbInv, FileInv
<1>5. QED  BY <1>1, <1>2, <1>3, <1>4, Ending DEF Always

\* The error label closes what is left, and the program ends.
LEMMA LeaveKeeps == ASSUME DbInv, NEW c \in Clients, Leave(c) PROVE DbInv'
<1> USE DEF Leave, Ends, Drops
<1> DEFINE things == has[c] \ Everything(c)
<1>1. things = {}
  BY Mine DEF Holds, Everything, Belongings
<1>2. has'[c] = {} /\ at'[c] = "failed" /\ work'[c] = {}
  BY <1>1, Mine DEF Go
<1>3. Holds(c)'
  BY <1>2 DEF Holds, Stopped
<1>4. ProgressInv(c)'
  BY <1>2, Mine DEF ProgressInv, CreateInv, InsertInv
<1>5. FileInv'
  BY DEF DbInv, FileInv
<1>6. QED  BY <1>1, <1>2, <1>3, <1>4, <1>5, Ending DEF Always, Stopped

\* A program is killed.
LEMMA KillKeeps == ASSUME DbInv, NEW c \in Clients, Kill(c) PROVE DbInv'
<1> USE DEF Kill, Ends, Drops
<1> DEFINE things == has[c] \ has[c]
<1>1. things = {}
  OBVIOUS
<1>2. has'[c] = {} /\ at'[c] = "killed" /\ work'[c] = {}
  BY <1>1, Mine DEF Go
<1>3. Holds(c)'
  BY <1>2 DEF Holds, Stopped
<1>4. ProgressInv(c)'
  BY <1>2, Mine DEF ProgressInv, CreateInv, InsertInv
<1>5. FileInv'
  BY DEF DbInv, FileInv
<1>6. QED  BY <1>1, <1>2, <1>3, <1>4, <1>5, Ending DEF Always, Stopped

\* Every step of the clients keeps the invariant.
LEMMA DbNextKeeps == ASSUME DbInv, DbNext PROVE DbInv'
<1>1. PICK c \in Clients : DbStep(c) \/ Kill(c)
  BY DEF DbNext
<1>2. QED
  BY <1>1, LockKeeps, OpenKeeps, KeyKeeps, BeginKeeps, PrepareKeeps, CheckKeeps, CreateKeeps,
     InsertKeeps, BindKeeps, FinalizeKeeps, CommitKeeps, CloseKeeps, TakeTextKeeps, MatchKeeps,
     ReleaseKeeps, RollbackKeeps, LeaveKeeps, KillKeeps DEF DbStep

\* Nothing of the clients changes.
LEMMA DbStutterKeeps == ASSUME DbInv, UNCHANGED dbVars PROVE DbInv'
BY DEF dbVars, DbInv, Shapes, LocksInv, FileInv, ClientInv, InCourse, Holds, ProgressInv, CreateInv, InsertInv

\* The invariant holds when the clients begin.
LEMMA InitDbInv == DbInit => DbInv
<1> SUFFICES ASSUME DbInit PROVE DbInv  OBVIOUS
<1>1. PICK running \in ClientSets :
        at = [c \in Clients |-> IF c \in running THEN Course[Program(c)][1] ELSE "idle"]
  BY DEF DbInit
<1>2. ASSUME NEW c \in Clients
      PROVE  /\ at[c] = "idle"
                \/ /\ at[c] \in CoursePlaces(Program(c)) /\ at[c] \in {"open", "userid", "lock", "prepare"}
                   /\ Program(c) \in {"part11", "part12"} => at[c] = "open"
             /\ at[c] \in DbPlaces
  <2>1. Program(c) \in {"part11", "part12", "step1", "step2", "step3"}
    BY ClientPrograms, Programs
  <2>2. /\ Course[Program(c)][1] \in CoursePlaces(Program(c))
        /\ Course[Program(c)][1] \in {"open", "userid", "lock", "prepare"}
        /\ Program(c) \in {"part11", "part12"} => Course[Program(c)][1] = "open"
    <3>1. CASE Program(c) = "part11"  BY <3>1, AfterPart11 DEF Course
    <3>2. CASE Program(c) = "part12"  BY <3>2, AfterPart12 DEF Course
    <3>3. CASE Program(c) = "step1"  BY <3>3, AfterStep1 DEF Course
    <3>4. CASE Program(c) = "step2"  BY <3>4, AfterStep2 DEF Course
    <3>5. CASE Program(c) = "step3"  BY <3>5, AfterStep3 DEF Course
    <3>6. QED  BY <2>1, <3>1, <3>2, <3>3, <3>4, <3>5
  <2>3. at[c] = "idle" \/ at[c] = Course[Program(c)][1]
    BY <1>1
  <2>4. QED  BY <2>2, <2>3, ClientPrograms DEF DbPlaces, Stopped
<1>3. Shapes
  <2>1. file \subseteq Facts
    <3>1. Created.filepointers \subseteq Objects
      BY DEF Objects
    <3>2. QED  BY <3>1 DEF DbInit, Facts, Names
  <2>2. at \in [Clients -> DbPlaces]
    BY <1>1, <1>2
  <2>3. QED  BY <2>1, <2>2 DEF DbInit, Shapes
<1>4. LocksInv
  BY DEF DbInit, LocksInv
<1>5. FileInv
  <2>1. \A t \in Tables : <<t>> \in Names(Created.filepointers) => t = "filepointers"
    BY DEF Tables, Names, Created
  <2>2. \A t \in Tables : <<t>> \notin Names(InsertTables)
    BY DEF Tables, Names, InsertTables, Inserted
  <2>3. QED  BY <2>1, <2>2 DEF DbInit, FileInv
<1>6. ASSUME NEW c \in Clients PROVE ClientInv(c)
  <2>1. InCourse(c)
    BY <1>2 DEF InCourse, Stopped
  <2>2. Holds(c)
    BY <1>2 DEF DbInit, Holds, Stopped
  <2>3. ProgressInv(c)
    <3>1. Program(c) = "part12" => todo[c] = RowList(c) /\ todo[c] \in Seq(RowsOf(c))
      BY AllRows DEF DbInit
    <3>2. Program(c) = "part11" => todo[c] \in Seq(Tables)
      BY DEF DbInit
    <3>3. QED  BY <1>2, <3>1, <3>2 DEF DbInit, ProgressInv, CreateInv, InsertInv
  <2>4. QED  BY <2>1, <2>2, <2>3 DEF ClientInv
<1>7. QED  BY <1>3, <1>4, <1>5, <1>6 DEF DbInv

\* Nor does it need a client.
LEMMA IdleDbInv == DbIdle => DbInv
BY DEF DbIdle, DbInv, Shapes, DbPlaces, Stopped, LocksInv, FileInv, ClientInv, InCourse, Holds,
       ProgressInv, CreateInv, InsertInv

\* What the invariant says of the properties.
LEMMA DbProperties == DbInv => DbTypeOK /\ SuccessMeansDone /\ ClientsLeaveNothing
<1> SUFFICES ASSUME DbInv PROVE DbTypeOK /\ SuccessMeansDone /\ ClientsLeaveNothing  OBVIOUS
<1>1. DbTypeOK
  <2>1. file \subseteq Names(Objects \cup InsertTables) \cup UNION {RowsOf(c) : c \in Clients}
    BY DEF DbInv, Shapes, Facts
  <2>2. ASSUME NEW c \in Clients
        PROVE  /\ has[c] \subseteq Everything(c) \cup {Stmt[k] : k \in 1 .. 3}
               /\ at[c] \in {"idle", "done", "error", "rollback", "leave", "failed", "killed"}
                    \cup {Course[Program(c)][k] : k \in DOMAIN Course[Program(c)]}
    BY Mine DEF InCourse, Stopped, CoursePlaces, Belongings, Everything, AllStatements
  <2>3. /\ shared \subseteq Clients /\ reserved \subseteq Clients
        /\ \A c \in Clients : matched[c] \in {"none", "found", "unknown"}
    BY DEF DbInv, Shapes
  <2>4. QED  BY <2>1, <2>2, <2>3, Zenon DEF DbTypeOK
<1>2. SuccessMeansDone
  <2> SUFFICES ASSUME NEW c \in Clients, at[c] = "done"
               PROVE  /\ Program(c) = "part11" => Names(Objects) \subseteq file
                      /\ Program(c) = "part12" => RowsOf(c) \subseteq file
                      /\ Program(c) = "step1" => Known(matched[c])
    BY DEF SuccessMeansDone, Known, NumberIsMessage
  <2>1. QED  BY Mine DEF ProgressInv, CreateInv, InsertInv
<1>3. ClientsLeaveNothing
  BY Mine DEF ClientsLeaveNothing, Over, Stopped, Holds, DbInv, LocksInv, Shapes
<1>4. QED  BY <1>1, <1>2, <1>3

\* Of the steps of a client only a commit changes the file.
LEMMA DbChangesWhole ==
  ASSUME DbInv, DbNext
  PROVE  \/ file' = file
         \/ file \subseteq file' /\ Names(Objects) \subseteq file'
         \/ \E c \in Clients : file' = file \cup RowsOf(c)
<1>1. PICK c \in Clients : DbStep(c) \/ Kill(c)
  BY DEF DbNext
<1>2. CASE CreateTables(c) \/ InsertRow(c)
  <2>1. "transaction" \in has[c]
    BY <1>2, Mine, Afters DEF CreateTables, InsertRow, Holds, Always, Stopped
  <2>2. \A facts : Writes(c, facts) => UNCHANGED file
    BY <2>1, WritesMore
  <2>3. QED  BY <1>2, <2>2 DEF CreateTables, InsertRow, Busy, SameData
<1>3. CASE Commit(c)
  BY <1>3, CommitsWhole DEF Commit
<1>4. CASE ~(CreateTables(c) \/ InsertRow(c) \/ Commit(c))
  BY <1>1, <1>4 DEF DbStep, Lock, OpenDatabase, KeyAndCache, BeginTransaction, Prepare, CheckTables,
     Bind, Finalize, Close, Ends, TakeText, MatchMobile, ReleaseStatements, Rollback, Leave, Kill, SameData
<1>5. QED  BY <1>2, <1>3, <1>4

-----------------------------------------------------------------------------
(***************************************************************************)
(* The programs with threads                                               *)
(***************************************************************************)
Early    == {"shared", "objects", "threads"}
Starting == {"handle", "create", "lock", "blocked", "woken", "check"}
Late     == {"fails", "join", "free", "freed", "crashed", "hung"}

Begun(t) == pc[t] \notin {"none", "begin"}

\* A thread has a handle that is filled in until it is joined, and then it has
\* ended.  Handles are made in order and freed in order.
HandleInv ==
  /\ \A t \in Thread : handle[t] = "filled" => pc[t] # "none"
  /\ \A t \in Thread : handle[t] # "filled" => pc[t] \in {"none", "ended"}
  /\ main \in Starting \cup {"fails"} => \A t \in Thread :
       handle[t] # "filled" => pc[t] = "none"
  /\ main \in Early => \A t \in Thread : handle[t] = "null"
  /\ main \in Starting \cup {"fails", "join"} =>
       \A t \in Thread : t > threadRunCount => handle[t] = "null"
  /\ main = "join" => \A t \in Thread : t < i => handle[t] = "null"
  /\ main \in {"free", "freed"} => \A t \in Thread : handle[t] # "null" => t \in NeverJoined

\* main starts the threads one by one: those before the present one exist, those
\* behind it do not; unless main was early, those before have begun.
StartInv ==
  /\ main \in Early => i = 0 /\ threadRunCount = 0 /\ ~early /\ \A t \in Thread : pc[t] = "none"
  /\ main \in Starting =>
       /\ i = threadRunCount
       /\ \A t \in Thread : t < i => pc[t] # "none" /\ (~early => Begun(t))
       /\ \A t \in Thread : t > i => pc[t] = "none"
  /\ main \in {"handle", "create"} => \A t \in Thread : t >= i => pc[t] = "none"
  /\ main \in {"create", "lock", "blocked", "woken"} => i < ThreadCount
  /\ main \in {"lock", "blocked", "woken"} => pc[i] # "none"
  /\ main = "woken" => (~early => Begun(i))
  /\ main = "check" => i = ThreadCount
  /\ main = "running" => threadRunCount = ThreadCount /\ \A t \in Thread : pc[t] # "none" /\ (~early => Begun(t))

\* A thread ends only when it has been told to, or could not begin.
RunInv ==
  /\ isRuning => \A t \in Thread : pc[t] # "ended"
  /\ ~early /\ main \in Early \cup {"handle", "create", "check", "running"} => isRuning
  /\ ~early /\ main \in {"lock", "blocked", "woken"} => isRuning \/ pc[i] = "ended"

\* main keeps the mutex only when a thread could not begin.
LockInv ==
  /\ locked => main \in Late /\ ~isRuning
  /\ locked /\ main # "fails" => program = "ddostools" \/ main = "crashed"

\* Joining is in order; what it leaves out has never begun or was told nothing.
JoinInv ==
  /\ main \in {"fails", "join"} => \A t \in Thread :
       /\ t < threadRunCount /\ ~early => Begun(t)
       /\ t >= threadRunCount /\ ~early => ~Alive(t)
       /\ t > threadRunCount => ~Alive(t)
  /\ main \in {"fails", "join"} /\ threadRunCount < ThreadCount /\ ~locked /\ ~early
       => isRuning \/ program = "part05"
  /\ main = "join" => \A t \in Thread : t < i => ~Alive(t)
  /\ main \in {"free", "freed"} => \A t \in Thread : Alive(t) =>
       t \in NeverJoined /\ (locked \/ early)

\* What kcGenerateShared has made is kept until kcFreeShared.
HeldInv == main \in {"shared", "freed"} => held = {}

ThreadsInv == ThreadsTypeOK /\ HandleInv /\ StartInv /\ RunInv /\ LockInv /\ JoinInv /\ HeldInv

-----------------------------------------------------------------------------
\* The number of threads, and how many of them an error joins.
LEMMA Sizes == ThreadCount \in Nat \ {0} /\ JoinMax \in 1 .. ThreadCount
BY SampleThreadsAssumption

\* The names of places and of sets of threads are used throughout.
USE Sizes DEF Early, Starting, Late, Begun, Alive, Thread, Places, NeverJoined

\* The invariant holds when the program begins.
LEMMA ThreadsInitInv == ThreadsInit => ThreadsInv
<1> SUFFICES ASSUME ThreadsInit PROVE ThreadsInv  OBVIOUS
<1> USE DEF ThreadsInit
<1>1. ThreadsTypeOK
  <2>1. /\ handle \in [Thread -> {"null", "unfilled", "filled"}]
        /\ pc \in [Thread -> {"none", "begin", "loop", "wait", "woken", "ended"}]
    OBVIOUS
  <2>2. i \in 0 .. ThreadCount /\ threadRunCount \in 0 .. ThreadCount
    OBVIOUS
  <2>3. QED  BY <2>1, <2>2 DEF ThreadsTypeOK
<1>2. HandleInv
  BY DEF HandleInv
<1>3. StartInv
  BY DEF StartInv
<1>4. RunInv
  BY DEF RunInv
<1>5. LockInv
  BY DEF LockInv
<1>6. JoinInv
  BY DEF JoinInv
<1>7. HeldInv
  BY DEF HeldInv
<1>8. QED  BY <1>1, <1>2, <1>3, <1>4, <1>5, <1>6, <1>7 DEF ThreadsInv

\* kcGenerateShared begins.
LEMMA MakeSharedKeeps == ASSUME ThreadsInv, MakeShared PROVE ThreadsInv'
<1> USE DEF ThreadsInv, MakeShared, MainStep
<1>1. ThreadsTypeOK'
  BY DEF ThreadsTypeOK
<1>2. HandleInv'
  BY DEF HandleInv
<1>3. StartInv'
  BY DEF StartInv
<1>4. RunInv'
  BY DEF RunInv
<1>5. LockInv'
  BY DEF LockInv
<1>6. JoinInv'
  BY DEF JoinInv, StartInv, RunInv, LockInv, HandleInv, ThreadsTypeOK
<1>7. HeldInv'
  BY DEF HeldInv
<1>8. QED  BY <1>1, <1>2, <1>3, <1>4, <1>5, <1>6, <1>7

\* The next object of kcGenerateShared.
LEMMA MakeObjectKeeps == ASSUME ThreadsInv, MakeObject PROVE ThreadsInv'
<1> USE DEF ThreadsInv, MakeObject
<1>1. ThreadsTypeOK'
  <2>1. object # "none" => ObjectAfter[object] \in {"cond", "condStart", "none"}
    BY DEF ObjectAfter, ThreadsTypeOK
  <2>2. QED  BY <2>1 DEF ThreadsTypeOK
<1>2. HandleInv'
  BY DEF HandleInv
<1>3. StartInv'
  BY DEF StartInv
<1>4. RunInv'
  BY DEF RunInv
<1>5. LockInv'
  BY DEF LockInv
<1>6. JoinInv'
  BY DEF JoinInv, StartInv, RunInv, LockInv, HandleInv, ThreadsTypeOK
<1>7. HeldInv'
  BY DEF HeldInv
<1>8. QED  BY <1>1, <1>2, <1>3, <1>4, <1>5, <1>6, <1>7

\* kcFreeShared releases every object.
LEMMA FreeSharedKeeps == ASSUME ThreadsInv, FreeShared PROVE ThreadsInv'
<1> USE DEF ThreadsInv, FreeShared, MainStep
<1>1. ThreadsTypeOK'
  BY DEF ThreadsTypeOK
<1>2. HandleInv'
  BY DEF HandleInv
<1>3. StartInv'
  BY DEF StartInv
<1>4. RunInv'
  BY DEF RunInv
<1>5. LockInv'
  BY DEF LockInv
<1>6. JoinInv'
  BY DEF JoinInv
<1>7. HeldInv'
  BY DEF HeldInv
<1>8. QED  BY <1>1, <1>2, <1>3, <1>4, <1>5, <1>6, <1>7

\* The array of handles.
LEMMA MakeHandlesKeeps == ASSUME ThreadsInv, MakeHandles PROVE ThreadsInv'
<1> USE DEF ThreadsInv, MakeHandles, MainStep, Unmoved
<1>1. ThreadsTypeOK'
  BY DEF ThreadsTypeOK
<1>2. HandleInv'
  BY DEF HandleInv, StartInv
<1>3. StartInv'
  BY DEF StartInv
<1>4. RunInv'
  BY DEF RunInv
<1>5. LockInv'
  BY DEF LockInv
<1>6. JoinInv'
  BY DEF JoinInv, StartInv, RunInv, LockInv, HandleInv, ThreadsTypeOK
<1>7. HeldInv'
  BY DEF HeldInv
<1>8. QED  BY <1>1, <1>2, <1>3, <1>4, <1>5, <1>6, <1>7

\* The next handle, or all have been made.
LEMMA MakeHandleKeeps == ASSUME ThreadsInv, MakeHandle PROVE ThreadsInv'
<1> USE DEF ThreadsInv, MakeHandle, MainStep, Unmoved
<1>1. ThreadsTypeOK'
  BY DEF ThreadsTypeOK
<1>2. HandleInv'
  BY DEF HandleInv, ThreadsTypeOK, StartInv
<1>3. StartInv'
  BY DEF StartInv
<1>4. RunInv'
  BY DEF RunInv
<1>5. LockInv'
  BY DEF LockInv
<1>6. JoinInv'
  BY DEF JoinInv, StartInv, RunInv, LockInv, HandleInv, ThreadsTypeOK
<1>7. HeldInv'
  BY DEF HeldInv
<1>8. QED  BY <1>1, <1>2, <1>3, <1>4, <1>5, <1>6, <1>7

\* The thread begins when its handle is filled in.
LEMMA CreateThreadKeeps == ASSUME ThreadsInv, CreateThread PROVE ThreadsInv'
<1> USE DEF ThreadsInv, CreateThread, MainStep
<1>1. ThreadsTypeOK'
  BY DEF ThreadsTypeOK
<1>2. HandleInv'
  BY DEF HandleInv, StartInv, ThreadsTypeOK
<1>3. StartInv'
  BY DEF StartInv, ThreadsTypeOK
<1>4. RunInv'
  BY DEF RunInv, ThreadsTypeOK
<1>5. LockInv'
  BY DEF LockInv
<1>6. JoinInv'
  BY DEF JoinInv, StartInv, RunInv, LockInv, HandleInv, ThreadsTypeOK
<1>7. HeldInv'
  BY DEF HeldInv
<1>8. QED  BY <1>1, <1>2, <1>3, <1>4, <1>5, <1>6, <1>7

\* main begins to wait.
LEMMA AwaitKeeps == ASSUME ThreadsInv, Await PROVE ThreadsInv'
<1> USE DEF ThreadsInv, Await, MainStep, Unmoved
<1>1. ThreadsTypeOK'
  BY DEF ThreadsTypeOK
<1>2. HandleInv'
  BY DEF HandleInv
<1>3. StartInv'
  BY DEF StartInv
<1>4. RunInv'
  BY DEF RunInv
<1>5. LockInv'
  BY DEF LockInv
<1>6. JoinInv'
  BY DEF JoinInv
<1>7. HeldInv'
  BY DEF HeldInv
<1>8. QED  BY <1>1, <1>2, <1>3, <1>4, <1>5, <1>6, <1>7

\* main goes on when the thread it has waited for has begun, or failed.
LEMMA StartedKeeps == ASSUME ThreadsInv, Started PROVE ThreadsInv'
<1> USE DEF ThreadsInv, Started, Unmoved
<1>1. ThreadsTypeOK'
  <2>1. i' \in 0 .. ThreadCount /\ threadRunCount' \in 0 .. ThreadCount
    BY DEF ThreadsTypeOK, StartInv
  <2>2. QED  BY <2>1 DEF ThreadsTypeOK
<1>2. HandleInv'
  BY DEF HandleInv, StartInv, ThreadsTypeOK
<1>3. StartInv'
  BY DEF StartInv, ThreadsTypeOK
<1>4. RunInv'
  BY DEF RunInv
<1>5. LockInv'
  BY DEF LockInv
<1>6. JoinInv'
  BY DEF JoinInv, StartInv, RunInv, LockInv, HandleInv, ThreadsTypeOK
<1>7. HeldInv'
  BY DEF HeldInv
<1>8. QED  BY <1>1, <1>2, <1>3, <1>4, <1>5, <1>6, <1>7

\* All threads have been counted.
LEMMA CheckCountKeeps == ASSUME ThreadsInv, CheckCount PROVE ThreadsInv'
<1> USE DEF ThreadsInv, CheckCount, MainStep, Unmoved
<1>1. ThreadsTypeOK'
  BY DEF ThreadsTypeOK
<1>2. HandleInv'
  BY DEF HandleInv
<1>3. StartInv'
  BY DEF StartInv
<1>4. RunInv'
  BY DEF RunInv
<1>5. LockInv'
  BY DEF LockInv, RunInv, StartInv
<1>6. JoinInv'
  BY DEF JoinInv, StartInv, RunInv, LockInv, HandleInv, ThreadsTypeOK
<1>7. HeldInv'
  BY DEF HeldInv
<1>8. QED  BY <1>1, <1>2, <1>3, <1>4, <1>5, <1>6, <1>7

\* The error path of part05 tells its threads, that of ddostools does not.
LEMMA StartFailsKeeps == ASSUME ThreadsInv, StartFails PROVE ThreadsInv'
<1> USE DEF ThreadsInv, StartFails, MainStep, Broadcast
<1>1. ThreadsTypeOK'
  <2>0. i' \in 0 .. ThreadCount
    OBVIOUS
  <2>1. pc' \in [Thread -> {"none", "begin", "loop", "wait", "woken", "ended"}]
    BY DEF ThreadsTypeOK
  <2>2. QED  BY <2>0, <2>1 DEF ThreadsTypeOK
<1>2. HandleInv'
  BY DEF HandleInv
<1>3. StartInv'
  BY DEF StartInv
<1>4. RunInv'
  BY DEF RunInv
<1>5. LockInv'
  BY DEF LockInv
<1>6. JoinInv'
  BY DEF JoinInv
<1>7. HeldInv'
  BY DEF HeldInv
<1>8. QED  BY <1>1, <1>2, <1>3, <1>4, <1>5, <1>6, <1>7

\* kcStopThread tells the threads.
LEMMA StopThreadKeeps == ASSUME ThreadsInv, StopThread PROVE ThreadsInv'
<1> USE DEF ThreadsInv, StopThread, MainStep, Broadcast
<1>1. ThreadsTypeOK'
  <2>0. i' \in 0 .. ThreadCount
    OBVIOUS
  <2>1. pc' \in [Thread -> {"none", "begin", "loop", "wait", "woken", "ended"}]
    BY DEF ThreadsTypeOK
  <2>2. QED  BY <2>0, <2>1 DEF ThreadsTypeOK
<1>2. HandleInv'
  BY DEF HandleInv, StartInv, ThreadsTypeOK
<1>3. StartInv'
  BY DEF StartInv
<1>4. RunInv'
  BY DEF RunInv
<1>5. LockInv'
  BY DEF LockInv
<1>6. JoinInv'
  BY DEF JoinInv, StartInv, RunInv, LockInv, HandleInv, ThreadsTypeOK
<1>7. HeldInv'
  BY DEF HeldInv
<1>8. QED  BY <1>1, <1>2, <1>3, <1>4, <1>5, <1>6, <1>7

\* A thread that has been joined has ended; the first one tells whether any can.
LEMMA JoinThreadKeeps == ASSUME ThreadsInv, JoinThread PROVE ThreadsInv'
<1> USE DEF ThreadsInv, JoinThread, JoinAndFree, Unmoved, Joins
<1>1. ThreadsTypeOK'
  BY DEF ThreadsTypeOK
<1>2. HandleInv'
  BY DEF HandleInv, StartInv, JoinInv, ThreadsTypeOK
<1>3. StartInv'
  BY DEF StartInv
<1>4. RunInv'
  BY DEF RunInv
<1>5. LockInv'
  BY DEF LockInv
<1>6. JoinInv'
  BY DEF JoinInv, StartInv, RunInv, LockInv, HandleInv, ThreadsTypeOK
<1>7. HeldInv'
  BY DEF HeldInv
<1>8. QED  BY <1>1, <1>2, <1>3, <1>4, <1>5, <1>6, <1>7

\* main goes on without a signal.
LEMMA MainSpuriousWakeupKeeps == ASSUME ThreadsInv, MainSpuriousWakeup PROVE ThreadsInv'
<1> USE DEF ThreadsInv, MainSpuriousWakeup, MainStep
<1>1. ThreadsTypeOK'
  BY DEF ThreadsTypeOK
<1>2. HandleInv'
  BY DEF HandleInv
<1>3. StartInv'
  BY DEF StartInv
<1>4. RunInv'
  BY DEF RunInv
<1>5. LockInv'
  BY DEF LockInv
<1>6. JoinInv'
  BY DEF JoinInv
<1>7. HeldInv'
  BY DEF HeldInv
<1>8. QED  BY <1>1, <1>2, <1>3, <1>4, <1>5, <1>6, <1>7

\* Unless main was early, the thread it waits for wakes it, and no other does.
LEMMA ThreadBeginKeeps == ASSUME ThreadsInv, NEW u \in Thread, ThreadBegin(u) PROVE ThreadsInv'
<1> USE DEF ThreadsInv, ThreadBegin, ThreadStep, Notify, MainStays
<1>1. ThreadsTypeOK'
  BY DEF ThreadsTypeOK
<1>2. HandleInv'
  BY DEF HandleInv
<1>3. StartInv'
  BY DEF StartInv, ThreadsTypeOK
<1>4. RunInv'
  BY DEF RunInv
<1>5. LockInv'
  BY DEF LockInv
<1>6. JoinInv'
  BY DEF JoinInv
<1>7. HeldInv'
  BY DEF HeldInv
<1>8. QED  BY <1>1, <1>2, <1>3, <1>4, <1>5, <1>6, <1>7

\* The thread main waits for has no socket.
LEMMA ThreadFailsKeeps == ASSUME ThreadsInv, NEW u \in Thread, ThreadFails(u) PROVE ThreadsInv'
<1> USE DEF ThreadsInv, ThreadFails, ThreadStep, Notify, MainStays
<1>1. ThreadsTypeOK'
  BY DEF ThreadsTypeOK
<1>2. HandleInv'
  BY DEF HandleInv
<1>3. StartInv'
  BY DEF StartInv, ThreadsTypeOK
<1>4. RunInv'
  BY DEF RunInv, StartInv, ThreadsTypeOK
<1>5. LockInv'
  BY DEF LockInv
<1>6. JoinInv'
  BY DEF JoinInv, ThreadsTypeOK
<1>7. HeldInv'
  BY DEF HeldInv
<1>8. QED  BY <1>1, <1>2, <1>3, <1>4, <1>5, <1>6, <1>7

\* A thread of part05 waits.
LEMMA ThreadWaitsKeeps == ASSUME ThreadsInv, NEW u \in Thread, ThreadWaits(u) PROVE ThreadsInv'
<1> USE DEF ThreadsInv, ThreadWaits, ThreadStep, MainStays
<1>1. ThreadsTypeOK'
  BY DEF ThreadsTypeOK
<1>2. HandleInv'
  BY DEF HandleInv
<1>3. StartInv'
  BY DEF StartInv
<1>4. RunInv'
  BY DEF RunInv
<1>5. LockInv'
  BY DEF LockInv
<1>6. JoinInv'
  BY DEF JoinInv
<1>7. HeldInv'
  BY DEF HeldInv
<1>8. QED  BY <1>1, <1>2, <1>3, <1>4, <1>5, <1>6, <1>7

\* A thread of part05 has been woken.
LEMMA ThreadWokenKeeps == ASSUME ThreadsInv, NEW u \in Thread, ThreadWoken(u) PROVE ThreadsInv'
<1> USE DEF ThreadsInv, ThreadWoken, ThreadStep, MainStays
<1>1. ThreadsTypeOK'
  BY DEF ThreadsTypeOK
<1>2. HandleInv'
  BY DEF HandleInv
<1>3. StartInv'
  BY DEF StartInv
<1>4. RunInv'
  BY DEF RunInv
<1>5. LockInv'
  BY DEF LockInv
<1>6. JoinInv'
  BY DEF JoinInv
<1>7. HeldInv'
  BY DEF HeldInv
<1>8. QED  BY <1>1, <1>2, <1>3, <1>4, <1>5, <1>6, <1>7

\* A thread of part05 wakes without a signal.
LEMMA ThreadSpuriousWakeupKeeps ==
  ASSUME ThreadsInv, NEW u \in Thread, ThreadSpuriousWakeup(u) PROVE ThreadsInv'
<1> USE DEF ThreadsInv, ThreadSpuriousWakeup, ThreadStep, MainStays
<1>1. ThreadsTypeOK'
  BY DEF ThreadsTypeOK
<1>2. HandleInv'
  BY DEF HandleInv
<1>3. StartInv'
  BY DEF StartInv
<1>4. RunInv'
  BY DEF RunInv
<1>5. LockInv'
  BY DEF LockInv
<1>6. JoinInv'
  BY DEF JoinInv
<1>7. HeldInv'
  BY DEF HeldInv
<1>8. QED  BY <1>1, <1>2, <1>3, <1>4, <1>5, <1>6, <1>7

\* A thread of ddostools sends.
LEMMA ThreadSendsKeeps == ASSUME ThreadsInv, NEW u \in Thread, ThreadSends(u) PROVE ThreadsInv'
<1> USE DEF ThreadsInv, ThreadSends, ThreadStep, MainStays
<1>1. ThreadsTypeOK'
  BY DEF ThreadsTypeOK
<1>2. HandleInv'
  BY DEF HandleInv
<1>3. StartInv'
  BY DEF StartInv
<1>4. RunInv'
  BY DEF RunInv
<1>5. LockInv'
  BY DEF LockInv
<1>6. JoinInv'
  BY DEF JoinInv
<1>7. HeldInv'
  BY DEF HeldInv
<1>8. QED  BY <1>1, <1>2, <1>3, <1>4, <1>5, <1>6, <1>7

\* A step that changes nothing keeps the invariant.
LEMMA ThreadsStutterKeeps == ASSUME ThreadsInv, UNCHANGED threadVars PROVE ThreadsInv'
BY DEF ThreadsInv, threadVars, mainVars, ThreadsTypeOK, HandleInv, StartInv, RunInv, LockInv, JoinInv, HeldInv

\* Every step of main and of a thread keeps the invariant.
LEMMA ThreadsNextKeeps == ASSUME ThreadsInv, [ThreadsNext]_threadVars PROVE ThreadsInv'
<1>1. CASE MakeShared  BY <1>1, MakeSharedKeeps
<1>2. CASE MakeObject  BY <1>2, MakeObjectKeeps
<1>3. CASE FreeShared  BY <1>3, FreeSharedKeeps
<1>4. CASE MakeHandles  BY <1>4, MakeHandlesKeeps
<1>5. CASE MakeHandle  BY <1>5, MakeHandleKeeps
<1>6. CASE CreateThread  BY <1>6, CreateThreadKeeps
<1>7. CASE Await  BY <1>7, AwaitKeeps
<1>8. CASE Started  BY <1>8, StartedKeeps
<1>9. CASE CheckCount  BY <1>9, CheckCountKeeps
<1>10. CASE StartFails  BY <1>10, StartFailsKeeps
<1>11. CASE StopThread  BY <1>11, StopThreadKeeps
<1>12. CASE JoinThread  BY <1>12, JoinThreadKeeps
<1>13. ASSUME NEW u \in Thread, ThreadBegin(u) PROVE ThreadsInv'  BY <1>13, ThreadBeginKeeps
<1>14. ASSUME NEW u \in Thread, ThreadFails(u) PROVE ThreadsInv'  BY <1>14, ThreadFailsKeeps
<1>15. ASSUME NEW u \in Thread, ThreadWaits(u) PROVE ThreadsInv'  BY <1>15, ThreadWaitsKeeps
<1>16. ASSUME NEW u \in Thread, ThreadWoken(u) PROVE ThreadsInv'  BY <1>16, ThreadWokenKeeps
<1>17. ASSUME NEW u \in Thread, ThreadSends(u) PROVE ThreadsInv'  BY <1>17, ThreadSendsKeeps
<1>18. CASE UNCHANGED threadVars  BY <1>18, ThreadsStutterKeeps
<1>19. CASE MainSpuriousWakeup  BY <1>19, MainSpuriousWakeupKeeps
<1>20. ASSUME NEW u \in Thread, ThreadSpuriousWakeup(u) PROVE ThreadsInv'
  BY <1>20, ThreadSpuriousWakeupKeeps
<1>21. QED
  BY <1>1, <1>2, <1>3, <1>4, <1>5, <1>6, <1>7, <1>8, <1>9, <1>10, <1>11, <1>12, <1>13, <1>14, <1>15, <1>16, <1>17, <1>18,
     <1>19, <1>20
  DEF ThreadsNext, MainNext, ThreadNext

\* The inductive invariant holds throughout.
LEMMA ThreadsInvariance == ThreadsSpec => []ThreadsInv
BY ThreadsInitInv, ThreadsNextKeeps, PTL DEF ThreadsSpec

\* Both programs keep every variable's type.
THEOREM ThreadsTypeCorrect == ThreadsSpec => []ThreadsTypeOK
<1>1. ThreadsInv => ThreadsTypeOK  BY DEF ThreadsInv
<1>2. QED  BY <1>1, ThreadsInvariance, PTL

\* kcStartThread reports success only when it has created every thread and, unless
\* one of its waits has returned without a signal, every thread has got through
\* its own start and none has ended; for every number of threads.
THEOREM ThreadsHaveStarted == ThreadsSpec => []SuccessMeansStarted
<1>1. ThreadsInv => SuccessMeansStarted
  BY DEF ThreadsInv, StartInv, RunInv, ThreadsTypeOK, SuccessMeansStarted
<1>2. QED  BY <1>1, ThreadsInvariance, PTL

\* kcFreeShared takes nothing from a thread that may still use it and no handle is
\* lost, but for those of ddostools behind the threads its error path joins; and
\* such a thread is alive only when main has kept the mutex or was early.
THEOREM ThreadsAreReleased == ThreadsSpec => []ThreadsLeaveNothing
<1>1. ThreadsInv => ThreadsLeaveNothing
  BY DEF ThreadsInv, JoinInv, HandleInv, HeldInv, ThreadsLeaveNothing
<1>2. QED  BY <1>1, ThreadsInvariance, PTL

-----------------------------------------------------------------------------
(***************************************************************************)
(* Both together                                                           *)
(***************************************************************************)
SamplesInv == ThreadsInv /\ DbInv

\* When neither program with threads runs there is nothing to be wrong.
LEMMA IdleThreadsInv == ThreadsIdle => ThreadsInv
<1> SUFFICES ASSUME ThreadsIdle PROVE ThreadsInv  OBVIOUS
<1> USE DEF ThreadsIdle
<1>1. ThreadsTypeOK
  <2>1. i \in 0 .. ThreadCount /\ threadRunCount \in 0 .. ThreadCount
    OBVIOUS
  <2>2. QED  BY <2>1 DEF ThreadsTypeOK
<1>2. HandleInv /\ StartInv /\ RunInv /\ LockInv /\ JoinInv /\ HeldInv
  BY DEF HandleInv, StartInv, RunInv, LockInv, JoinInv, HeldInv
<1>3. QED  BY <1>1, <1>2 DEF ThreadsInv

\* Each side keeps its invariant while the other does not move.
LEMMA SamplesInvariance == Spec => []SamplesInv
<1>1. Init => SamplesInv
  BY ThreadsInitInv, IdleThreadsInv, InitDbInv, IdleDbInv DEF Init, SamplesInv
<1>2. SamplesInv /\ [Next]_vars => SamplesInv'
  <2> SUFFICES ASSUME SamplesInv, [Next]_vars PROVE SamplesInv'  OBVIOUS
  <2>1. CASE ThreadsNext /\ UNCHANGED dbVars
    BY <2>1, ThreadsNextKeeps, DbStutterKeeps DEF SamplesInv
  <2>2. CASE DbNext /\ UNCHANGED threadVars
    BY <2>2, DbNextKeeps, ThreadsNextKeeps DEF SamplesInv
  <2>3. CASE UNCHANGED vars
    BY <2>3, DbStutterKeeps, ThreadsNextKeeps DEF SamplesInv, vars
  <2>4. QED  BY <2>1, <2>2, <2>3 DEF Next
<1>3. QED  BY <1>1, <1>2, PTL DEF Spec

\* Every variable of the samples keeps its type, whatever programs run.
THEOREM TypeCorrect == Spec => []TypeOK
<1>1. SamplesInv => TypeOK
  BY DbProperties DEF SamplesInv, ThreadsInv, TypeOK
<1>2. QED  BY <1>1, SamplesInvariance, PTL

\* What the programs report as success has happened: threads have got through
\* their start unless main was woken without a signal, the tables and every row
\* are in the file, a mobile number was found unless a malloc failed there;
\* whichever other calls fail and whoever else uses the file.
THEOREM SuccessIsAlwaysTrue == Spec => []SuccessIsTrue
<1>1. SamplesInv => SuccessIsTrue
  <2>1. ThreadsInv => SuccessMeansStarted
    BY DEF ThreadsInv, StartInv, RunInv, ThreadsTypeOK, SuccessMeansStarted
  <2>2. QED  BY <2>1, DbProperties DEF SamplesInv, SuccessIsTrue
<1>2. QED  BY <1>1, SamplesInvariance, PTL

\* Whichever step fails, a program that has ended keeps no memory, lock,
\* connection or thread but what ddostools never joins, and a lock of the file is
\* held only by an open transaction.
THEOREM NothingIsEverLeft == Spec => []NothingIsLeft
<1>1. SamplesInv => NothingIsLeft
  <2>1. ThreadsInv => ThreadsLeaveNothing
    BY DEF ThreadsInv, JoinInv, HandleInv, HeldInv, ThreadsLeaveNothing
  <2>2. QED  BY <2>1, DbProperties DEF SamplesInv, NothingIsLeft
<1>2. QED  BY <1>1, SamplesInvariance, PTL

\* The file takes all tables, or all rows of a client, or nothing: a failure or
\* the end of a program between two statements leaves no part of them.
THEOREM ChangesAreWhole == Spec => WholeChanges
<1> DEFINE Whole == \/ file' = file
                    \/ file \subseteq file' /\ Names(Objects) \subseteq file'
                    \/ \E c \in Clients : file' = file \cup RowsOf(c)
<1>1. SamplesInv /\ [Next]_vars => [Whole]_file
  BY DbChangesWhole DEF SamplesInv, Next, vars, dbVars
<1>2. QED  BY <1>1, SamplesInvariance, PTL DEF Spec, WholeChanges
==============================================================================
