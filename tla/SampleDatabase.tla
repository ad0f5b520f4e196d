---------------------------- MODULE SampleDatabase ----------------------------
(***************************************************************************)
(* The programs and functions that work on D:/data.db through SQLite:      *)
(*   part11  creates the tables that are missing                           *)
(*   part12  inserts InsertCount rows into each of three tables            *)
(*   step1, step2, step3  the parts of the user's validation in LargeFile, *)
(*           of which the plugin calls only the first                      *)
(*                                                                         *)
(* A client is a pair of its program and a number.  It follows the course  *)
(* of its program; whatever fails sends it to the error label.  SQLite is  *)
(* external: a deferred transaction takes a shared lock by its first read  *)
(* and the reserved one by its first write, and a call that finds a lock   *)
(* taken fails at once, for no client sets a busy timeout.                 *)
(***************************************************************************)
EXTENDS Integers, Sequences, FiniteSets

CONSTANTS
  ClientSets,   \* the sets of clients that may run together
  InsertCount,  \* KC_INSERT_COUNT: 10000000
  DbFaults      \* of "open", "exec", "prepare", "step", "memory", "kill"

VARIABLES
  file,          \* what is committed: names of tables and indexes, rows
  at,            \* where each client is
  has,           \* what each client holds and has to release
  work,          \* what its transaction has written
  todo,          \* tables part11 still has to create, rows part12 has to insert
  shared, reserved,  \* who holds these locks of the file
  matched        \* step1's number: "none", "found", or "unknown": never looked for

dbVars == <<file, at, has, work, todo, shared, reserved, matched>>

Clients == UNION ClientSets
Program(c) == c[1]

Course == [
  part11 |-> <<"open", "key", "begin", "prepare", "check", "create", "finalize", "commit", "close">>,
  part12 |-> <<"open", "key", "begin", "prepare", "insert", "finalize", "commit", "close">>,
  step1  |-> <<"userid", "mobile", "password", "close">>,
  step2  |-> <<"lock", "open", "key", "cache", "begin", "commit", "close">>,
  step3  |-> <<"prepare", "bind">>]

ASSUME DatabaseAssumption ==
  /\ InsertCount \in Nat
  /\ \A clients \in ClientSets : clients \subseteq (DOMAIN Course) \X Nat

Created == [fivefifty |-> {"fivefifty", "idx_fivefifty_generate"},
            filepointers |-> {"filepointers", "idx_filepointers_generate"}]
Objects == Created.fivefifty \cup Created.filepointers

\* The tables part12 inserts into, in order; nothing in src/ creates them.
Inserted == <<"registers", "filebegin", "fileend">>
InsertTables == {Inserted[k] : k \in 1 .. 3}

\* Registers are numbered from 1 by every run, the others by the time as well.
Row(c, i, k) == <<Inserted[k], i, IF k = 1 THEN <<"any", 0>> ELSE c>>
RowList(c) == [n \in 1 .. 3 * InsertCount |-> Row(c, (n + 2) \div 3, 1 + ((n - 1) % 3))]
RowsOf(c) == {RowList(c)[n] : n \in 1 .. 3 * InsertCount}

Statements == [part11 |-> 1, part12 |-> 3, step3 |-> 2]
Stmt == <<"stmt1", "stmt2", "stmt3">>

Names(names) == {<<t>> : t \in names}

DbInit ==
  /\ \E running \in ClientSets :
       at = [c \in Clients |-> IF c \in running THEN Course[Program(c)][1] ELSE "idle"]
  /\ file \in {{}, Names(Created.filepointers), Names(InsertTables)}
  /\ has = [c \in Clients |-> {}]
  /\ work = [c \in Clients |-> {}]
  /\ todo = [c \in Clients |-> IF Program(c) = "part12" THEN RowList(c) ELSE <<>>]
  /\ shared = {} /\ reserved = {}
  /\ matched = [c \in Clients |-> "none"]

\* No client is run.
DbIdle ==
  /\ at = [c \in Clients |-> "idle"]
  /\ file = {} /\ shared = {} /\ reserved = {}
  /\ has = [c \in Clients |-> {}]
  /\ work = [c \in Clients |-> {}]
  /\ todo = [c \in Clients |-> <<>>]
  /\ matched = [c \in Clients |-> "none"]

-----------------------------------------------------------------------------
(***************************************************************************)
(* A call: on success the course goes on, on failure it leaves             *)
(***************************************************************************)
After(c) == LET course == Course[Program(c)]
                k == CHOOSE k \in DOMAIN course : course[k] = at[c]
            IN IF k = Len(course) THEN "done" ELSE course[k + 1]

Go(c, place) == at' = [at EXCEPT ![c] = place]
Succeeds(c) == Go(c, After(c))
Fails(c, fault) == fault \in DbFaults /\ Go(c, "error")
Takes(c, things) == has' = [has EXCEPT ![c] = @ \cup things]
Drops(c, things) == has' = [has EXCEPT ![c] = @ \ things]
SameData == UNCHANGED <<file, work, todo, shared, reserved, matched>>

\* step2 only: pthread_rwlock_wrlock.
Lock(c) ==
  /\ at[c] = "lock"
  /\ \A d \in Clients : "rwlock" \notin has[d]
  /\ Takes(c, {"rwlock"})
  /\ Succeeds(c) /\ SameData

\* sqlite3_open_v2 gives a handle even when it fails, unless memory is short.
OpenDatabase(c) ==
  /\ at[c] = "open"
  /\ \/ Succeeds(c) /\ Takes(c, {"db"})
     \/ Fails(c, "open") /\ (Takes(c, {"db"}) \/ UNCHANGED has)
  /\ SameData

KeyAndCache(c) ==
  /\ at[c] \in {"key", "cache"}
  /\ Succeeds(c) \/ Fails(c, "exec")
  /\ UNCHANGED has /\ SameData

\* Mutant: no transaction is begun.
BeginTransaction_Not(c) ==
  /\ at[c] = "begin"
  /\ Succeeds(c)
  /\ UNCHANGED has /\ SameData

BeginTransaction(c) ==
  /\ at[c] = "begin"
  /\ \/ Succeeds(c) /\ Takes(c, {"transaction"})
     \/ Fails(c, "exec") /\ UNCHANGED has
  /\ SameData

\* A statement can be prepared only when its table is there.
Prepare(c) ==
  LET n == Statements[Program(c)]
      Needed(k) == IF Program(c) = "part11" THEN {} ELSE {Inserted[k]} IN
  /\ at[c] = "prepare"
  /\ \/ /\ \A k \in 1 .. n : Names(Needed(k)) \subseteq file
        /\ Succeeds(c)
        /\ Takes(c, {Stmt[k] : k \in 1 .. n})
     \/ \E bad \in 1 .. n :
          /\ Names(Needed(bad)) \subseteq file => "prepare" \in DbFaults
          /\ \A k \in 1 .. bad - 1 : Names(Needed(k)) \subseteq file
          /\ Go(c, "error")
          /\ Takes(c, {Stmt[k] : k \in 1 .. bad - 1})
  /\ SameData

\* Outside of a transaction a lock goes with the call that took it.
Reads(c) ==
  shared' = IF "transaction" \in has[c] THEN shared \cup {c} ELSE shared

\* part11 asks sqlite_master for its tables and keeps the names it misses.
IfMissing(table) == IF <<table>> \in file THEN <<>> ELSE <<table>>

CheckTables(c) ==
  /\ at[c] = "check"
  /\ \/ /\ Succeeds(c)
        /\ todo' = [todo EXCEPT ![c] = IfMissing("fivefifty") \o IfMissing("filepointers")]
     \/ Fails(c, "step") /\ UNCHANGED todo
  /\ Reads(c)
  /\ UNCHANGED <<file, has, work, reserved, matched>>

\* What a statement writes goes to the transaction, or to the file at once.
Writes(c, facts) ==
  /\ reserved \subseteq {c}
  /\ IF "transaction" \in has[c]
     THEN /\ work' = [work EXCEPT ![c] = @ \cup facts]
          /\ reserved' = {c}
          /\ UNCHANGED file
     ELSE file' = file \cup facts /\ UNCHANGED <<work, reserved>>
  /\ Reads(c)
  /\ UNCHANGED matched

Busy(c) == reserved \ {c} # {} /\ Go(c, "error") /\ UNCHANGED <<file, work, reserved, shared, matched>>

\* The case of fivefifty has no break.
Creates(name) == IF name = "fivefifty" THEN Objects ELSE Created[name]

CreateTables(c) ==
  /\ at[c] = "create"
  /\ IF todo[c] = <<>>
     THEN Succeeds(c) /\ SameData
     ELSE /\ \/ Writes(c, Names(Creates(Head(todo[c])))) /\ UNCHANGED at
             \/ Writes(c, Names({Head(todo[c])})) /\ Fails(c, "exec")
             \/ Busy(c)
          /\ todo' = [todo EXCEPT ![c] = Tail(@)]
  /\ UNCHANGED has

\* part12 executes its three statements for each register.
InsertRow(c) ==
  /\ at[c] = "insert"
  /\ IF todo[c] = <<>>
     THEN Succeeds(c) /\ SameData
     ELSE /\ \/ /\ Head(todo[c]) \notin file
                /\ Writes(c, {Head(todo[c])})
                /\ UNCHANGED at
             \/ /\ Head(todo[c]) \in file \/ "step" \in DbFaults
                /\ Go(c, "error")
                /\ UNCHANGED <<file, work, reserved, shared, matched>>
             \/ Busy(c)
          /\ todo' = [todo EXCEPT ![c] = Tail(@)]
  /\ UNCHANGED has

\* step3 binds its first parameter at 0, and SQLite counts from 1.
Bind(c) ==
  /\ at[c] = "bind"
  /\ Go(c, "error")
  /\ UNCHANGED has /\ SameData

Finalize(c) ==
  /\ at[c] = "finalize"
  /\ Succeeds(c)
  /\ Drops(c, {Stmt[k] : k \in 1 .. 3})
  /\ SameData

LeavesLocks(c) == shared' = shared \ {c} /\ reserved' = reserved \ {c}

\* Mutant: what commit returns is not looked at.
Commit_NotChecked(c) ==
  /\ at[c] = "commit"
  /\ \/ /\ reserved = {c} => shared = {c}
        /\ file' = file \cup work[c]
        /\ LeavesLocks(c)
        /\ Drops(c, {"transaction"})
        /\ work' = [work EXCEPT ![c] = {}]
     \/ /\ reserved = {c} /\ shared # {c}
        /\ UNCHANGED <<file, work, has, shared, reserved>>
  /\ Succeeds(c)
  /\ UNCHANGED <<todo, matched>>

\* A transaction that has written needs the file for itself.
Commit(c) ==
  /\ at[c] = "commit"
  /\ \/ /\ reserved = {c} => shared = {c}
        /\ Succeeds(c)
        /\ file' = file \cup work[c]
        /\ LeavesLocks(c)
        /\ Drops(c, {"transaction"})
        /\ work' = [work EXCEPT ![c] = {}]
     \/ /\ (reserved = {c} /\ shared # {c}) \/ "exec" \in DbFaults
        /\ Go(c, "error")
        /\ UNCHANGED <<file, work, has, shared, reserved>>
  /\ UNCHANGED <<todo, matched>>

\* What is left of a transaction ends with its connection.
Ends(c, things) ==
  /\ Drops(c, things)
  /\ LeavesLocks(c)
  /\ work' = [work EXCEPT ![c] = {}]
  /\ UNCHANGED <<file, todo, matched>>

Everything(c) == {"db", "transaction", "rwlock", "userid", "password"}

Close(c) ==
  /\ at[c] = "close"
  /\ Succeeds(c)
  /\ Ends(c, Everything(c))

-----------------------------------------------------------------------------
(***************************************************************************)
(* kcValidateUserStep1 and kcCheckGetMobile                                *)
(***************************************************************************)
\* A length of zero, or of a password above 40, is refused.
TakeText(c) ==
  /\ at[c] \in {"userid", "password"}
  /\ \/ Takes(c, {at[c]}) /\ Succeeds(c)
     \/ UNCHANGED has /\ Go(c, "error")
  /\ SameData

\* Mutant: a text that does not match is taken for a number.
MatchMobile_Any(c) ==
  /\ at[c] = "mobile"
  /\ Succeeds(c)
  /\ matched' \in {matched, [matched EXCEPT ![c] = "found"]}
  /\ UNCHANGED <<file, has, work, todo, shared, reserved>>

\* The label returns rc as it stands: REG_OK of regcomp when there is no memory
\* for the matches, not initialised when there is none for the expression.
MatchMobile(c) ==
  /\ at[c] = "mobile"
  /\ \/ Succeeds(c) /\ matched' = [matched EXCEPT ![c] = "found"]
     \/ Go(c, "error") /\ UNCHANGED matched
     \/ "memory" \in DbFaults /\ Succeeds(c) /\ matched' = [matched EXCEPT ![c] = "unknown"]
  /\ UNCHANGED <<file, has, work, todo, shared, reserved>>

-----------------------------------------------------------------------------
(***************************************************************************)
(* The error label, and a program that is killed                           *)
(***************************************************************************)
\* Mutant: one statement is forgotten.
ReleaseStatements_First(c) ==
  /\ at[c] = "error"
  /\ Drops(c, {"stmt1"})
  /\ Go(c, "rollback")
  /\ SameData

ReleaseStatements(c) ==
  /\ at[c] = "error"
  /\ Drops(c, {Stmt[k] : k \in 1 .. 3})
  /\ Go(c, "rollback")
  /\ SameData

Rollback(c) ==
  /\ at[c] = "rollback"
  /\ Go(c, "leave")
  /\ Ends(c, {"transaction"})

\* Mutant: step2 keeps its lock.
Leave_Locked(c) ==
  /\ at[c] = "leave"
  /\ Go(c, "failed")
  /\ Ends(c, Everything(c) \ {"rwlock"})

Leave(c) ==
  /\ at[c] = "leave"
  /\ Go(c, "failed")
  /\ Ends(c, Everything(c))

Over(c) == at[c] \in {"idle", "done", "failed", "killed"}

\* SQLite's journal undoes what a killed program has not committed.
Kill(c) ==
  /\ "kill" \in DbFaults /\ Program(c) \in {"part11", "part12"}
  /\ ~Over(c)
  /\ Go(c, "killed")
  /\ Ends(c, has[c])

DbStep(c) ==
  \/ Lock(c) \/ OpenDatabase(c) \/ KeyAndCache(c) \/ BeginTransaction(c) \/ Prepare(c)
  \/ CheckTables(c) \/ CreateTables(c) \/ InsertRow(c) \/ Bind(c) \/ Finalize(c)
  \/ Commit(c) \/ Close(c) \/ TakeText(c) \/ MatchMobile(c)
  \/ ReleaseStatements(c) \/ Rollback(c) \/ Leave(c)

DbNext == \E c \in Clients : DbStep(c) \/ Kill(c)

\* Every program and thread goes on by itself.  Weak fairness is enough: at
\* most one of those that wait for the lock has to wait for another.
DbFairness == \A c \in Clients : WF_dbVars(DbStep(c))

-----------------------------------------------------------------------------
DbTypeOK ==
  /\ file \subseteq Names(Objects \cup InsertTables) \cup UNION {RowsOf(c) : c \in Clients}
  /\ \A c \in Clients :
       /\ has[c] \subseteq Everything(c) \cup {Stmt[k] : k \in 1 .. 3}
       /\ at[c] \in {"idle", "done", "error", "rollback", "leave", "failed", "killed"}
            \cup {Course[Program(c)][k] : k \in DOMAIN Course[Program(c)]}
  /\ shared \subseteq Clients /\ reserved \subseteq Clients
  /\ \A c \in Clients : matched[c] \in {"none", "found", "unknown"}

\* The gap of step1: a malloc of kcCheckGetMobile has failed, and its error
\* message is taken for the mobile number.
NumberIsMessage(c) == "memory" \in DbFaults /\ matched[c] = "unknown"

\* The program's own words for success: part11 has all its tables, part12 its
\* rows, and step1 has found a mobile number, but for the gap.
SuccessMeansDone ==
  \A c \in Clients : at[c] = "done" =>
    CASE Program(c) = "part11" -> Names(Objects) \subseteq file
      [] Program(c) = "part12" -> RowsOf(c) \subseteq file
      [] Program(c) = "step1" -> matched[c] = "found" \/ NumberIsMessage(c)
      [] OTHER -> TRUE

\* Whatever failed, nobody keeps a statement, a connection, a lock or memory,
\* and a file lock is held only by an open transaction.
ClientsLeaveNothing ==
  \A c \in Clients :
    /\ Over(c) => has[c] = {}
    /\ c \in shared \cup reserved => {"db", "transaction"} \subseteq has[c]

\* The file takes the whole work of a program or nothing of it.
WholeChanges ==
  [][\/ file' = file
     \/ file \subseteq file' /\ Names(Objects) \subseteq file'
     \/ \E c \in Clients : file' = file \cup RowsOf(c)]_file

\* Everybody ends, whoever else fails or is killed.
ClientsEnd == <>(\A c \in Clients : Over(c))
=============================================================================
