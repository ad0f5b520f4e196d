------------------------------- MODULE MCSamples -------------------------------
(***************************************************************************)
(* Instances of the samples' modules.  A behaviour is a run of one of the  *)
(* two programs with threads, or of some clients of the database together. *)
(***************************************************************************)
EXTENDS SampleThreads, SampleDatabase

MCClientSets ==
  {{<<"part11", 1>>, <<"part12", 1>>},
   {<<"part11", 1>>, <<"part11", 2>>},
   {<<"part12", 1>>, <<"part12", 2>>},
   {<<"step2", 1>>, <<"step2", 2>>, <<"part11", 1>>},
   {<<"step1", 1>>}, {<<"step3", 1>>}}

vars == <<threadVars, dbVars>>

Init ==
  \/ ThreadsInit /\ DbIdle
  \/ ThreadsIdle /\ DbInit

Next ==
  \/ ThreadsNext /\ UNCHANGED dbVars
  \/ DbNext /\ UNCHANGED threadVars

Spec == Init /\ [][Next]_vars /\ ThreadsFairness /\ DbFairness

-----------------------------------------------------------------------------
TypeOK == ThreadsTypeOK /\ DbTypeOK

\* What kcStartThread (part05/main.c, ddostools/main.c) and the programs with a
\* database report as success has happened, but for two gaps: a wait of main that
\* returns without a signal, and a mobile number without memory (NumberIsMessage).
SuccessIsTrue == SuccessMeansStarted /\ SuccessMeansDone

\* Whichever step has failed, a program that has ended keeps no memory, no
\* lock, no connection and no thread, but for what ddostools never joins
\* (NeverJoined).
NothingIsLeft == ThreadsLeaveNothing /\ ClientsLeaveNothing

\* main of part05 and ddostools, and every client of the database, go on until
\* they run or have ended, but for the gaps ThreadsProceed names.
SamplesEnd == ThreadsProceed /\ ClientsEnd
=============================================================================
