------------------------------ MODULE MCLoading ------------------------------
(***************************************************************************)
(* Loading with small numbers and documents, for TLC.                      *)
(***************************************************************************)
EXTENDS Loading

Kind == {"none", "entryNodes", "hex", "identifier", "strLibrary",
         "entry_process_data", "handler", "inProgram", "dlsym"}

\* Every document of up to two entries, and the last of three is any.
MCDocuments ==
  UNION {[1 .. n -> Kind] : n \in 0 .. 2} \cup {<<"none", "none", k>> : k \in Kind}

\* At and just beyond every limit, and beyond the width of the types: 70 becomes
\* the port 6, 131 the timeout 3, 129 the number 1.
MCNumbers ==
  [port : {1, 70}, sendTimeout : {-16, 4, 131}, recvTimeout : {-17, 3, 4},
   queue_max : {0, 1, 5, 6, 129}, threadPoolSize : {0, 4, 5}]

MCMinTimeout == -16
MCSizes == {0, 3, 7, 8, 15, 16, 30, 31}

MCFaults == {"configAccess", "config", "runing_path", "open", "descriptors", "seek",
             "read", "enlarge", "doc", "nodes", "strAddress", "address", "numbers", "strLogPath",
             "log_path", "logAccess", "pluginsAccess", "plugins", "items", "hex",
             "identifier", "strLibrary", "entry_process_data", "library"}
=============================================================================
