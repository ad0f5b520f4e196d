---------------------------- MODULE DatagramPool ----------------------------
(***************************************************************************)
(* What the backend promises to whoever sends it datagrams, without        *)
(* threads, flags, locks or slots: a pool of bounded capacity that hands   *)
(* every datagram it accepts to one worker, once, and that from the moment *)
(* it is closed neither accepts a datagram nor hands one out, while the    *)
(* calls that have begun run to their end.                                 *)
(***************************************************************************)
EXTENDS Naturals, FiniteSets

CONSTANTS
  Datagram,    \* what may be accepted
  Worker,      \* who may be handed a datagram
  Capacity,    \* datagrams accepted and not yet given up
  NoDatagram   \* what an idle worker holds

VARIABLES
  open,        \* the pool accepts and hands out
  pool,        \* datagrams accepted, waiting for a worker
  busy,        \* the datagram every worker is handling
  releasing,   \* workers that have handled one and still occupy its place
  done         \* datagrams that have been handled

poolVars == <<open, pool, busy, releasing, done>>

Working  == {w \in Worker : busy[w] # NoDatagram}
Occupied == Cardinality(pool) + Cardinality(Working \cup releasing)

Init ==
  /\ open = TRUE
  /\ pool = {}
  /\ busy = [w \in Worker |-> NoDatagram]
  /\ releasing = {}
  /\ done = {}

\* Only a datagram that is nowhere in the pool and has not been handled.
Accept(d) ==
  /\ open
  /\ d \notin pool \cup done \cup {busy[w] : w \in Worker}
  /\ Occupied < Capacity
  /\ pool' = pool \cup {d}
  /\ UNCHANGED <<open, busy, releasing, done>>

Take(w, d) ==
  /\ open
  /\ d \in pool
  /\ w \notin Working \cup releasing
  /\ pool' = pool \ {d}
  /\ busy' = [busy EXCEPT ![w] = d]
  /\ UNCHANGED <<open, releasing, done>>

Handle(w) ==
  /\ w \in Working
  /\ done' = done \cup {busy[w]}
  /\ busy' = [busy EXCEPT ![w] = NoDatagram]
  /\ releasing' = releasing \cup {w}
  /\ UNCHANGED <<open, pool>>

Release(w) ==
  /\ w \in releasing
  /\ releasing' = releasing \ {w}
  /\ UNCHANGED <<open, pool, busy, done>>

\* The peer sends a handled datagram again: it counts as a new one.
Renew(d) ==
  /\ d \in done
  /\ done' = done \ {d}
  /\ UNCHANGED <<open, pool, busy, releasing>>

Close ==
  /\ open
  /\ open' = FALSE
  /\ UNCHANGED <<pool, busy, releasing, done>>

Next ==
  \/ \E d \in Datagram : Accept(d) \/ Renew(d)
  \/ \E w \in Worker : Handle(w) \/ Release(w)
  \/ \E w \in Worker, d \in Datagram : Take(w, d)
  \/ Close

Spec == Init /\ [][Next]_poolVars
=============================================================================
