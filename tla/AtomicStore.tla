------------------------------ MODULE AtomicStore ------------------------------
(***************************************************************************)
(* What the intelligence store promises its callers: calls take effect one  *)
(* after the other, each of them entirely or not at all.  The log is the    *)
(* committed audit log; a call that writes k records adds k entries to it,  *)
(* next to each other and in order.                                        *)
(***************************************************************************)
EXTENDS Naturals, Sequences

CONSTANTS
  Calls,  \* the calls that may be made
  Size    \* Size[c]: how many records call c writes

VARIABLES
  log,      \* the committed entries, each a call and the number of the record
  pending,  \* calls under way
  done,     \* calls that have returned
  failed    \* calls that have raised an exception

vars == <<log, pending, done, failed>>

Entries(c) == [k \in 1..Size[c] |-> <<c, k>>]

Committed(c) == \E i \in 1..Len(log) : log[i][1] = c

Init == log = <<>> /\ pending = {} /\ done = {} /\ failed = {}

Begin(c) ==
  /\ c \notin pending \union done \union failed
  /\ ~Committed(c)
  /\ pending' = pending \union {c}
  /\ UNCHANGED <<log, done, failed>>

Commit(c) ==
  /\ c \in pending
  /\ ~Committed(c)
  /\ log' = log \o Entries(c)
  /\ UNCHANGED <<pending, done, failed>>

\* A call returns only after its commit; one that writes nothing has none.
Return(c) ==
  /\ c \in pending
  /\ Size[c] > 0 => Committed(c)
  /\ pending' = pending \ {c}
  /\ done' = done \union {c}
  /\ UNCHANGED <<log, failed>>

Raise(c) ==
  /\ c \in pending
  /\ ~Committed(c)
  /\ pending' = pending \ {c}
  /\ failed' = failed \union {c}
  /\ UNCHANGED <<log, done>>

\* The process dies: nobody learns what became of the calls under way.
Crash ==
  /\ pending' = {}
  /\ UNCHANGED <<log, done, failed>>

Next == Crash \/ \E c \in Calls : Begin(c) \/ Commit(c) \/ Return(c) \/ Raise(c)

Spec == Init /\ [][Next]_vars
=============================================================================
