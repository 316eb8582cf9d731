--------------------------- MODULE StoreTransactions ---------------------------
(***************************************************************************)
(* The transaction control of SQLiteIntelligenceStore: one SQLite           *)
(* connection and one RLock shared by the threads of the API's threadpool,  *)
(* and the two ways to write.  transaction() takes the lock and runs BEGIN  *)
(* IMMEDIATE; the private context manager _write() of the store methods     *)
(* reads the transaction depth WITHOUT the lock, and joins the transaction  *)
(* under way if there is one, whoever runs it.                             *)
(*                                                                         *)
(* The kinds of calls are                                                   *)
(*   "transaction"  ingest, record or resolve_contradiction: an explicit    *)
(*                  transaction() around several store methods, each of     *)
(*                  which inserts a row and appends an audit event          *)
(*   "instrument"   add_instrument: _write() around the insertion of a row  *)
(*                  and a nested append_audit_event                         *)
(*   "event"        append_audit_event alone, as the API calls it after an  *)
(*                  analysis or when evidence content is read               *)
(*   "read"         any query: one statement under the lock                 *)
(*   "snapshot"     snapshot_sha256: the chain is read under the lock, and    *)
(*                  afterwards the counts of rows, under the lock again       *)
(***************************************************************************)
EXTENDS Naturals, Sequences, FiniteSets

CONSTANTS
  Threads,
  Kinds,              \* the kinds of calls that are made
  TransactionWrites,  \* how many records a "transaction" writes
  MaxCalls,           \* bound: how many calls each thread makes
  Interruptible,      \* threads in which what is no Exception may be raised
  Nobody,             \* no thread
  Nothing,            \* no call
  Genesis             \* the previous_hash of the first event

ASSUME StoreAssumption ==
  /\ Kinds \subseteq {"transaction", "instrument", "event", "read", "snapshot"}
  /\ TransactionWrites \in Nat \ {0}
  /\ MaxCalls \in Nat
  /\ Interruptible \subseteq Threads
  /\ Nobody \notin Threads

\* A call; its number tells the calls of a thread apart.
Calls == [thread : Threads, number : 1..MaxCalls, kind : Kinds]

\* How many records, each with its audit event, a call writes.
Size ==
  [c \in Calls |-> CASE c.kind = "transaction" -> TransactionWrites
                     [] c.kind \in {"read", "snapshot"} -> 0
                     [] OTHER -> 1]

\* A record is named by its call and its number within the call, and so is its
\* event, the hash of which is as good as the name.
Names == Calls \X (1..TransactionWrites)

Events == [name : Names, previous : Names \union {Genesis}]

EmptyImage == [rows |-> {}, chain |-> <<>>]

VARIABLES
  working,  \* rows and audit chain as the connection sees them
  disk,     \* rows and audit chain committed
  open,     \* whether the connection is in a transaction (sqlite3's in_transaction)
  lock,     \* who holds _lock
  depth,    \* _transaction_depth
  doomed,   \* _transaction_failed
  closed,   \* _closed
  thread,   \* where each thread is in its call
  done,     \* the calls that have returned
  failed    \* the calls that have raised

store == <<working, disk, open, lock, depth, doomed, closed>>
vars == <<working, disk, open, lock, depth, doomed, closed, thread, done, failed>>

Labels ==
  {"idle",    \* in no call
   "write",   \* at the head of the call's _write()
   "open",    \* at transaction(), the lock not yet taken
   "insert",  \* about to insert the row of a record
   "audit",   \* at the head of append_audit_event's _write()
   "head",    \* about to read the last event's hash
   "append",  \* about to insert the event
   "leave",   \* at the finally of transaction()
   "read",    \* reading under the lock
   "return"}  \* about to answer

IdleThread(n) ==
  [pc |-> "idle", call |-> Nothing, calls |-> n, record |-> 1,
   opening |-> "call", previous |-> Genesis, raised |-> FALSE,
   seen |-> EmptyImage]

Init ==
  /\ working = EmptyImage
  /\ disk = EmptyImage
  /\ open = FALSE
  /\ lock = Nobody
  /\ depth = 0
  /\ doomed = FALSE
  /\ closed = FALSE
  /\ thread = [t \in Threads |-> IdleThread(0)]
  /\ done = {}
  /\ failed = {}

At(t, label) == thread[t].pc = label

Goto(t, label) == thread' = [thread EXCEPT ![t].pc = label]

\* The name of the record the thread is writing.
Name(t) == <<thread[t].call, thread[t].record>>

\* Fault: ORDER BY sequence ASC.
FirstName(chain) == IF chain = <<>> THEN Genesis ELSE chain[1].name

\* The name of the last event: SELECT event_hash ... ORDER BY sequence DESC.
LastName(chain) == IF chain = <<>> THEN Genesis ELSE chain[Len(chain)].name

-----------------------------------------------------------------------------
(* The steps of a call.                                                    *)

\* A thread of the pool starts a request.
Call(t, kind) ==
  /\ At(t, "idle")
  /\ thread[t].calls < MaxCalls
  /\ LET n == thread[t].calls + 1
         first == CASE kind = "transaction" -> "open"
                    [] kind = "instrument" -> "write"
                    [] kind = "event" -> "audit"
                    [] OTHER -> "open"
     IN  thread' = [thread EXCEPT ![t] =
           [IdleThread(n) EXCEPT
             !.pc = first,
             !.call = [thread |-> t, number |-> n, kind |-> kind],
             !.opening = IF kind = "event" THEN "event" ELSE "call"]]
  /\ UNCHANGED <<store, done, failed>>

\* _write() of the store method: with a transaction under way, by any thread, it
\* yields at once; otherwise it goes on to transaction().
Write(t) ==
  /\ At(t, "write")
  /\ Goto(t, IF depth # 0 THEN "insert" ELSE "open")
  /\ UNCHANGED <<store, done, failed>>

\* _write() of append_audit_event.
Audit(t) ==
  /\ At(t, "audit")
  /\ IF depth # 0
     THEN Goto(t, "head")
     ELSE thread' = [thread EXCEPT ![t].pc = "open", ![t].opening = "event"]
  /\ UNCHANGED <<store, done, failed>>

IsSnapshot(t) == thread[t].call.kind = "snapshot"

IsRead(t) == thread[t].call.kind = "read" \/ IsSnapshot(t)

\* transaction(): the lock, the check of _closed, BEGIN IMMEDIATE.
OpenTransaction(t) ==
  /\ At(t, "open") /\ ~IsRead(t)
  /\ lock = Nobody /\ ~closed /\ ~open
  /\ lock' = t
  /\ open' = TRUE
  /\ depth' = depth + 1
  /\ doomed' = FALSE
  /\ Goto(t, IF thread[t].opening = "call" THEN "insert" ELSE "head")
  /\ UNCHANGED <<working, disk, closed, done, failed>>

\* The call raises, with no transaction of its own to leave.
Fails(t) ==
  /\ failed' = failed \union {thread[t].call}
  /\ thread' = [thread EXCEPT ![t] = IdleThread(thread[t].calls)]
  /\ UNCHANGED <<store, done>>

\* The store is closed, or BEGIN IMMEDIATE meets a transaction that is open
\* already: "cannot start a transaction within a transaction".
OpenFails(t) ==
  /\ At(t, "open")
  /\ lock = Nobody
  /\ closed \/ (open /\ ~IsRead(t))
  /\ Fails(t)

\* INSERT of a row.  sqlite3 opens a transaction of its own if there is none.
Insert(t) ==
  /\ At(t, "insert") /\ ~closed
  /\ working' = [working EXCEPT !.rows = @ \union {Name(t)}]
  /\ open' = TRUE
  /\ Goto(t, "audit")
  /\ UNCHANGED <<disk, lock, depth, doomed, closed, done, failed>>

\* SELECT of the previous event's hash.
ReadHead(t) ==
  /\ At(t, "head") /\ ~closed
  /\ thread' = [thread EXCEPT ![t].pc = "append",
                              ![t].previous = LastName(working.chain)]
  /\ UNCHANGED <<store, done, failed>>

LastRecord(t) == thread[t].record = Size[thread[t].call]

\* INSERT of the event, and on to the next record or to the end of the block.
AppendEvent(t) ==
  /\ At(t, "append") /\ ~closed
  /\ working' = [working EXCEPT !.chain =
       @ \o <<[name |-> Name(t), previous |-> thread[t].previous]>>]
  /\ open' = TRUE
  /\ thread' = [thread EXCEPT
       ![t].pc = IF ~LastRecord(t) THEN "insert"
                 ELSE IF lock = t THEN "leave" ELSE "return",
       ![t].record = IF LastRecord(t) THEN @ ELSE @ + 1]
  /\ UNCHANGED <<disk, lock, depth, doomed, closed, done, failed>>

Statements == {"insert", "audit", "head", "append"}

\* Fault: the exception is not noted.
RaiseUnmarked(t) ==
  /\ thread[t].pc \in Statements
  /\ lock = t
  /\ thread' = [thread EXCEPT ![t].pc = "leave", ![t].raised = TRUE]
  /\ UNCHANGED <<store, done, failed>>

\* An Exception in the body of transaction(): a rejected claim, a constraint, an
\* error of the database.
Raise(t) ==
  /\ thread[t].pc \in Statements
  /\ lock = t
  /\ doomed' = TRUE
  /\ thread' = [thread EXCEPT ![t].pc = "leave", ![t].raised = TRUE]
  /\ UNCHANGED <<working, disk, open, lock, depth, closed, done, failed>>

\* The same in a call that has joined another thread's transaction, or after the
\* store has been closed under it: the exception leaves the call.
RaiseUnlocked(t) ==
  /\ thread[t].pc \in Statements
  /\ lock # t
  /\ Fails(t)

\* The finally of the outermost transaction(), but for its fields.
CommitOrRollBack ==
  IF doomed
  THEN working' = disk /\ UNCHANGED disk
  ELSE disk' = working /\ UNCHANGED working

\* Fault: the depth is not taken back.
LeaveDeep(t) ==
  /\ At(t, "leave")
  /\ CommitOrRollBack
  /\ lock' = Nobody /\ doomed' = FALSE /\ open' = FALSE
  /\ Goto(t, "return")
  /\ UNCHANGED <<depth, closed, done, failed>>

\* Fault: the lock is kept.
LeaveLocked(t) ==
  /\ At(t, "leave")
  /\ CommitOrRollBack
  /\ depth' = depth - 1 /\ doomed' = FALSE /\ open' = FALSE
  /\ Goto(t, "return")
  /\ UNCHANGED <<lock, closed, done, failed>>

\* Fault: a failed transaction is neither committed nor rolled back.
LeaveOpen(t) ==
  /\ At(t, "leave")
  /\ IF doomed THEN UNCHANGED <<working, disk, open>>
               ELSE CommitOrRollBack /\ open' = FALSE
  /\ lock' = Nobody /\ depth' = depth - 1 /\ doomed' = FALSE
  /\ Goto(t, "return")
  /\ UNCHANGED <<closed, done, failed>>

\* The finally of the outermost transaction(): rollback or commit, and the lock.
Leave(t) ==
  /\ At(t, "leave")
  /\ CommitOrRollBack
  /\ lock' = Nobody
  /\ depth' = depth - 1
  /\ doomed' = FALSE
  /\ open' = FALSE
  /\ Goto(t, "return")
  /\ UNCHANGED <<closed, done, failed>>

\* Fault: a commit that fails is as good as one that does not.
CommitUnnoticed(t) ==
  /\ At(t, "leave") /\ ~doomed
  /\ working' = disk
  /\ lock' = Nobody /\ depth' = depth - 1 /\ open' = FALSE
  /\ Goto(t, "return")
  /\ UNCHANGED <<disk, doomed, closed, done, failed>>

\* commit() itself raises, on a full disk or an error of its device: SQLite
\* rolls the transaction back, and the finally clauses run all the same.
CommitFails(t) ==
  /\ At(t, "leave") /\ ~doomed
  /\ working' = disk
  /\ lock' = Nobody
  /\ depth' = depth - 1
  /\ open' = FALSE
  /\ thread' = [thread EXCEPT ![t].pc = "return", ![t].raised = TRUE]
  /\ UNCHANGED <<disk, doomed, closed, done, failed>>

\* Fault: a query does not wait for the lock.
StartReadUnlocked(t) ==
  /\ At(t, "open") /\ IsRead(t)
  /\ ~closed
  /\ Goto(t, "read")
  /\ UNCHANGED <<store, done, failed>>

\* A query takes the lock, reads, and leaves it.
StartRead(t) ==
  /\ At(t, "open") /\ IsRead(t)
  /\ lock = Nobody /\ ~closed
  /\ lock' = t
  /\ Goto(t, "read")
  /\ UNCHANGED <<working, disk, open, depth, doomed, closed, done, failed>>

\* Fault: the rows are counted first, and the chain read afterwards.
EndReadReversed(t) ==
  /\ At(t, "read")
  /\ lock' = Nobody
  /\ thread' = [thread EXCEPT
       ![t].pc = IF IsSnapshot(t) /\ thread[t].record = 1 THEN "open"
                                                          ELSE "return",
       ![t].record = IF IsSnapshot(t) /\ @ = 1 THEN 2 ELSE @,
       ![t].seen = CASE ~IsSnapshot(t) -> @
                     [] thread[t].record = 1 -> [@ EXCEPT !.rows = working.rows]
                     [] OTHER -> [@ EXCEPT !.chain = working.chain]]
  /\ UNCHANGED <<working, disk, open, depth, doomed, closed, done, failed>>

\* The query is answered.  Of a snapshot the first query is that of
\* verify_audit_chain, and the second stands for the four of record_count.
EndRead(t) ==
  /\ At(t, "read")
  /\ lock' = Nobody
  /\ thread' = [thread EXCEPT
       ![t].pc = IF IsSnapshot(t) /\ thread[t].record = 1 THEN "open"
                                                          ELSE "return",
       ![t].record = IF IsSnapshot(t) /\ @ = 1 THEN 2 ELSE @,
       ![t].seen = CASE ~IsSnapshot(t) -> @
                     [] thread[t].record = 1 -> [@ EXCEPT !.chain = working.chain]
                     [] OTHER -> [@ EXCEPT !.rows = working.rows]]
  /\ UNCHANGED <<working, disk, open, depth, doomed, closed, done, failed>>

\* The call answers, or the exception reaches its caller.
Return(t) ==
  /\ At(t, "return")
  /\ IF thread[t].raised
     THEN failed' = failed \union {thread[t].call} /\ UNCHANGED done
     ELSE done' = done \union {thread[t].call} /\ UNCHANGED failed
  /\ thread' = [thread EXCEPT ![t] = IdleThread(thread[t].calls)]
  /\ UNCHANGED store

-----------------------------------------------------------------------------
(* What happens to the store as a whole.                                   *)

\* close(), by the shutdown of the application: an open transaction is lost.
Close ==
  /\ lock = Nobody
  /\ ~closed
  /\ closed' = TRUE
  /\ working' = disk
  /\ open' = FALSE
  /\ UNCHANGED <<disk, lock, depth, doomed, thread, done, failed>>

\* The process dies and is started again.
Crash ==
  /\ working' = disk
  /\ open' = FALSE /\ lock' = Nobody /\ depth' = 0 /\ doomed' = FALSE
  /\ closed' = FALSE
  /\ thread' = [t \in Threads |-> IdleThread(thread[t].calls)]
  /\ UNCHANGED <<disk, done, failed>>

Step(t) ==
  \/ Write(t) \/ Audit(t)
  \/ OpenTransaction(t) \/ OpenFails(t)
  \/ Insert(t) \/ ReadHead(t) \/ AppendEvent(t)
  \/ Raise(t) \/ RaiseUnlocked(t)
  \/ Leave(t) \/ CommitFails(t)
  \/ StartRead(t) \/ EndRead(t)
  \/ Return(t)

Next ==
  \/ \E t \in Threads, kind \in Kinds : Call(t, kind)
  \/ \E t \in Threads : Step(t)
  \/ Close
  \/ Crash

Spec == Init /\ [][Next]_vars

\* In the body of transaction() something is raised that is no Exception, such
\* as the KeyboardInterrupt of a main thread: the failure is not noted.
Interrupt(t) ==
  /\ t \in Interruptible
  /\ thread[t].pc \in Statements
  /\ lock = t
  /\ thread' = [thread EXCEPT ![t].pc = "leave", ![t].raised = TRUE]
  /\ UNCHANGED <<store, done, failed>>

\* The store used by a script that can be interrupted.
SpecInterrupted == Init /\ [][Next \/ \E t \in Threads : Interrupt(t)]_vars

\* Every thread of the pool goes on running.
FairSpec == Spec /\ \A t \in Threads : WF_vars(Step(t))

-----------------------------------------------------------------------------
(* Properties.                                                             *)

Images == [rows : SUBSET Names, chain : Seq(Events)]

ThreadRecords ==
  [pc : Labels, call : Calls \union {Nothing}, calls : 0..MaxCalls,
   record : 1..(TransactionWrites + 1), opening : {"call", "event"},
   previous : Names \union {Genesis}, raised : BOOLEAN, seen : Images]

\* The connection, the lock and the threads' places have their types; the depth
\* is that of the one transaction the lock's holder runs.
TypeOK ==
  /\ working \in Images /\ disk \in Images
  /\ open \in BOOLEAN /\ doomed \in BOOLEAN /\ closed \in BOOLEAN
  /\ lock \in Threads \union {Nobody}
  /\ depth \in 0..1
  /\ thread \in [Threads -> ThreadRecords]
  /\ done \subseteq Calls
  /\ failed \subseteq Calls

Linear(chain) ==
  \A i \in 1..Len(chain) :
    chain[i].previous = IF i = 1 THEN Genesis ELSE chain[i - 1].name

\* verify_audit_chain finds nothing: every event, committed or not, names the
\* event before it, although its hash is read by one statement and used by
\* another.
ChainLinear == Linear(working.chain) /\ Linear(disk.chain)

\* The records of a call, each with a row, if its kind has one, and an event.
Audited(image) ==
  {n \in Names : \E i \in 1..Len(image.chain) : image.chain[i].name = n}

Complete(image, c) ==
  \A k \in 1..Size[c] :
    /\ <<c, k>> \in Audited(image)
    /\ c.kind # "event" => <<c, k>> \in image.rows

Untouched(image, c) ==
  \A k \in 1..Size[c] : <<c, k>> \notin Audited(image) \union image.rows

\* Nothing is uncommitted while nobody has the lock or somebody reads under it:
\* no transaction is left open behind a call that has ended, in whatever way, so
\* that the next BEGIN IMMEDIATE is not refused, and no query sees what may still
\* be rolled back.
UnlockedIsCommitted ==
  \A t \in Threads :
    lock = Nobody \/ At(t, "read") => ~open /\ working = disk

\* A snapshot is taken by several queries with writers in between.  Its hash
\* still covers no audit event whose row it has not counted, because rows and
\* events are committed together and the chain is read first.
SnapshotsCounted ==
  \A t \in Threads :
    At(t, "return") /\ IsSnapshot(t) =>
      \A n \in Audited(thread[t].seen) :
        n \in thread[t].seen.rows \/ n[1].kind = "event"

\* A call that runs an explicit transaction is committed with all its rows and
\* events, or with none of them, whatever raises, crashes or is closed in the
\* middle of it, and what its caller is told is true: if it has returned it is
\* committed, and if it has raised it has left nothing behind.  This holds with
\* any other writers around.
TransactionsSafe ==
  \A c \in Calls : c.kind = "transaction" =>
    /\ Complete(disk, c) \/ Untouched(disk, c)
    /\ c \in done => Complete(disk, c)
    /\ c \in failed => Untouched(disk, c)

\* What docs/SECURITY_TENANCY.md:64 says, "Any exception rolls back the entire
\* ingestion": a call that has raised has left nothing behind.
ExceptionsRollBack ==
  \A c \in failed : c.kind = "transaction" => Untouched(disk, c)

\* Every call comes to its end: it returns, raises, or dies with the process.
CallsEnd == \A t \in Threads : ~At(t, "idle") ~> At(t, "idle")

-----------------------------------------------------------------------------
(* The store implements AtomicStore: the abstract log is the committed audit *)
(* chain without its hashes.                                               *)

Abstract == INSTANCE AtomicStore WITH
  log <- [i \in 1..Len(disk.chain) |-> disk.chain[i].name],
  pending <- {thread[t].call : t \in {t \in Threads : ~At(t, "idle")}}

\* Calls are committed one after the other, each of them entirely or not at all,
\* and return after their commit.
Serializable == Abstract!Spec
==============================================================================
