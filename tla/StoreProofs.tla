----------------------------- MODULE StoreProofs -----------------------------
(***************************************************************************)
(* StoreTransactions: the lock, the transaction depth and the places of    *)
(* the threads, and what an explicit transaction promises, for any          *)
(* threads, kinds of calls and numbers of calls and records.               *)
(***************************************************************************)
EXTENDS StoreTransactions, SequenceTheorems, TLAPS

-----------------------------------------------------------------------------
(* Types, the lock, and where a call of a kind may be.                     *)

\* The holder of the lock reads, or runs the transaction under way.
HolderOK(t) ==
  /\ lock = t =>
       \/ At(t, "read") /\ depth = 0 /\ ~doomed
       \/ thread[t].pc \in Statements /\ depth = 1 /\ ~doomed
       \/ At(t, "leave") /\ depth = 1 /\ doomed = thread[t].raised
  /\ At(t, "read") \/ At(t, "leave") => lock = t
  /\ At(t, "leave") \/ At(t, "return") \/ thread[t].raised = FALSE

\* The statements of a transaction's call run under the lock: it never joins.
CallOK(t) ==
  ~At(t, "idle") =>
    /\ thread[t].call \in Calls
    /\ thread[t].call.thread = t
    /\ thread[t].call.number = thread[t].calls
    /\ thread[t].call.kind = "transaction" =>
         /\ thread[t].pc \in {"open", "leave", "return"} \union Statements
         /\ thread[t].opening = "call"
         /\ thread[t].pc \in Statements => lock = t
         /\ thread[t].record <= TransactionWrites
         /\ At(t, "open") => thread[t].record = 1
    /\ thread[t].call.kind \in {"instrument", "event"} => thread[t].record = 1
    /\ IsRead(t) => thread[t].pc \in {"open", "read", "return"}

Control ==
  /\ TypeOK
  /\ \A t \in Threads : HolderOK(t) /\ CallOK(t)
  /\ lock = Nobody => depth = 0 /\ ~doomed
  /\ closed => lock = Nobody

LEMMA EmptyImageOK == EmptyImage \in Images
  BY DEF EmptyImage, Images

LEMMA IdleOK ==
  ASSUME NEW n \in 0..MaxCalls
  PROVE  IdleThread(n) \in ThreadRecords
  BY EmptyImageOK, StoreAssumption
  DEF StoreAssumption, IdleThread, ThreadRecords, Labels

LEMMA SizeOf ==
  ASSUME NEW c \in Calls
  PROVE  /\ c.kind = "transaction" => Size[c] = TransactionWrites
         /\ c.kind \in {"read", "snapshot"} => Size[c] = 0
         /\ c.kind \in {"instrument", "event"} => Size[c] = 1
         /\ c.kind \in {"transaction", "instrument", "event", "read", "snapshot"}
  BY StoreAssumption DEF StoreAssumption, Size, Calls

LEMMA ControlInit == Init => Control
<1> SUFFICES ASSUME Init PROVE Control
  OBVIOUS
<1>1. \A t \in Threads : thread[t] = IdleThread(0)
  BY DEF Init
<1>2. thread \in [Threads -> ThreadRecords]
  BY IdleOK, StoreAssumption DEF StoreAssumption, Init
<1>3. \A t \in Threads : At(t, "idle") /\ thread[t].raised = FALSE /\ lock # t
  BY <1>1, StoreAssumption DEF StoreAssumption, Init, IdleThread, At
<1>4. \A t \in Threads : HolderOK(t) /\ CallOK(t)
  BY <1>3 DEF HolderOK, CallOK, At
<1>5. TypeOK
  <2>1. working \in Images /\ disk \in Images
    BY EmptyImageOK DEF Init
  <2>2. open \in BOOLEAN /\ doomed \in BOOLEAN /\ closed \in BOOLEAN
    BY DEF Init
  <2>3. depth \in 0..1 /\ lock \in Threads \union {Nobody}
    BY DEF Init
  <2>4. done \subseteq Calls /\ failed \subseteq Calls
    BY DEF Init
  <2> QED
    BY <1>2, <2>1, <2>2, <2>3, <2>4 DEF TypeOK
<1> QED
  BY <1>4, <1>5 DEF Init, Control

\* The other threads stay where they are.
MovesOnly(t) ==
  /\ thread' \in [Threads -> ThreadRecords]
  /\ \A u \in Threads : u # t => thread'[u] = thread[u]

LEMMA Moves ==
  ASSUME Control, NEW t \in Threads, NEW r \in ThreadRecords,
         thread' = [thread EXCEPT ![t] = r]
  PROVE  MovesOnly(t) /\ thread'[t] = r
BY DEF Control, TypeOK, MovesOnly

\* A thread's place, its lock and its call are what the rest looks at: the
\* others are not affected by a step that leaves the lock to its holder.
LEMMA ControlStep ==
  ASSUME Control, NEW t \in Threads, MovesOnly(t), TypeOK',
         HolderOK(t)', CallOK(t)',
         \/ lock' = lock
         \/ lock = Nobody /\ lock' = t
         \/ lock = t /\ lock' = Nobody,
         lock \notin {t, Nobody} => UNCHANGED <<depth, doomed>>,
         lock' = Nobody => depth' = 0 /\ ~doomed',
         closed' => lock' = Nobody
  PROVE  Control'
<1>1. ASSUME NEW u \in Threads, u # t
      PROVE  HolderOK(u)' /\ CallOK(u)'
  <2>1. thread'[u] = thread[u]
    BY <1>1 DEF MovesOnly
  <2>2. lock' = u <=> lock = u
    BY <1>1, StoreAssumption DEF StoreAssumption
  <2>3. lock = u => UNCHANGED <<depth, doomed>>
    BY <1>1, StoreAssumption DEF StoreAssumption
  <2> QED
    BY <2>1, <2>2, <2>3 DEF Control, HolderOK, CallOK, At, IsRead, IsSnapshot
<1> QED
  BY <1>1 DEF Control

-----------------------------------------------------------------------------
(* One lemma per action.                                                   *)

LEMMA CallControl ==
  ASSUME Control, NEW t \in Threads, NEW kind \in Kinds, Call(t, kind)
  PROVE  Control'
<1>1. PICK n : n = thread[t].calls + 1
  OBVIOUS
<1>2. PICK c : c = [thread |-> t, number |-> n, kind |-> kind]
  OBVIOUS
<1>3. PICK pc, opening :
        /\ thread' = [thread EXCEPT ![t] =
             [IdleThread(n) EXCEPT !.pc = pc, !.call = c, !.opening = opening]]
        /\ opening \in {"call", "event"}
        /\ pc \in {"open", "write", "audit"}
        /\ kind \in {"read", "snapshot"} => pc = "open"
        /\ kind = "transaction" => pc = "open" /\ opening = "call"
  BY <1>1, <1>2, StoreAssumption DEF StoreAssumption, Call
<1>4. /\ n \in 0..MaxCalls
      /\ c \in Calls
      /\ c.thread = t
      /\ c.number = n
      /\ c.kind = kind
      /\ pc \in Labels \ {"idle", "read", "leave"}
      /\ pc \notin Statements \ {"audit"}
      /\ opening \in {"call", "event"}
      /\ kind \in {"read", "snapshot"} => pc = "open"
      /\ kind = "transaction" => pc = "open" /\ opening = "call"
  BY <1>1, <1>2, <1>3, StoreAssumption
  DEF StoreAssumption, Control, TypeOK, ThreadRecords, Call, Calls, Labels,
      Statements
<1>5. thread'[t] = [pc |-> pc, call |-> c, calls |-> n, record |-> 1,
                    opening |-> opening, previous |-> Genesis,
                    raised |-> FALSE, seen |-> EmptyImage]
  BY <1>3 DEF Control, TypeOK, IdleThread
<1>6. thread'[t] \in ThreadRecords
  BY <1>4, <1>5, EmptyImageOK, StoreAssumption
  DEF StoreAssumption, ThreadRecords
<1>7. MovesOnly(t)
  BY <1>3, <1>5, <1>6 DEF MovesOnly, Control, TypeOK
<1>8. TypeOK'
  BY <1>7 DEF MovesOnly, Control, TypeOK, Call, store
<1>9. lock' = lock /\ lock # t
  BY DEF Call, store, Control, HolderOK, At, Statements
<1>10. HolderOK(t)'
  <2>1. /\ thread'[t].pc \notin {"read", "leave"} \union (Statements \ {"audit"})
        /\ thread'[t].raised = FALSE
    BY <1>4, <1>5 DEF Statements
  <2>2. lock' # t /\ ~At(t, "read")' /\ ~At(t, "leave")'
    BY <1>9, <2>1 DEF At
  <2> QED
    BY <2>1, <2>2, Zenon DEF HolderOK, At
<1>11. CallOK(t)'
  BY <1>4, <1>5, StoreAssumption
  DEF StoreAssumption, CallOK, At, IsRead, IsSnapshot, Statements
<1> QED
  BY <1>7, <1>8, <1>9, <1>10, <1>11, ControlStep DEF Call, store, Control

LEMMA WriteControl ==
  ASSUME Control, NEW t \in Threads, Write(t)
  PROVE  Control'
<1>1. PICK pc \in {"insert", "open"} :
        /\ thread' = [thread EXCEPT ![t].pc = pc]
        /\ UNCHANGED <<store, done, failed>>
  BY DEF Write, Goto
<1>2. MovesOnly(t) /\ thread'[t] = [thread[t] EXCEPT !.pc = pc]
  BY <1>1 DEF MovesOnly, Control, TypeOK, ThreadRecords, Labels
<1>3. TypeOK'
  BY <1>1, <1>2 DEF MovesOnly, Control, TypeOK, store
<1>4. lock # t /\ CallOK(t) /\ HolderOK(t) /\ At(t, "write")
  BY DEF Write, Control, HolderOK, At, Statements
<1>5. HolderOK(t)' /\ CallOK(t)'
  BY <1>1, <1>2, <1>4
  DEF Control, TypeOK, ThreadRecords, store, HolderOK, CallOK, At, IsRead,
      IsSnapshot, Statements
<1> QED
  BY <1>1, <1>2, <1>3, <1>5, ControlStep DEF store, Control

LEMMA AuditControl ==
  ASSUME Control, NEW t \in Threads, Audit(t)
  PROVE  Control'
<1>1. PICK pc \in {"head", "open"}, opening \in {"call", "event"} :
        /\ thread' = [thread EXCEPT ![t].pc = pc, ![t].opening = opening]
        /\ UNCHANGED <<store, done, failed>>
        /\ depth # 0 => pc = "head" /\ opening = thread[t].opening
  <2>1. CASE depth # 0
    <3>1. thread[t] = [thread[t] EXCEPT !.opening = thread[t].opening]
      BY DEF Control, TypeOK, ThreadRecords
    <3>2. thread' = [thread EXCEPT ![t].pc = "head",
                                   ![t].opening = thread[t].opening]
      BY <2>1, <3>1 DEF Audit, Goto, Control, TypeOK, ThreadRecords
    <3> QED
      BY <2>1, <3>2 DEF Audit, Control, TypeOK, ThreadRecords
  <2>2. CASE depth = 0
    BY <2>2 DEF Audit
  <2> QED
    BY <2>1, <2>2
<1>2. /\ MovesOnly(t)
      /\ thread'[t] = [thread[t] EXCEPT !.pc = pc, !.opening = opening]
  <2>1. thread[t] \in ThreadRecords
    BY DEF Control, TypeOK
  <2>2. [thread[t] EXCEPT !.pc = pc, !.opening = opening] \in ThreadRecords
    BY <2>1 DEF ThreadRecords, Labels
  <2>3. thread' = [thread EXCEPT
          ![t] = [thread[t] EXCEPT !.pc = pc, !.opening = opening]]
    BY <1>1 DEF Control, TypeOK
  <2> QED
    BY <2>2, <2>3, Moves
<1>3. TypeOK'
  BY <1>1, <1>2 DEF MovesOnly, Control, TypeOK, store
<1>4. CallOK(t) /\ HolderOK(t) /\ At(t, "audit")
  BY DEF Audit, Control
<1>5. HolderOK(t)' /\ CallOK(t)'
  BY <1>1, <1>2, <1>4, StoreAssumption
  DEF StoreAssumption, Control, TypeOK, ThreadRecords, store, HolderOK, CallOK,
      At, IsRead, IsSnapshot, Statements
<1> QED
  BY <1>1, <1>2, <1>3, <1>5, ControlStep DEF store, Control

LEMMA OpenControl ==
  ASSUME Control, NEW t \in Threads, OpenTransaction(t)
  PROVE  Control'
<1>1. PICK pc \in {"insert", "head"} : thread' = [thread EXCEPT ![t].pc = pc]
  BY DEF OpenTransaction, Goto
<1>2. MovesOnly(t) /\ thread'[t] = [thread[t] EXCEPT !.pc = pc]
  BY <1>1 DEF MovesOnly, Control, TypeOK, ThreadRecords, Labels
<1>3. depth' = 1 /\ doomed' = FALSE /\ lock' = t /\ open' = TRUE /\ ~closed'
  BY DEF OpenTransaction, Control, TypeOK
<1>4. TypeOK'
  <2>1. open' \in BOOLEAN /\ doomed' \in BOOLEAN /\ closed' \in BOOLEAN
    BY <1>3 DEF Control, TypeOK, OpenTransaction
  <2>2. lock' \in Threads \union {Nobody} /\ depth' \in 0..1
    BY <1>3
  <2> QED
    BY <1>2, <2>1, <2>2 DEF MovesOnly, Control, TypeOK, OpenTransaction
<1>5. CallOK(t) /\ HolderOK(t) /\ At(t, "open") /\ ~IsRead(t)
  BY DEF OpenTransaction, Control
<1>6. HolderOK(t)' /\ CallOK(t)'
  BY <1>1, <1>2, <1>3, <1>5, StoreAssumption
  DEF StoreAssumption, Control, TypeOK, ThreadRecords, HolderOK, CallOK,
      At, IsRead, IsSnapshot, Statements
<1>7. lock = Nobody /\ lock' # Nobody
  BY <1>3, StoreAssumption DEF StoreAssumption, OpenTransaction
<1> QED
  BY <1>2, <1>3, <1>4, <1>6, <1>7, ControlStep DEF Control

LEMMA FailsControl ==
  ASSUME Control, NEW t \in Threads, ~At(t, "idle"), lock # t, Fails(t)
  PROVE  Control'
<1>1. PICK n \in 0..MaxCalls : n = thread[t].calls
  BY DEF Control, TypeOK, ThreadRecords
<1>2. IdleThread(n) \in ThreadRecords
  BY IdleOK
<1>3. MovesOnly(t) /\ thread'[t] = IdleThread(n)
  BY <1>1, <1>2 DEF MovesOnly, Control, TypeOK, Fails
<1>4. At(t, "idle")' /\ thread'[t].raised = FALSE /\ lock' # t
  BY <1>3 DEF At, IdleThread, Fails, store
<1>5. HolderOK(t)' /\ CallOK(t)'
  BY <1>4 DEF HolderOK, CallOK, At
<1>6. TypeOK'
  BY <1>3 DEF MovesOnly, Control, TypeOK, CallOK, Fails, store
<1> QED
  BY <1>3, <1>5, <1>6, ControlStep DEF Fails, store, Control

LEMMA OpenFailsControl ==
  ASSUME Control, NEW t \in Threads, OpenFails(t)
  PROVE  Control'
BY FailsControl, StoreAssumption DEF StoreAssumption, OpenFails, At

LEMMA RaiseUnlockedControl ==
  ASSUME Control, NEW t \in Threads, RaiseUnlocked(t)
  PROVE  Control'
BY FailsControl DEF RaiseUnlocked, At, Statements

LEMMA RaiseControl ==
  ASSUME Control, NEW t \in Threads, Raise(t)
  PROVE  Control'
<1>1. PICK r : r = [thread[t] EXCEPT !.pc = "leave", !.raised = TRUE]
  OBVIOUS
<1>2. /\ r \in ThreadRecords
      /\ r.pc = "leave" /\ r.raised = TRUE /\ r.call = thread[t].call
      /\ r.calls = thread[t].calls /\ r.record = thread[t].record
      /\ r.opening = thread[t].opening
  BY <1>1 DEF Control, TypeOK, ThreadRecords, Labels
<1>3. thread' = [thread EXCEPT ![t] = r]
  BY <1>1 DEF Raise, Control, TypeOK
<1>4. MovesOnly(t) /\ thread'[t] = r
  BY <1>2, <1>3, Moves
<1>5. /\ lock' = t /\ lock = t /\ depth' = depth /\ doomed' = TRUE
      /\ UNCHANGED <<working, disk, open, closed, done, failed>>
  BY DEF Raise
<1>6. TypeOK'
  BY <1>4, <1>5 DEF MovesOnly, Control, TypeOK
<1>7. CallOK(t) /\ HolderOK(t) /\ thread[t].pc \in Statements
  BY DEF Raise, Control
<1>8. depth = 1 /\ ~At(t, "idle")
  BY <1>5, <1>7 DEF HolderOK, At, Statements
<1>9. CallOK(t)'
  BY <1>2, <1>4, <1>5, <1>7, <1>8
  DEF CallOK, At, IsRead, IsSnapshot, Statements
<1>10. HolderOK(t)'
  <2>1. At(t, "leave")' /\ depth' = 1 /\ doomed' = thread'[t].raised
    BY <1>2, <1>4, <1>5, <1>8 DEF At
  <2> QED
    BY <1>5, <2>1 DEF HolderOK
<1> QED
  BY <1>4, <1>5, <1>6, <1>9, <1>10, StoreAssumption, ControlStep
  DEF StoreAssumption, Control

\* The end of transaction(), however it goes.
LEMMA LeavesControl ==
  ASSUME Control, NEW t \in Threads, At(t, "leave"),
         NEW b \in BOOLEAN,
         thread' = [thread EXCEPT ![t] = [thread[t] EXCEPT !.pc = "return",
                                                           !.raised = b]],
         working' \in {working, disk}, disk' \in {working, disk},
         lock' = Nobody, depth' = depth - 1, doomed' = FALSE, open' = FALSE,
         UNCHANGED <<closed, done, failed>>
  PROVE  Control'
<1>1. PICK r : r = [thread[t] EXCEPT !.pc = "return", !.raised = b]
  OBVIOUS
<1>2. /\ r \in ThreadRecords
      /\ r.pc = "return" /\ r.call = thread[t].call
      /\ r.calls = thread[t].calls /\ r.record = thread[t].record
      /\ r.opening = thread[t].opening
  BY <1>1 DEF Control, TypeOK, ThreadRecords, Labels
<1>3. MovesOnly(t) /\ thread'[t] = r
  BY <1>1, <1>2, Moves
<1>4. HolderOK(t) /\ CallOK(t) /\ lock = t /\ depth = 1 /\ depth' = 0
  BY DEF Control, HolderOK, At, Statements
<1>5. TypeOK'
  <2>1. open' \in BOOLEAN /\ doomed' \in BOOLEAN /\ closed' \in BOOLEAN
    BY DEF Control, TypeOK
  <2> QED
    BY <1>3, <1>4, <2>1 DEF MovesOnly, Control, TypeOK
<1>6. lock' # t /\ At(t, "return")' /\ ~At(t, "leave")' /\ ~At(t, "read")'
  BY <1>2, <1>3, StoreAssumption DEF StoreAssumption, At
<1>7. HolderOK(t)'
  BY <1>6 DEF HolderOK
<1>8. CallOK(t)'
  BY <1>2, <1>3, <1>4 DEF CallOK, At, IsRead, IsSnapshot, Statements
<1> QED
  BY <1>3, <1>4, <1>5, <1>7, <1>8, ControlStep DEF Control

LEMMA LeaveControl ==
  ASSUME Control, NEW t \in Threads, Leave(t) \/ CommitFails(t)
  PROVE  Control'
<1>1. thread[t] \in ThreadRecords
  BY DEF Control, TypeOK
<1>2. CASE Leave(t)
  <2>1. PICK b \in BOOLEAN : b = thread[t].raised
    BY <1>1 DEF ThreadRecords
  <2>2. [thread[t] EXCEPT !.pc = "return", !.raised = b]
          = [thread[t] EXCEPT !.pc = "return"]
    BY <1>1, <2>1 DEF ThreadRecords
  <2>3. thread' = [thread EXCEPT ![t] = [thread[t] EXCEPT !.pc = "return",
                                                          !.raised = b]]
    BY <1>2, <2>2 DEF Leave, Goto, Control, TypeOK
  <2> QED
    BY <1>2, <2>3, LeavesControl DEF Leave, CommitOrRollBack
<1>3. CASE CommitFails(t)
  <2>1. thread' = [thread EXCEPT ![t] = [thread[t] EXCEPT !.pc = "return",
                                                          !.raised = TRUE]]
    BY <1>3 DEF CommitFails, Control, TypeOK
  <2>2. doomed' = FALSE
    BY <1>3 DEF CommitFails, Control, TypeOK
  <2> QED
    BY <1>3, <2>1, <2>2, LeavesControl DEF CommitFails
<1> QED
  BY <1>2, <1>3

\* What a call at one of its statements writes is within its size.
LEMMA NameOK ==
  ASSUME Control, NEW t \in Threads, thread[t].pc \in Statements
  PROVE  /\ Name(t) \in Names
         /\ thread[t].record \in 1..Size[thread[t].call]
         /\ Size[thread[t].call] \in 1..TransactionWrites
         /\ thread[t].call \in Calls
         /\ thread[t].call.kind \in {"transaction", "instrument", "event"}
<1>1. /\ CallOK(t)
      /\ ~At(t, "idle")
      /\ thread[t].pc \notin {"open", "read", "return"}
  BY DEF Control, Statements, At
<1>2. thread[t].call \in Calls /\ ~IsRead(t)
  BY <1>1 DEF CallOK
<1>3. thread[t].call.kind \in {"transaction", "instrument", "event"}
  BY <1>2, SizeOf DEF IsRead, IsSnapshot
<1>4. thread[t].record \in 1..(TransactionWrites + 1)
  BY DEF Control, TypeOK, ThreadRecords
<1>5. CASE thread[t].call.kind = "transaction"
  <2>1. /\ Size[thread[t].call] = TransactionWrites
        /\ thread[t].record <= TransactionWrites
    BY <1>1, <1>2, <1>5, SizeOf DEF CallOK
  <2> QED
    BY <1>2, <1>3, <1>4, <2>1, StoreAssumption
    DEF StoreAssumption, Name, Names
<1>6. CASE thread[t].call.kind # "transaction"
  <2>1. Size[thread[t].call] = 1 /\ thread[t].record = 1
    BY <1>1, <1>2, <1>3, <1>6, SizeOf DEF CallOK
  <2> QED
    BY <1>2, <1>3, <2>1, StoreAssumption DEF StoreAssumption, Name, Names
<1> QED
  BY <1>5, <1>6

\* A call goes from one of its statements to the next.
LEMMA StatementControl ==
  ASSUME Control, NEW t \in Threads, thread[t].pc \in Statements,
         NEW r \in ThreadRecords, thread' = [thread EXCEPT ![t] = r],
         r.pc \in Statements,
         r.call = thread[t].call, r.calls = thread[t].calls,
         r.opening = thread[t].opening, r.raised = thread[t].raised,
         r.record \in 1..Size[r.call],
         working' \in Images, open' \in BOOLEAN,
         UNCHANGED <<disk, lock, depth, doomed, closed, done, failed>>
  PROVE  Control'
<1>1. MovesOnly(t) /\ thread'[t] = r
  BY Moves
<1>2. TypeOK'
  BY <1>1 DEF MovesOnly, Control, TypeOK
<1>3. CallOK(t) /\ HolderOK(t) /\ ~At(t, "idle")
  BY DEF Control, Statements, At
<1>4. /\ r.call.kind = "transaction" => r.record <= TransactionWrites
      /\ r.call.kind # "transaction" => r.record = 1
      /\ ~IsRead(t)
  BY NameOK, SizeOf, StoreAssumption DEF StoreAssumption, IsRead, IsSnapshot
<1>5. CallOK(t)'
  <2>1. ~At(t, "open")'
    BY <1>1 DEF At, Statements
  <2> QED
    BY <1>1, <1>3, <1>4, <2>1 DEF CallOK, IsRead, IsSnapshot
<1>6. /\ lock = t => depth = 1 /\ ~doomed
      /\ thread[t].raised = FALSE
  BY <1>3 DEF HolderOK, At, Statements, Control, TypeOK, ThreadRecords
<1>7. HolderOK(t)'
  <2>1. ~At(t, "read")' /\ ~At(t, "leave")' /\ thread'[t].raised = FALSE
    BY <1>1, <1>6 DEF At, Statements
  <2>2. thread'[t].pc \in Statements
    BY <1>1
  <2>3. lock' = t => depth' = 1 /\ ~doomed'
    BY <1>6
  <2> QED
    BY <2>1, <2>2, <2>3, Zenon DEF HolderOK
<1> QED
  BY <1>1, <1>2, <1>5, <1>7, ControlStep DEF Control

LEMMA InsertControl ==
  ASSUME Control, NEW t \in Threads, Insert(t)
  PROVE  Control'
<1>1. PICK r : r = [thread[t] EXCEPT !.pc = "audit"]
  OBVIOUS
<1>2. thread[t].pc \in Statements
  BY DEF Insert, At, Statements
<1>3. /\ r \in ThreadRecords /\ r.pc \in Statements
      /\ r.call = thread[t].call /\ r.calls = thread[t].calls
      /\ r.opening = thread[t].opening /\ r.raised = thread[t].raised
      /\ r.record = thread[t].record
      /\ thread' = [thread EXCEPT ![t] = r]
  BY <1>1 DEF Insert, Goto, Control, TypeOK, ThreadRecords, Labels, Statements
<1>4. working' \in Images
  BY <1>2, NameOK DEF Insert, Control, TypeOK, Images
<1>5. open' \in BOOLEAN
  BY DEF Insert
<1> QED
  BY <1>2, <1>3, <1>4, <1>5, NameOK, StatementControl DEF Insert

\* The hash an event names is that of an event of the chain.
LEMMA LastNameOK ==
  ASSUME NEW chain \in Seq(Events)
  PROVE  LastName(chain) \in Names \union {Genesis}
<1>1. CASE chain # <<>>
  <2>1. Len(chain) \in 1..Len(chain)
    BY <1>1
  <2>2. chain[Len(chain)] \in Events
    BY <2>1
  <2> QED
    BY <1>1, <2>2 DEF LastName, Events
<1> QED
  BY <1>1 DEF LastName

LEMMA ReadHeadControl ==
  ASSUME Control, NEW t \in Threads, ReadHead(t)
  PROVE  Control'
<1>1. PICK r : r = [thread[t] EXCEPT !.pc = "append",
                                     !.previous = LastName(working.chain)]
  OBVIOUS
<1>2. thread[t].pc \in Statements
  BY DEF ReadHead, At, Statements
<1>3. LastName(working.chain) \in Names \union {Genesis}
  BY LastNameOK DEF Control, TypeOK, Images
<1>4. /\ r \in ThreadRecords /\ r.pc \in Statements
      /\ r.call = thread[t].call /\ r.calls = thread[t].calls
      /\ r.opening = thread[t].opening /\ r.raised = thread[t].raised
      /\ r.record = thread[t].record
  BY <1>1, <1>3 DEF Control, TypeOK, ThreadRecords, Labels, Statements
<1>5. thread' = [thread EXCEPT ![t] = r]
  BY <1>1 DEF ReadHead, Control, TypeOK
<1>6. working' \in Images /\ open' \in BOOLEAN
  BY DEF ReadHead, store, Control, TypeOK
<1> QED
  BY <1>2, <1>4, <1>5, <1>6, NameOK, StatementControl DEF ReadHead, store

\* The event AppendEvent writes, and the chain with it.
NewEvent(t) == [name |-> Name(t), previous |-> thread[t].previous]

LEMMA AppendEventControl ==
  ASSUME Control, NEW t \in Threads, AppendEvent(t)
  PROVE  Control'
<1>1. /\ thread[t].pc \in Statements
      /\ thread[t] \in ThreadRecords
      /\ HolderOK(t) /\ CallOK(t)
  BY DEF AppendEvent, At, Statements, Control, TypeOK
<1>2. /\ Name(t) \in Names
      /\ thread[t].record \in 1..Size[thread[t].call]
      /\ Size[thread[t].call] \in 1..TransactionWrites
  BY <1>1, NameOK
<1>3. working' \in Images
  <2>1. NewEvent(t) \in Events
    BY <1>1, <1>2 DEF NewEvent, Events, ThreadRecords
  <2>2. working.chain \o <<NewEvent(t)>> \in Seq(Events)
    BY <2>1 DEF Control, TypeOK, Images
  <2>3. working' = [working EXCEPT !.chain = @ \o <<NewEvent(t)>>]
    BY DEF AppendEvent, NewEvent
  <2> QED
    BY <2>2, <2>3 DEF Control, TypeOK, Images
<1>4. CASE ~LastRecord(t)
  <2>1. PICK r : r = [thread[t] EXCEPT !.pc = "insert", !.record = @ + 1]
    OBVIOUS
  <2>2. thread[t].record + 1 \in 1..Size[thread[t].call]
    BY <1>2, <1>4, StoreAssumption DEF StoreAssumption, LastRecord
  <2>3. thread[t].record + 1 \in 1..(TransactionWrites + 1)
    BY <1>2, <2>2, StoreAssumption DEF StoreAssumption
  <2>4. /\ r \in ThreadRecords /\ r.pc \in Statements
        /\ r.call = thread[t].call /\ r.calls = thread[t].calls
        /\ r.opening = thread[t].opening /\ r.raised = thread[t].raised
        /\ r.record = thread[t].record + 1
    BY <1>1, <2>1, <2>3 DEF ThreadRecords, Labels, Statements
  <2>5. thread' = [thread EXCEPT ![t] = r]
    BY <1>4, <2>1 DEF AppendEvent, Control, TypeOK
  <2>6. open' \in BOOLEAN
    BY DEF AppendEvent
  <2> QED
    BY <1>1, <1>3, <2>2, <2>4, <2>5, <2>6, StatementControl DEF AppendEvent
<1>5. CASE LastRecord(t)
  <2>1. PICK pc : pc = IF lock = t THEN "leave" ELSE "return"
    OBVIOUS
  <2>2. PICK r : r = [thread[t] EXCEPT !.pc = pc]
    OBVIOUS
  <2>3. /\ r \in ThreadRecords /\ r.pc = pc
        /\ r.call = thread[t].call /\ r.calls = thread[t].calls
        /\ r.opening = thread[t].opening /\ r.raised = thread[t].raised
        /\ r.record = thread[t].record
    BY <1>1, <2>1, <2>2 DEF ThreadRecords, Labels
  <2>4. thread' = [thread EXCEPT ![t] = r]
    <3>1. r = [thread[t] EXCEPT !.pc = pc, !.record = thread[t].record]
      BY <1>1, <2>2 DEF ThreadRecords
    <3>2. thread' = [thread EXCEPT ![t] =
                       [thread[t] EXCEPT !.pc = pc, !.record = thread[t].record]]
      BY <1>5, <2>1 DEF AppendEvent, Control, TypeOK
    <3> QED
      BY <3>1, <3>2
  <2>5. MovesOnly(t) /\ thread'[t] = r
    BY <2>3, <2>4, Moves
  <2>6. UNCHANGED <<disk, lock, depth, doomed, closed, done, failed>> /\ open' = TRUE
    BY DEF AppendEvent
  <2>7. TypeOK'
    BY <1>3, <2>5, <2>6 DEF MovesOnly, Control, TypeOK
  <2>8. CallOK(t)'
    BY <1>1, <2>1, <2>3, <2>5, <2>6
    DEF CallOK, At, IsRead, IsSnapshot, Statements
  <2>9. thread[t].raised = FALSE /\ (lock = t => depth = 1 /\ doomed = FALSE)
    BY <1>1 DEF HolderOK, At, Statements, Control, TypeOK, ThreadRecords
  <2>10. HolderOK(t)'
    <3>1. /\ ~At(t, "read")'
          /\ lock = t => At(t, "leave")' /\ depth' = 1
                         /\ doomed' = thread'[t].raised
          /\ lock # t => At(t, "return")' /\ ~At(t, "leave")'
      BY <2>1, <2>3, <2>5, <2>6, <2>9 DEF At
    <3> QED
      BY <2>6, <3>1, Zenon DEF HolderOK
  <2> QED
    BY <2>5, <2>6, <2>7, <2>8, <2>10, ControlStep DEF Control
<1> QED
  BY <1>4, <1>5

LEMMA ReadsControl ==
  ASSUME Control, NEW t \in Threads, StartRead(t)
  PROVE  Control'
<1>1. PICK r : r = [thread[t] EXCEPT !.pc = "read"]
  OBVIOUS
<1>2. /\ r \in ThreadRecords /\ r.pc = "read"
      /\ r.call = thread[t].call /\ r.calls = thread[t].calls
      /\ r.opening = thread[t].opening /\ r.raised = thread[t].raised
      /\ r.record = thread[t].record
      /\ thread' = [thread EXCEPT ![t] = r]
  BY <1>1 DEF StartRead, Goto, Control, TypeOK, ThreadRecords, Labels
<1>3. MovesOnly(t) /\ thread'[t] = r
  BY <1>2, Moves
<1>4. /\ UNCHANGED <<working, disk, open, depth, doomed, closed, done, failed>>
      /\ lock = Nobody /\ lock' = t /\ ~closed /\ At(t, "open") /\ IsRead(t)
  BY DEF StartRead
<1>5. TypeOK'
  BY <1>3, <1>4 DEF MovesOnly, Control, TypeOK
<1>6. CallOK(t) /\ HolderOK(t) /\ depth = 0 /\ ~doomed /\ lock # t
  BY <1>4, StoreAssumption DEF StoreAssumption, Control
<1>7. CallOK(t)'
  BY <1>2, <1>3, <1>4, <1>6 DEF CallOK, At, IsRead, IsSnapshot, Statements
<1>8. HolderOK(t)'
  <2>1. At(t, "read")' /\ ~At(t, "leave")' /\ thread'[t].raised = FALSE
    BY <1>2, <1>3, <1>4, <1>6
    DEF HolderOK, At, Control, TypeOK, ThreadRecords
  <2> QED
    BY <1>4, <1>6, <2>1, Zenon DEF HolderOK
<1> QED
  BY <1>3, <1>4, <1>5, <1>7, <1>8, StoreAssumption, ControlStep
  DEF StoreAssumption, Control

LEMMA EndReadControl ==
  ASSUME Control, NEW t \in Threads, EndRead(t)
  PROVE  Control'
<1>1. /\ thread[t] \in ThreadRecords
      /\ HolderOK(t) /\ CallOK(t) /\ At(t, "read")
      /\ UNCHANGED <<working, disk, open, depth, doomed, closed, done, failed>>
      /\ lock = t /\ lock' = Nobody
  BY DEF EndRead, Control, TypeOK, HolderOK
<1>2. PICK pc \in {"open", "return"}, k \in 1..(TransactionWrites + 1),
           image \in Images :
        /\ thread' = [thread EXCEPT ![t].pc = pc, ![t].record = k,
                                    ![t].seen = image]
        /\ thread[t].call.kind = "transaction" => k = thread[t].record
        /\ thread[t].call.kind \in {"instrument", "event"} =>
             k = thread[t].record
  <2>1. thread[t].seen \in Images /\ working \in Images
        /\ thread[t].record \in 1..(TransactionWrites + 1)
    BY <1>1 DEF Control, TypeOK, ThreadRecords
  <2>2. /\ [thread[t].seen EXCEPT !.chain = working.chain] \in Images
        /\ [thread[t].seen EXCEPT !.rows = working.rows] \in Images
        /\ 2 \in 1..(TransactionWrites + 1)
    BY <2>1, StoreAssumption DEF StoreAssumption, Images
  <2>3. PICK pc \in {"open", "return"} :
          pc = IF IsSnapshot(t) /\ thread[t].record = 1 THEN "open" ELSE "return"
    OBVIOUS
  <2>4. PICK k \in 1..(TransactionWrites + 1) :
          k = IF IsSnapshot(t) /\ thread[t].record = 1 THEN 2
              ELSE thread[t].record
    BY <2>1, <2>2
  <2>5. PICK image \in Images : image =
          CASE ~IsSnapshot(t) -> thread[t].seen
            [] thread[t].record = 1 ->
                 [thread[t].seen EXCEPT !.chain = working.chain]
            [] OTHER -> [thread[t].seen EXCEPT !.rows = working.rows]
    BY <2>1, <2>2
  <2>6. thread' = [thread EXCEPT ![t].pc = pc, ![t].record = k,
                                 ![t].seen = image]
    BY <1>1, <2>3, <2>4, <2>5 DEF EndRead, Control, TypeOK, ThreadRecords
  <2> QED
    BY <2>4, <2>6 DEF IsSnapshot
<1>3. PICK r : r = [thread[t] EXCEPT !.pc = pc, !.record = k, !.seen = image]
  OBVIOUS
<1>4. /\ r \in ThreadRecords /\ r.pc = pc
      /\ r.call = thread[t].call /\ r.calls = thread[t].calls
      /\ r.opening = thread[t].opening /\ r.raised = thread[t].raised
      /\ r.record = k
  BY <1>1, <1>2, <1>3 DEF ThreadRecords, Labels
<1>5. thread' = [thread EXCEPT ![t] = r]
  BY <1>2, <1>3 DEF Control, TypeOK
<1>6. MovesOnly(t) /\ thread'[t] = r
  BY <1>4, <1>5, Moves
<1>7. TypeOK'
  BY <1>1, <1>6 DEF MovesOnly, Control, TypeOK
<1>8. CallOK(t)'
  BY <1>1, <1>2, <1>4, <1>6 DEF CallOK, At, IsRead, IsSnapshot, Statements
<1>9. depth = 0 /\ doomed = FALSE /\ thread[t].raised = FALSE
  BY <1>1 DEF HolderOK, At, Statements, Control, TypeOK, ThreadRecords
<1>10. HolderOK(t)'
  <2>1. ~At(t, "read")' /\ ~At(t, "leave")' /\ thread'[t].raised = FALSE
    BY <1>2, <1>4, <1>6, <1>9 DEF At
  <2>2. lock' # t
    BY <1>1, StoreAssumption DEF StoreAssumption
  <2> QED
    BY <2>1, <2>2, Zenon DEF HolderOK
<1> QED
  BY <1>1, <1>6, <1>7, <1>8, <1>9, <1>10, ControlStep DEF Control

LEMMA ReturnControl ==
  ASSUME Control, NEW t \in Threads, Return(t)
  PROVE  Control'
<1>1. PICK n \in 0..MaxCalls : n = thread[t].calls
  BY DEF Control, TypeOK, ThreadRecords
<1>2. IdleThread(n) \in ThreadRecords
  BY IdleOK
<1>3. MovesOnly(t) /\ thread'[t] = IdleThread(n)
  BY <1>1, <1>2 DEF MovesOnly, Control, TypeOK, Return
<1>4. CallOK(t) /\ HolderOK(t) /\ At(t, "return")
  BY DEF Return, Control
<1>5. lock # t /\ thread[t].call \in Calls
  BY <1>4 DEF CallOK, HolderOK, At, Statements
<1>6. At(t, "idle")' /\ thread'[t].raised = FALSE /\ lock' # t
  BY <1>3, <1>5 DEF At, IdleThread, Return, store
<1>7. HolderOK(t)' /\ CallOK(t)'
  BY <1>6 DEF HolderOK, CallOK, At
<1>8. done' \subseteq Calls /\ failed' \subseteq Calls
  BY <1>5 DEF Return, Control, TypeOK
<1>9. TypeOK'
  BY <1>3, <1>8 DEF MovesOnly, Control, TypeOK, Return, store
<1> QED
  BY <1>3, <1>7, <1>9, ControlStep DEF Return, store, Control

LEMMA CloseControl == Control /\ Close => Control'
<1> SUFFICES ASSUME Control, Close PROVE Control'
  OBVIOUS
<1>1. UNCHANGED <<disk, lock, depth, doomed, thread, done, failed>>
  BY DEF Close
<1>2. lock = Nobody /\ working' = disk /\ open' = FALSE /\ closed' = TRUE
  BY DEF Close
<1>3. TypeOK'
  BY <1>1, <1>2 DEF Control, TypeOK
<1>4. \A t \in Threads : HolderOK(t)' /\ CallOK(t)'
  BY <1>1 DEF Control, HolderOK, CallOK, At, IsRead, IsSnapshot
<1> QED
  BY <1>1, <1>2, <1>3, <1>4 DEF Control

LEMMA CrashControl == Control /\ Crash => Control'
<1> SUFFICES ASSUME Control, Crash PROVE Control'
  OBVIOUS
<1>1. /\ working' = disk /\ disk' = disk /\ open' = FALSE /\ lock' = Nobody
      /\ depth' = 0 /\ doomed' = FALSE /\ closed' = FALSE
      /\ thread' = [t \in Threads |-> IdleThread(thread[t].calls)]
      /\ UNCHANGED <<done, failed>>
  BY DEF Crash
<1>2. \A t \in Threads : thread[t].calls \in 0..MaxCalls
  BY DEF Control, TypeOK, ThreadRecords
<1>3. thread' \in [Threads -> ThreadRecords]
  BY <1>1, <1>2, IdleOK
<1>4. ASSUME NEW t \in Threads
      PROVE  HolderOK(t)' /\ CallOK(t)'
  <2>1. At(t, "idle")' /\ thread'[t].raised = FALSE /\ lock' # t
    BY <1>1, StoreAssumption DEF StoreAssumption, At, IdleThread
  <2> QED
    BY <2>1 DEF HolderOK, CallOK, At
<1>5. TypeOK'
  <2>1. open' \in BOOLEAN /\ doomed' \in BOOLEAN /\ closed' \in BOOLEAN
    BY <1>1
  <2>2. lock' \in Threads \union {Nobody} /\ depth' \in 0..1
    BY <1>1
  <2> QED
    BY <1>1, <1>3, <2>1, <2>2 DEF Control, TypeOK
<1> QED
  BY <1>1, <1>4, <1>5 DEF Control

LEMMA ControlNext == Control /\ [Next]_vars => Control'
<1> SUFFICES ASSUME Control, [Next]_vars PROVE Control'
  OBVIOUS
<1>1. ASSUME NEW t \in Threads, NEW kind \in Kinds, Call(t, kind)
      PROVE  Control'
  BY <1>1, CallControl
<1>2. ASSUME NEW t \in Threads, Step(t)
      PROVE  Control'
  BY <1>2, WriteControl, AuditControl, OpenControl, OpenFailsControl,
     InsertControl, ReadHeadControl, AppendEventControl, RaiseControl,
     RaiseUnlockedControl, LeaveControl, ReadsControl, EndReadControl,
     ReturnControl
  DEF Step
<1>3. CASE Close
  BY <1>3, CloseControl
<1>4. CASE Crash
  BY <1>4, CrashControl
<1>5. CASE UNCHANGED vars
  BY <1>5 DEF vars, Control, TypeOK, HolderOK, CallOK, At, IsRead, IsSnapshot
<1> QED
  BY <1>1, <1>2, <1>3, <1>4, <1>5 DEF Next

\* The store's lock and its transaction depth are in step with where the threads
\* are: a transaction is left by the thread that began it, at a depth of one, and
\* _transaction_failed says whether it has raised.
THEOREM ControlHolds == Spec => []Control
<1> QED
  BY ControlInit, ControlNext, PTL DEF Spec

\* The type invariant.
THEOREM StoreTypeOK == Spec => []TypeOK
<1>1. Control => TypeOK
  BY DEF Control
<1> QED
  BY <1>1, ControlHolds, PTL

-----------------------------------------------------------------------------
(* An explicit transaction is committed entirely or not at all.            *)

RowAt(image, c, k) == <<c, k>> \in image.rows

EventAt(image, c, k) == <<c, k>> \in Audited(image)

Whole(image, c) ==
  \A k \in 1..TransactionWrites : RowAt(image, c, k) /\ EventAt(image, c, k)

Bare(image, c) ==
  \A k \in 1..TransactionWrites : ~RowAt(image, c, k) /\ ~EventAt(image, c, k)

Agree(one, other, c) ==
  \A k \in 1..TransactionWrites :
    /\ RowAt(one, c, k) <=> RowAt(other, c, k)
    /\ EventAt(one, c, k) <=> EventAt(other, c, k)

Current(c) == thread[c.thread].call = c /\ ~At(c.thread, "idle")

Running(c) ==
  thread[c.thread].call = c /\ thread[c.thread].pc \in Statements \union {"leave"}

\* How far a running call has come.
Progress(c) ==
  /\ thread[c.thread].pc \in Statements =>
       \A k \in 1..TransactionWrites :
         /\ k < thread[c.thread].record =>
              RowAt(working, c, k) /\ EventAt(working, c, k)
         /\ k = thread[c.thread].record /\ ~At(c.thread, "insert") =>
              RowAt(working, c, k)
  /\ At(c.thread, "leave") /\ ~thread[c.thread].raised => Whole(working, c)

CallSafe(c) ==
  /\ c.number > thread[c.thread].calls => Bare(disk, c) /\ c \notin done \union failed
  /\ Current(c) => c \notin done \union failed
  /\ Current(c) /\ ~At(c.thread, "return") => Bare(disk, c)
  /\ Running(c) => Progress(c)
  /\ ~Running(c) => Agree(working, disk, c)
  /\ Current(c) /\ At(c.thread, "return") =>
       IF thread[c.thread].raised THEN Bare(disk, c) ELSE Whole(disk, c)
  /\ Whole(disk, c) \/ Bare(disk, c)
  /\ c \in done => Whole(disk, c)
  /\ c \in failed => Bare(disk, c)

Transactions == {c \in Calls : c.kind = "transaction"}

Safe == \A c \in Transactions : CallSafe(c)

LEMMA AuditedEmpty == Audited(EmptyImage) = {}
  BY DEF Audited, EmptyImage

LEMMA AuditedAppend ==
  ASSUME NEW image \in Images, NEW e \in Events
  PROVE  Audited([image EXCEPT !.chain = @ \o <<e>>])
           = Audited(image) \union {e.name}
<1>1. PICK chain \in Seq(Events) : chain = image.chain
  BY DEF Images
<1>2. PICK new : new = chain \o <<e>>
  OBVIOUS
<1>3. /\ Len(new) = Len(chain) + 1 /\ Len(chain) \in Nat
      /\ \A i \in 1..Len(chain) : new[i] = chain[i]
      /\ new[Len(chain) + 1] = e
  BY <1>2
<1>4. [image EXCEPT !.chain = @ \o <<e>>].chain = new
  BY <1>1, <1>2 DEF Images
<1>5. e.name \in Names
  BY DEF Events
<1>6. ASSUME NEW n \in Names
      PROVE  (\E i \in 1..Len(new) : new[i].name = n)
               <=> (\E i \in 1..Len(chain) : chain[i].name = n) \/ n = e.name
  <2>1. ASSUME NEW i \in 1..Len(new), new[i].name = n
        PROVE  (\E j \in 1..Len(chain) : chain[j].name = n) \/ n = e.name
    BY <1>3, <2>1
  <2>2. ASSUME NEW i \in 1..Len(chain), chain[i].name = n
        PROVE  \E j \in 1..Len(new) : new[j].name = n
    BY <1>3, <2>2
  <2>3. n = e.name => \E j \in 1..Len(new) : new[j].name = n
    BY <1>3
  <2> QED
    BY <2>1, <2>2, <2>3
<1> QED
  BY <1>1, <1>4, <1>5, <1>6 DEF Audited

LEMMA SafeInit == Init => Safe
<1> SUFFICES ASSUME Init, NEW c \in Transactions
             PROVE  CallSafe(c)
  BY DEF Safe
<1>1. c.thread \in Threads
  BY DEF Transactions, Calls
<1>2. At(c.thread, "idle") /\ ~At(c.thread, "leave")
  BY <1>1 DEF Init, IdleThread, At
<1>3. Bare(disk, c) /\ working = disk
  BY AuditedEmpty DEF Init, Bare, RowAt, EventAt, EmptyImage
<1>4. Agree(working, disk, c)
  BY <1>3 DEF Agree
<1>5. ~Current(c) /\ ~Running(c)
  BY <1>2 DEF Current, Running, At, Statements
<1> QED
  BY <1>3, <1>4, <1>5 DEF CallSafe, Init

\* A step of a thread that is not in call c, neither before nor after it.  It
\* leaves what c has written as it is, rolls back, or commits, and does the
\* latter two only while c is not running.
LEMMA OtherCall ==
  ASSUME Control, NEW c \in Transactions, CallSafe(c),
         NEW t \in Threads, MovesOnly(t),
         c.thread = t => ~Current(c) /\ ~Current(c)',
         c.thread = t => thread'[t].calls >= thread[t].calls
                           /\ thread'[t].calls \in Nat,
         c \in done' <=> c \in done,
         c \in failed' <=> c \in failed,
         \/ Agree(working', working, c) /\ disk' = disk
         \/ ~Running(c) /\ working' = disk /\ disk' = disk
         \/ ~Running(c) /\ working' = working /\ disk' = working
  PROVE  CallSafe(c)'
<1>1. c.thread \in Threads /\ c.number \in Nat
  BY StoreAssumption DEF StoreAssumption, Transactions, Calls
<1>2. c.thread # t => thread'[c.thread] = thread[c.thread]
  BY <1>1 DEF MovesOnly
<1>3. thread[c.thread].calls \in Nat
  BY <1>1 DEF Control, TypeOK, ThreadRecords
<1>4. Running(c) => Current(c)
  BY DEF Running, Current, At, Statements
<1>5. Running(c)' => Current(c)'
  BY DEF Running, Current, At, Statements
<1>6. /\ Current(c)' <=> Current(c)
      /\ Running(c)' <=> Running(c)
      /\ c.number > thread'[c.thread].calls => c.number > thread[c.thread].calls
      /\ Current(c) => thread'[c.thread] = thread[c.thread]
  BY <1>1, <1>2, <1>3, <1>4, <1>5 DEF Current, Running, At
<1>7. Agree(disk', disk, c)
  <2>1. CASE disk' = disk
    BY <2>1 DEF Agree
  <2>2. CASE ~Running(c) /\ disk' = working
    BY <2>2 DEF CallSafe
  <2> QED
    BY <2>1, <2>2
<1>8. (Whole(disk, c) <=> Whole(disk', c)) /\ (Bare(disk, c) <=> Bare(disk', c))
  BY <1>7 DEF Agree, Whole, Bare
<1>9. ~Running(c) => Agree(working', disk', c)
  BY DEF CallSafe, Agree
<1>10. Running(c) => Progress(c)'
  <2> SUFFICES ASSUME Running(c) PROVE Progress(c)'
    OBVIOUS
  <2>1. Progress(c) /\ Agree(working', working, c)
    BY DEF CallSafe
  <2>2. thread'[c.thread] = thread[c.thread]
    BY <1>4, <1>6
  <2>3. Whole(working, c) => Whole(working', c)
    BY <2>1 DEF Agree, Whole
  <2> QED
    BY <2>1, <2>2, <2>3 DEF Progress, Agree, At
<1>11. /\ Current(c) => (At(c.thread, "return")' <=> At(c.thread, "return"))
       /\ Current(c) => thread'[c.thread].raised = thread[c.thread].raised
  BY <1>6 DEF At
<1> QED
  BY <1>6, <1>8, <1>9, <1>10, <1>11, Zenon DEF CallSafe

\* A thread that takes a step is in a call, and stays in it or ends it.
LEMMA StepStays ==
  ASSUME Control, Control', NEW t \in Threads, Step(t)
  PROVE  /\ MovesOnly(t)
         /\ thread'[t].calls = thread[t].calls
         /\ At(t, "idle")' \/ thread'[t].call = thread[t].call
         /\ ~At(t, "idle")
<1>1. thread[t] \in ThreadRecords /\ thread' \in [Threads -> ThreadRecords]
  BY DEF Control, TypeOK
<1>2. ASSUME NEW r, thread' = [thread EXCEPT ![t] = r],
             r.calls = thread[t].calls,
             r.pc = "idle" \/ r.call = thread[t].call
      PROVE  /\ MovesOnly(t)
             /\ thread'[t].calls = thread[t].calls
             /\ At(t, "idle")' \/ thread'[t].call = thread[t].call
  BY <1>1, <1>2 DEF MovesOnly, At, Control, TypeOK
<1>5. IdleThread(thread[t].calls).calls = thread[t].calls
      /\ IdleThread(thread[t].calls).pc = "idle"
  BY DEF IdleThread
<1>6. CASE OpenFails(t) \/ RaiseUnlocked(t) \/ Return(t)
  <2>1. thread' = [thread EXCEPT ![t] = IdleThread(thread[t].calls)]
    BY <1>6 DEF OpenFails, RaiseUnlocked, Return, Fails
  <2>2. ~At(t, "idle")
    BY <1>6 DEF OpenFails, RaiseUnlocked, Return, At, Statements
  <2> QED
    BY <1>2, <1>5, <2>1, <2>2
<1>7. CASE Write(t) \/ OpenTransaction(t) \/ Insert(t) \/ Leave(t) \/ StartRead(t)
  <2>1. PICK pc : thread' = [thread EXCEPT ![t].pc = pc]
    BY <1>7 DEF Write, OpenTransaction, Insert, Leave, StartRead, Goto
  <2>2. PICK r : r = [thread[t] EXCEPT !.pc = pc]
    OBVIOUS
  <2>3. r.calls = thread[t].calls /\ r.call = thread[t].call
    BY <1>1, <2>2 DEF ThreadRecords
  <2>4. thread' = [thread EXCEPT ![t] = r]
    BY <2>1, <2>2 DEF Control, TypeOK
  <2>5. ~At(t, "idle")
    BY <1>7 DEF Write, OpenTransaction, Insert, Leave, StartRead, At
  <2> QED
    BY <1>2, <2>3, <2>4, <2>5
<1>8. CASE Audit(t) \/ ReadHead(t) \/ AppendEvent(t) \/ Raise(t) \/ CommitFails(t)
           \/ EndRead(t)
  <2>1. PICK r : /\ thread' = [thread EXCEPT ![t] = r]
                 /\ r.calls = thread[t].calls
                 /\ r.call = thread[t].call
    <3>1. CASE Audit(t) /\ depth # 0
      BY <1>1, <3>1 DEF Audit, Goto, ThreadRecords, Control, TypeOK
    <3>2. CASE Audit(t) /\ depth = 0
      BY <1>1, <3>2 DEF Audit, Goto, ThreadRecords, Control, TypeOK
    <3>3. CASE ReadHead(t)
      <4>1. PICK r : r = [thread[t] EXCEPT !.pc = "append",
                                           !.previous = LastName(working.chain)]
        OBVIOUS
      <4>2. thread' = [thread EXCEPT ![t] = r]
        BY <3>3, <4>1 DEF ReadHead, Control, TypeOK
      <4>3. r.calls = thread[t].calls /\ r.call = thread[t].call
        BY <1>1, <4>1 DEF ThreadRecords
      <4> QED
        BY <4>2, <4>3
    <3>4. CASE AppendEvent(t)
      <4>1. PICK r : r = [thread[t] EXCEPT 
                    !.pc = IF ~LastRecord(t) THEN "insert"
                           ELSE IF lock = t THEN "leave" ELSE "return",
                    !.record = IF LastRecord(t) THEN @ ELSE @ + 1]
        OBVIOUS
      <4>2. thread' = [thread EXCEPT ![t] = r]
        BY <3>4, <4>1 DEF AppendEvent, Control, TypeOK
      <4>3. r.calls = thread[t].calls /\ r.call = thread[t].call
        BY <1>1, <4>1 DEF ThreadRecords
      <4> QED
        BY <4>2, <4>3
    <3>5. CASE Raise(t)
      <4>1. PICK r : r = [thread[t] EXCEPT !.pc = "leave", !.raised = TRUE]
        OBVIOUS
      <4>2. thread' = [thread EXCEPT ![t] = r]
        BY <3>5, <4>1 DEF Raise, Control, TypeOK
      <4>3. r.calls = thread[t].calls /\ r.call = thread[t].call
        BY <1>1, <4>1 DEF ThreadRecords
      <4> QED
        BY <4>2, <4>3
    <3>6. CASE CommitFails(t)
      <4>1. PICK r : r = [thread[t] EXCEPT !.pc = "return", !.raised = TRUE]
        OBVIOUS
      <4>2. thread' = [thread EXCEPT ![t] = r]
        BY <3>6, <4>1 DEF CommitFails, Control, TypeOK
      <4>3. r.calls = thread[t].calls /\ r.call = thread[t].call
        BY <1>1, <4>1 DEF ThreadRecords
      <4> QED
        BY <4>2, <4>3
    <3>7. CASE EndRead(t)
      <4>1. PICK pc, k, image :
              /\ pc = IF IsSnapshot(t) /\ thread[t].record = 1 THEN "open"
                                                              ELSE "return"
              /\ k = IF IsSnapshot(t) /\ thread[t].record = 1 THEN 2
                     ELSE thread[t].record
              /\ image = CASE ~IsSnapshot(t) -> thread[t].seen
                   [] thread[t].record = 1 ->
                        [thread[t].seen EXCEPT !.chain = working.chain]
                   [] OTHER -> [thread[t].seen EXCEPT !.rows = working.rows]
        OBVIOUS
      <4>2. thread' = [thread EXCEPT ![t].pc = pc, ![t].record = k,
                                     ![t].seen = image]
        BY <1>1, <3>7, <4>1 DEF EndRead, Control, TypeOK, ThreadRecords
      <4>3. PICK r : r = [thread[t] EXCEPT !.pc = pc, !.record = k, !.seen = image]
        OBVIOUS
      <4>4. thread' = [thread EXCEPT ![t] = r]
        BY <4>2, <4>3 DEF Control, TypeOK
      <4>5. r.calls = thread[t].calls /\ r.call = thread[t].call
        BY <1>1, <4>3 DEF ThreadRecords
      <4> QED
        BY <4>4, <4>5
    <3> QED
      BY <1>8, <3>1, <3>2, <3>3, <3>4, <3>5, <3>6, <3>7
  <2>2. ~At(t, "idle")
    BY <1>8
    DEF Audit, ReadHead, AppendEvent, Raise, CommitFails, EndRead, At, Statements
  <2> QED
    BY <1>2, <2>1, <2>2
<1> QED
  BY <1>6, <1>7, <1>8 DEF Step

\* A statement of another call writes nothing of call c.
LEMMA WritesElsewhere ==
  ASSUME Control, NEW t \in Threads, Insert(t) \/ AppendEvent(t),
         NEW c \in Transactions, thread[t].call # c
  PROVE  Agree(working', working, c)
<1>1. thread[t].pc \in Statements /\ working \in Images
  BY DEF Insert, AppendEvent, At, Statements, Control, TypeOK
<1>2. Name(t) \in Names /\ \A k : Name(t) # <<c, k>>
  BY <1>1, NameOK DEF Name
<1>3. CASE Insert(t)
  <2>1. working'.rows = working.rows \union {Name(t)}
        /\ working'.chain = working.chain
    BY <1>1, <1>3 DEF Insert, Images
  <2> QED
    BY <1>2, <2>1 DEF Agree, RowAt, EventAt, Audited
<1>4. CASE AppendEvent(t)
  <2>1. NewEvent(t) \in Events
    BY <1>2 DEF NewEvent, Events, Control, TypeOK, ThreadRecords
  <2>2. working' = [working EXCEPT !.chain = @ \o <<NewEvent(t)>>]
    BY <1>4 DEF AppendEvent, NewEvent
  <2>3. working'.rows = working.rows
    BY <1>1, <2>2 DEF Images
  <2>4. Audited(working') = Audited(working) \union {NewEvent(t).name}
    BY <1>1, <2>1, <2>2, AuditedAppend
  <2>5. NewEvent(t).name = Name(t)
    BY DEF NewEvent
  <2> QED
    BY <1>2, <2>3, <2>4, <2>5 DEF Agree, RowAt, EventAt
<1> QED
  BY <1>3, <1>4

\* Only one thread is between the beginning and the end of a transaction.
LEMMA OneRuns ==
  ASSUME Control, NEW c \in Transactions, Running(c)
  PROVE  lock = c.thread /\ c.thread \in Threads
<1>1. c.thread \in Threads
  BY DEF Transactions, Calls
<1>2. HolderOK(c.thread) /\ CallOK(c.thread) /\ ~At(c.thread, "idle")
  BY <1>1 DEF Control, Running, At, Statements
<1> QED
  BY <1>1, <1>2 DEF Running, CallOK, HolderOK, At, Transactions

LEMMA StepOther ==
  ASSUME Control, Control', NEW t \in Threads, Step(t),
         NEW c \in Transactions, CallSafe(c), thread[t].call # c
  PROVE  CallSafe(c)'
<1>1. /\ MovesOnly(t)
      /\ thread'[t].calls = thread[t].calls
      /\ At(t, "idle")' \/ thread'[t].call = thread[t].call
      /\ ~At(t, "idle")
  BY StepStays
<1>2. c.thread = t => ~Current(c) /\ ~Current(c)'
  BY <1>1 DEF Current
<1>3. thread'[t].calls >= thread[t].calls /\ thread'[t].calls \in Nat
  BY <1>1, StoreAssumption
  DEF StoreAssumption, Control, TypeOK, ThreadRecords
<1>4. (c \in done' <=> c \in done) /\ (c \in failed' <=> c \in failed)
  BY DEF Step, Write, Audit, OpenTransaction, OpenFails, Insert, ReadHead,
         AppendEvent, Raise, RaiseUnlocked, Leave, CommitFails, StartRead,
         EndRead, Return, Fails
<1>5. CASE Leave(t) \/ CommitFails(t)
  <2>1. lock = t
    BY <1>5 DEF Leave, CommitFails, Control, HolderOK
  <2>2. ~Running(c)
    BY <2>1, OneRuns DEF Running
  <2>3. \/ working' = disk /\ disk' = disk
        \/ working' = working /\ disk' = working
    BY <1>5 DEF Leave, CommitFails, CommitOrRollBack
  <2> QED
    BY <1>1, <1>2, <1>3, <1>4, <2>2, <2>3, OtherCall
<1>6. CASE Insert(t) \/ AppendEvent(t)
  <2>1. Agree(working', working, c) /\ disk' = disk
    BY <1>6, WritesElsewhere DEF Insert, AppendEvent
  <2> QED
    BY <1>1, <1>2, <1>3, <1>4, <2>1, OtherCall
<1>7. CASE ~Leave(t) /\ ~CommitFails(t) /\ ~Insert(t) /\ ~AppendEvent(t)
  <2>1. working' = working /\ disk' = disk
    BY <1>7 DEF Step, Write, Audit, OpenTransaction, OpenFails, ReadHead, Raise,
                RaiseUnlocked, StartRead, EndRead, Return, Fails, store
  <2>2. Agree(working', working, c)
    BY <2>1 DEF Agree
  <2> QED
    BY <1>1, <1>2, <1>3, <1>4, <2>1, <2>2, OtherCall
<1> QED
  BY <1>5, <1>6, <1>7

\* What there is to show of a call that goes on.
LEMMA OwnGoesOn ==
  ASSUME NEW c \in Transactions, NEW t \in Threads, t = c.thread,
         Current(c), CallSafe(c), c.number <= thread[t].calls,
         c.number \in Nat, thread[t].calls \in Nat,
         thread'[t].call = c, thread'[t].calls = thread[t].calls,
         UNCHANGED <<done, failed>>,
         thread'[t].pc \in Statements \union {"leave", "return"},
         thread'[t].pc # "return" => Bare(disk', c) /\ Progress(c)',
         thread'[t].pc = "return" =>
           /\ Agree(working', disk', c)
           /\ IF thread'[t].raised THEN Bare(disk', c) ELSE Whole(disk', c)
  PROVE  CallSafe(c)'
<1>1. ~(c.number > thread'[c.thread].calls)
  OBVIOUS
<1>2. c \notin done' \union failed'
  BY DEF CallSafe
<1>3. Running(c)' <=> thread'[t].pc # "return"
  BY DEF Running, Statements
<1>4. Whole(disk', c) \/ Bare(disk', c)
  OBVIOUS
<1> QED
  BY <1>1, <1>2, <1>3, <1>4, Zenon DEF CallSafe, At

\* Where the call of a transaction is, and what is known of it.
LEMMA OwnCall ==
  ASSUME Control, NEW t \in Threads, ~At(t, "idle"), NEW c, c = thread[t].call,
         c \in Transactions, CallSafe(c)
  PROVE  /\ c.thread = t /\ Current(c)
         /\ c.number = thread[t].calls /\ c.number \in Nat
         /\ thread[t].pc \in {"open", "leave", "return"} \union Statements
         /\ At(t, "open") => thread[t].opening = "call" /\ thread[t].record = 1
         /\ thread[t].pc \in Statements \union {"leave"} => Running(c)
         /\ thread[t].pc \in Statements => lock = t /\ depth = 1
         /\ thread[t].pc # "leave" /\ thread[t].pc # "return" =>
              thread[t].raised = FALSE
         /\ thread[t].record \in 1..(TransactionWrites + 1)
         /\ Size[c] = TransactionWrites
<1>1. /\ thread[t].call \in Calls /\ c.kind = "transaction"
      /\ HolderOK(t) /\ CallOK(t)
  BY DEF Transactions, Control
<1>2. c.thread = t /\ c.number = thread[t].calls /\ c.number \in Nat
  BY <1>1, StoreAssumption DEF StoreAssumption, CallOK, Calls
<1>3. thread[t].raised \in BOOLEAN /\ thread[t].record \in 1..(TransactionWrites + 1)
  BY DEF Control, TypeOK, ThreadRecords
<1>4. /\ thread[t].pc \in {"open", "leave", "return"} \union Statements
      /\ thread[t].opening = "call"
      /\ At(t, "open") => thread[t].record = 1
      /\ thread[t].pc \in Statements => lock = t
  BY <1>1 DEF CallOK
<1>5. thread[t].pc \in Statements => depth = 1
  BY <1>1, <1>4 DEF HolderOK, At, Statements
<1>6. thread[t].pc # "leave" /\ thread[t].pc # "return" =>
        thread[t].raised = FALSE
  BY <1>1, <1>3 DEF HolderOK, At
<1>7. Current(c) /\ (thread[t].pc \in Statements \union {"leave"} => Running(c))
  BY <1>2 DEF Current, Running
<1>8. Size[c] = TransactionWrites
  BY <1>1, SizeOf
<1> QED
  BY <1>2, <1>3, <1>4, <1>5, <1>6, <1>7, <1>8

LEMMA OwnStatement ==
  ASSUME Control, Control', NEW t \in Threads, NEW c, c = thread[t].call,
         c \in Transactions, CallSafe(c),
         OpenTransaction(t) \/ Insert(t) \/ Audit(t) \/ ReadHead(t) \/ Raise(t)
  PROVE  CallSafe(c)'
<1>1. Step(t) /\ thread[t].pc \in {"open"} \union Statements
  BY DEF Step, OpenTransaction, Insert, Audit, ReadHead, Raise, At, Statements
<1>2. /\ MovesOnly(t)
      /\ thread'[t].calls = thread[t].calls
      /\ At(t, "idle")' \/ thread'[t].call = thread[t].call
      /\ ~At(t, "idle")
  BY <1>1, StepStays
<1>3. /\ c.thread = t /\ Current(c)
      /\ c.number = thread[t].calls /\ c.number \in Nat
      /\ At(t, "open") => thread[t].opening = "call" /\ thread[t].record = 1
      /\ thread[t].pc \in Statements => Running(c) /\ lock = t /\ depth = 1
      /\ thread[t].record \in 1..(TransactionWrites + 1)
  BY <1>2, OwnCall
<1>4. disk' = disk /\ Bare(disk, c) /\ UNCHANGED <<done, failed>>
  BY <1>1, <1>3
  DEF OpenTransaction, Insert, Audit, ReadHead, Raise, store, CallSafe, At,
      Statements
<1>5. thread[t] \in ThreadRecords
  BY DEF Control, TypeOK
<1>6. thread'[t].pc \in Statements \union {"leave"} /\ Progress(c)'
  <2>1. CASE OpenTransaction(t)
    <3>1. thread'[t].pc = "insert" /\ thread'[t].record = 1
      BY <1>3, <1>5, <2>1
      DEF OpenTransaction, Goto, Control, TypeOK, ThreadRecords
    <3>2. thread'[t].pc \in Statements
      BY <3>1 DEF Statements
    <3> QED
      BY <1>3, <3>1, <3>2 DEF Progress, At, Statements
  <2>2. CASE Insert(t)
    <3>1. thread'[t].pc = "audit" /\ thread'[t].record = thread[t].record
      BY <1>5, <2>2 DEF Insert, Goto, Control, TypeOK, ThreadRecords
    <3>2. Progress(c) /\ thread[t].pc \in Statements
      BY <1>3, <2>2 DEF CallSafe, Insert, At, Statements
    <3>3. working'.rows = working.rows \union {<<c, thread[t].record>>}
          /\ working'.chain = working.chain
      BY <2>2 DEF Insert, Control, TypeOK, Images, Name
    <3>4. thread'[t].pc \in Statements /\ thread'[t].pc # "leave"
      BY <3>1 DEF Statements
    <3>5. ASSUME NEW k \in 1..TransactionWrites
          PROVE  /\ k < thread'[t].record =>
                      RowAt(working', c, k) /\ EventAt(working', c, k)
                 /\ k = thread'[t].record => RowAt(working', c, k)
      BY <1>3, <3>1, <3>2, <3>3 DEF Progress, RowAt, EventAt, Audited
    <3> QED
      BY <1>3, <3>4, <3>5 DEF Progress, At
  <2>3. CASE Audit(t)
    <3>1. thread[t].pc \in Statements /\ depth # 0
      BY <1>3, <2>3 DEF Audit, At, Statements
    <3>2. thread'[t].pc = "head" /\ thread'[t].record = thread[t].record
      BY <1>5, <2>3, <3>1 DEF Audit, Goto, Control, TypeOK, ThreadRecords
    <3>3. Progress(c) /\ working' = working /\ ~At(t, "insert")
      BY <1>3, <2>3, <3>1 DEF CallSafe, Audit, At, store
    <3>4. thread'[t].pc \in Statements /\ thread'[t].pc # "leave"
      BY <3>2 DEF Statements
    <3> QED
      BY <1>3, <3>1, <3>2, <3>3, <3>4 DEF Progress, At
  <2>4. CASE ReadHead(t)
    <3>1. thread[t].pc \in Statements
      BY <2>4 DEF ReadHead, At, Statements
    <3>2. thread'[t].pc = "append" /\ thread'[t].record = thread[t].record
      BY <1>5, <2>4 DEF ReadHead, Control, TypeOK, ThreadRecords
    <3>3. Progress(c) /\ working' = working /\ ~At(t, "insert")
      BY <1>3, <2>4, <3>1 DEF CallSafe, ReadHead, At, store
    <3>4. thread'[t].pc \in Statements /\ thread'[t].pc # "leave"
      BY <3>2 DEF Statements
    <3> QED
      BY <1>3, <3>1, <3>2, <3>3, <3>4 DEF Progress, At
  <2>5. CASE Raise(t)
    <3>1. thread'[t].pc = "leave" /\ thread'[t].raised = TRUE
      BY <1>5, <2>5 DEF Raise, Control, TypeOK, ThreadRecords
    <3> QED
      BY <1>3, <3>1 DEF Progress, At, Statements
  <2> QED
    BY <2>1, <2>2, <2>3, <2>4, <2>5
<1>7. thread'[t].pc # "return" /\ ~At(t, "idle")'
  BY <1>6 DEF Statements, At
<1> QED
  BY <1>2, <1>3, <1>4, <1>6, <1>7, OwnGoesOn

LEMMA OwnAppend ==
  ASSUME Control, Control', NEW t \in Threads, NEW c, c = thread[t].call,
         c \in Transactions, CallSafe(c), AppendEvent(t)
  PROVE  CallSafe(c)'
<1>1. Step(t) /\ thread[t].pc \in Statements /\ At(t, "append")
  BY DEF Step, AppendEvent, At, Statements
<1>2. /\ MovesOnly(t)
      /\ thread'[t].calls = thread[t].calls
      /\ At(t, "idle")' \/ thread'[t].call = thread[t].call
      /\ ~At(t, "idle")
  BY <1>1, StepStays
<1>3. /\ c.thread = t /\ Current(c)
      /\ c.number = thread[t].calls /\ c.number \in Nat
      /\ Running(c) /\ lock = t
      /\ thread[t].raised = FALSE
      /\ thread[t].record \in 1..(TransactionWrites + 1)
      /\ Size[c] = TransactionWrites
  BY <1>1, <1>2, OwnCall DEF At
<1>4. disk' = disk /\ Bare(disk, c) /\ UNCHANGED <<done, failed>>
  BY <1>1, <1>3 DEF AppendEvent, CallSafe, At, Statements
<1>5. Progress(c)
  BY <1>3 DEF CallSafe
<1>6. /\ working'.rows = working.rows
      /\ Audited(working') = Audited(working) \union {<<c, thread[t].record>>}
  <2>1. NewEvent(t) \in Events
    BY <1>1, NameOK DEF NewEvent, Events, Control, TypeOK, ThreadRecords
  <2>2. working' = [working EXCEPT !.chain = @ \o <<NewEvent(t)>>]
    BY DEF AppendEvent, NewEvent
  <2>3. NewEvent(t).name = <<c, thread[t].record>>
    BY DEF NewEvent, Name
  <2>4. working \in Images
    BY DEF Control, TypeOK
  <2>5. working'.rows = working.rows
    BY <2>2, <2>4 DEF Images
  <2> QED
    BY <2>1, <2>2, <2>3, <2>4, <2>5, AuditedAppend
<1>7. ASSUME NEW k \in 1..TransactionWrites, k <= thread[t].record
      PROVE  RowAt(working', c, k) /\ EventAt(working', c, k)
  BY <1>1, <1>3, <1>5, <1>6, <1>7 DEF Progress, RowAt, EventAt, At
<1>8. CASE LastRecord(t)
  <2>1. PICK r : r = [thread[t] EXCEPT !.pc = "leave"]
    OBVIOUS
  <2>2. thread' = [thread EXCEPT ![t] =
                     [thread[t] EXCEPT !.pc = "leave", !.record = thread[t].record]]
    BY <1>3, <1>8 DEF AppendEvent, Control, TypeOK
  <2>3. thread'[t].pc = "leave" /\ thread[t].record = TransactionWrites
    BY <1>3, <1>8, <2>2 DEF Control, TypeOK, ThreadRecords, LastRecord
  <2>4. Whole(working', c)
    BY <1>7, <2>3, StoreAssumption DEF StoreAssumption, Whole
  <2>5. Progress(c)' /\ ~At(t, "idle")'
    BY <1>3, <2>3, <2>4 DEF Progress, At, Statements
  <2> QED
    BY <1>2, <1>3, <1>4, <2>3, <2>5, OwnGoesOn
<1>9. CASE ~LastRecord(t)
  <2>1. thread' = [thread EXCEPT ![t] =
          [thread[t] EXCEPT !.pc = "insert", !.record = thread[t].record + 1]]
    BY <1>9 DEF AppendEvent, Control, TypeOK
  <2>2. thread'[t].pc = "insert" /\ thread'[t].record = thread[t].record + 1
    BY <2>1 DEF Control, TypeOK, ThreadRecords
  <2>3. /\ thread'[t].pc \in Statements /\ thread'[t].pc # "return"
        /\ thread'[t].pc # "leave" /\ ~At(t, "idle")'
    BY <2>2 DEF Statements, At
  <2>4. ASSUME NEW k \in 1..TransactionWrites, k < thread'[t].record
        PROVE  RowAt(working', c, k) /\ EventAt(working', c, k)
    <3>1. k <= thread[t].record
      BY <1>3, <2>2, <2>4, StoreAssumption DEF StoreAssumption
    <3> QED
      BY <1>7, <3>1
  <2>5. Progress(c)'
    BY <1>3, <2>2, <2>3, <2>4 DEF Progress, At
  <2> QED
    BY <1>2, <1>3, <1>4, <2>3, <2>5, OwnGoesOn
<1> QED
  BY <1>8, <1>9

LEMMA OwnLeave ==
  ASSUME Control, Control', NEW t \in Threads, NEW c, c = thread[t].call,
         c \in Transactions, CallSafe(c), Leave(t) \/ CommitFails(t)
  PROVE  CallSafe(c)'
<1>1. Step(t) /\ At(t, "leave")
  BY DEF Step, Leave, CommitFails
<1>2. /\ MovesOnly(t)
      /\ thread'[t].calls = thread[t].calls
      /\ At(t, "idle")' \/ thread'[t].call = thread[t].call
      /\ ~At(t, "idle")
  BY <1>1, StepStays
<1>3. /\ c.thread = t /\ Current(c) /\ Running(c)
      /\ c.number = thread[t].calls /\ c.number \in Nat
  BY <1>1, <1>2, OwnCall DEF At
<1>4. Bare(disk, c) /\ Progress(c) /\ UNCHANGED <<done, failed>>
  BY <1>1, <1>3 DEF Leave, CommitFails, CallSafe, At
<1>5. HolderOK(t) /\ lock = t /\ doomed = thread[t].raised
  BY <1>1 DEF Control, HolderOK, At, Statements
<1>6. /\ thread'[t].pc = "return" /\ Agree(working', disk', c)
      /\ IF thread'[t].raised THEN Bare(disk', c) ELSE Whole(disk', c)
  <2>1. CASE Leave(t)
    <3>1. thread'[t].pc = "return" /\ thread'[t].raised = thread[t].raised
      BY <2>1 DEF Leave, Goto, Control, TypeOK, ThreadRecords
    <3>2. CASE doomed
      BY <1>4, <1>5, <2>1, <3>1, <3>2 DEF Leave, CommitOrRollBack, Agree
    <3>3. CASE ~doomed
      <4>1. working' = working /\ disk' = working
        BY <2>1, <3>3 DEF Leave, CommitOrRollBack
      <4>2. Whole(working, c) /\ ~thread'[t].raised
        BY <1>1, <1>3, <1>4, <1>5, <3>1, <3>3 DEF Progress
      <4> QED
        BY <3>1, <4>1, <4>2 DEF Agree
    <3> QED
      BY <3>2, <3>3
  <2>2. CASE CommitFails(t)
    <3>1. thread'[t].pc = "return" /\ thread'[t].raised = TRUE
      BY <2>2 DEF CommitFails, Control, TypeOK, ThreadRecords
    <3> QED
      BY <1>4, <2>2, <3>1 DEF CommitFails, Agree
  <2> QED
    BY <2>1, <2>2
<1>7. ~At(t, "idle")'
  BY <1>6 DEF At
<1> QED
  BY <1>2, <1>3, <1>4, <1>6, <1>7, OwnGoesOn

\* A call that answers or raises is at its end, and keeps its thread's number.
LEMMA OwnEnds ==
  ASSUME Control, Control', NEW t \in Threads, NEW c, c = thread[t].call,
         c \in Transactions, CallSafe(c), Return(t) \/ OpenFails(t)
  PROVE  CallSafe(c)'
<1>1. Step(t) /\ (At(t, "return") \/ At(t, "open"))
  BY DEF Step, Return, OpenFails
<1>2. thread'[t].calls = thread[t].calls /\ ~At(t, "idle")
  BY <1>1, StepStays
<1>3. /\ c.thread = t /\ Current(c)
      /\ c.number = thread[t].calls /\ c.number \in Nat
  BY <1>1, <1>2, OwnCall
<1>4. thread' = [thread EXCEPT ![t] = IdleThread(thread[t].calls)] /\ UNCHANGED store
  BY DEF Return, OpenFails, Fails
<1>5. At(t, "idle")'
  BY <1>4 DEF At, IdleThread, Control, TypeOK
<1>6. ~Current(c)' /\ ~Running(c)' /\ ~Running(c)
  BY <1>1, <1>3, <1>5 DEF Current, Running, At, Statements
<1>7. Agree(working', disk', c) /\ working' = working /\ disk' = disk
  BY <1>4, <1>6 DEF CallSafe, store
<1>8. ~(c.number > thread'[c.thread].calls)
  BY <1>2, <1>3
<1>9. c \notin done /\ c \notin failed
  BY <1>3 DEF CallSafe
<1>10. (c \in done' => Whole(disk, c)) /\ (c \in failed' => Bare(disk, c))
  <2>1. CASE Return(t)
    BY <1>3, <1>9, <2>1 DEF Return, CallSafe
  <2>2. CASE OpenFails(t)
    <3>1. Bare(disk, c) /\ done' = done
      BY <1>3, <2>2 DEF OpenFails, Fails, CallSafe, At
    <3> QED
      BY <1>9, <3>1
  <2> QED
    BY <2>1, <2>2
<1>11. Whole(disk, c) \/ Bare(disk, c)
  BY DEF CallSafe
<1> QED
  BY <1>6, <1>7, <1>8, <1>10, <1>11, Zenon DEF CallSafe

LEMMA StepSafe ==
  ASSUME Control, Control', NEW t \in Threads, Step(t), Safe
  PROVE  Safe'
<1> SUFFICES ASSUME NEW c \in Transactions PROVE CallSafe(c)'
  BY DEF Safe
<1>1. CallSafe(c) /\ ~At(t, "idle")
  BY StepStays DEF Safe
<1>2. CASE thread[t].call # c
  BY <1>1, <1>2, StepOther
<1>3. CASE thread[t].call = c
  <2>1. c.thread = t /\ ~IsRead(t) /\ ~At(t, "write") /\ ~RaiseUnlocked(t)
    <3>1. CallOK(t) /\ c.kind = "transaction"
      BY DEF Control, Transactions
    <3> QED
      BY <1>1, <1>3, <3>1
      DEF CallOK, IsRead, IsSnapshot, At, RaiseUnlocked, Statements
  <2>2. ~StartRead(t) /\ ~EndRead(t) /\ ~Write(t)
    <3>1. ~At(t, "read")
      BY <1>1, <1>3, <2>1 DEF Control, CallOK, Transactions, At, Statements
    <3> QED
      BY <2>1, <3>1 DEF StartRead, EndRead, Write
  <2> QED
    BY <1>1, <1>3, <2>1, <2>2, OwnStatement, OwnAppend, OwnLeave, OwnEnds DEF Step
<1> QED
  BY <1>2, <1>3

LEMMA CallSafely ==
  ASSUME Control, Control', NEW t \in Threads, NEW kind \in Kinds, Call(t, kind),
         Safe
  PROVE  Safe'
<1> SUFFICES ASSUME NEW c \in Transactions PROVE CallSafe(c)'
  BY DEF Safe
<1>1. CallSafe(c)
  BY DEF Safe
<1>2. PICK n : n = thread[t].calls + 1
  OBVIOUS
<1>3. PICK d : d = [thread |-> t, number |-> n, kind |-> kind]
  OBVIOUS
<1>4. PICK pc, opening :
        /\ thread' = [thread EXCEPT ![t] =
             [IdleThread(n) EXCEPT !.pc = pc, !.call = d, !.opening = opening]]
        /\ pc \in {"open", "write", "audit"}
        /\ kind = "transaction" => pc = "open"
  BY <1>2, <1>3, StoreAssumption DEF StoreAssumption, Call
<1>5. thread'[t] = [pc |-> pc, call |-> d, calls |-> n, record |-> 1,
                    opening |-> opening, previous |-> Genesis,
                    raised |-> FALSE, seen |-> EmptyImage]
  BY <1>4 DEF Control, TypeOK, IdleThread
<1>6. /\ thread'[t].pc = pc /\ thread'[t].call = d /\ thread'[t].calls = n
      /\ thread'[t].raised = FALSE
  BY <1>5
<1>7. MovesOnly(t) /\ n \in Nat /\ thread[t].calls \in Nat /\ n > thread[t].calls
  BY <1>2, <1>4, StoreAssumption
  DEF StoreAssumption, MovesOnly, Control, TypeOK, ThreadRecords
<1>8. At(t, "idle") /\ UNCHANGED <<store, done, failed>>
  BY DEF Call
<1>9. Agree(working', working, c) /\ disk' = disk
  BY <1>8 DEF Agree, store
<1>10. CASE c # d
  <2>1. c.thread = t => ~Current(c) /\ ~Current(c)'
    BY <1>6, <1>8, <1>10 DEF Current
  <2> QED
    BY <1>1, <1>6, <1>7, <1>8, <1>9, <2>1, OtherCall
<1>11. CASE c = d
  <2>1. /\ c.thread = t /\ c.number = n /\ kind = "transaction" /\ pc = "open"
    BY <1>3, <1>4, <1>11 DEF Transactions
  <2>2. Bare(disk, c) /\ c \notin done \union failed
    BY <1>1, <1>7, <2>1 DEF CallSafe
  <2>3. ~Running(c) /\ ~Running(c)'
    BY <1>6, <1>8, <2>1 DEF Running, At, Statements
  <2>4. Agree(working', disk', c)
    BY <1>1, <1>8, <2>3 DEF CallSafe, store
  <2>5. Bare(disk', c) /\ c \notin done' \union failed'
    BY <1>8, <2>2 DEF store
  <2>6. ~(c.number > thread'[c.thread].calls) /\ ~At(t, "return")'
    BY <1>6, <1>7, <2>1 DEF At
  <2> QED
    BY <2>1, <2>3, <2>4, <2>5, <2>6, Zenon DEF CallSafe
<1> QED
  BY <1>10, <1>11

LEMMA CloseSafely == Control /\ Close /\ Safe => Safe'
<1> SUFFICES ASSUME Control, Close, Safe, NEW c \in Transactions
             PROVE  CallSafe(c)'
  BY DEF Safe
<1>1. CallSafe(c) /\ lock = Nobody
  BY DEF Safe, Close
<1>2. ~Running(c)
  BY <1>1, OneRuns, StoreAssumption DEF StoreAssumption
<1>3. working' = disk /\ UNCHANGED <<disk, thread, done, failed>>
  BY DEF Close
<1>4. Agree(working', disk', c)
  BY <1>3 DEF Agree
<1>5. ~Running(c)' /\ (Current(c)' <=> Current(c))
      /\ (At(c.thread, "return")' <=> At(c.thread, "return"))
  BY <1>2, <1>3 DEF Running, Current, At
<1> QED
  BY <1>1, <1>3, <1>4, <1>5, Zenon DEF CallSafe

LEMMA CrashSafely == Control /\ Crash /\ Safe => Safe'
<1> SUFFICES ASSUME Control, Crash, Safe, NEW c \in Transactions
             PROVE  CallSafe(c)'
  BY DEF Safe
<1>1. CallSafe(c)
  BY DEF Safe
<1>2. /\ working' = disk /\ UNCHANGED <<disk, done, failed>>
      /\ thread' = [t \in Threads |-> IdleThread(thread[t].calls)]
  BY DEF Crash
<1>3. c.thread \in Threads
  BY DEF Transactions, Calls
<1>4. At(c.thread, "idle")' /\ thread'[c.thread].calls = thread[c.thread].calls
  BY <1>2, <1>3 DEF At, IdleThread
<1>5. ~Running(c)' /\ ~Current(c)'
  BY <1>4 DEF Running, Current, At, Statements
<1>6. Agree(working', disk', c)
  BY <1>2 DEF Agree
<1> QED
  BY <1>1, <1>2, <1>4, <1>5, <1>6, Zenon DEF CallSafe

LEMMA SafeNext == Control /\ Control' /\ Safe /\ [Next]_vars => Safe'
<1> SUFFICES ASSUME Control, Control', Safe, [Next]_vars PROVE Safe'
  OBVIOUS
<1>1. CASE UNCHANGED vars
  <2> SUFFICES ASSUME NEW c \in Transactions PROVE CallSafe(c)'
    BY DEF Safe
  <2>1. CallSafe(c) /\ UNCHANGED <<working, disk, thread, done, failed>>
    BY <1>1 DEF vars, Safe
  <2>2. /\ Running(c)' <=> Running(c)
        /\ Current(c)' <=> Current(c)
        /\ At(c.thread, "return")' <=> At(c.thread, "return")
    BY <2>1 DEF Running, Current, At
  <2>3. Progress(c) => Progress(c)'
    BY <2>1 DEF Progress, At
  <2> QED
    BY <2>1, <2>2, <2>3, Zenon DEF CallSafe
<1> QED
  BY <1>1, StepSafe, CallSafely, CloseSafely, CrashSafely DEF Next

LEMMA WholeBare ==
  ASSUME NEW c \in Transactions, NEW image
  PROVE  (Complete(image, c) <=> Whole(image, c))
         /\ (Untouched(image, c) <=> Bare(image, c))
<1>1. Size[c] = TransactionWrites /\ c.kind = "transaction"
  BY SizeOf DEF Transactions
<1> QED
  BY <1>1 DEF Complete, Untouched, Whole, Bare, RowAt, EventAt

\* A call that runs an explicit transaction is committed entirely or not at all,
\* and its caller is told the truth, whatever the other callers of the store do
\* and whatever raises, crashes or is closed: for any number of threads, calls
\* and records, and for any kinds of calls.
THEOREM TransactionsAreSafe == Spec => []TransactionsSafe
<1>1. Init => Control /\ Safe
  BY ControlInit, SafeInit
<1>2. Control /\ Safe /\ [Next]_vars => (Control /\ Safe)'
  BY ControlNext, SafeNext
<1>3. Control /\ Safe => TransactionsSafe
  BY WholeBare DEF Safe, CallSafe, TransactionsSafe, Transactions
<1> QED
  BY <1>1, <1>2, <1>3, PTL DEF Spec

-----------------------------------------------------------------------------
(* When every writer opens its transaction explicitly, as ingest, record    *)
(* and resolve_contradiction do.                                            *)


\* The calls are explicit transactions and queries.
Explicit == Kinds \subseteq {"transaction", "read", "snapshot"}

\* No statement is run outside of its own thread's transaction.
LEMMA ExplicitCalls ==
  ASSUME Explicit, Control, NEW t \in Threads, ~At(t, "idle")
  PROVE  /\ thread[t].call \in Calls /\ thread[t].call.thread = t
         /\ thread[t].call.kind = "transaction" \/ IsRead(t)
         /\ ~At(t, "write")
         /\ thread[t].pc \in Statements \union {"leave"} =>
              /\ thread[t].call \in Transactions
              /\ lock = t
         /\ At(t, "read") => lock = t
<1>1. CallOK(t) /\ HolderOK(t)
  BY DEF Control
<1>2. thread[t].call \in Calls /\ thread[t].call.thread = t
  BY <1>1 DEF CallOK
<1>3. thread[t].call.kind = "transaction" \/ IsRead(t)
  BY <1>2 DEF Explicit, Calls, IsRead, IsSnapshot
<1>4. thread[t].pc # "write"
  BY <1>1, <1>3 DEF CallOK, Statements
<1>5. ASSUME thread[t].pc \in Statements \union {"leave"}
      PROVE  thread[t].call \in Transactions /\ lock = t
  <2>1. ~IsRead(t)
    BY <1>1, <1>5 DEF CallOK, Statements
  <2>2. thread[t].call \in Transactions
    BY <1>2, <1>3, <2>1 DEF Transactions
  <2> QED
    BY <1>1, <1>3, <1>5, <2>1, <2>2 DEF CallOK, HolderOK, At
<1> QED
  BY <1>1, <1>2, <1>3, <1>4, <1>5 DEF HolderOK, At

-----------------------------------------------------------------------------
(* Nothing is uncommitted while nobody writes.                             *)

\* Nobody has the lock, or its holder reads.
Quiet == lock = Nobody \/ \E t \in Threads : lock = t /\ At(t, "read")

Quiescent == Quiet => ~open /\ working = disk

LEMMA QuiescentStep ==
  ASSUME Explicit, Control, Control', Quiescent, NEW t \in Threads, Step(t)
  PROVE  Quiescent'
<1>1. MovesOnly(t) /\ ~At(t, "idle")
  BY StepStays
<1>2. /\ ~At(t, "write")
      /\ thread[t].pc \in Statements \union {"leave"} => lock = t
      /\ At(t, "read") => lock = t
  BY <1>1, ExplicitCalls
<1>3. CASE Leave(t) \/ CommitFails(t)
  BY <1>3 DEF Leave, CommitFails, CommitOrRollBack, Quiescent
<1>4. CASE EndRead(t) \/ StartRead(t)
  <2>1. Quiet
    BY <1>2, <1>4 DEF EndRead, StartRead, Quiet
  <2> QED
    BY <1>4, <2>1 DEF EndRead, StartRead, Quiescent
<1>5. CASE OpenTransaction(t) \/ Insert(t) \/ AppendEvent(t) \/ Raise(t)
           \/ Audit(t) \/ ReadHead(t)
  <2>1. lock' = t
    BY <1>2, <1>5
    DEF OpenTransaction, Insert, AppendEvent, Raise, Audit, ReadHead, store, At,
        Statements
  <2>2. ~At(t, "read")'
    <3>1. HolderOK(t)'
      BY DEF Control
    <3>2. depth' = 1
      <4>1. CASE OpenTransaction(t)
        BY <4>1 DEF OpenTransaction, Control, TypeOK
      <4>2. CASE ~OpenTransaction(t)
        <5>1. thread[t].pc \in Statements /\ lock = t /\ HolderOK(t)
          BY <1>2, <1>5, <4>2
          DEF Insert, AppendEvent, Raise, Audit, ReadHead, At, Statements, Control
        <5>2. depth = 1
          BY <5>1 DEF HolderOK, At, Statements
        <5> QED
          BY <1>5, <4>2, <5>2
          DEF Insert, AppendEvent, Raise, Audit, ReadHead, store
      <4> QED
        BY <4>1, <4>2
    <3> QED
      BY <2>1, <3>1, <3>2 DEF HolderOK, At, Statements
  <2>3. lock' # Nobody
    BY <2>1, StoreAssumption DEF StoreAssumption
  <2> QED
    BY <2>1, <2>2, <2>3 DEF Quiescent, Quiet
<1>6. CASE OpenFails(t) \/ Return(t) \/ Write(t) \/ RaiseUnlocked(t)
  <2>1. UNCHANGED store
    BY <1>6 DEF OpenFails, Return, Write, RaiseUnlocked, Fails
  <2>2. lock # t
    BY <1>2, <1>6, StoreAssumption
    DEF StoreAssumption, OpenFails, Return, Write, RaiseUnlocked, Control,
        HolderOK, At, Statements
  <2>3. Quiet' => Quiet
    BY <1>1, <2>1, <2>2 DEF Quiet, MovesOnly, At, store
  <2> QED
    BY <2>1, <2>3 DEF Quiescent, store
<1> QED
  BY <1>3, <1>4, <1>5, <1>6 DEF Step

LEMMA QuiescentNext ==
  ASSUME Explicit, Control, Control', Quiescent, [Next]_vars
  PROVE  Quiescent'
<1>1. ASSUME NEW t \in Threads, NEW kind \in Kinds, Call(t, kind)
      PROVE  Quiescent'
  <2>1. UNCHANGED store /\ lock # t
    BY <1>1 DEF Call, Control, HolderOK, At, Statements
  <2>2. \A u \in Threads : u # t => thread'[u] = thread[u]
    BY <1>1 DEF Call, Control, TypeOK
  <2>3. Quiet' => Quiet
    BY <2>1, <2>2 DEF Quiet, At, store
  <2> QED
    BY <2>1, <2>3 DEF Quiescent, store
<1>2. CASE Close \/ Crash
  BY <1>2 DEF Close, Crash, Quiescent
<1>3. CASE UNCHANGED vars
  BY <1>3 DEF vars, store, Quiescent, Quiet, At
<1> QED
  BY <1>1, <1>2, <1>3, QuiescentStep DEF Next

\* No transaction is left open behind a call that has ended, and no query sees
\* what may still be rolled back.
THEOREM NothingUncommittedUnlocked ==
  ASSUME Explicit
  PROVE  Spec => []UnlockedIsCommitted
<1>1. Init => Control /\ Quiescent
  BY ControlInit DEF Init, Quiescent
<1>2. Control /\ Quiescent /\ [Next]_vars => (Control /\ Quiescent)'
  BY ControlNext, QuiescentNext
<1>3. Control /\ Quiescent => UnlockedIsCommitted
  BY DEF Control, HolderOK, Quiescent, Quiet, UnlockedIsCommitted
<1> QED
  BY <1>1, <1>2, <1>3, PTL DEF Spec

-----------------------------------------------------------------------------
(* The audit chain is never forked.                                        *)

\* The rows and the chain are left alone while another thread has the lock.
LEMMA Exclusive ==
  ASSUME Explicit, Control, Control', NEW t \in Threads, Step(t),
         NEW u \in Threads, u # t, lock = u
  PROVE  UNCHANGED <<working, disk, open, lock>> /\ thread'[u] = thread[u]
<1>1. MovesOnly(t) /\ ~At(t, "idle")
  BY StepStays
<1>2. thread[t].pc \notin Statements \union {"leave", "read"}
  BY <1>1, ExplicitCalls DEF At
<1>3. lock # Nobody
  BY StoreAssumption DEF StoreAssumption
<1> QED
  BY <1>1, <1>2, <1>3
  DEF MovesOnly, Step, Write, Audit, OpenTransaction, OpenFails, Insert,
      ReadHead, AppendEvent, Raise, RaiseUnlocked, Leave, CommitFails,
      StartRead, EndRead, Return, Fails, store, At, Statements

\* The event about to be appended names the last one.
Heads ==
  \A t \in Threads :
    At(t, "append") => thread[t].previous = LastName(working.chain)

LEMMA LinearAppend ==
  ASSUME NEW chain \in Seq(Events), Linear(chain), NEW e \in Events,
         e.previous = LastName(chain)
  PROVE  Linear(chain \o <<e>>)
<1>1. PICK new : new = chain \o <<e>>
  OBVIOUS
<1>2. /\ Len(new) = Len(chain) + 1 /\ Len(chain) \in Nat
      /\ \A i \in 1..Len(chain) : new[i] = chain[i]
      /\ new[Len(chain) + 1] = e
      /\ chain = <<>> <=> Len(chain) = 0
  BY <1>1
<1>3. ASSUME NEW i \in 1..Len(new)
      PROVE  new[i].previous = IF i = 1 THEN Genesis ELSE new[i - 1].name
  <2>1. CASE i \in 1..Len(chain)
    <3>1. new[i] = chain[i] /\ (i # 1 => new[i - 1] = chain[i - 1])
      BY <1>2, <2>1
    <3> QED
      BY <2>1, <3>1 DEF Linear
  <2>2. CASE i = Len(chain) + 1
    <3>1. i # 1 => i - 1 = Len(chain) /\ new[i - 1] = chain[Len(chain)]
      BY <1>2, <2>2
    <3> QED
      BY <1>2, <2>2, <3>1 DEF LastName
  <2> QED
    BY <1>2, <2>1, <2>2
<1> QED
  BY <1>1, <1>3 DEF Linear

LEMMA ChainStep ==
  ASSUME Explicit, Control, Control', ChainLinear, Heads, NEW t \in Threads,
         Step(t)
  PROVE  (ChainLinear /\ Heads)'
<1>1. MovesOnly(t) /\ ~At(t, "idle")
  BY StepStays
<1>2. ASSUME NEW u \in Threads, u # t, At(u, "append")'
      PROVE  thread'[u].previous = LastName(working'.chain)
  <2>1. thread'[u] = thread[u] /\ At(u, "append")
    BY <1>1, <1>2 DEF MovesOnly, At
  <2>2. lock = u
    BY <2>1, ExplicitCalls DEF At, Statements
  <2>3. working' = working
    BY <1>2, <2>2, Exclusive
  <2> QED
    BY <2>1, <2>3 DEF Heads
<1>3. CASE AppendEvent(t)
  <2>1. /\ working.chain \in Seq(Events) /\ working \in Images
        /\ thread[t] \in ThreadRecords /\ At(t, "append")
    BY <1>3 DEF Control, TypeOK, Images, AppendEvent
  <2>2. NewEvent(t) \in Events
    BY <2>1, NameOK DEF NewEvent, Events, ThreadRecords, At, Statements
  <2>3. working' = [working EXCEPT !.chain = @ \o <<NewEvent(t)>>]
    BY <1>3 DEF AppendEvent, NewEvent
  <2>4. working'.chain = working.chain \o <<NewEvent(t)>>
    BY <2>1, <2>3 DEF Images
  <2>5. NewEvent(t).previous = LastName(working.chain)
    BY <2>1 DEF NewEvent, Heads
  <2>6. Linear(working'.chain)
    BY <2>1, <2>2, <2>4, <2>5, LinearAppend DEF ChainLinear
  <2>7. ~At(t, "append")'
    BY <1>3, <2>1 DEF AppendEvent, At, Control, TypeOK, ThreadRecords
  <2> QED
    BY <1>2, <1>3, <2>6, <2>7 DEF AppendEvent, ChainLinear, Heads
<1>4. CASE ~AppendEvent(t)
  <2>1. Linear(working'.chain) /\ Linear(disk'.chain)
    <3>1. CASE Insert(t)
      <4>1. working'.chain = working.chain
        BY <3>1 DEF Insert, Control, TypeOK, Images
      <4> QED
        BY <3>1, <4>1 DEF Insert, ChainLinear
    <3>2. CASE ~Insert(t)
      <4>1. working' \in {working, disk} /\ disk' \in {working, disk}
        BY <1>4, <3>2
        DEF Step, Write, Audit, OpenTransaction, OpenFails, ReadHead, Raise,
            RaiseUnlocked, Leave, CommitFails, CommitOrRollBack, StartRead,
            EndRead, Return, Fails, store
      <4> QED
        BY <4>1 DEF ChainLinear
    <3> QED
      BY <3>1, <3>2
  <2>2. At(t, "append")' => thread'[t].previous = LastName(working'.chain)
    <3>1. CASE ReadHead(t)
      <4>1. PICK r : r = [thread[t] EXCEPT !.pc = "append",
                                           !.previous = LastName(working.chain)]
        OBVIOUS
      <4>2. r.previous = LastName(working.chain)
        BY <4>1 DEF Control, TypeOK, ThreadRecords
      <4>3. thread' = [thread EXCEPT ![t] = r] /\ working' = working
        BY <3>1, <4>1 DEF ReadHead, Control, TypeOK, store
      <4> QED
        BY <4>2, <4>3 DEF Control, TypeOK
    <3>2. CASE ~ReadHead(t)
      BY <1>4, <3>2
      DEF Step, Write, Audit, OpenTransaction, OpenFails, Insert, Raise,
          RaiseUnlocked, Leave, CommitFails, StartRead, EndRead, Return, Fails,
          Goto, At, IdleThread, Control, TypeOK, ThreadRecords
    <3> QED
      BY <3>1, <3>2
  <2> QED
    BY <1>2, <2>1, <2>2 DEF ChainLinear, Heads
<1> QED
  BY <1>3, <1>4

LEMMA ChainNext ==
  ASSUME Explicit, Control, Control', ChainLinear, Heads, [Next]_vars
  PROVE  (ChainLinear /\ Heads)'
<1>1. ASSUME NEW t \in Threads, NEW kind \in Kinds, Call(t, kind)
      PROVE  (ChainLinear /\ Heads)'
  <2>1. UNCHANGED <<working, disk>>
    BY <1>1 DEF Call, store
  <2>2. \A u \in Threads : u # t => thread'[u] = thread[u]
    BY <1>1 DEF Call, Control, TypeOK
  <2>3. ~At(t, "append")'
    BY <1>1 DEF Call, At, IdleThread, Control, TypeOK
  <2> QED
    BY <2>1, <2>2, <2>3 DEF ChainLinear, Heads, At
<1>2. CASE Close
  <2>1. \A t \in Threads : ~At(t, "append")
    BY <1>2, ExplicitCalls, StoreAssumption
    DEF StoreAssumption, Close, At, Statements
  <2> QED
    BY <1>2, <2>1 DEF Close, ChainLinear, Heads, At
<1>3. CASE Crash
  <2>1. \A t \in Threads : ~At(t, "append")'
    BY <1>3 DEF Crash, At, IdleThread
  <2> QED
    BY <1>3, <2>1 DEF Crash, ChainLinear, Heads
<1>4. CASE UNCHANGED vars
  BY <1>4 DEF vars, ChainLinear, Heads, At
<1> QED
  BY <1>1, <1>2, <1>3, <1>4, ChainStep DEF Next

LEMMA ChainInit == Init => ChainLinear /\ Heads
  BY DEF Init, IdleThread, EmptyImage, ChainLinear, Linear, Heads, At

\* The audit chain, as committed and as any connection sees it, is one chain
\* from its first event on: verify_audit_chain finds nothing.
THEOREM ChainIsLinear ==
  ASSUME Explicit
  PROVE  Spec => []ChainLinear
<1>1. Init => Control /\ ChainLinear /\ Heads
  BY ControlInit, ChainInit
<1>2. Control /\ ChainLinear /\ Heads /\ [Next]_vars
        => (Control /\ ChainLinear /\ Heads)'
  BY ControlNext, ChainNext
<1> QED
  BY <1>1, <1>2, PTL DEF Spec

-----------------------------------------------------------------------------
(* A snapshot counts a row for every event it covers.                      *)

\* Only transactions write.
Written == \A n \in Audited(working) \union Audited(disk) : n[1] \in Transactions

Grown == disk.rows \subseteq working.rows

\* The chain of a snapshot is one whose rows have been committed.
Snapshot(t) ==
  ~At(t, "idle") /\ IsSnapshot(t) =>
    /\ thread[t].record # 1 => Audited(thread[t].seen) \subseteq disk.rows
    /\ At(t, "return") => Audited(thread[t].seen) \subseteq thread[t].seen.rows

Snapshots == Written /\ Grown /\ \A t \in Threads : Snapshot(t)

LEMMA EventsHaveRows ==
  ASSUME Safe, Written, NEW n \in Audited(disk)
  PROVE  n \in disk.rows
<1>1. n \in Names /\ n[1] \in Transactions
  BY DEF Audited, Written
<1>2. n = <<n[1], n[2]>> /\ n[2] \in 1..TransactionWrites
  BY <1>1 DEF Names
<1>3. EventAt(disk, n[1], n[2])
  BY <1>2 DEF EventAt
<1>4. Whole(disk, n[1]) \/ Bare(disk, n[1])
  BY <1>1 DEF Safe, CallSafe
<1>5. RowAt(disk, n[1], n[2])
  BY <1>2, <1>3, <1>4 DEF Whole, Bare
<1> QED
  BY <1>2, <1>5 DEF RowAt

LEMMA WrittenStep ==
  ASSUME Explicit, Control, Control', Written, Grown, NEW t \in Threads, Step(t)
  PROVE  (Written /\ Grown)' /\ disk.rows \subseteq disk'.rows
<1>1. ~At(t, "idle")
  BY StepStays
<1>2. working \in Images /\ thread[t] \in ThreadRecords
  BY DEF Control, TypeOK
<1>3. CASE AppendEvent(t)
  <2>1. thread[t].pc \in Statements
    BY <1>3 DEF AppendEvent, At, Statements
  <2>2. thread[t].call \in Transactions /\ Name(t) \in Names
    BY <1>1, <2>1, ExplicitCalls, NameOK
  <2>3. NewEvent(t) \in Events
    BY <1>2, <2>2 DEF NewEvent, Events, ThreadRecords
  <2>4. working' = [working EXCEPT !.chain = @ \o <<NewEvent(t)>>]
    BY <1>3 DEF AppendEvent, NewEvent
  <2>5. Audited(working') = Audited(working) \union {Name(t)}
        /\ working'.rows = working.rows
    BY <1>2, <2>3, <2>4, AuditedAppend DEF NewEvent, Images
  <2>6. Name(t)[1] \in Transactions
    BY <2>2 DEF Name
  <2> QED
    BY <1>3, <2>5, <2>6 DEF AppendEvent, Written, Grown
<1>4. CASE Insert(t)
  <2>1. working'.chain = working.chain
        /\ working'.rows = working.rows \union {Name(t)}
    BY <1>2, <1>4 DEF Insert, Images
  <2>2. Audited(working') = Audited(working)
    BY <2>1 DEF Audited
  <2> QED
    BY <1>4, <2>1, <2>2 DEF Insert, Written, Grown
<1>5. CASE ~AppendEvent(t) /\ ~Insert(t)
  <2>1. /\ working' \in {working, disk} /\ disk' \in {working, disk}
        /\ working' = disk' \/ UNCHANGED <<working, disk>>
    BY <1>5
    DEF Step, Write, Audit, OpenTransaction, OpenFails, ReadHead, Raise,
        RaiseUnlocked, Leave, CommitFails, CommitOrRollBack, StartRead,
        EndRead, Return, Fails, store
  <2> QED
    BY <2>1 DEF Written, Grown
<1> QED
  BY <1>3, <1>4, <1>5

LEMMA SnapshotStep ==
  ASSUME Explicit, Control, Control', Safe, Quiescent, Snapshots,
         NEW t \in Threads, Step(t)
  PROVE  Snapshots'
<1>1. /\ MovesOnly(t) /\ ~At(t, "idle")
      /\ At(t, "idle")' \/ thread'[t].call = thread[t].call
  BY StepStays
<1>2. (Written /\ Grown)' /\ disk.rows \subseteq disk'.rows
  BY WrittenStep DEF Snapshots
<1>3. \A u \in Threads : u # t => Snapshot(u)'
  BY <1>1, <1>2 DEF MovesOnly, Snapshots, Snapshot, At, IsSnapshot
<1>4. Snapshot(t)'
  <2> SUFFICES ASSUME ~At(t, "idle")', IsSnapshot(t)'
               PROVE  Snapshot(t)'
    BY DEF Snapshot
  <2>1. IsSnapshot(t) /\ IsRead(t)
    BY <1>1 DEF IsSnapshot, IsRead
  <2>2. thread[t].pc \in {"open", "read", "return"}
    BY <1>1, <2>1 DEF Control, CallOK
  <2>3. thread[t] \in ThreadRecords /\ working \in Images
    BY DEF Control, TypeOK
  <2>4. CASE StartRead(t)
    <3>1. /\ thread'[t].record = thread[t].record /\ thread'[t].seen = thread[t].seen
          /\ ~At(t, "return")'
      BY <2>3, <2>4 DEF StartRead, Goto, At, Control, TypeOK, ThreadRecords
    <3> QED
      BY <1>1, <1>2, <2>1, <3>1 DEF Snapshot, Snapshots
  <2>5. CASE EndRead(t)
    <3>1. Quiet /\ working = disk /\ disk' = disk
      BY <1>1, <2>5, ExplicitCalls DEF EndRead, Quiet, Quiescent
    <3>2. CASE thread[t].record = 1
      <4>1. PICK r : r = [thread[t] EXCEPT
                            !.pc = "open", !.record = 2,
                            !.seen = [@ EXCEPT !.chain = working.chain]]
        OBVIOUS
      <4>2. thread' = [thread EXCEPT ![t].pc = "open", ![t].record = 2,
              ![t].seen = [thread[t].seen EXCEPT !.chain = working.chain]]
        BY <2>1, <2>3, <2>5, <3>2 DEF EndRead, Control, TypeOK, ThreadRecords
      <4>3. thread'[t].pc = "open" /\ thread'[t].seen.chain = working.chain
        BY <2>3, <4>2 DEF Control, TypeOK, ThreadRecords, Images
      <4>4. Audited(thread'[t].seen) = Audited(disk)
        BY <3>1, <4>3 DEF Audited
      <4> QED
        BY <3>1, <4>3, <4>4, EventsHaveRows DEF Snapshot, Snapshots, At
    <3>3. CASE thread[t].record # 1
      <4>1. thread' = [thread EXCEPT ![t].pc = "return",
              ![t].record = thread[t].record,
              ![t].seen = [thread[t].seen EXCEPT !.rows = working.rows]]
        BY <2>1, <2>3, <2>5, <3>3 DEF EndRead, Control, TypeOK, ThreadRecords
      <4>2. thread'[t].seen.rows = working.rows
            /\ thread'[t].seen.chain = thread[t].seen.chain
        BY <2>3, <4>1 DEF Control, TypeOK, ThreadRecords, Images
      <4>3. Audited(thread'[t].seen) = Audited(thread[t].seen)
        BY <4>2 DEF Audited
      <4> QED
        BY <1>1, <2>1, <3>1, <3>3, <4>2, <4>3 DEF Snapshot, Snapshots
    <3> QED
      BY <3>2, <3>3
  <2>6. CASE OpenFails(t) \/ Return(t)
    BY <2>6
    DEF OpenFails, Return, Fails, At, IdleThread, Control, TypeOK
  <2> QED
    BY <2>1, <2>2, <2>4, <2>5, <2>6
    DEF Step, Write, Audit, OpenTransaction, Insert, ReadHead, AppendEvent,
        Raise, RaiseUnlocked, Leave, CommitFails, Statements, At
<1> QED
  BY <1>2, <1>3, <1>4, <1>1 DEF Snapshots

LEMMA SnapshotNext ==
  ASSUME Explicit, Control, Control', Safe, Quiescent, Snapshots, [Next]_vars
  PROVE  Snapshots'
<1>1. ASSUME NEW t \in Threads, NEW kind \in Kinds, Call(t, kind)
      PROVE  Snapshots'
  <2>1. UNCHANGED <<working, disk>>
    BY <1>1 DEF Call, store
  <2>2. \A u \in Threads : u # t => thread'[u] = thread[u]
    BY <1>1 DEF Call, Control, TypeOK
  <2>3. thread'[t].record = 1 /\ ~At(t, "return")'
    BY <1>1 DEF Call, At, IdleThread, Control, TypeOK
  <2> QED
    BY <2>1, <2>2, <2>3 DEF Snapshots, Written, Grown, Snapshot, At, IsSnapshot
<1>2. CASE Close
  BY <1>2 DEF Close, Snapshots, Written, Grown, Snapshot, At, IsSnapshot
<1>3. CASE Crash
  <2>1. \A t \in Threads : At(t, "idle")'
    BY <1>3 DEF Crash, At, IdleThread
  <2> QED
    BY <1>3, <2>1 DEF Crash, Snapshots, Written, Grown, Snapshot
<1>4. CASE UNCHANGED vars
  BY <1>4 DEF vars, Snapshots, Written, Grown, Snapshot, At, IsSnapshot
<1> QED
  BY <1>1, <1>2, <1>3, <1>4, SnapshotStep DEF Next

LEMMA SnapshotInit == Init => Snapshots
<1> SUFFICES ASSUME Init PROVE Snapshots
  OBVIOUS
<1>1. Written /\ Grown
  BY AuditedEmpty DEF Init, Written, Grown
<1>2. \A t \in Threads : At(t, "idle")
  BY DEF Init, IdleThread, At
<1> QED
  BY <1>1, <1>2 DEF Snapshots, Snapshot

\* A snapshot is taken by several queries, with writers in between; it still
\* counts a row for every audit event that its hash covers.
THEOREM SnapshotsCountEvents ==
  ASSUME Explicit
  PROVE  Spec => []SnapshotsCounted
<1> DEFINE Inv == Control /\ Safe /\ Quiescent /\ Snapshots
<1>1. Init => Inv
  BY ControlInit, SafeInit, SnapshotInit DEF Init, Quiescent
<1>2. Inv /\ [Next]_vars => Inv'
  BY ControlNext, SafeNext, QuiescentNext, SnapshotNext
<1>3. Inv => SnapshotsCounted
  <2> SUFFICES ASSUME Inv PROVE SnapshotsCounted
    OBVIOUS
  <2> QED
    BY DEF Snapshots, Snapshot, SnapshotsCounted, At
<1> QED
  BY <1>1, <1>2, <1>3, PTL DEF Spec

-----------------------------------------------------------------------------
(* The store implements AtomicStore.                                       *)

\* The working chain is that on disk and the first m events of call c.
ExtendsBy(c, m) ==
  /\ Len(working.chain) = Len(disk.chain) + m
  /\ \A i \in 1..Len(disk.chain) : working.chain[i] = disk.chain[i]
  /\ \A k \in 1..m : working.chain[Len(disk.chain) + k].name = <<c, k>>

Logged(t) ==
  /\ thread[t].pc \in Statements =>
       ExtendsBy(thread[t].call, thread[t].record - 1)
  /\ At(t, "leave") /\ ~thread[t].raised =>
       ExtendsBy(thread[t].call, TransactionWrites)

\* A call that has ended is none that a thread is in, or will be in.
Numbered ==
  \A c \in done \union failed :
    c.number <= thread[c.thread].calls /\ ~Current(c)

LEMMA LoggedStep ==
  ASSUME Explicit, Control, Control', Quiescent, \A t \in Threads : Logged(t),
         NEW t \in Threads, Step(t)
  PROVE  \A u \in Threads : Logged(u)'
<1>1. /\ MovesOnly(t) /\ ~At(t, "idle")
      /\ At(t, "idle")' \/ thread'[t].call = thread[t].call
  BY StepStays
<1>2. ASSUME NEW u \in Threads, u # t
      PROVE  Logged(u)'
  <2>1. thread'[u] = thread[u]
    BY <1>1, <1>2 DEF MovesOnly
  <2> SUFFICES ASSUME thread[u].pc \in Statements \union {"leave"}
               PROVE  Logged(u)'
    BY <2>1 DEF Logged, At
  <2>2. lock = u
    BY ExplicitCalls DEF At, Statements
  <2>3. UNCHANGED <<working, disk>>
    BY <1>2, <2>2, Exclusive
  <2>4. Logged(u)
    OBVIOUS
  <2> QED
    BY <2>1, <2>3, <2>4 DEF Logged, ExtendsBy, At
<1>3. Logged(t)'
  <2>1. thread[t] \in ThreadRecords /\ working \in Images /\ disk \in Images
    BY DEF Control, TypeOK
  <2>2. CASE OpenTransaction(t)
    <3>1. Quiet /\ working = disk
      BY <2>2 DEF OpenTransaction, Quiet, Quiescent
    <3>2. thread[t].call.kind = "transaction" /\ CallOK(t)
      BY <1>1, <2>2, ExplicitCalls DEF OpenTransaction, Control
    <3>3. thread[t].opening = "call" /\ thread[t].record = 1
      BY <1>1, <2>2, <3>2 DEF CallOK, OpenTransaction, At
    <3>4. thread'[t].pc = "insert" /\ thread'[t].record = 1
      BY <2>1, <2>2, <3>3
      DEF OpenTransaction, Goto, Control, TypeOK, ThreadRecords
    <3>5. Len(disk.chain) \in Nat
      BY <2>1 DEF Images
    <3>6. ASSUME NEW c PROVE ExtendsBy(c, 0)'
      BY <2>2, <3>1, <3>5 DEF ExtendsBy, OpenTransaction
    <3> QED
      BY <3>4, <3>6 DEF Logged, At
  <2>3. CASE Insert(t) \/ Audit(t) \/ ReadHead(t)
    <3>1. thread[t].pc \in Statements
      BY <2>3 DEF Insert, Audit, ReadHead, At, Statements
    <3>2. working'.chain = working.chain /\ disk' = disk
      BY <2>1, <2>3 DEF Insert, Audit, ReadHead, store, Images
    <3>3. thread'[t].record = thread[t].record /\ ~At(t, "leave")'
          /\ thread'[t].call = thread[t].call
      <4>1. CASE Insert(t)
        BY <2>1, <4>1 DEF Insert, Goto, At, Control, TypeOK, ThreadRecords
      <4>2. CASE Audit(t)
        BY <2>1, <4>2 DEF Audit, Goto, At, Control, TypeOK, ThreadRecords
      <4>3. CASE ReadHead(t)
        BY <2>1, <4>3 DEF ReadHead, At, Control, TypeOK, ThreadRecords
      <4> QED
        BY <2>3, <4>1, <4>2, <4>3
    <3>4. ExtendsBy(thread[t].call, thread[t].record - 1)
      BY <3>1 DEF Logged
    <3> QED
      BY <3>2, <3>3, <3>4 DEF Logged, ExtendsBy
  <2>4. CASE AppendEvent(t)
    <3>1. thread[t].pc \in Statements
      BY <2>4 DEF AppendEvent, At, Statements
    <3>2. /\ ExtendsBy(thread[t].call, thread[t].record - 1)
          /\ lock = t /\ thread[t].call \in Transactions
          /\ Name(t) \in Names
          /\ thread[t].record \in 1..TransactionWrites
          /\ Size[thread[t].call] = TransactionWrites
      <4>1. ExtendsBy(thread[t].call, thread[t].record - 1)
        BY <3>1 DEF Logged
      <4>2. lock = t /\ thread[t].call \in Transactions
        BY <1>1, <3>1, ExplicitCalls
      <4>3. Size[thread[t].call] = TransactionWrites
        BY <4>2, SizeOf DEF Transactions
      <4>4. Name(t) \in Names /\ thread[t].record \in 1..TransactionWrites
        BY <3>1, <4>3, NameOK
      <4> QED
        BY <4>1, <4>2, <4>3, <4>4
    <3>3. NewEvent(t) \in Events
      BY <2>1, <3>2 DEF NewEvent, Events, ThreadRecords
    <3>4. /\ working'.chain = working.chain \o <<NewEvent(t)>>
          /\ working.chain \in Seq(Events) /\ disk' = disk
          /\ Len(disk.chain) \in Nat /\ Len(working.chain) \in Nat
      BY <2>1, <2>4 DEF AppendEvent, NewEvent, Images
    <3>5. /\ Len(working'.chain) = Len(working.chain) + 1
          /\ \A i \in 1..Len(working.chain) : working'.chain[i] = working.chain[i]
          /\ working'.chain[Len(working.chain) + 1] = NewEvent(t)
      BY <3>3, <3>4
    <3>6. NewEvent(t).name = <<thread[t].call, thread[t].record>>
      BY DEF NewEvent, Name
    <3>8. PICK c, m : c = thread[t].call /\ m = thread[t].record
      OBVIOUS
    <3>9. /\ Len(working'.chain) = Len(disk.chain) + m
          /\ \A i \in 1..Len(disk.chain) : working'.chain[i] = disk.chain[i]
          /\ \A k \in 1..m : working'.chain[Len(disk.chain) + k].name = <<c, k>>
      <4>1. /\ Len(working.chain) = Len(disk.chain) + (m - 1)
            /\ m \in 1..TransactionWrites
            /\ \A i \in 1..Len(disk.chain) : working.chain[i] = disk.chain[i]
            /\ \A k \in 1..(m - 1) :
                 working.chain[Len(disk.chain) + k].name = <<c, k>>
        BY <3>2, <3>8 DEF ExtendsBy
      <4>2. Len(working.chain) + 1 = Len(disk.chain) + m /\ m \in Nat
        BY <3>4, <4>1, StoreAssumption DEF StoreAssumption
      <4>3. working'.chain[Len(disk.chain) + m].name = <<c, m>>
        BY <3>5, <3>6, <3>8, <4>2
      <4>4. ASSUME NEW k \in 1..(m - 1)
            PROVE  working'.chain[Len(disk.chain) + k].name = <<c, k>>
        <5>1. Len(disk.chain) + k \in 1..Len(working.chain)
          BY <3>4, <4>1, <4>2
        <5> QED
          BY <3>5, <4>1, <5>1
      <4>5. ASSUME NEW i \in 1..Len(disk.chain)
            PROVE  working'.chain[i] = disk.chain[i]
        <5>1. i \in 1..Len(working.chain)
          BY <3>4, <4>1, <4>2
        <5> QED
          BY <3>5, <4>1, <5>1
      <4>6. \A k \in 1..m : k = m \/ k \in 1..(m - 1)
        BY <4>2
      <4>7. Len(working'.chain) = Len(disk.chain) + m
        BY <3>5, <4>2
      <4> QED
        BY <4>3, <4>4, <4>5, <4>6, <4>7
    <3>10. ExtendsBy(c, m)'
      BY <3>4, <3>8, <3>9 DEF ExtendsBy
    <3>11. thread'[t].call = c
      <4>1. ~At(t, "idle")'
        BY <2>1, <2>4 DEF AppendEvent, At, Control, TypeOK, ThreadRecords
      <4> QED
        BY <1>1, <3>8, <4>1
    <3>12. CASE LastRecord(t)
      <4>1. thread'[t].pc = "leave" /\ m = TransactionWrites
        BY <2>1, <2>4, <3>2, <3>8, <3>12
        DEF AppendEvent, LastRecord, Control, TypeOK, ThreadRecords
      <4> QED
        BY <3>10, <3>11, <4>1 DEF Logged, At, Statements
    <3>13. CASE ~LastRecord(t)
      <4>1. thread' = [thread EXCEPT ![t] =
              [thread[t] EXCEPT !.pc = "insert", !.record = thread[t].record + 1]]
        BY <2>4, <3>13 DEF AppendEvent, Control, TypeOK
      <4>2. thread'[t].pc = "insert" /\ thread'[t].record - 1 = m
        BY <2>1, <3>2, <3>8, <4>1, StoreAssumption
        DEF StoreAssumption, Control, TypeOK, ThreadRecords
      <4> QED
        BY <3>10, <3>11, <4>2 DEF Logged, At
    <3> QED
      BY <3>12, <3>13
  <2>5. CASE Raise(t)
    <3>1. thread'[t].pc = "leave" /\ thread'[t].raised = TRUE
      BY <2>1, <2>5 DEF Raise, Control, TypeOK, ThreadRecords
    <3> QED
      BY <3>1 DEF Logged, At, Statements
  <2>6. CASE Write(t) \/ RaiseUnlocked(t)
    BY <1>1, <2>6, ExplicitCalls DEF Write, RaiseUnlocked
  <2>7. CASE OpenFails(t) \/ Leave(t) \/ CommitFails(t) \/ StartRead(t)
             \/ EndRead(t) \/ Return(t)
    <3>1. thread'[t].pc \in {"idle", "open", "read", "return"}
      <4>1. CASE OpenFails(t) \/ Return(t)
        BY <4>1 DEF OpenFails, Return, Fails, IdleThread, Control, TypeOK
      <4>2. CASE Leave(t)
        BY <2>1, <4>2 DEF Leave, Goto, Control, TypeOK, ThreadRecords
      <4>3. CASE CommitFails(t)
        BY <2>1, <4>3 DEF CommitFails, Control, TypeOK, ThreadRecords
      <4>4. CASE StartRead(t)
        BY <2>1, <4>4 DEF StartRead, Goto, Control, TypeOK, ThreadRecords
      <4>5. CASE EndRead(t)
        BY <2>1, <4>5 DEF EndRead, Control, TypeOK, ThreadRecords
      <4> QED
        BY <2>7, <4>1, <4>2, <4>3, <4>4, <4>5
    <3> QED
      BY <3>1 DEF Logged, At, Statements
  <2> QED
    BY <2>2, <2>3, <2>4, <2>5, <2>6, <2>7 DEF Step
<1> QED
  BY <1>2, <1>3

LEMMA LoggedNext ==
  ASSUME Explicit, Control, Control', Quiescent, \A t \in Threads : Logged(t),
         [Next]_vars
  PROVE  \A u \in Threads : Logged(u)'
<1>1. ASSUME NEW t \in Threads, NEW kind \in Kinds, Call(t, kind),
             NEW u \in Threads
      PROVE  Logged(u)'
  <2>1. UNCHANGED <<working, disk>> /\ (u # t => thread'[u] = thread[u])
    BY <1>1 DEF Call, store, Control, TypeOK
  <2>2. CASE u # t
    BY <2>1, <2>2 DEF Logged, ExtendsBy, At
  <2>3. CASE u = t
    <3>1. kind \in {"transaction", "read", "snapshot"}
      BY DEF Explicit
    <3>2. thread'[t].pc = "open"
      BY <1>1, <3>1 DEF Call, IdleThread, Control, TypeOK
    <3> QED
      BY <2>3, <3>2 DEF Logged, At, Statements
  <2> QED
    BY <2>2, <2>3
<1>2. CASE Close
  <2>1. \A t \in Threads : thread[t].pc \notin Statements \union {"leave"}
    BY <1>2, ExplicitCalls, StoreAssumption
    DEF StoreAssumption, Close, At, Statements
  <2> QED
    BY <1>2, <2>1 DEF Close, Logged, At
<1>3. CASE Crash
  <2>1. \A t \in Threads : thread'[t].pc = "idle"
    BY <1>3 DEF Crash, IdleThread
  <2> QED
    BY <2>1 DEF Logged, At, Statements
<1>4. CASE UNCHANGED vars
  BY <1>4 DEF vars, Logged, ExtendsBy, At
<1> QED
  BY <1>1, <1>2, <1>3, <1>4, LoggedStep DEF Next

LEMMA NumberedNext ==
  ASSUME Control, Control', Numbered, [Next]_vars
  PROVE  Numbered'
<1>1. ASSUME NEW c \in Calls
      PROVE  /\ c.thread \in Threads /\ c.number \in Nat
             /\ thread[c.thread].calls \in Nat
  BY StoreAssumption
  DEF StoreAssumption, Calls, Control, TypeOK, ThreadRecords
<1>2. done \subseteq Calls /\ failed \subseteq Calls
  BY DEF Control, TypeOK
<1>3. ASSUME NEW t \in Threads, Step(t)
      PROVE  Numbered'
  <2>1. /\ MovesOnly(t) /\ ~At(t, "idle")
        /\ thread'[t].calls = thread[t].calls
        /\ At(t, "idle")' \/ thread'[t].call = thread[t].call
    BY <1>3, StepStays
  <2>2. CASE Return(t) \/ OpenFails(t) \/ RaiseUnlocked(t)
    <3>1. /\ done' \union failed' = done \union failed \union {thread[t].call}
          /\ At(t, "idle")'
      BY <2>2
      DEF Return, OpenFails, RaiseUnlocked, Fails, At, IdleThread, Control, TypeOK
    <3>2. thread[t].call \in Calls /\ thread[t].call.thread = t
          /\ thread[t].call.number = thread[t].calls
      BY <2>1 DEF Control, CallOK
    <3>3. ASSUME NEW c \in done \union failed
          PROVE  c.number <= thread'[c.thread].calls /\ ~Current(c)'
      <4>1. CASE c.thread = t
        BY <2>1, <3>1, <3>3, <4>1 DEF Numbered, Current
      <4>2. CASE c.thread # t
        <5>1. thread'[c.thread] = thread[c.thread]
          BY <1>1, <1>2, <2>1, <3>3, <4>2 DEF MovesOnly
        <5> QED
          BY <3>3, <5>1 DEF Numbered, Current, At
      <4> QED
        BY <4>1, <4>2
    <3>4. thread[t].call.number <= thread'[t].calls
      BY <1>1, <2>1, <3>2
    <3> QED
      BY <3>1, <3>2, <3>3, <3>4 DEF Numbered, Current
  <2>3. CASE ~Return(t) /\ ~OpenFails(t) /\ ~RaiseUnlocked(t)
    <3>1. UNCHANGED <<done, failed>>
      BY <1>3, <2>3
      DEF Step, Write, Audit, OpenTransaction, Insert, ReadHead, AppendEvent,
          Raise, Leave, CommitFails, StartRead, EndRead
    <3>2. ASSUME NEW c \in done \union failed
          PROVE  c.number <= thread'[c.thread].calls /\ ~Current(c)'
      <4>1. CASE c.thread = t
        BY <2>1, <3>2, <4>1 DEF Numbered, Current
      <4>2. CASE c.thread # t
        <5>1. thread'[c.thread] = thread[c.thread]
          BY <1>1, <1>2, <2>1, <3>2, <4>2 DEF MovesOnly
        <5> QED
          BY <3>2, <5>1 DEF Numbered, Current, At
      <4> QED
        BY <4>1, <4>2
    <3> QED
      BY <3>1, <3>2 DEF Numbered
  <2> QED
    BY <2>2, <2>3
<1>4. ASSUME NEW t \in Threads, NEW kind \in Kinds, Call(t, kind)
      PROVE  Numbered'
  <2>1. /\ \A u \in Threads : u # t => thread'[u] = thread[u]
        /\ thread'[t].calls = thread[t].calls + 1
        /\ thread'[t].call.number = thread[t].calls + 1
        /\ UNCHANGED <<done, failed>>
    BY <1>4 DEF Call, IdleThread, Control, TypeOK
  <2>2. ASSUME NEW c \in done \union failed
        PROVE  c.number <= thread'[c.thread].calls /\ ~Current(c)'
    <3>1. c \in Calls /\ c.number <= thread[c.thread].calls /\ ~Current(c)
      BY <1>2, <2>2 DEF Numbered
    <3>2. CASE c.thread = t
      <4>1. c.number < thread[t].calls + 1
        BY <1>1, <3>1, <3>2
      <4>2. thread'[t].call # c
        BY <1>1, <2>1, <3>1, <4>1
      <4> QED
        BY <1>1, <2>1, <3>1, <3>2, <4>1, <4>2 DEF Current
    <3>3. CASE c.thread # t
      BY <1>1, <2>1, <3>1, <3>3 DEF Current, At
    <3> QED
      BY <3>2, <3>3
  <2> QED
    BY <2>1, <2>2 DEF Numbered
<1>5. CASE Crash
  <2>1. \A t \in Threads : At(t, "idle")' /\ thread'[t].calls = thread[t].calls
    BY <1>5 DEF Crash, At, IdleThread
  <2> QED
    BY <1>1, <1>2, <1>5, <2>1 DEF Crash, Numbered, Current
<1>6. CASE Close \/ UNCHANGED vars
  BY <1>6 DEF Close, vars, Numbered, Current, At
<1> QED
  BY <1>3, <1>4, <1>5, <1>6 DEF Next

\* The abstract log and the calls under way.
LogOf(chain) == [i \in 1..Len(chain) |-> chain[i].name]

Pending == {thread[t].call : t \in {t \in Threads : ~At(t, "idle")}}

LEMMA LogOfChain ==
  ASSUME NEW chain \in Seq(Events)
  PROVE  /\ LogOf(chain) \in Seq(Names)
         /\ Len(LogOf(chain)) = Len(chain)
         /\ \A i \in 1..Len(chain) : LogOf(chain)[i] = chain[i].name
<1>1. PICK n \in Nat : n = Len(chain)
  BY LenProperties
<1>2. \A i \in 1..n : chain[i].name \in Names
  <2>1. \A i \in 1..n : chain[i] \in Events
    BY <1>1, ElementOfSeq
  <2> QED
    BY <2>1 DEF Events
<1>3. PICK f : f = [i \in 1..n |-> chain[i].name]
  OBVIOUS
<1>4. f \in [1..n -> Names] /\ \A i \in 1..n : f[i] = chain[i].name
  BY <1>2, <1>3
<1>5. f \in Seq(Names)
  BY <1>4, SeqDef
<1>6. Len(f) = n
  BY <1>1, <1>3
<1>7. f = LogOf(chain)
  BY <1>1, <1>3 DEF LogOf
<1> QED
  BY <1>1, <1>4, <1>5, <1>6, <1>7

LEMMA CommittedHas ==
  ASSUME NEW c
  PROVE  Abstract!Committed(c) <=>
           \E i \in 1..Len(LogOf(disk.chain)) : LogOf(disk.chain)[i][1] = c
BY DEF Abstract!Committed, LogOf

LEMMA NotCommitted ==
  ASSUME Safe, Written, Control, NEW c \in Calls,
         c \in Transactions => Bare(disk, c)
  PROVE  ~Abstract!Committed(c)
<1> SUFFICES ASSUME NEW i \in 1..Len(disk.chain), disk.chain[i].name[1] = c
             PROVE  FALSE
  <2>1. disk.chain \in Seq(Events)
    BY DEF Control, TypeOK, Images
  <2> QED
    BY <2>1, LogOfChain, CommittedHas
<1>1. disk.chain[i] \in Events
  BY DEF Control, TypeOK, Images
<1>2. PICK n \in Names : n = disk.chain[i].name
  BY <1>1 DEF Events
<1>3. n \in Audited(disk) /\ n[1] = c
  BY <1>2 DEF Audited
<1>4. c \in Transactions
  BY <1>3 DEF Written
<1>5. n = <<c, n[2]>> /\ n[2] \in 1..TransactionWrites
  BY <1>2, <1>3 DEF Names
<1>6. EventAt(disk, c, n[2])
  BY <1>3, <1>5 DEF EventAt
<1> QED
  BY <1>4, <1>5, <1>6 DEF Bare

LEMMA IsCommitted ==
  ASSUME Control, NEW c \in Transactions, Whole(disk, c)
  PROVE  Abstract!Committed(c)
<1>1. EventAt(disk, c, 1)
  BY StoreAssumption DEF StoreAssumption, Whole
<1>2. PICK i \in 1..Len(disk.chain) : disk.chain[i].name = <<c, 1>>
  BY <1>1 DEF EventAt, Audited
<1>3. disk.chain \in Seq(Events)
  BY DEF Control, TypeOK, Images
<1> QED
  BY <1>2, <1>3, LogOfChain, CommittedHas

\* The commit of a running call appends its entries to the abstract log.
LEMMA CommitAppends ==
  ASSUME Control, NEW c \in Transactions, ExtendsBy(c, TransactionWrites)
  PROVE  LogOf(working.chain) = LogOf(disk.chain) \o Abstract!Entries(c)
<1>1. Size[c] = TransactionWrites
  BY SizeOf DEF Transactions
<1>2. /\ working.chain \in Seq(Events) /\ disk.chain \in Seq(Events)
      /\ Len(working.chain) \in Nat /\ Len(disk.chain) \in Nat
  BY DEF Control, TypeOK, Images
<1>3. PICK new, old : new = LogOf(working.chain) /\ old = LogOf(disk.chain)
  OBVIOUS
<1>4. PICK own : own = [k \in 1..TransactionWrites |-> <<c, k>>]
  OBVIOUS
<1>5. own = Abstract!Entries(c)
  BY <1>1, <1>4 DEF Abstract!Entries
<1>6. /\ new \in Seq(Names) /\ Len(new) = Len(working.chain)
      /\ \A i \in 1..Len(working.chain) : new[i] = working.chain[i].name
  BY <1>2, <1>3, LogOfChain
<1>7. /\ old \in Seq(Names) /\ Len(old) = Len(disk.chain)
      /\ \A i \in 1..Len(disk.chain) : old[i] = disk.chain[i].name
  BY <1>2, <1>3, LogOfChain
<1>8. /\ own \in Seq(Names) /\ Len(own) = TransactionWrites
      /\ \A k \in 1..TransactionWrites : own[k] = <<c, k>>
  BY <1>4, StoreAssumption DEF StoreAssumption, Names, Transactions
<1>9. /\ Len(working.chain) = Len(disk.chain) + TransactionWrites
      /\ \A i \in 1..Len(disk.chain) : working.chain[i] = disk.chain[i]
      /\ \A k \in 1..TransactionWrites :
           working.chain[Len(disk.chain) + k].name = <<c, k>>
  BY DEF ExtendsBy
<1>10. /\ old \o own \in Seq(Names)
       /\ Len(old \o own) = Len(new)
       /\ \A i \in 1..Len(new) :
            (old \o own)[i] = IF i <= Len(old) THEN old[i] ELSE own[i - Len(old)]
  <2>1. Len(new) = Len(old) + Len(own)
    BY <1>6, <1>7, <1>8, <1>9
  <2>2. old \in Seq(Names) /\ own \in Seq(Names)
    BY <1>7, <1>8
  <2> QED
    BY <2>1, <2>2, ConcatProperties
<1>11. ASSUME NEW i \in 1..Len(new)
       PROVE  (old \o own)[i] = new[i]
  <2>1. CASE i \in 1..Len(disk.chain)
    <3>1. i \in 1..Len(new) /\ i \in 1..Len(working.chain) /\ i <= Len(old)
      BY <1>2, <1>6, <1>7, <2>1
    <3>2. (old \o own)[i] = old[i] /\ old[i] = disk.chain[i].name
      BY <1>7, <1>10, <2>1, <3>1
    <3> QED
      BY <1>6, <1>9, <2>1, <3>1, <3>2
  <2>2. CASE i \notin 1..Len(disk.chain)
    <3>1. PICK k \in 1..TransactionWrites : i = Len(disk.chain) + k
      <4>1. i - Len(disk.chain) \in 1..TransactionWrites
        BY <1>2, <1>6, <1>9, <2>2, StoreAssumption DEF StoreAssumption
      <4> QED
        BY <1>2, <4>1
    <3>2. (old \o own)[i] = own[k]
      <4>1. ~(i <= Len(old)) /\ i - Len(old) = k
        BY <1>2, <1>7, <3>1, StoreAssumption DEF StoreAssumption
      <4> QED
        BY <1>10, <4>1
    <3> QED
      BY <1>2, <1>6, <1>8, <1>9, <3>1, <3>2
  <2> QED
    BY <2>1, <2>2
<1>12. old \o own = new
  BY <1>6, <1>10, <1>11, SeqEqual
<1> QED
  BY <1>3, <1>5, <1>12

\* The calls under way, when one of them goes on or ends.
LEMMA PendingStep ==
  ASSUME Control, Control', NEW t \in Threads, Step(t)
  PROVE  /\ thread[t].call \in Pending
         /\ ~At(t, "idle")' => Pending' = Pending
         /\ At(t, "idle")' => Pending' = Pending \ {thread[t].call}
<1>1. /\ MovesOnly(t) /\ ~At(t, "idle")
      /\ At(t, "idle")' \/ thread'[t].call = thread[t].call
  BY StepStays
<1>2. ASSUME NEW u \in Threads, u # t
      PROVE  /\ At(u, "idle")' <=> At(u, "idle")
             /\ thread'[u].call = thread[u].call
             /\ ~At(u, "idle") => thread[u].call # thread[t].call
  BY <1>1, <1>2 DEF MovesOnly, Control, CallOK, At
<1> QED
  BY <1>1, <1>2 DEF Pending

-----------------------------------------------------------------------------

\* All that is invariant of the explicit store.
ExplicitInv ==
  /\ Control /\ Safe /\ Quiescent /\ Snapshots /\ Numbered
  /\ \A t \in Threads : Logged(t)

LEMMA ExplicitInvInit == Init => ExplicitInv
<1> SUFFICES ASSUME Init PROVE ExplicitInv
  OBVIOUS
<1>1. Quiescent /\ Numbered
  BY DEF Init, Quiescent, Numbered
<1>2. \A t \in Threads : thread[t].pc = "idle"
  BY DEF Init, IdleThread
<1>3. \A t \in Threads : Logged(t)
  BY <1>2 DEF Logged, Statements, At
<1> QED
  BY <1>1, <1>3, ControlInit, SafeInit, SnapshotInit DEF ExplicitInv

LEMMA ExplicitInvNext ==
  ASSUME Explicit, ExplicitInv, [Next]_vars
  PROVE  ExplicitInv'
<1>1. Control' /\ Control
  BY ControlNext DEF ExplicitInv
<1>2. Safe' /\ Quiescent' /\ Numbered'
  BY <1>1, SafeNext, QuiescentNext, NumberedNext DEF ExplicitInv
<1>3. Snapshots'
  BY <1>1, SnapshotNext DEF ExplicitInv
<1>4. \A t \in Threads : Logged(t)'
  BY <1>1, LoggedNext DEF ExplicitInv
<1> QED
  BY <1>1, <1>2, <1>3, <1>4 DEF ExplicitInv

\* A step of a thread that is in a call.
LEMMA StepRefines ==
  ASSUME Explicit, ExplicitInv, ExplicitInv', NEW t \in Threads, Step(t)
  PROVE  Abstract!Next \/ UNCHANGED <<disk, Pending, done, failed>>
<1>1. /\ Control /\ Control' /\ Safe /\ Written
      /\ Logged(t)
  BY DEF ExplicitInv, Snapshots
<1>2. PICK c : c = thread[t].call
  OBVIOUS
<1>3. /\ c \in Pending /\ c \in Calls /\ ~At(t, "idle") /\ c.thread = t
      /\ c.kind = "transaction" \/ IsRead(t)
      /\ ~At(t, "idle")' => Pending' = Pending
      /\ At(t, "idle")' => Pending' = Pending \ {c}
      /\ thread[t].pc \in Statements \union {"leave"} => c \in Transactions /\ lock = t
  <2>1. ~At(t, "idle")
    BY <1>1, StepStays
  <2> QED
    BY <1>1, <1>2, <2>1, ExplicitCalls, PendingStep
<1>4. c \in Transactions => CallSafe(c) /\ Current(c)
  BY <1>1, <1>2, <1>3 DEF Safe, Current
<1>5. thread[t] \in ThreadRecords /\ thread \in [Threads -> ThreadRecords]
  BY <1>1 DEF Control, TypeOK
<1>6. CASE Leave(t)
  <2>1. ~At(t, "idle")'
    BY <1>5, <1>6 DEF Leave, Goto, At
  <2>2. /\ HolderOK(t) /\ c \in Transactions /\ At(t, "leave")
        /\ Bare(disk, c) /\ UNCHANGED <<done, failed>>
    BY <1>1, <1>3, <1>4, <1>6 DEF Control, CallSafe, Leave, At
  <2>3. CASE doomed
    BY <1>3, <1>6, <2>1, <2>2, <2>3 DEF Leave, CommitOrRollBack
  <2>4. CASE ~doomed
    <3>1. ExtendsBy(c, TransactionWrites) /\ disk' = working
      BY <1>1, <1>2, <1>6, <2>2, <2>4
      DEF Logged, HolderOK, Leave, CommitOrRollBack, At, Statements
    <3>2. LogOf(disk'.chain) = LogOf(disk.chain) \o Abstract!Entries(c)
      BY <1>1, <2>2, <3>1, CommitAppends
    <3>3. ~Abstract!Committed(c)
      BY <1>1, <1>3, <2>2, NotCommitted
    <3>4. Abstract!Commit(c)
      BY <1>3, <2>1, <2>2, <3>2, <3>3 DEF Abstract!Commit, LogOf, Pending
    <3> QED
      BY <1>3, <3>4 DEF Abstract!Next
  <2> QED
    BY <2>3, <2>4
<1>7. CASE Return(t)
  <2>1. At(t, "idle")' /\ disk' = disk /\ At(t, "return")
    BY <1>5, <1>7 DEF Return, At, IdleThread, store
  <2>2. CASE thread[t].raised
    <3>1. failed' = failed \union {c} /\ done' = done
      BY <1>2, <1>7, <2>2 DEF Return
    <3>2. c \in Transactions => Bare(disk, c)
      BY <1>2, <1>3, <1>4, <2>1, <2>2 DEF CallSafe, At
    <3>3. Abstract!Raise(c)
      BY <1>1, <1>3, <2>1, <3>1, <3>2, NotCommitted DEF Abstract!Raise, LogOf, Pending
    <3> QED
      BY <1>3, <3>3 DEF Abstract!Next
  <2>3. CASE ~thread[t].raised
    <3>1. done' = done \union {c} /\ failed' = failed
      BY <1>2, <1>7, <2>3 DEF Return
    <3>2. c \in Transactions => Abstract!Committed(c)
      BY <1>1, <1>2, <1>3, <1>4, <2>1, <2>3, IsCommitted DEF CallSafe, At
    <3>3. c \notin Transactions => Size[c] = 0
      BY <1>2, <1>3, SizeOf DEF Transactions, IsRead, IsSnapshot
    <3>4. Abstract!Return(c)
      BY <1>3, <2>1, <3>1, <3>2, <3>3 DEF Abstract!Return, LogOf, Pending
    <3> QED
      BY <1>3, <3>4 DEF Abstract!Next
  <2> QED
    BY <2>2, <2>3
<1>8. CASE OpenFails(t)
  <2>1. At(t, "idle")' /\ disk' = disk /\ At(t, "open")
    BY <1>5, <1>8 DEF OpenFails, Fails, At, IdleThread, store
  <2>2. failed' = failed \union {c} /\ done' = done
    BY <1>2, <1>8 DEF OpenFails, Fails
  <2>3. c \in Transactions => Bare(disk, c)
    BY <1>2, <1>3, <1>4, <2>1 DEF CallSafe, At
  <2>4. Abstract!Raise(c)
    BY <1>1, <1>3, <2>1, <2>2, <2>3, NotCommitted DEF Abstract!Raise, LogOf, Pending
  <2> QED
    BY <1>3, <2>4 DEF Abstract!Next
<1>9. CASE ~Leave(t) /\ ~Return(t) /\ ~OpenFails(t)
  <2>1. ~RaiseUnlocked(t)
    BY <1>3 DEF RaiseUnlocked
  <2>2. UNCHANGED <<disk, done, failed>>
    BY <1>9, <2>1
    DEF Step, Write, Audit, OpenTransaction, Insert, ReadHead, AppendEvent,
        Raise, CommitFails, StartRead, EndRead, store
  <2>3. ~At(t, "idle")'
    <3>1. CASE Write(t) \/ OpenTransaction(t) \/ Insert(t) \/ StartRead(t)
      BY <1>5, <3>1
      DEF Write, OpenTransaction, Insert, StartRead, Goto, At, ThreadRecords
    <3>2. CASE Audit(t)
      BY <1>5, <3>2 DEF Audit, Goto, At, ThreadRecords
    <3>3. CASE ReadHead(t) \/ AppendEvent(t) \/ Raise(t) \/ CommitFails(t)
               \/ EndRead(t)
      BY <1>5, <3>3
      DEF ReadHead, AppendEvent, Raise, CommitFails, EndRead, At, ThreadRecords
    <3> QED
      BY <1>9, <2>1, <3>1, <3>2, <3>3 DEF Step
  <2> QED
    BY <1>3, <2>2, <2>3
<1> QED
  BY <1>6, <1>7, <1>8, <1>9

LEMMA CallRefines ==
  ASSUME Explicit, ExplicitInv, ExplicitInv', NEW t \in Threads,
         NEW kind \in Kinds, Call(t, kind)
  PROVE  Abstract!Next
<1>1. /\ Control /\ Safe /\ Written /\ Numbered
      /\ thread \in [Threads -> ThreadRecords] /\ thread[t].calls \in 0..MaxCalls
  BY DEF ExplicitInv, Snapshots, Control, TypeOK, ThreadRecords
<1>2. PICK n : n = thread[t].calls + 1
  OBVIOUS
<1>3. PICK c : c = [thread |-> t, number |-> n, kind |-> kind]
  OBVIOUS
<1>4. /\ c \in Calls /\ c.thread = t /\ c.number = n /\ n \in Nat
      /\ c.number > thread[c.thread].calls
  BY <1>1, <1>2, <1>3, StoreAssumption DEF StoreAssumption, Call, Calls
<1>5. /\ \A u \in Threads : u # t => thread'[u] = thread[u]
      /\ thread'[t].call = c
      /\ ~At(t, "idle")' /\ At(t, "idle")
      /\ UNCHANGED <<disk, done, failed>>
  BY <1>1, <1>2, <1>3 DEF Call, IdleThread, At, store
<1>6. c \notin Pending
  BY <1>1, <1>4, <1>5 DEF Pending, Control, CallOK
<1>7. Pending' = Pending \union {c}
  BY <1>5 DEF Pending, At
<1>8. c \notin done \union failed
  <2>1. ~(c.number <= thread[c.thread].calls)
    BY <1>1, <1>4
  <2> QED
    BY <1>1, <2>1 DEF Numbered
<1>9. ~Abstract!Committed(c)
  <2>1. c \in Transactions => Bare(disk, c)
    BY <1>1, <1>4 DEF Safe, CallSafe
  <2> QED
    BY <1>1, <1>4, <2>1, NotCommitted
<1>10. Abstract!Begin(c)
  BY <1>5, <1>6, <1>7, <1>8, <1>9 DEF Abstract!Begin, LogOf, Pending
<1> QED
  BY <1>4, <1>10 DEF Abstract!Next

LEMMA NextRefines ==
  ASSUME Explicit, ExplicitInv, ExplicitInv', [Next]_vars
  PROVE  [Abstract!Next]_(Abstract!vars)
<1>1. ASSUME UNCHANGED <<disk, Pending, done, failed>>
      PROVE  UNCHANGED Abstract!vars
  BY <1>1 DEF Abstract!vars, Pending
<1>2. ASSUME NEW t \in Threads, Step(t)
      PROVE  Abstract!Next \/ UNCHANGED Abstract!vars
  BY <1>1, <1>2, StepRefines
<1>3. ASSUME NEW t \in Threads, NEW kind \in Kinds, Call(t, kind)
      PROVE  Abstract!Next
  BY <1>3, CallRefines
<1>4. CASE Close \/ UNCHANGED vars
  BY <1>1, <1>4 DEF Close, vars, Pending, At
<1>5. CASE Crash
  <2>1. \A t \in Threads : At(t, "idle")'
    BY <1>5 DEF Crash, At, IdleThread
  <2>2. Abstract!Crash
    BY <1>5, <2>1 DEF Crash, Abstract!Crash, At
  <2> QED
    BY <2>2 DEF Abstract!Next
<1> QED
  BY <1>2, <1>3, <1>4, <1>5 DEF Next

LEMMA InitRefines == Init => Abstract!Init
<1> SUFFICES ASSUME Init PROVE Abstract!Init
  OBVIOUS
<1>1. \A t \in Threads : At(t, "idle")
  BY DEF Init, At, IdleThread
<1>2. Pending = {}
  BY <1>1 DEF Pending
<1>3. disk.chain = <<>>
  BY DEF Init, EmptyImage
<1>4. LogOf(<<>>) = <<>>
  BY DEF LogOf
<1> QED
  BY <1>2, <1>3, <1>4 DEF Abstract!Init, Init, LogOf, Pending

\* The store, with its lock, its transaction depth, its rollbacks, crashes and
\* restarts, is an AtomicStore: calls are committed one after the other, each of
\* them entirely or not at all, and return after their commit.
THEOREM StoreImplementsAtomicStore ==
  ASSUME Explicit
  PROVE  Spec => Serializable
<1>1. Init => ExplicitInv /\ Abstract!Init
  BY ExplicitInvInit, InitRefines
<1>2. ExplicitInv /\ [Next]_vars => ExplicitInv'
  BY ExplicitInvNext
<1>3. ExplicitInv /\ ExplicitInv' /\ [Next]_vars
        => [Abstract!Next]_(Abstract!vars)
  BY NextRefines
<1> QED
  BY <1>1, <1>2, <1>3, PTL DEF Spec, Serializable, Abstract!Spec

=============================================================================
