----------------------------- MODULE AuditChain -----------------------------
(***************************************************************************)
(* audit/service.py: the hash-chained audit trail of one tenant, written   *)
(* by concurrent database transactions.                                    *)
(*                                                                         *)
(* record_event first takes the chain's transaction-scoped advisory lock,  *)
(* then reads the row with the greatest sequence number, then inserts the  *)
(* next one.  The lock is held until the transaction ends; a savepoint     *)
(* that is rolled back (the worker's begin_nested blocks) discards the     *)
(* rows flushed since and releases the lock when it was taken since.       *)
(*                                                                         *)
(* PostgreSQL runs READ COMMITTED (no isolation level is set anywhere), so *)
(* each statement sees the committed rows and the transaction's own.       *)
(* Chains are independent (the lock key is the chain), so one is enough.   *)
(***************************************************************************)
EXTENDS Naturals, Sequences

CONSTANTS
  Txns,              \* the database transactions that may be open at once
  EventTypes,        \* the event types they record
  NoTxn,             \* nobody holds the advisory lock
  Genesis,           \* GENESIS_HASH
  PayloadHash(_, _), \* SHA-256 of the canonical payload (its type and number)
  ChainHash(_, _),   \* SHA-256 of the previous hash and the payload hash
  MaxRows            \* bound: rows ever allotted on the chain

ASSUME ChainAssumption == NoTxn \notin Txns /\ MaxRows \in Nat

VARIABLES
  table,        \* the committed rows of audit_event, in the order of their commits
  pending,      \* pending[t]: rows t has flushed and not committed, in order
  pc,           \* where t is: "idle", "open", "reading" (lock granted), "failed"
  tail,         \* tail[t]: the row record_event read last, as [seq, hash]
  saved,        \* saved[t]: the open savepoint, if any, as [open, rows, holder]
  lock,         \* who holds the chain's advisory lock
  verified,     \* events_checked of the last successful verify_chain
  checkpoints   \* the rows of audit_checkpoint

vars == <<table, pending, pc, tail, saved, lock, verified, checkpoints>>

NoSavepoint == [open |-> FALSE, rows |-> 0, holder |-> NoTxn]

\* The greatest row of a sequence of rows, as record_event uses it.
TailOf(rows) ==
  IF rows = <<>> THEN [seq |-> 0, hash |-> Genesis]
  ELSE [seq |-> rows[Len(rows)].seq, hash |-> rows[Len(rows)].hash]

\* Everything a statement of transaction t can see of the chain.
Visible(t) == table \o pending[t]

\* Mutant: the first row is numbered 0.
SequenceNoFromZero(last) == last.seq
SequenceNo(last) == last.seq + 1

\* Mutant: the row links to what its predecessor says, not to what it is.
PreviousHashOfGenesis(last) == Genesis
PreviousHash(last) == last.hash

Row(last, type) ==
  LET n == SequenceNo(last)
      p == PayloadHash(type, n)
  IN  [seq |-> n, type |-> type, prev |-> PreviousHash(last),
       payload |-> p, hash |-> ChainHash(PreviousHash(last), p)]

\* uq_audit_event_chain_id (chain_id, sequence_no).
KeyTaken(n, rows) == \E i \in DOMAIN rows : rows[i].seq = n

Init ==
  /\ table = <<>>
  /\ pending = [t \in Txns |-> <<>>]
  /\ pc = [t \in Txns |-> "idle"]
  /\ tail = [t \in Txns |-> [seq |-> 0, hash |-> Genesis]]
  /\ saved = [t \in Txns |-> NoSavepoint]
  /\ lock = NoTxn
  /\ verified = 0
  /\ checkpoints = {}

Begin(t) ==
  /\ pc[t] = "idle"
  /\ pc' = [pc EXCEPT ![t] = "open"]
  /\ UNCHANGED <<table, pending, tail, saved, lock, verified, checkpoints>>

\* Mutant: no advisory lock, the number comes from a counter of all rows allotted.
CountWithoutLock(t) ==
  LET others == {n \in 1..MaxRows : \E u \in Txns : KeyTaken(n, Visible(u))}
      last   == IF others = {} THEN 0 ELSE CHOOSE n \in others : \A m \in others : m <= n
  IN  /\ pc[t] = "open"
      /\ last < MaxRows
      /\ tail' = [tail EXCEPT ![t] = [seq |-> last, hash |-> Genesis]]
      /\ pc' = [pc EXCEPT ![t] = "reading"]
      /\ UNCHANGED <<table, pending, saved, lock, verified, checkpoints>>

\* _lock_chain blocks until the lock is free or already held by t, and the next
\* statement reads the last row.  Nothing else of the chain can change between.
LockAndRead(t) ==
  /\ pc[t] = "open"
  /\ Len(table) + Len(pending[t]) < MaxRows
  /\ lock \in {NoTxn, t}
  /\ lock' = t
  /\ tail' = [tail EXCEPT ![t] = TailOf(Visible(t))]
  /\ pc' = [pc EXCEPT ![t] = "reading"]
  /\ UNCHANGED <<table, pending, saved, verified, checkpoints>>

\* The INSERT and its flush.  A key flushed by another open transaction makes
\* the INSERT wait for that transaction; a visible one makes it fail, and a
\* failed statement leaves PostgreSQL only the rollback.
InsertEvent(t, type) ==
  LET row == Row(tail[t], type)
  IN  /\ pc[t] = "reading"
      /\ \A u \in Txns \ {t} : ~KeyTaken(row.seq, pending[u])
      /\ IF KeyTaken(row.seq, Visible(t))
           THEN /\ pc' = [pc EXCEPT ![t] = "failed"]
                /\ UNCHANGED pending
           ELSE /\ pc' = [pc EXCEPT ![t] = "open"]
                /\ pending' = [pending EXCEPT ![t] = Append(@, row)]
      /\ UNCHANGED <<table, tail, saved, lock, verified, checkpoints>>

Savepoint(t) ==
  /\ pc[t] = "open" /\ ~saved[t].open
  /\ saved' = [saved EXCEPT ![t] =
       [open |-> TRUE, rows |-> Len(pending[t]), holder |-> IF lock = t THEN t ELSE NoTxn]]
  /\ UNCHANGED <<table, pending, pc, tail, lock, verified, checkpoints>>

ReleaseSavepoint(t) ==
  /\ pc[t] = "open" /\ saved[t].open
  /\ saved' = [saved EXCEPT ![t] = NoSavepoint]
  /\ UNCHANGED <<table, pending, pc, tail, lock, verified, checkpoints>>

\* The work inside begin_nested raised, at any point of it.
RollbackToSavepoint(t) ==
  /\ pc[t] \in {"open", "reading", "failed"} /\ saved[t].open
  /\ pending' = [pending EXCEPT ![t] = SubSeq(@, 1, saved[t].rows)]
  /\ lock' = IF lock = t /\ saved[t].holder # t THEN NoTxn ELSE lock
  /\ saved' = [saved EXCEPT ![t] = NoSavepoint]
  /\ pc' = [pc EXCEPT ![t] = "open"]
  /\ UNCHANGED <<table, tail, verified, checkpoints>>

\* The end of a transaction, either way, releases what it holds.
End(t) ==
  /\ pending' = [pending EXCEPT ![t] = <<>>]
  /\ lock' = IF lock = t THEN NoTxn ELSE lock
  /\ saved' = [saved EXCEPT ![t] = NoSavepoint]
  /\ pc' = [pc EXCEPT ![t] = "idle"]
  /\ UNCHANGED <<tail, verified, checkpoints>>

Commit(t) ==
  /\ pc[t] = "open" /\ ~saved[t].open
  /\ table' = table \o pending[t]
  /\ End(t)

\* A refusal, an error or a lost connection at any point.
Rollback(t) ==
  /\ pc[t] # "idle"
  /\ UNCHANGED table
  /\ End(t)

-----------------------------------------------------------------------------
\* verify_chain, over the committed rows ordered by sequence number: number,
\* payload hash, link and event hash, row by row from the genesis hash.
RowVerifies(rows, i) ==
  LET last == IF i = 1 THEN Genesis ELSE rows[i - 1].hash
  IN  /\ rows[i].seq = i
      /\ rows[i].payload = PayloadHash(rows[i].type, rows[i].seq)
      /\ rows[i].prev = last
      /\ rows[i].hash = ChainHash(last, rows[i].payload)

ChainVerifies(rows) == \A i \in DOMAIN rows : RowVerifies(rows, i)

\* verify_all_chains: one chain is verified ...
VerifyChain ==
  /\ ChainVerifies(table)
  /\ verified' = Len(table)
  /\ UNCHANGED <<table, pending, pc, tail, saved, lock, checkpoints>>

\* Mutant: the checkpoint pairs the number verified with the hash read later.
CheckpointVerifiedNumber ==
  /\ verified > 0
  /\ checkpoints' = checkpoints \cup {[seq |-> verified, hash |-> TailOf(table).hash]}
  /\ verified' = 0
  /\ UNCHANGED <<table, pending, pc, tail, saved, lock>>

\* ... and a later statement (create_checkpoint) reads the last row again, when
\* more of the chain may have been committed.
CreateCheckpoint ==
  /\ verified > 0
  /\ checkpoints' = checkpoints \cup {TailOf(table)}
  /\ verified' = 0
  /\ UNCHANGED <<table, pending, pc, tail, saved, lock>>

Next ==
  \/ \E t \in Txns :
       \/ Begin(t) \/ LockAndRead(t)
       \/ \E type \in EventTypes : InsertEvent(t, type)
       \/ Savepoint(t) \/ ReleaseSavepoint(t) \/ RollbackToSavepoint(t)
       \/ Commit(t) \/ Rollback(t)
  \/ VerifyChain
  \/ CreateCheckpoint

Spec == Init /\ [][Next]_vars

-----------------------------------------------------------------------------
\* Every variable has its type and every pending row the number record_event
\* can give: rows are numbered from 1.
TypeOK ==
  /\ \A i \in DOMAIN table : table[i].seq \in Nat \ {0} /\ table[i].type \in EventTypes
  /\ \A t \in Txns : \A i \in DOMAIN pending[t] :
       pending[t][i].seq \in Nat \ {0} /\ pending[t][i].type \in EventTypes
  /\ pc \in [Txns -> {"idle", "open", "reading", "failed"}]
  /\ \A t \in Txns : saved[t].rows \in Nat
  /\ lock \in Txns \cup {NoTxn}
  /\ verified \in Nat

\* The committed chain always verifies and its numbers are 1, 2, 3, ... in the
\* order of the commits, whatever transactions and savepoints rolled back in
\* between (record_event, BR-18: gapless and unique under concurrent writers).
ChainIntact == ChainVerifies(table)

\* The unique constraint is a backstop nobody runs into: no business
\* transaction is ever lost because its audit row collided (_lock_chain).
NoCollision == \A t \in Txns : pc[t] # "failed"

\* Once a sequence number is visible, no smaller one becomes visible later: a
\* reader that has seen number n has seen the whole chain up to n.  The
\* notification cursor (MAX of the handled numbers) rests on this.
NoLateArrival ==
  [][\A i \in DOMAIN table' : i > Len(table) =>
       \A j \in DOMAIN table : table[j].seq < table'[i].seq]_vars

\* A checkpoint names the number and the hash of one committed row, and that
\* row is still there: the next verification can be held against it.
CheckpointsHold ==
  \A c \in checkpoints :
    \E i \in DOMAIN table : table[i].seq = c.seq /\ table[i].hash = c.hash

\* The type of the committed row numbered n, or NoTxn when there is none.
TypeOfNumber(n) ==
  IF \E i \in DOMAIN table : table[i].seq = n
    THEN table[CHOOSE i \in DOMAIN table : table[i].seq = n].type
    ELSE "missing"

\* The chain, read by sequence number, implements the log its readers rely on:
\* it has no hole, a commit only adds after everything already visible, and
\* nothing visible changes or disappears (record_event is the only writer;
\* audit_event is append-only).
Promise == INSTANCE AuditLog WITH log <- [n \in 1..Len(table) |-> TypeOfNumber(n)]
ImplementsLog == Promise!Spec
=============================================================================
