----------------------------- MODULE AuditChain -----------------------------
(***************************************************************************)
(* One tenant's audit chain under concurrent transactions: audit/service.py*)
(* append, append_batch and _lock_tenant, called by any write path inside  *)
(* its own database transaction (ATOMIC_REQUESTS, READ COMMITTED).         *)
(* Tenants have locks and chains of their own and never meet.  Times of    *)
(* records are timezone.now(), in UTC: an import's, which may not be, are  *)
(* the subject of AuditAttestation.                                        *)
(***************************************************************************)
EXTENDS HashChain

CONSTANTS
  Txns,        (* transactions; each runs once and writes events of its own *)
  MaxAppends,  (* bound: calls of append or append_batch in a transaction   *)
  MaxBatch,    (* bound: entries of one append_batch                        *)
  Nobody       (* holder of a lock that is free                             *)

ASSUME TransactionAssumption ==
  /\ Nobody \notin Txns
  /\ MaxAppends \in Nat
  /\ MaxBatch \in Nat \ {0}

VARIABLES
  records,   (* committed AuditRecord rows of the tenant                    *)
  pending,   (* of each transaction, rows it inserted and has not committed *)
  lock,      (* holder of the tenant's transaction-scoped advisory lock     *)
  queue,     (* transactions blocked in pg_advisory_xact_lock, in order     *)
  pc,        (* where each transaction stands                               *)
  head,      (* append's local (sequence, hash) of the record to link to    *)
  calls,     (* appends called by each transaction                          *)
  entries    (* entries chained by the append that is running               *)

chainVars == <<records, pending, lock, queue, pc, head, calls, entries>>

(* What a statement of t sees: committed rows and its own. *)
Visible(t) == records \cup pending[t]

Move(t, from, to) == pc[t] = from /\ pc' = [pc EXCEPT ![t] = to]

-----------------------------------------------------------------------------

Begin(t) ==
  /\ Move(t, "new", "open")
  /\ UNCHANGED <<records, pending, lock, queue, head, calls, entries>>

(* Mutant of LockTenant: the lock is not taken. *)
LockTenantUnlocked(t) ==
  /\ calls[t] < MaxAppends
  /\ calls' = [calls EXCEPT ![t] = @ + 1]
  /\ Move(t, "open", "locked")
  /\ UNCHANGED <<records, pending, lock, queue, head, entries>>

(* _lock_tenant: granted at once to the transaction that holds it already,  *)
(* otherwise the call waits its turn.                                       *)
LockTenant(t) ==
  /\ calls[t] < MaxAppends
  /\ calls' = [calls EXCEPT ![t] = @ + 1]
  /\ IF lock = t
     THEN Move(t, "open", "locked") /\ UNCHANGED queue
     ELSE Move(t, "open", "waiting") /\ queue' = Append(queue, t)
  /\ UNCHANGED <<records, pending, lock, head, entries>>

LockGranted(t) ==
  /\ lock = Nobody
  /\ queue # <<>> /\ t = Head(queue)
  /\ Move(t, "waiting", "locked")
  /\ lock' = t
  /\ queue' = Tail(queue)
  /\ UNCHANGED <<records, pending, head, calls, entries>>

(* The head is read by a statement of its own, after the lock. *)
ReadHead(t) ==
  /\ Move(t, "locked", "chaining")
  /\ head' = [head EXCEPT ![t] = ChainHead(Visible(t))]
  /\ entries' = [entries EXCEPT ![t] = 0]
  /\ UNCHANGED <<records, pending, lock, queue, calls>>

(* Mutant of Chain: append_batch does not carry prev_hash forward. *)
ChainStuckPrev(t) ==
  LET r == AuditRecord(head[t].sequence + 1, t, UTC, head[t].hash) IN
    /\ pc[t] = "chaining"
    /\ entries[t] < MaxBatch
    /\ entries' = [entries EXCEPT ![t] = @ + 1]
    /\ pending' = [pending EXCEPT ![t] = @ \cup {r}]
    /\ head' = [head EXCEPT ![t].sequence = r.sequence]
    /\ UNCHANGED <<records, lock, queue, pc, calls>>

(* One record is built on the one before it and inserted: all of append,    *)
(* or one turn of append_batch's loop.                                      *)
Chain(t) ==
  LET r == AuditRecord(head[t].sequence + 1, t, UTC, head[t].hash) IN
    /\ pc[t] = "chaining"
    /\ entries[t] < MaxBatch
    /\ entries' = [entries EXCEPT ![t] = @ + 1]
    /\ pending' = [pending EXCEPT ![t] = @ \cup {r}]
    /\ head' = [head EXCEPT ![t] = [sequence |-> r.sequence, hash |-> r.hash]]
    /\ UNCHANGED <<records, lock, queue, pc, calls>>

AppendReturns(t) ==
  /\ entries[t] > 0
  /\ Move(t, "chaining", "open")
  /\ UNCHANGED <<records, pending, lock, queue, head, calls, entries>>

(* The end of a transaction lets its lock go. *)
ReleaseLock(t) == lock' = IF lock = t THEN Nobody ELSE lock

Commit(t) ==
  /\ Move(t, "open", "committed")
  /\ records' = records \cup pending[t]
  /\ pending' = [pending EXCEPT ![t] = {}]
  /\ ReleaseLock(t)
  /\ UNCHANGED <<queue, head, calls, entries>>

(* A cancelled wait leaves the queue, where a transaction stands once at most. *)
WithoutWaiter(q, t) ==
  IF \E n \in 1 .. Len(q) : q[n] = t
  THEN LET n == CHOOSE i \in 1 .. Len(q) : q[i] = t
       IN  SubSeq(q, 1, n - 1) \o SubSeq(q, n + 1, Len(q))
  ELSE q

(* A rollback, wherever the transaction stands: an exception in the request, *)
(* a cancelled statement, a process that died.                              *)
Rollback(t) ==
  /\ pc[t] \notin {"new", "committed", "aborted"}
  /\ pc' = [pc EXCEPT ![t] = "aborted"]
  /\ pending' = [pending EXCEPT ![t] = {}]
  /\ ReleaseLock(t)
  /\ queue' = WithoutWaiter(queue, t)
  /\ UNCHANGED <<records, head, calls, entries>>

-----------------------------------------------------------------------------

ChainInit ==
  /\ records = {}
  /\ pending = [t \in Txns |-> {}]
  /\ lock = Nobody
  /\ queue = <<>>
  /\ pc = [t \in Txns |-> "new"]
  /\ head = [t \in Txns |-> NoHead]
  /\ calls = [t \in Txns |-> 0]
  /\ entries = [t \in Txns |-> 0]

Advance(t) ==
  \/ LockGranted(t)
  \/ ReadHead(t)
  \/ Chain(t)
  \/ AppendReturns(t)
  \/ Commit(t)

ChainNext ==
  \E t \in Txns : Begin(t) \/ LockTenant(t) \/ Advance(t) \/ Rollback(t)

ChainSpec == ChainInit /\ [][ChainNext]_chainVars

(* A transaction that has begun gets on with its work; it need never begin, *)
(* append again or fail.                                                    *)
ChainFairSpec == ChainSpec /\ \A t \in Txns : WF_chainVars(Advance(t))

=============================================================================
