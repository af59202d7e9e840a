-------------------------- MODULE TransactionsProofs --------------------------
(***************************************************************************)
(* Proofs about what concurrent transactions leave behind.                 *)
(*                                                                         *)
(* AuditChain, for any number of transactions, appends and batches: the    *)
(* chain never forks, is always linked to its genesis, and only grows.     *)
(* The invariant says that whoever may append holds the lock, that the     *)
(* rows it sees form a linked chain with a last record, and that the head  *)
(* it works from is that record.                                           *)
(*                                                                         *)
(* CaseTransactions, for any number of requests, any window, calendar and  *)
(* number of pauses: a resume moves a deadline row it has read some        *)
(* statements ago.  That the row is still the same rests on two locks:     *)
(* requests that write hold the dispute's row, one at a time (OneWrites),  *)
(* and the sweep's claim waits for the clock's row, which the resume holds *)
(* when it reads the deadline (RowsReadAreCurrent).                        *)
(***************************************************************************)
EXTENDS AuditChainProperties, CaseTransactions, SequenceTheorems, TLAPS

-----------------------------------------------------------------------------
(* AuditChain.  Facts about hashes.                                         *)

LEMMA HashIsNotGenesis ==
  ASSUME NEW content, NEW prev \in Seq(Contents)
  PROVE  compute_hash(content, prev) # GENESIS
<1>1. Append(prev, content)[Len(prev) + 1] = content /\ Len(prev) \in Nat
  OBVIOUS
<1>2. Len(Append(prev, content)) = Len(prev) + 1
  OBVIOUS
<1>3. Len(<< >>) = 0
  OBVIOUS
<1> QED BY <1>1, <1>2, <1>3 DEF compute_hash, GENESIS

(* Equal hashes cover equal contents. *)
LEMMA HashInjective ==
  ASSUME NEW c \in Contents, NEW d \in Contents,
         NEW p \in Seq(Contents), NEW q \in Seq(Contents),
         compute_hash(c, p) = compute_hash(d, q)
  PROVE  c = d
<1>1. Len(Append(p, c)) = Len(p) + 1 /\ Len(Append(q, d)) = Len(q) + 1
  OBVIOUS
<1>2. Append(p, c)[Len(p) + 1] = c /\ Append(q, d)[Len(q) + 1] = d
  OBVIOUS
<1> QED BY <1>1, <1>2 DEF compute_hash

LEMMA AuditRecordType ==
  ASSUME NEW n \in Nat \ {0}, NEW t \in Txns, NEW prev \in Seq(Contents)
  PROVE  /\ AuditRecord(n, t, UTC, prev) \in Records
         /\ AuditRecord(n, t, UTC, prev).sequence = n
         /\ AuditRecord(n, t, UTC, prev).prev_hash = prev
         /\ AuditRecord(n, t, UTC, prev).hash =
              compute_hash(record_content(AuditRecord(n, t, UTC, prev)), prev)
<1>1. Content(n, t, UTC) \in Contents BY DEF Content, Contents
<1>2. Append(prev, Content(n, t, UTC)) \in Seq(Contents)
  BY <1>1
<1> QED BY <1>2 DEF AuditRecord, Records, compute_hash, record_content

(* A chain: linked, numbered without repeats, and with a last record. *)
Numbered(rows) == \A r, q \in rows : r.sequence = q.sequence => r = q

HasLast(rows) ==
  rows # {} => \E last \in rows : \A q \in rows : q.sequence <= last.sequence

IsHead(h, rows) ==
  /\ \A r \in rows : r.sequence <= h.sequence
  /\ \/ rows = {} /\ h = NoHead
     \/ \E r \in rows : h = [sequence |-> r.sequence, hash |-> r.hash]

NoGaps(rows) ==
  \A r \in rows : \A n \in 1 .. r.sequence : \E q \in rows : q.sequence = n

IsChain(rows) ==
  /\ rows \subseteq Records
  /\ NoGaps(rows)
  /\ Linked(rows)
  /\ Numbered(rows)
  /\ HasLast(rows)

LEMMA ChainHeadIsHead ==
  ASSUME NEW rows, IsChain(rows)
  PROVE  IsHead(ChainHead(rows), rows) /\ ChainHead(rows) \in Heads
<1>1. CASE rows = {}
  BY <1>1 DEF ChainHead, IsHead, NoHead, GENESIS, Heads
<1>2. CASE rows # {}
  <2> DEFINE last == CHOOSE r \in rows : \A q \in rows : q.sequence <= r.sequence
  <2>1. last \in rows /\ \A q \in rows : q.sequence <= last.sequence
    BY <1>2 DEF IsChain, HasLast
  <2>2. last \in Records BY <2>1 DEF IsChain
  <2>3. ChainHead(rows) = [sequence |-> last.sequence, hash |-> last.hash]
    BY <1>2 DEF ChainHead
  <2> HIDE DEF last
  <2> QED BY <2>1, <2>2, <2>3 DEF IsHead, Heads, Records
<1> QED BY <1>1, <1>2

(* Building one record on the head of a chain gives a chain, with that       *)
(* record at its head.                                                      *)
LEMMA ChainExtended ==
  ASSUME NEW rows, NEW h \in Heads, NEW t \in Txns, IsChain(rows), IsHead(h, rows)
  PROVE  LET r == AuditRecord(h.sequence + 1, t, UTC, h.hash) IN
           /\ r \in Records
           /\ r.sequence = h.sequence + 1
           /\ \A q \in rows : q.sequence < r.sequence
           /\ IsChain(rows \cup {r})
           /\ IsHead([sequence |-> r.sequence, hash |-> r.hash], rows \cup {r})
<1> DEFINE r == AuditRecord(h.sequence + 1, t, UTC, h.hash)
<1>1. h.sequence + 1 \in Nat \ {0} /\ h.hash \in Seq(Contents) BY DEF Heads
<1>2. /\ r \in Records
      /\ r.sequence = h.sequence + 1
      /\ r.prev_hash = h.hash
      /\ r.hash = compute_hash(record_content(r), r.prev_hash)
  BY <1>1, AuditRecordType
<1> HIDE DEF r
<1>3. \A q \in rows : q.sequence \in Nat /\ q.sequence < r.sequence
  BY <1>2 DEF IsHead, IsChain, Records, Heads
<1>4. Linked(rows \cup {r})
  <2>1. \/ r.sequence = 1 /\ r.prev_hash = GENESIS
        \/ \E q \in rows : q.sequence = r.sequence - 1 /\ q.hash = r.prev_hash
    BY <1>2 DEF IsHead, NoHead, IsChain, Records
  <2> QED BY <1>2, <2>1 DEF Linked, IsChain
<1>5. Numbered(rows \cup {r}) BY <1>2, <1>3 DEF Numbered, IsChain, Records
<1>6. r.sequence \in Nat BY <1>2 DEF Records
<1>7. HasLast(rows \cup {r}) BY <1>3, <1>6 DEF HasLast
<1>8. IsHead([sequence |-> r.sequence, hash |-> r.hash], rows \cup {r})
  BY <1>3, <1>6 DEF IsHead
<1>9. NoGaps(rows \cup {r})
  <2>1. ASSUME NEW n \in 1 .. h.sequence PROVE \E q \in rows : q.sequence = n
    BY DEF IsHead, NoHead, IsChain, NoGaps
  <2>2. \A n \in 1 .. r.sequence : n \in 1 .. h.sequence \/ n = r.sequence
    BY <1>2 DEF Heads
  <2> QED BY <2>1, <2>2 DEF NoGaps, IsChain
<1> QED BY <1>2, <1>3, <1>4, <1>5, <1>7, <1>8, <1>9 DEF IsChain, r

(* In a chain no two records claim one predecessor. *)
LEMMA ChainHasNoFork ==
  ASSUME NEW rows, IsChain(rows), NEW r \in rows, NEW q \in rows,
         r.sequence = q.sequence \/ r.prev_hash = q.prev_hash
  PROVE  r = q
<1>1. ASSUME NEW x \in rows
      PROVE  /\ x.sequence \in Nat \ {0}
             /\ x.prev_hash \in Seq(Contents)
             /\ record_content(x) \in Contents
             /\ record_content(x).sequence = x.sequence
             /\ x.hash = compute_hash(record_content(x), x.prev_hash)
             /\ x.hash # GENESIS
  <2>1. x \in Records BY DEF IsChain
  <2>2. record_content(x) \in Contents /\ record_content(x).sequence = x.sequence
    BY <2>1 DEF Records, record_content, Content, Contents
  <2>3. x.hash = compute_hash(record_content(x), x.prev_hash)
    BY DEF IsChain, Linked
  <2> QED BY <2>1, <2>2, <2>3, HashIsNotGenesis DEF Records
<1>2. ASSUME r.prev_hash = q.prev_hash PROVE r.sequence = q.sequence
  <2>1. CASE r.prev_hash = GENESIS
    BY <1>1, <1>2, <2>1 DEF IsChain, Linked
  <2>2. CASE r.prev_hash # GENESIS
    <3>1. PICK p1 \in rows : p1.sequence = r.sequence - 1 /\ p1.hash = r.prev_hash
      BY <2>2 DEF IsChain, Linked
    <3>2. PICK p2 \in rows : p2.sequence = q.sequence - 1 /\ p2.hash = q.prev_hash
      BY <1>2, <2>2 DEF IsChain, Linked
    <3>3. record_content(p1) = record_content(p2)
      BY <1>1, <1>2, <3>1, <3>2, HashInjective
    <3>4. p1.sequence = p2.sequence BY <1>1, <3>3
    <3> QED BY <1>1, <3>1, <3>2, <3>4
  <2> QED BY <2>1, <2>2
<1> QED BY <1>2 DEF IsChain, Numbered

-----------------------------------------------------------------------------
(* The inductive invariant.                                                 *)

LockInv ==
  \A t \in Txns : /\ pc[t] \in {"locked", "chaining"} => lock = t
                  /\ pending[t] # {} => lock = t

(* Rows that are not committed come after those that are. *)
OrderInv ==
  \A t \in Txns : \A r \in pending[t], q \in records : q.sequence < r.sequence

ChainsInv ==
  /\ IsChain(records)
  /\ \A t \in Txns : IsChain(Visible(t))

HeadsInv == \A t \in Txns : pc[t] = "chaining" => IsHead(head[t], Visible(t))

AuditInv == AuditTypeOK /\ LockInv /\ OrderInv /\ ChainsInv /\ HeadsInv

LEMMA InitAuditInv == ChainInit => AuditInv
<1> SUFFICES ASSUME ChainInit PROVE AuditInv OBVIOUS
<1>1. AuditTypeOK
  BY DEF ChainInit, AuditTypeOK, Heads, NoHead, GENESIS
<1>2. IsChain({}) BY DEF IsChain, Linked, Numbered, HasLast, NoGaps
<1> QED
  BY <1>1, <1>2 DEF ChainInit, AuditInv, LockInv, OrderInv, ChainsInv, HeadsInv, Visible

(* Steps that leave the rows where they are. *)
LEMMA QuietStep ==
  ASSUME AuditInv, NEW t \in Txns,
         \/ Begin(t) \/ LockTenant(t) \/ LockGranted(t) \/ AppendReturns(t)
         \/ UNCHANGED chainVars
  PROVE  AuditInv'
<1>1. records' = records /\ pending' = pending /\ head' = head
  BY DEF Begin, LockTenant, LockGranted, AppendReturns, chainVars
<1>2. AuditTypeOK'
  <2>1. CASE Begin(t) BY <2>1 DEF AuditInv, Begin, Move, AuditTypeOK
  <2>2. CASE LockTenant(t)
    <3>1. queue \in Seq(Txns) /\ Append(queue, t) \in Seq(Txns)
      BY DEF AuditInv, AuditTypeOK
    <3>2. queue' = queue \/ queue' = Append(queue, t)
      BY <2>2 DEF LockTenant
    <3>3. queue' \in Seq(Txns) BY <3>1, <3>2
    <3>4. pc' \in [Txns -> {"new", "open", "waiting", "locked", "chaining",
                           "committed", "aborted"}]
      BY <2>2 DEF AuditInv, LockTenant, Move, AuditTypeOK
    <3>5. calls' \in [Txns -> Nat] BY <2>2 DEF AuditInv, LockTenant, AuditTypeOK
    <3>6. UNCHANGED <<records, pending, lock, head, entries>>
      BY <2>2 DEF LockTenant
    <3> QED BY <3>3, <3>4, <3>5, <3>6 DEF AuditInv, AuditTypeOK
  <2>3. CASE LockGranted(t)
    <3>1. queue \in Seq(Txns) /\ queue # <<>>
      BY <2>3 DEF AuditInv, LockGranted, AuditTypeOK
    <3>2. queue' \in Seq(Txns)
      BY <2>3, <3>1, HeadTailProperties DEF LockGranted
    <3> QED BY <2>3, <3>2 DEF AuditInv, LockGranted, Move, AuditTypeOK
  <2>4. CASE AppendReturns(t) BY <2>4 DEF AuditInv, AppendReturns, Move, AuditTypeOK
  <2>5. CASE UNCHANGED chainVars BY <2>5 DEF AuditInv, chainVars, AuditTypeOK
  <2> QED BY <2>1, <2>2, <2>3, <2>4, <2>5
<1>3. LockInv'
  <2>1. CASE Begin(t) BY <2>1 DEF AuditInv, LockInv, Begin, Move, AuditTypeOK
  <2>2. CASE LockTenant(t)
    BY <2>2 DEF AuditInv, LockInv, LockTenant, Move, AuditTypeOK
  <2>3. CASE LockGranted(t)
    BY <2>3, TransactionAssumption
    DEF AuditInv, LockInv, LockGranted, Move, AuditTypeOK
  <2>4. CASE AppendReturns(t)
    BY <2>4 DEF AuditInv, LockInv, AppendReturns, Move, AuditTypeOK
  <2>5. CASE UNCHANGED chainVars BY <2>5 DEF AuditInv, LockInv, chainVars
  <2> QED BY <2>1, <2>2, <2>3, <2>4, <2>5
<1>4. \A u \in Txns : pc'[u] = "chaining" => pc[u] = "chaining"
  BY DEF Begin, LockTenant, LockGranted, AppendReturns, chainVars, Move,
     AuditInv, AuditTypeOK
<1> QED
  BY <1>1, <1>2, <1>3, <1>4 DEF AuditInv, OrderInv, ChainsInv, HeadsInv, Visible

LEMMA ReadHeadStep ==
  ASSUME AuditInv, NEW t \in Txns, ReadHead(t)
  PROVE  AuditInv'
<1>1. IsHead(ChainHead(Visible(t)), Visible(t)) /\ ChainHead(Visible(t)) \in Heads
  BY ChainHeadIsHead DEF AuditInv, ChainsInv
<1>2. AuditTypeOK' BY <1>1 DEF AuditInv, ReadHead, Move, AuditTypeOK
<1>3. LockInv' BY DEF AuditInv, LockInv, ReadHead, Move, AuditTypeOK
<1>4. HeadsInv'
  BY <1>1 DEF AuditInv, HeadsInv, ReadHead, Move, AuditTypeOK, Visible
<1> QED
  BY <1>2, <1>3, <1>4 DEF AuditInv, OrderInv, ChainsInv, Visible, ReadHead

LEMMA ChainStep ==
  ASSUME AuditInv, NEW t \in Txns, Chain(t)
  PROVE  AuditInv'
<1> DEFINE r == AuditRecord(head[t].sequence + 1, t, UTC, head[t].hash)
           h == [sequence |-> r.sequence, hash |-> r.hash]
<1>1. head[t] \in Heads /\ IsHead(head[t], Visible(t)) /\ IsChain(Visible(t)) /\ lock = t
  BY DEF AuditInv, AuditTypeOK, HeadsInv, ChainsInv, LockInv, Chain
<1>2. /\ r \in Records
      /\ \A q \in Visible(t) : q.sequence < r.sequence
      /\ IsChain(Visible(t) \cup {r})
      /\ IsHead(h, Visible(t) \cup {r})
  BY <1>1, ChainExtended
<1>3. h \in Heads BY <1>2 DEF Records, Heads
<1>4. /\ records' = records /\ lock' = lock /\ pc' = pc /\ calls' = calls
      /\ queue' = queue
      /\ pending' = [pending EXCEPT ![t] = pending[t] \cup {r}]
      /\ head' = [head EXCEPT ![t] = h]
      /\ entries' = [entries EXCEPT ![t] = entries[t] + 1]
  BY DEF Chain
<1> HIDE DEF r, h
<1>5. AuditTypeOK' BY <1>2, <1>3, <1>4 DEF AuditInv, AuditTypeOK
<1>6. Visible(t)' = Visible(t) \cup {r}
  BY <1>4 DEF AuditInv, AuditTypeOK, Visible
<1>7. \A u \in Txns \ {t} : Visible(u)' = Visible(u) /\ head'[u] = head[u]
  BY <1>4 DEF AuditInv, AuditTypeOK, Visible
<1>8. head'[t] = h BY <1>4 DEF AuditInv, AuditTypeOK
<1>9. LockInv' BY <1>1, <1>4 DEF AuditInv, AuditTypeOK, LockInv
<1>10. OrderInv' BY <1>2, <1>4 DEF AuditInv, AuditTypeOK, OrderInv, Visible
<1>11. ChainsInv' BY <1>2, <1>4, <1>6, <1>7 DEF AuditInv, ChainsInv
<1>12. HeadsInv' BY <1>2, <1>4, <1>6, <1>7, <1>8 DEF AuditInv, HeadsInv
<1> QED BY <1>5, <1>9, <1>10, <1>11, <1>12 DEF AuditInv

(* Only the lock's holder has rows to commit, so everybody then sees what    *)
(* it saw.                                                                  *)
LEMMA CommitStep ==
  ASSUME AuditInv, NEW t \in Txns, Commit(t)
  PROVE  AuditInv'
<1>1. pc[t] = "open" /\ records' = Visible(t) BY DEF Commit, Move, Visible
<1>2. AuditTypeOK'
  BY TransactionAssumption DEF AuditInv, Commit, Move, ReleaseLock, AuditTypeOK
<1>3. LockInv' BY DEF AuditInv, LockInv, Commit, Move, ReleaseLock, AuditTypeOK
<1>4. CASE pending[t] = {}
  <2>1. records' = records /\ \A u \in Txns : pending'[u] = pending[u]
    BY <1>4 DEF Commit, AuditInv, AuditTypeOK
  <2>2. \A u \in Txns : /\ Visible(u)' = Visible(u)
                        /\ head'[u] = head[u]
                        /\ pc'[u] = "chaining" => pc[u] = "chaining"
    BY <2>1 DEF Commit, Move, Visible, AuditInv, AuditTypeOK
  <2> QED
    BY <1>2, <1>3, <2>1, <2>2 DEF AuditInv, OrderInv, ChainsInv, HeadsInv
<1>5. CASE pending[t] # {}
  <2>1. lock = t BY <1>5 DEF AuditInv, LockInv
  <2>2. \A u \in Txns : pending'[u] = {} /\ pc'[u] # "chaining"
    BY <1>1, <2>1 DEF Commit, Move, AuditInv, LockInv, AuditTypeOK
  <2>3. \A u \in Txns : Visible(u)' = Visible(t)
    BY <1>1, <2>2 DEF Visible
  <2> QED
    BY <1>1, <1>2, <1>3, <2>2, <2>3 DEF AuditInv, OrderInv, ChainsInv, HeadsInv
<1> QED BY <1>4, <1>5

LEMMA WithoutWaiterType ==
  ASSUME NEW q \in Seq(Txns), NEW t
  PROVE  WithoutWaiter(q, t) \in Seq(Txns)
<1>1. ASSUME NEW n \in 1 .. Len(q)
      PROVE  SubSeq(q, 1, n - 1) \o SubSeq(q, n + 1, Len(q)) \in Seq(Txns)
  <2>1. SubSeq(q, 1, n - 1) \in Seq(Txns)
    OBVIOUS
  <2>2. SubSeq(q, n + 1, Len(q)) \in Seq(Txns)
    OBVIOUS
  <2> QED BY <2>1, <2>2
<1> QED BY <1>1 DEF WithoutWaiter

LEMMA RollbackStep ==
  ASSUME AuditInv, NEW t \in Txns, Rollback(t)
  PROVE  AuditInv'
<1>1. queue' \in Seq(Txns)
  BY WithoutWaiterType DEF AuditInv, AuditTypeOK, Rollback
<1>2. AuditTypeOK'
  BY <1>1, TransactionAssumption DEF AuditInv, Rollback, ReleaseLock, AuditTypeOK
<1>3. LockInv' BY DEF AuditInv, LockInv, Rollback, ReleaseLock, AuditTypeOK
<1>4. records' = records /\ head' = head /\ pending'[t] = {} /\ pc'[t] = "aborted"
  BY DEF Rollback, AuditInv, AuditTypeOK
<1>5. \A u \in Txns \ {t} : pending'[u] = pending[u] /\ pc'[u] = pc[u]
  BY DEF Rollback, AuditInv, AuditTypeOK
<1>6. Visible(t)' = records BY <1>4 DEF Visible
<1>7. \A u \in Txns \ {t} : Visible(u)' = Visible(u) BY <1>4, <1>5 DEF Visible
<1>8. OrderInv' BY <1>4, <1>5 DEF AuditInv, OrderInv
<1>9. ChainsInv' BY <1>4, <1>6, <1>7 DEF AuditInv, ChainsInv
<1>10. HeadsInv' BY <1>4, <1>5, <1>7 DEF AuditInv, HeadsInv
<1> QED BY <1>2, <1>3, <1>8, <1>9, <1>10 DEF AuditInv

LEMMA NextAuditInv == AuditInv /\ [ChainNext]_chainVars => AuditInv'
<1> SUFFICES ASSUME AuditInv, [ChainNext]_chainVars PROVE AuditInv' OBVIOUS
<1>1. ASSUME NEW t \in Txns,
             Begin(t) \/ LockTenant(t) \/ Advance(t) \/ Rollback(t)
      PROVE  AuditInv'
  BY <1>1, QuietStep, ReadHeadStep, ChainStep, CommitStep, RollbackStep DEF Advance
<1>2. CASE UNCHANGED chainVars
  BY <1>2 DEF chainVars, AuditInv, AuditTypeOK, LockInv, OrderInv, ChainsInv,
     HeadsInv, Visible
<1> QED BY <1>1, <1>2 DEF ChainNext

(* The inductive invariant holds in every behaviour: the rows a statement of *)
(* any transaction can see are a chain, and only the lock's holder adds one. *)
THEOREM AuditInvariant == ChainSpec => []AuditInv
BY InitAuditInv, NextAuditInv, PTL DEF ChainSpec

(* Rows, locks and heads keep their types. *)
THEOREM AuditTypeCorrect == ChainSpec => []AuditTypeOK
<1>1. AuditInv => AuditTypeOK BY DEF AuditInv
<1> QED BY <1>1, AuditInvariant, PTL

-----------------------------------------------------------------------------
(* What follows from it.                                                    *)

(* All rows there are lie in the view of one transaction. *)
LEMMA InsertedIsVisible ==
  ASSUME AuditInv
  PROVE  \/ Inserted = records
         \/ lock \in Txns /\ Inserted = Visible(lock)
<1>1. CASE \A t \in Txns : pending[t] = {}
  BY <1>1 DEF Inserted
<1>2. CASE \E t \in Txns : pending[t] # {}
  <2>1. lock \in Txns /\ \A u \in Txns : u # lock => pending[u] = {}
    BY <1>2 DEF AuditInv, LockInv
  <2> QED BY <2>1 DEF Inserted, Visible
<1> QED BY <1>1, <1>2

(* No two concurrent appends ever claim one predecessor or one sequence. *)
THEOREM ChainNeverForks == ChainSpec => []NoFork
<1>1. ASSUME AuditInv PROVE NoFork
  <2>1. IsChain(Inserted)
    BY <1>1, InsertedIsVisible DEF AuditInv, ChainsInv
  <2> QED BY <2>1, ChainHasNoFork DEF NoFork
<1> QED BY <1>1, AuditInvariant, PTL

(* The committed chain is linked down to its genesis at every moment. *)
THEOREM ChainAlwaysIntact == ChainSpec => []ChainIntact
<1>1. AuditInv => ChainIntact BY DEF AuditInv, ChainsInv, IsChain, ChainIntact
<1> QED BY <1>1, AuditInvariant, PTL

(* No append works from a stale head. *)
THEOREM HeadAlwaysCurrent == ChainSpec => []HeadIsCurrent
<1>1. ASSUME AuditInv, NEW t \in Txns, pc[t] = "chaining", NEW r \in Inserted
      PROVE  r.sequence <= head[t].sequence
  <2>1. lock = t BY <1>1 DEF AuditInv, LockInv
  <2>2. r \in Visible(t) BY <1>1, <2>1, InsertedIsVisible DEF Visible
  <2> QED BY <1>1, <2>2 DEF AuditInv, HeadsInv, IsHead
<1>2. AuditInv => HeadIsCurrent BY <1>1 DEF HeadIsCurrent
<1> QED BY <1>2, AuditInvariant, PTL

-----------------------------------------------------------------------------
(* AuditChain implements AppendOnlyLog.                                     *)

(* Rows added after the last one of a chain extend its list of events. *)
EventsOf(rows) ==
  [n \in 1 .. ChainHead(rows).sequence |->
     (CHOOSE r \in rows : r.sequence = n).event]

LEMMA EventsExtended ==
  ASSUME NEW old, NEW new, IsChain(old), IsChain(new), old \subseteq new,
         old # new, \A r \in new \ old, q \in old : q.sequence < r.sequence
  PROVE  /\ Len(EventsOf(old)) < Len(EventsOf(new))
         /\ \A n \in 1 .. Len(EventsOf(old)) : EventsOf(new)[n] = EventsOf(old)[n]
<1> DEFINE m == ChainHead(old).sequence
           k == ChainHead(new).sequence
<1>1. m \in Nat /\ k \in Nat BY ChainHeadIsHead DEF Heads
<1>2. Len(EventsOf(old)) = m /\ Len(EventsOf(new)) = k
  BY <1>1 DEF EventsOf
<1>3. m < k
  <2>1. PICK r \in new : r \notin old OBVIOUS
  <2>2. r.sequence \in Nat \ {0} BY DEF IsChain, Records
  <2>3. m < r.sequence
    BY <2>1, <2>2, ChainHeadIsHead DEF IsHead, NoHead
  <2>4. r.sequence <= k BY ChainHeadIsHead DEF IsHead
  <2> QED BY <1>1, <2>2, <2>3, <2>4
<1>4. ASSUME NEW n \in 1 .. m PROVE EventsOf(new)[n] = EventsOf(old)[n]
  <2>1. PICK r \in old : r.sequence = n
    <3>1. PICK last \in old : last.sequence = m
      BY <1>1, ChainHeadIsHead DEF IsHead, NoHead
    <3> QED BY <3>1 DEF IsChain, NoGaps
  <2>2. (CHOOSE x \in old : x.sequence = n) = r
    BY <2>1 DEF IsChain, Numbered
  <2>3. (CHOOSE x \in new : x.sequence = n) = r
    BY <2>1 DEF IsChain, Numbered
  <2>4. n \in 1 .. k BY <1>1, <1>3
  <2> QED BY <2>2, <2>3, <2>4 DEF EventsOf
<1> QED BY <1>2, <1>3, <1>4

(* Every behaviour of the chain is one of an append-only log of events. *)
THEOREM AuditChainImplementsLog == ChainSpec => ImplementsLog
<1>1. ChainInit => Log!LogInit
  <2> SUFFICES ASSUME ChainInit PROVE EventLog = <<>>
    BY DEF Log!LogInit
  <2>1. ChainHead(records).sequence = 0 BY DEF ChainInit, ChainHead, NoHead
  <2> QED BY <2>1 DEF EventLog
<1>2. AuditInv /\ AuditInv' /\ [ChainNext]_chainVars => [Log!Extend]_EventLog
  <2> SUFFICES ASSUME AuditInv, AuditInv', [ChainNext]_chainVars,
                      EventLog' # EventLog
               PROVE  Log!Extend
    OBVIOUS
  <2>0. records' # records
    <3>1. records' = records => EventsOf(records') = EventsOf(records)
      OBVIOUS
    <3> QED BY <3>1 DEF EventLog, EventsOf
  <2>1. PICK t \in Txns : Commit(t)
    BY <2>0 DEF ChainNext, Advance, Begin, LockTenant, LockGranted, ReadHead, Chain,
       AppendReturns, Rollback, chainVars
  <2>2. records' = records \cup pending[t] BY <2>1 DEF Commit
  <2>3. \A r \in records' \ records, q \in records : q.sequence < r.sequence
    BY <2>2 DEF AuditInv, OrderInv
  <2>4. IsChain(records) /\ IsChain(records') BY DEF AuditInv, ChainsInv
  <2>5. EventLog = EventsOf(records) /\ EventLog' = EventsOf(records')
    BY DEF EventLog, EventsOf
  <2> QED BY <2>2, <2>3, <2>4, <2>5, EventsExtended DEF Log!Extend
<1> QED
  BY <1>1, <1>2, AuditInvariant, PTL DEF ChainSpec, ImplementsLog, Log!LogSpec

-----------------------------------------------------------------------------
(* CaseTransactions.                                                        *)

IsRow(x) == x = [fires_at |-> x.fires_at, fired |-> x.fired] /\ x.fired \in BOOLEAN

OneWrites == \A r, q \in Requests : HoldsDispute(r) /\ HoldsDispute(q) => r = q

RowsReadAreCurrent ==
  \A r \in Requests : HoldsClock(r) => memory[r].row = row /\ sweep = "idle"

(* What is stored of a row that has not fired agrees with the stored pauses, *)
(* whatever the clock's state.                                              *)
UnfiredFollowsPauses ==
  row # NoRow /\ ~row.fired => row.fires_at = DueAfter(clock.paused_intervals)

TxnInv ==
  /\ DOMAIN at = Requests /\ DOMAIN memory = Requests
  /\ \A r \in Requests : DOMAIN memory[r] = {"rule", "clock", "time", "row"}
  /\ IsRow(row)
  /\ DOMAIN clock = {"state", "paused_at", "paused_intervals"}
  /\ OneWrites
  /\ RowsReadAreCurrent
  /\ UnfiredFollowsPauses

-----------------------------------------------------------------------------

LEMMA RowsAreRows == IsRow(NoRow) /\ \A f : IsRow(Row(f)) /\ Row(f).fires_at = f /\ ~Row(f).fired
BY DEF IsRow, NoRow, Row

LEMMA InitTxn == TxnInit => TxnInv
<1> SUFFICES ASSUME TxnInit PROVE TxnInv OBVIOUS
<1>1. IsRow(row) /\ UnfiredFollowsPauses
  BY RowsAreRows DEF TxnInit, UnfiredFollowsPauses
<1>2. DOMAIN NothingRead = {"rule", "clock", "time", "row"}
  BY DEF NothingRead
<1>3. OneWrites /\ RowsReadAreCurrent
  BY DEF TxnInit, OneWrites, RowsReadAreCurrent, HoldsDispute, HoldsClock
<1> QED BY <1>1, <1>2, <1>3 DEF TxnInit, TxnInv

(* What a request that holds its locks commits. *)
LEMMA RowAfterCommit ==
  ASSUME TxnInv, NEW r \in Requests, CommitRequest(r)
  PROVE  /\ IsRow(row')
         /\ row.fired => row' = row
         /\ UnfiredFollowsPauses'
         /\ DOMAIN clock' = DOMAIN clock
<1> USE DEF TxnInv
<1>1. row' = RowAfter(r) /\ clock' = ClockAfter(r)
  BY DEF CommitRequest
<1>2. CASE ~WritesClock(r)
  BY <1>1, <1>2 DEF RowAfter, ClockAfter, WritesClock, UnfiredFollowsPauses
<1>3. CASE WritesClock(r) /\ Effect(r) = "pause"
  BY <1>1, <1>3 DEF RowAfter, ClockAfter, PausedClock, UnfiredFollowsPauses
<1>4. CASE WritesClock(r) /\ Effect(r) = "resume"
  <2>1. clock' = ResumedClock(PausesStored(r))
    BY <1>1, <1>4 DEF ClockAfter
  <2>2. /\ DOMAIN clock' = {"state", "paused_at", "paused_intervals"}
        /\ clock'.paused_intervals = PausesStored(r)
    BY <2>1 DEF ResumedClock
  <2>3. memory[r].row = row
    BY <1>4 DEF CommitRequest, Goto, RowsReadAreCurrent, HoldsClock
  <2>4. row' = IF row = NoRow THEN Row(DueAfter(PausesStored(r)))
               ELSE IF row.fired THEN row
               ELSE [row EXCEPT !.fires_at = DueAfter(PausesStored(r))]
    BY <1>1, <1>4, <2>3 DEF RowAfter
  <2>5. CASE row = NoRow
    BY <2>2, <2>4, <2>5, RowsAreRows DEF UnfiredFollowsPauses, NoRow
  <2>6. CASE row # NoRow /\ row.fired
    BY <2>2, <2>4, <2>6 DEF UnfiredFollowsPauses
  <2>7. CASE row # NoRow /\ ~row.fired
    BY <2>2, <2>4, <2>7 DEF UnfiredFollowsPauses, IsRow
  <2> QED BY <2>2, <2>5, <2>6, <2>7
<1>5. CASE WritesClock(r) /\ Effect(r) = "stop"
  BY <1>1, <1>5, RowsAreRows DEF RowAfter, ClockAfter, StoppedClock, UnfiredFollowsPauses
<1> QED BY <1>2, <1>3, <1>4, <1>5 DEF WritesClock

LEMMA CommitKeepsInv ==
  ASSUME TxnInv, NEW r \in Requests, CommitRequest(r)
  PROVE  TxnInv'
<1> USE DEF TxnInv
<1>1. /\ HoldsDispute(r) /\ at' = [at EXCEPT ![r] = "idle"]
      /\ memory' = [memory EXCEPT ![r] = NothingRead] /\ sweep' = sweep
  BY DEF CommitRequest, Goto, HoldsDispute
<1>2. \A q \in Requests : ~HoldsDispute(q)'
  BY <1>1 DEF OneWrites, HoldsDispute
<1>3. \A q \in Requests : ~HoldsClock(q)'
  BY <1>2 DEF HoldsDispute, HoldsClock
<1>4. DOMAIN NothingRead = {"rule", "clock", "time", "row"}
  BY DEF NothingRead
<1> QED BY <1>1, <1>2, <1>3, <1>4, RowAfterCommit DEF OneWrites, RowsReadAreCurrent

LEMMA NextTxn == TxnInv /\ [TxnNext]_txnVars => TxnInv'
<1> SUFFICES ASSUME TxnInv, [TxnNext]_txnVars PROVE TxnInv' OBVIOUS
<1> USE DEF TxnInv
<1>1. ASSUME NEW r \in Requests, UpdateDispute(r) PROVE TxnInv'
  BY <1>1 DEF UpdateDispute, Goto, OneWrites, RowsReadAreCurrent, UnfiredFollowsPauses,
              HoldsDispute, HoldsClock
<1>2. ASSUME NEW r \in Requests, UpdateClock(r) PROVE TxnInv'
  <2>1. /\ at[r] = "dispute" /\ at' = [at EXCEPT ![r] = "clock"]
        /\ memory' = [memory EXCEPT ![r].row = row]
        /\ sweep = "idle" /\ UNCHANGED <<clock, row, sweep>>
    BY <1>2 DEF UpdateClock, Goto
  <2>2. \A q \in Requests : HoldsDispute(q)' <=> HoldsDispute(q)
    BY <2>1 DEF HoldsDispute
  <2>3. \A q \in Requests : HoldsClock(q)' => q = r
    BY <2>1, <2>2 DEF HoldsClock, HoldsDispute, OneWrites
  <2>4. memory'[r].row = row /\ DOMAIN memory'[r] = DOMAIN memory[r]
    BY <2>1
  <2> QED BY <2>1, <2>2, <2>3, <2>4
          DEF OneWrites, RowsReadAreCurrent, UnfiredFollowsPauses
<1>3. ASSUME NEW r \in Requests, CommitRequest(r) PROVE TxnInv'
  BY <1>3, CommitKeepsInv
<1>4. ASSUME NEW r \in Requests, Fail(r) PROVE TxnInv'
  BY <1>4 DEF Fail, NothingRead, OneWrites, RowsReadAreCurrent, UnfiredFollowsPauses, HoldsDispute,
              HoldsClock
<1>5. ASSUME NEW r \in Requests, NEW to \in Statuses, Load(r, to) PROVE TxnInv'
  BY <1>5 DEF Load, Goto, OneWrites, RowsReadAreCurrent, UnfiredFollowsPauses,
              HoldsDispute, HoldsClock
<1>6. CASE Claim
  BY <1>6 DEF Claim, OneWrites, RowsReadAreCurrent, UnfiredFollowsPauses, HoldsDispute,
              HoldsClock
<1>7. CASE FireBatch
  <2>1. \A r \in Requests : ~HoldsClock(r)
    BY <1>7 DEF FireBatch, RowsReadAreCurrent
  <2>2. IsRow(row')
    BY <1>7 DEF FireBatch, IsRow
  <2>3. row' = row \/ row'.fired
    BY <1>7 DEF FireBatch, IsRow
  <2> QED BY <1>7, <2>1, <2>2, <2>3
          DEF FireBatch, OneWrites, RowsReadAreCurrent, UnfiredFollowsPauses, HoldsDispute,
              HoldsClock
<1>8. CASE Tick \/ UNCHANGED txnVars
  BY <1>8 DEF Tick, txnVars, OneWrites, RowsReadAreCurrent, UnfiredFollowsPauses,
              HoldsDispute, HoldsClock
<1> QED BY <1>1, <1>2, <1>3, <1>4, <1>5, <1>6, <1>7, <1>8 DEF TxnNext, RequestStep

LEMMA TxnAlways == TxnSpec => []TxnInv
BY InitTxn, NextTxn, PTL DEF TxnSpec

-----------------------------------------------------------------------------

(* The row of a live clock is due where the stored pauses put it, however    *)
(* requests overwrite each other's pauses (ADR-0007).                        *)
THEOREM RowsAlwaysFollowPauses == TxnSpec => []RowsFollowPauses
<1>1. TxnInv => RowsFollowPauses
  BY DEF TxnInv, UnfiredFollowsPauses, RowsFollowPauses
<1> QED BY <1>1, TxnAlways, PTL

(* A deadline that has fired is neither moved nor deleted, for any number of *)
(* requests that read it before it fired.                                   *)
THEOREM FiredAlwaysStays == TxnSpec => FiredStaysFired
<1>1. TxnInv /\ [TxnNext]_txnVars => [row.fired => row' = row]_txnVars
  <2> SUFFICES ASSUME TxnInv, TxnNext, row.fired PROVE row' = row
    BY DEF txnVars
  <2>1. CASE FireBatch
    BY <2>1 DEF FireBatch, TxnInv, IsRow
  <2>2. ASSUME NEW r \in Requests, CommitRequest(r) PROVE row' = row
    BY <2>2, RowAfterCommit
  <2> QED BY <2>1, <2>2 DEF TxnNext, RequestStep, UpdateDispute, UpdateClock, Fail, Load,
                            Claim, Tick
<1> QED BY <1>1, TxnAlways, PTL DEF TxnSpec, FiredStaysFired
=============================================================================
