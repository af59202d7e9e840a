------------------------ MODULE AuditChainProperties ------------------------
(***************************************************************************)
(* What AuditChain is expected to satisfy (docs/adr/0003).                 *)
(***************************************************************************)
EXTENDS AuditChain

Contents == [sequence : Nat, event : Txns, offset : {UTC}]

Records == [sequence : Nat \ {0}, event : Txns,
            prev_hash : Seq(Contents), hash : Seq(Contents)]

Heads == [sequence : Nat, hash : Seq(Contents)]

AuditTypeOK ==
  /\ \A r \in records : r \in Records
  /\ pending \in [Txns -> SUBSET Records]
  /\ lock \in Txns \cup {Nobody}
  /\ queue \in Seq(Txns)
  /\ pc \in [Txns -> {"new", "open", "waiting", "locked", "chaining",
                      "committed", "aborted"}]
  /\ head \in [Txns -> Heads]
  /\ calls \in [Txns -> Nat]
  /\ entries \in [Txns -> Nat]

-----------------------------------------------------------------------------

Inserted == records \cup UNION { pending[t] : t \in Txns }

(* Two concurrent appends never claim the same predecessor or the same       *)
(* sequence number, committed or not: the chain cannot fork, and             *)
(* uniq_audit_sequence_per_tenant never fires.                              *)
NoFork ==
  \A r, q \in Inserted :
    r.sequence = q.sequence \/ r.prev_hash = q.prev_hash => r = q

(* Every committed record links to the committed record one before it, down  *)
(* to the genesis value: no gap is left by a transaction that rolled back,   *)
(* and the chain an auditor reads is whole at every moment.                  *)
Linked(rows) ==
  \A r \in rows :
    /\ r.hash = compute_hash(record_content(r), r.prev_hash)
    /\ \/ r.sequence = 1 /\ r.prev_hash = GENESIS
       \/ \E q \in rows : q.sequence = r.sequence - 1 /\ q.hash = r.prev_hash

ChainIntact == Linked(records)

(* The head an append works from is never stale: from the moment it is read  *)
(* until the transaction ends, it is the last record anybody has inserted.   *)
HeadIsCurrent ==
  \A t \in Txns :
    pc[t] = "chaining" =>
      \A r \in Inserted : r.sequence <= head[t].sequence

(* AuditChain implements AppendOnlyLog: records are only ever added after    *)
(* the last committed one, in the order of their sequence numbers.           *)
EventLog ==
  [n \in 1 .. ChainHead(records).sequence |->
     (CHOOSE r \in records : r.sequence = n).event]

Log == INSTANCE AppendOnlyLog WITH log <- EventLog

(* Every committed trail is the trail there was before, extended. *)
ImplementsLog == Log!LogSpec

=============================================================================
