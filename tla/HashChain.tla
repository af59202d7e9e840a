------------------------------ MODULE HashChain ------------------------------
(***************************************************************************)
(* The audit hash chain without a database: disputeshield/audit/chain.py   *)
(* and the walk of audit/verify.py.  A digest without collisions is        *)
(* modelled by what it covers: the hash of a record is its predecessor's   *)
(* hash with the record's own content appended.                            *)
(***************************************************************************)
EXTENDS Integers, Sequences, FiniteSets

GENESIS == <<>>

(* The offset from UTC that occurred_at is written with.                    *)
UTC == "+00:00"

(* What a hash covers.  `event` stands for everything but the sequence       *)
(* number and the way occurred_at, a datetime, is turned into a string.     *)
Content(sequence, event, offset) ==
  [sequence |-> sequence, event |-> event, offset |-> offset]

(* record_content, of a row read back: the database returns every datetime  *)
(* in UTC, whatever offset it had in the memory of the append.              *)
record_content(r) == Content(r.sequence, r.event, UTC)

compute_hash(content, prev_hash) == Append(prev_hash, content)

(* The hash is taken of the record in memory, before it is stored.          *)
AuditRecord(sequence, event, offset, prev_hash) ==
  [sequence |-> sequence, event |-> event, prev_hash |-> prev_hash,
   hash |-> compute_hash(Content(sequence, event, offset), prev_hash)]

NoHead == [sequence |-> 0, hash |-> GENESIS]

(* order_by("-sequence").values("sequence", "hash").first() *)
ChainHead(rows) ==
  IF rows = {} THEN NoHead
  ELSE LET last == CHOOSE r \in rows : \A q \in rows : q.sequence <= r.sequence
       IN  [sequence |-> last.sequence, hash |-> last.hash]

-----------------------------------------------------------------------------
(* verify: the walk in sequence order.                                      *)

Nth(rows, n) ==
  CHOOSE r \in rows : Cardinality({ q \in rows : q.sequence < r.sequence }) = n - 1

(* The recomputed hash after n records, carried forward from the genesis     *)
(* value and never from a stored prev_hash.                                 *)
Recomputed(rows) ==
  LET hash[n \in 0 .. Cardinality(rows)] ==
        IF n = 0 THEN GENESIS
        ELSE compute_hash(record_content(Nth(rows, n)), hash[n - 1])
  IN  hash

(* The records the walk reports. *)
Failures(rows) ==
  LET hash == Recomputed(rows)
      expected_sequence(n) == IF n = 1 THEN 1 ELSE Nth(rows, n - 1).sequence + 1
      Fails(n) == LET r == Nth(rows, n) IN
                    \/ r.sequence # expected_sequence(n)
                    \/ r.prev_hash # hash[n - 1]
                    \/ r.hash # hash[n]
  IN  { Nth(rows, n) : n \in { m \in 1 .. Cardinality(rows) : Fails(m) } }

=============================================================================
