-------------------------- MODULE AuditAttestation --------------------------
(***************************************************************************)
(* What is said about one tenant's chain, and by whom: the nightly         *)
(* checkpoint job (audit/tasks.py, audit/checkpoints.py) that walks the    *)
(* chain, signs a checkpoint and queues it for anchoring, and the passes   *)
(* that anchor the backlog (audit/anchoring.py), which may overlap when    *)
(* one outlives its quarter of an hour.  AuditChain shows that appends     *)
(* amount to adding the next record, so an append is one step here.        *)
(***************************************************************************)
EXTENDS HashChain

CONSTANTS
  Events,       (* contents of records                                       *)
  Anchorers,    (* celery workers running disputeshield.audit.anchor         *)
  Tokens,       (* what a timestamp authority may answer                     *)
  NoToken,      (* no answer, or an anchor that has none yet                 *)
  MAX_ATTEMPTS, (* anchoring attempts before an anchor is given up           *)
  PassLimit,    (* anchors taken by one pass                                 *)
  MaxRecords,   (* bound: length of the chain                                *)
  MaxJobDeaths  (* bound: jobs that die                                      *)

ASSUME AttestationAssumption ==
  /\ MAX_ATTEMPTS \in Nat \ {0} /\ PassLimit \in Nat \ {0}
  /\ NoToken \notin Tokens
  /\ MaxRecords \in Nat /\ MaxJobDeaths \in Nat

VARIABLES
  records,      (* the chain                                                 *)
  altered,      (* history: sequence of the first record altered, 0 if none  *)
  checkpoints,  (* AuditCheckpoint rows                                      *)
  anchors,      (* CheckpointAnchor rows, by sequence_to of the checkpoint   *)
  walk,         (* the checkpoint job's local result of verify_tenant        *)
  backlog,      (* of each worker, the anchors its pass read and has to try  *)
  written,      (* of each worker, the rows its pass updated, not committed  *)
  raced,        (* history: anchors two passes have had in hand at once      *)
  jobDeaths     (* jobs that have died                                       *)

chainVars == <<records, altered>>
passVars == <<backlog, written, raced>>
attestVars == <<chainVars, checkpoints, anchors, walk, passVars, jobDeaths>>

NoWalk == [running |-> FALSE, ok |-> TRUE, records_checked |-> 0]

NewAnchor == [status |-> "pending", token |-> NoToken, attempts |-> 0]

NothingWritten == [s \in {} |-> NewAnchor]

-----------------------------------------------------------------------------

(* An event occurs now, in UTC; but that a case was filed occurs when the    *)
(* incumbent's file says, in the offset it says it with.                    *)
Offsets == {UTC, "+01:00"}

AppendRecord(e, offset) ==
  LET head == ChainHead(records) IN
    /\ head.sequence < MaxRecords
    /\ records' = records \cup {AuditRecord(head.sequence + 1, e, offset, head.hash)}
    /\ UNCHANGED <<altered, checkpoints, anchors, walk, passVars, jobDeaths>>

(* A stored record changes behind the application, once.                    *)
AlterRecord(r, e) ==
  /\ altered = 0
  /\ e # r.event
  /\ records' = (records \ {r}) \cup {[r EXCEPT !.event = e]}
  /\ altered' = r.sequence
  /\ UNCHANGED <<checkpoints, anchors, walk, passVars, jobDeaths>>

-----------------------------------------------------------------------------
(* The checkpoint job: one transaction, begun by the walk of the chain.     *)

VerifyTenant ==
  /\ ~walk.running
  /\ walk' = [running |-> TRUE, ok |-> Failures(records) = {},
              records_checked |-> Cardinality(records)]
  /\ UNCHANGED <<chainVars, checkpoints, anchors, passVars, jobDeaths>>

Latest == CHOOSE c \in checkpoints : \A d \in checkpoints : d.sequence_to <= c.sequence_to

SequenceFrom == IF checkpoints = {} THEN 1 ELSE Latest.sequence_to + 1

(* The checkpoint, and its place in the anchoring queue unless it has one.  *)
Publish(checkpoint) ==
  /\ checkpoints' = checkpoints \cup {checkpoint}
  /\ anchors' = [s \in DOMAIN anchors \cup {checkpoint.sequence_to} |->
                   IF s \in DOMAIN anchors THEN anchors[s] ELSE NewAnchor]

(* Mutant of Checkpoint: it signs the hash the last record links to. *)
CheckpointPredecessor ==
  LET head == ChainHead(records) IN
  [sequence_from |-> SequenceFrom, sequence_to |-> head.sequence,
   record_count |-> walk.records_checked,
   head_hash |-> SubSeq(head.hash, 1, Len(head.hash) - 1),
   verified |-> walk.ok]

(* The head is read by a statement after the walk: it may be a later one.   *)
Checkpoint ==
  LET head == ChainHead(records) IN
  [sequence_from |-> SequenceFrom, sequence_to |-> head.sequence,
   record_count |-> walk.records_checked, head_hash |-> head.hash,
   verified |-> walk.ok]

(* Mutant of CreateCheckpoint: a failed verification publishes nothing. *)
CreateCheckpointIfVerified ==
  /\ walk.running
  /\ walk' = NoWalk
  /\ IF walk.ok /\ ChainHead(records).sequence >= SequenceFrom
     THEN Publish(Checkpoint)
     ELSE UNCHANGED <<checkpoints, anchors>>
  /\ UNCHANGED <<chainVars, passVars, jobDeaths>>

(* Nothing is signed for an empty chain, nor twice for one head; a failed   *)
(* verification is published like a good one.  The checkpoint and its place *)
(* in the anchoring queue are committed together.                           *)
CreateCheckpoint ==
  /\ walk.running
  /\ walk' = NoWalk
  /\ IF ChainHead(records).sequence >= SequenceFrom
     THEN Publish(Checkpoint)
     ELSE UNCHANGED <<checkpoints, anchors>>
  /\ UNCHANGED <<chainVars, passVars, jobDeaths>>

JobDies ==
  /\ walk.running
  /\ jobDeaths < MaxJobDeaths /\ jobDeaths' = jobDeaths + 1
  /\ walk' = NoWalk
  /\ UNCHANGED <<chainVars, checkpoints, anchors, passVars>>

-----------------------------------------------------------------------------
(* A pass over the anchoring backlog: one transaction.                      *)

Idle(w) == backlog[w] = <<>> /\ written[w] = NothingWritten

Entry(s) == [of |-> s, row |-> anchors[s]]

(* The oldest anchors still to be tried, the rows copied into memory.       *)
OldestFirst(rows) ==
  LET nth[n \in 1 .. Cardinality(rows)] ==
        CHOOSE s \in rows : Cardinality({ x \in rows : x < s }) = n - 1
      size == IF Cardinality(rows) < PassLimit THEN Cardinality(rows) ELSE PassLimit
  IN  [n \in 1 .. size |-> Entry(nth[n])]

Awaiting == { s \in DOMAIN anchors : anchors[s].status = "pending" }

(* The anchors a pass has read and not finished with. *)
InHand(w) == { backlog[w][n].of : n \in DOMAIN backlog[w] } \cup DOMAIN written[w]

ReadBacklog(w) ==
  LET read == OldestFirst(Awaiting) IN
    /\ Idle(w)
    /\ Awaiting # {}
    /\ backlog' = [backlog EXCEPT ![w] = read]
    /\ raced' = raced \cup { s \in UNION { InHand(v) : v \in Anchorers \ {w} } :
                              \E n \in DOMAIN read : read[n].of = s }
    /\ UNCHANGED <<chainVars, checkpoints, anchors, walk, written, jobDeaths>>

(* save(update_fields=["attempts", "last_error", "status"])                  *)
Failed(entry) ==
  [anchors[entry.of] EXCEPT
     !.attempts = entry.row.attempts + 1,
     !.status = IF entry.row.attempts + 1 >= MAX_ATTEMPTS
                THEN "failed" ELSE entry.row.status]

(* Mutant of Anchored: the row saved with its token stays in the backlog. *)
AnchoredPending(entry, token) ==
  [status |-> entry.row.status, token |-> token, attempts |-> entry.row.attempts + 1]

(* save(update_fields=["attempts", "status", "authority", "token", ...])     *)
Anchored(entry, token) ==
  [status |-> "anchored", token |-> token, attempts |-> entry.row.attempts + 1]

(* The authority is asked about the oldest anchor left, and the row saved;  *)
(* the UPDATE waits for a pass that has updated the same row.  Whatever the *)
(* authority raises, that it cannot be reached or that it will not, is      *)
(* treated alike: NoToken.                                                  *)
AnchorOne(w, answer) ==
  LET entry == Head(backlog[w])
      row   == IF answer = NoToken THEN Failed(entry) ELSE Anchored(entry, answer)
  IN
    /\ backlog[w] # <<>>
    /\ \A v \in Anchorers \ {w} : entry.of \notin DOMAIN written[v]
    /\ backlog' = [backlog EXCEPT ![w] = Tail(@)]
    /\ written' = [written EXCEPT ![w] =
                     [s \in DOMAIN @ \cup {entry.of} |->
                        IF s = entry.of THEN row ELSE @[s]]]
    /\ UNCHANGED <<chainVars, checkpoints, anchors, walk, raced, jobDeaths>>

CommitPass(w) ==
  /\ backlog[w] = <<>> /\ written[w] # NothingWritten
  /\ anchors' = [s \in DOMAIN anchors |->
                   IF s \in DOMAIN written[w] THEN written[w][s] ELSE anchors[s]]
  /\ written' = [written EXCEPT ![w] = NothingWritten]
  /\ UNCHANGED <<chainVars, checkpoints, walk, backlog, raced, jobDeaths>>

PassDies(w) ==
  /\ ~Idle(w)
  /\ jobDeaths < MaxJobDeaths /\ jobDeaths' = jobDeaths + 1
  /\ backlog' = [backlog EXCEPT ![w] = <<>>]
  /\ written' = [written EXCEPT ![w] = NothingWritten]
  /\ UNCHANGED <<chainVars, checkpoints, anchors, walk, raced>>

-----------------------------------------------------------------------------

AttestInit ==
  /\ records = {} /\ altered = 0
  /\ checkpoints = {} /\ anchors = NothingWritten /\ walk = NoWalk
  /\ backlog = [w \in Anchorers |-> <<>>]
  /\ written = [w \in Anchorers |-> NothingWritten]
  /\ raced = {}
  /\ jobDeaths = 0

Try(w) == \E answer \in Tokens \cup {NoToken} : AnchorOne(w, answer)

AttestNext ==
  \/ \E e \in Events, offset \in Offsets : AppendRecord(e, offset)
  \/ \E r \in records, e \in Events : AlterRecord(r, e)
  \/ VerifyTenant
  \/ CreateCheckpoint
  \/ JobDies
  \/ \E w \in Anchorers : ReadBacklog(w) \/ Try(w) \/ CommitPass(w) \/ PassDies(w)

AttestSpec == AttestInit /\ [][AttestNext]_attestVars

(* Beat starts the jobs for ever, and they get on with their work; only  *)
(* MaxJobDeaths of them die.                                                   *)
AttestFairSpec ==
  /\ AttestSpec
  /\ WF_attestVars(VerifyTenant)
  /\ WF_attestVars(CreateCheckpoint)
  /\ \A w \in Anchorers : /\ WF_attestVars(ReadBacklog(w))
                        /\ WF_attestVars(Try(w))
                        /\ WF_attestVars(CommitPass(w))

-----------------------------------------------------------------------------
(* Properties. *)

(* The hash of a record was taken of its time as it is read back. *)
HashedInUTC(r) == r.hash[r.sequence].offset = UTC

(* What an auditor keeps: walking the chain again reproduces a checkpoint's  *)
(* head_hash at its sequence_to exactly as long as no record up to there has *)
(* been altered and none was hashed with another offset than UTC.           *)
CheckpointCatchesAlteration ==
  \A c \in checkpoints :
    Recomputed(records)[c.sequence_to] = c.head_hash
      <=> /\ altered = 0 \/ altered > c.sequence_to
          /\ \A r \in records : r.sequence <= c.sequence_to => HashedInUTC(r)

(* Every record is under a checkpoint in the end, records of a chain that    *)
(* fails verification included: silence is not an answer.                   *)
EveryRecordIsAttested ==
  \A n \in 1 .. MaxRecords :
    (\E r \in records : r.sequence = n)
      ~> \E c \in checkpoints : n \in c.sequence_from .. c.sequence_to

(* An anchor that has a token keeps one, and keeps its row as it is, token,  *)
(* status and attempts, unless two passes have had it in hand at once: then  *)
(* the later save may store another token, or put the row back into the      *)
(* backlog.                                                                 *)
StampKept(s) ==
  anchors[s].token # NoToken =>
    /\ anchors'[s].token # NoToken
    /\ anchors'[s] # anchors[s] => s \in raced

StampsChangeOnlyInRaces == [][\A s \in DOMAIN anchors : StampKept(s)]_attestVars

=============================================================================
