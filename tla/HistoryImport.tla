---------------------------- MODULE HistoryImport ----------------------------
(***************************************************************************)
(* Bringing history in, disputeshield/migration/importer.py: a file of     *)
(* rows, one transaction.  A row that cannot be read is rejected and       *)
(* counted; anything else that goes wrong ends the import.  Two imports of *)
(* one tenant run at once: inserting a reference the other holds waits for *)
(* its end, and so does the second to append to the audit chain.           *)
(***************************************************************************)
EXTENDS Integers, Sequences, FiniteSets

CONSTANTS
  Importers,
  Files,          (* sequences of rows: the reference as it is stored, how   *)
                  (* opened_at reads and whether a policy can be found       *)
  MaxImports      (* bound: imports begun                                    *)

ASSUME ImportAssumption ==
  /\ MaxImports \in Nat
  /\ \A file \in Files :
       /\ file \in Seq({ file[i] : i \in DOMAIN file })
       /\ \A i \in DOMAIN file : file[i].opened_at \in {"aware", "naive", "unreadable"}

VARIABLES
  imported,       (* committed cases: stored reference -> the batch          *)
  batches,        (* committed ImportBatch rows, with the file they came from *)
  import,         (* the transaction of an importer                          *)
  chain,          (* who holds the tenant's audit chain                      *)
  begun           (* imports begun; also the id of the last batch            *)

importVars == <<imported, batches, import, chain, begun>>

NoImport == [at |-> "idle"]
Free == "free"
NoReference == ""

Row(i) == Head(import[i].left)

(* _import_row refuses it: no reference, no date or no policy and no default. *)
Rejected(row) ==
  \/ row.reference = NoReference
  \/ row.opened_at = "unreadable"
  \/ ~row.policy

(* What an open transaction has inserted and nobody else can see. *)
Uncommitted(i) == IF import[i].at = "idle" THEN {} ELSE import[i].inserted

(* import_csv: the batch row first, its counts still zero. *)
import_csv(i, file) ==
  /\ import[i].at = "idle"
  /\ begun < MaxImports
  /\ begun' = begun + 1
  /\ import' = [import EXCEPT ![i] =
       [at |-> "rows", batch |-> begun + 1, file |-> file, left |-> file,
        inserted |-> {}, cases_imported |-> 0, cases_rejected |-> 0]]
  /\ UNCHANGED <<imported, batches, chain>>

RejectRow(i) ==
  /\ import[i].at = "rows"
  /\ import[i].left # <<>>
  /\ Rejected(Row(i))
  /\ import' = [import EXCEPT ![i].left = Tail(@), ![i].cases_rejected = @ + 1]
  /\ UNCHANGED <<imported, batches, chain, begun>>

(* The clock, stopped, and the case.  Nothing is inserted for a reference    *)
(* that is taken, nor while the other import holds it.                       *)
InsertRow(i) ==
  /\ import[i].at = "rows"
  /\ import[i].left # <<>>
  /\ ~Rejected(Row(i))
  /\ Row(i).opened_at = "aware"
  /\ Row(i).reference \notin DOMAIN imported \cup UNION { Uncommitted(j) : j \in Importers }
  /\ import' = [import EXCEPT ![i].inserted = @ \cup {Row(i).reference}, ![i].at = "append"]
  /\ UNCHANGED <<imported, batches, chain, begun>>

(* audit.append of the row: it takes the chain and keeps it to the commit.   *)
AppendRow(i) ==
  /\ import[i].at = "append"
  /\ chain \in {Free, i}
  /\ chain' = i
  /\ import' = [import EXCEPT ![i].left = Tail(@), ![i].at = "rows",
                              ![i].cases_imported = @ + 1]
  /\ UNCHANGED <<imported, batches, begun>>

(* The counts on the batch row, the audit record and the commit. *)
Complete(i) ==
  /\ import[i].at = "rows"
  /\ import[i].left = <<>>
  /\ chain \in {Free, i}
  /\ imported' = [r \in DOMAIN imported \cup import[i].inserted |->
       IF r \in import[i].inserted THEN import[i].batch ELSE imported[r]]
  /\ batches' = [b \in DOMAIN batches \cup {import[i].batch} |->
       IF b = import[i].batch
       THEN [file |-> import[i].file, cases_imported |-> import[i].cases_imported,
             cases_rejected |-> import[i].cases_rejected]
       ELSE batches[b]]
  /\ import' = [import EXCEPT ![i] = NoImport]
  /\ chain' = Free
  /\ UNCHANGED begun

(* The slip of leaving out transaction.atomic: the rows so far stay.         *)
KeepWhatCameIn(i) ==
  /\ imported' = [r \in DOMAIN imported \cup Uncommitted(i) |->
       IF r \in Uncommitted(i) THEN import[i].batch ELSE imported[r]]
  /\ UNCHANGED batches

Rollback(i) == UNCHANGED <<imported, batches>>

(* Any other exception, or a lost process, rolls the whole import back: a    *)
(* reference that is taken, a date without an offset (_parse asks django's   *)
(* timezone for utc, which Django 5 does not have), two imports that wait    *)
(* for each other.                                                           *)
Fail(i) ==
  /\ import[i].at # "idle"
  /\ Rollback(i)
  /\ import' = [import EXCEPT ![i] = NoImport]
  /\ chain' = IF chain = i THEN Free ELSE chain
  /\ UNCHANGED begun

ImportInit ==
  /\ imported = [r \in {} |-> 0]
  /\ batches = [b \in {} |-> 0]
  /\ import = [i \in Importers |-> NoImport]
  /\ chain = Free
  /\ begun = 0

ImportNext ==
  \E i \in Importers :
    \/ \E file \in Files : import_csv(i, file)
    \/ RejectRow(i)
    \/ InsertRow(i)
    \/ AppendRow(i)
    \/ Complete(i)
    \/ Fail(i)

ImportSpec == ImportInit /\ [][ImportNext]_importVars

-----------------------------------------------------------------------------
(* Properties. *)

(* "so 'this is the file you gave us' is provable", importer.py: an imported *)
(* case belongs to a batch that completed, and a batch accounts for every    *)
(* row of its file, by as many cases as it says and as many rejections,      *)
(* whatever failed half way and whoever imported at the same time.           *)
BatchesTellTheTruth ==
  /\ \A r \in DOMAIN imported :
       /\ imported[r] \in DOMAIN batches
       /\ \E k \in DOMAIN batches[imported[r]].file :
            batches[imported[r]].file[k].reference = r
  /\ \A b \in DOMAIN batches :
       /\ batches[b].cases_imported = Cardinality({ r \in DOMAIN imported : imported[r] = b })
       /\ batches[b].cases_imported + batches[b].cases_rejected = Len(batches[b].file)

=============================================================================
