---------------------------- MODULE AttachmentScans ----------------------------
(***************************************************************************)
(* Attachments from upload to download: attachments/service.py,            *)
(* attachments/scanning.py, attachments/tasks.py and the download view.    *)
(*                                                                         *)
(* The attachment table is under row level security (migrations 0003 and   *)
(* 0012, FORCE): a statement sees the rows of the tenant its transaction   *)
(* has named and, when it has named none, sees no row.  The scan task      *)
(* reads its attachment before it names the tenant.                        *)
(***************************************************************************)
EXTENDS Integers

CONSTANTS
  Attachments,
  Verdicts,        (* what the configured scanner may say of a file          *)
  Scanners,        (* scans that may overlap                                 *)
  Readers          (* download requests                                      *)

ASSUME ScansAssumption == Verdicts \subseteq {"clean", "infected", "failed"}

VARIABLES
  status,          (* scan_status, "none" for no row                         *)
  stored,          (* files in storage                                       *)
  queued,          (* scan tasks with the broker                             *)
  scanning,        (* of each scan, the attachment it has read and a verdict *)
  linked,          (* attachments with an unexpired signed link              *)
  reading,         (* of each reader, the row it has read                    *)
  served,          (* attachments whose content has left                     *)
  cleared          (* history: attachments once stored as clean              *)

scansVars == <<status, stored, queued, scanning, linked, reading, served, cleared>>

Statuses == {"none", "pending", "clean", "infected", "failed"}

NoScan == [of |-> "", verdict |-> ""]
NoRow == [of |-> "", status |-> ""]

(* Row level security: a transaction that has named the tenant sees its rows. *)
Visible(context, a) == context = "tenant" /\ status[a] # "none"

(* upload, and inspect that it passed.  The file is written inside the       *)
(* transaction; the task is queued when it has committed.                   *)
Upload(a) ==
  /\ status[a] = "none"
  /\ status' = [status EXCEPT ![a] = "pending"]
  /\ stored' = stored \cup {a}
  /\ queued' = queued \cup {a}
  /\ UNCHANGED <<scanning, linked, reading, served, cleared>>

(* The transaction of upload rolls back after storage.put. *)
UploadFails(a) ==
  /\ status[a] = "none" /\ a \notin stored
  /\ stored' = stored \cup {a}
  /\ UNCHANGED <<status, queued, scanning, linked, reading, served, cleared>>

(* scan_attachment up to the verdict, called where the session has `context`. *)
BeginScan(s, a, context) ==
  /\ scanning[s] = NoScan
  /\ Visible(context, a) /\ a \in stored
  /\ \E v \in Verdicts : scanning' = [scanning EXCEPT ![s] = [of |-> a, verdict |-> v]]
  /\ UNCHANGED <<status, stored, linked, reading, served, cleared>>

(* tasks.scan in a worker, which has named no tenant: the row it looks for   *)
(* is not there, get() raises, and the task is not tried again.             *)
RunTask(a) ==
  /\ a \in queued
  /\ ~Visible("none", a)
  /\ queued' = queued \ {a}
  /\ UNCHANGED <<status, stored, scanning, linked, reading, served, cleared>>

(* scan_attachment where a tenant has been named: upload with scan_now, an   *)
(* operator's re-scan.                                                      *)
ScanInContext(s, a) == BeginScan(s, a, "tenant") /\ UNCHANGED queued

(* The verdict replaces whatever is stored. *)
CommitScan(s) ==
  /\ scanning[s] # NoScan
  /\ status' = [status EXCEPT ![scanning[s].of] = scanning[s].verdict]
  /\ scanning' = [scanning EXCEPT ![s] = NoScan]
  /\ cleared' = IF scanning[s].verdict = "clean" THEN cleared \cup {scanning[s].of}
                ELSE cleared
  /\ UNCHANGED <<stored, queued, linked, reading, served>>

(* storage.get or the scanner raises. *)
ScanFails(s) ==
  /\ scanning[s] # NoScan
  /\ scanning' = [scanning EXCEPT ![s] = NoScan]
  /\ UNCHANGED <<status, stored, queued, linked, reading, served, cleared>>

(* download_url looks at no verdict. *)
Sign(a) ==
  /\ status[a] # "none" /\ a \notin linked
  /\ linked' = linked \cup {a}
  /\ UNCHANGED <<status, stored, queued, scanning, reading, served, cleared>>

Expire(a) ==
  /\ a \in linked
  /\ linked' = linked \ {a}
  /\ UNCHANGED <<status, stored, queued, scanning, reading, served, cleared>>

(* Mutant of Retrievable: anything that is not infected. *)
RetrievableUnlessInfected(word) == word # "infected"

(* is_retrievable *)
Retrievable(word) == word = "clean"

(* AttachmentDownloadView.get: the signature, then the row. *)
Open(r, a) ==
  /\ reading[r] = NoRow
  /\ a \in linked
  /\ Retrievable(status[a])
  /\ reading' = [reading EXCEPT ![r] = [of |-> a, status |-> status[a]]]
  /\ UNCHANGED <<status, stored, queued, scanning, linked, served, cleared>>

(* service.retrieve judges the row it was given, and reads the file. *)
Serve(r) ==
  /\ reading[r] # NoRow
  /\ Retrievable(reading[r].status) /\ reading[r].of \in stored
  /\ served' = served \cup {reading[r].of}
  /\ reading' = [reading EXCEPT ![r] = NoRow]
  /\ UNCHANGED <<status, stored, queued, scanning, linked, cleared>>

ScansInit ==
  /\ status = [a \in Attachments |-> "none"]
  /\ stored = {} /\ queued = {} /\ linked = {} /\ served = {} /\ cleared = {}
  /\ scanning = [s \in Scanners |-> NoScan]
  /\ reading = [r \in Readers |-> NoRow]

ScansNext ==
  \/ \E a \in Attachments : Upload(a) \/ UploadFails(a) \/ RunTask(a) \/ Sign(a) \/ Expire(a)
  \/ \E s \in Scanners :
       CommitScan(s) \/ ScanFails(s) \/ \E a \in Attachments : ScanInContext(s, a)
  \/ \E r \in Readers : Serve(r) \/ \E a \in Attachments : Open(r, a)

ScansSpec == ScansInit /\ [][ScansNext]_scansVars

-----------------------------------------------------------------------------
(* Properties. *)

(* Every variable keeps its type. *)
ScansTypeOK ==
  /\ status \in [Attachments -> Statuses]
  /\ stored \subseteq Attachments /\ queued \subseteq Attachments
  /\ scanning \in [Scanners -> {NoScan} \cup [of : Attachments, verdict : Verdicts]]
  /\ linked \subseteq Attachments
  /\ reading \in [Readers -> {NoRow} \cup [of : Attachments, status : Statuses]]
  /\ served \subseteq Attachments /\ cleared \subseteq Attachments

(* Content leaves only of an attachment that a scan has found clean and      *)
(* said so in a committed verdict, whatever links were signed before and     *)
(* whatever scans overlap the download.                                     *)
OnlyClearedLeaves == served \subseteq cleared

=============================================================================
