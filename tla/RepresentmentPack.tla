-------------------------- MODULE RepresentmentPack --------------------------
(***************************************************************************)
(* The evidence of one representment and the packs made of it.             *)
(*   disputeshield/disputes/representment.py, models/scheme.py             *)
(* A call decides by the object its request has loaded, writes the columns *)
(* it names and appends an audit record, in one transaction of its own; an *)
(* object may be used for several calls.  Opening the representment, and   *)
(* its rows on the case's clock, are in CaseClock.                         *)
(***************************************************************************)
EXTENDS Integers, FiniteSets

CONSTANTS
  EvidenceKeys,   (* the keys of the reason code's evidence_requirements     *)
  RequiredKeys,   (* those that are required                                 *)
  Advocates,      (* requests working on the pack                            *)
  MaxAttached     (* bound: pieces of evidence attached                      *)

ASSUME PackAssumption == RequiredKeys \subseteq EvidenceKeys

VARIABLES
  evidence,       (* of the row: what has been attached under each key       *)
  pack_status,
  loaded,         (* of each request, the evidence of the object it holds    *)
  packs,          (* packs handed to the fintech: the evidence in each       *)
  attachments     (* history: what the row's evidence has been, so far       *)

packVars == <<evidence, pack_status, loaded, packs, attachments>>

PackStatuses == {"gathering", "ready", "exported", "recorded_submitted"}

(* A piece of evidence is "given", or a value that counts as none: "empty".  *)
Evidence == [EvidenceKeys -> {"none", "empty", "given"}]

NotLoaded == [k \in EvidenceKeys |-> "unknown"]

missing_evidence(e) == { k \in RequiredKeys : e[k] # "given" }

(* A request reads the row, again if it likes.  An exception ends it. *)
Load(r) ==
  /\ loaded' = [loaded EXCEPT ![r] = evidence]
  /\ UNCHANGED <<evidence, pack_status, packs, attachments>>

(* Mutant of attach_evidence: the key is merged into the stored column, and  *)
(* the status still judged by the object.                                   *)
MergedInTheDatabase(r, key, value) ==
  /\ loaded[r] # NotLoaded
  /\ Cardinality(attachments) <= MaxAttached
  /\ LET merged == [loaded[r] EXCEPT ![key] = value]
     IN  /\ evidence' = [evidence EXCEPT ![key] = value]
         /\ loaded' = [loaded EXCEPT ![r] = merged]
         /\ pack_status' = IF missing_evidence(merged) = {} THEN "ready" ELSE "gathering"
  /\ attachments' = attachments \cup {evidence'}
  /\ UNCHANGED packs

(* The key merged into the object's evidence, and both columns written from  *)
(* the object, over whatever they have become.                              *)
attach_evidence(r, key, value) ==
  /\ loaded[r] # NotLoaded
  /\ Cardinality(attachments) <= MaxAttached
  /\ LET merged == [loaded[r] EXCEPT ![key] = value]
     IN  /\ evidence' = merged
         /\ loaded' = [loaded EXCEPT ![r] = merged]
         /\ pack_status' = IF missing_evidence(merged) = {} THEN "ready" ELSE "gathering"
  /\ attachments' = attachments \cup {evidence'}
  /\ UNCHANGED packs

(* The pack is made of the object's evidence and the row only marked.        *)
build_pack(r) ==
  /\ loaded[r] # NotLoaded
  /\ missing_evidence(loaded[r]) = {}
  /\ packs' = packs \cup {loaded[r]}
  /\ pack_status' = "exported"
  /\ UNCHANGED <<evidence, loaded, attachments>>

(* What the fintech says it did; no pack need have been exported.            *)
record_submission(r) ==
  /\ loaded[r] # NotLoaded
  /\ pack_status' = "recorded_submitted"
  /\ UNCHANGED <<evidence, loaded, packs, attachments>>

PackInit ==
  /\ evidence = [k \in EvidenceKeys |-> "none"]
  /\ pack_status = "gathering"
  /\ loaded = [r \in Advocates |-> NotLoaded]
  /\ packs = {}
  /\ attachments = {evidence}

PackNext ==
  \E r \in Advocates :
    \/ Load(r)
    \/ \E key \in EvidenceKeys, value \in {"empty", "given"} : attach_evidence(r, key, value)
    \/ build_pack(r)
    \/ record_submission(r)

PackSpec == PackInit /\ [][PackNext]_packVars

-----------------------------------------------------------------------------
(* Properties. *)

(* Every variable keeps its type. *)
PackTypeOK ==
  /\ evidence \in Evidence
  /\ pack_status \in PackStatuses
  /\ loaded \in [Advocates -> Evidence \cup {NotLoaded}]
  /\ packs \subseteq Evidence
  /\ attachments \subseteq Evidence

(* "Exporting an incomplete pack is the expensive failure", representment.py *)
(* line 174: however many requests work on stale copies, a pack that leaves  *)
(* has every required element and is evidence the row held at one time, not  *)
(* a mixture; and a row that says it is ready, or still gathering, says so   *)
(* of the evidence it has.                                                  *)
PacksAreWhole ==
  /\ \A p \in packs : missing_evidence(p) = {} /\ p \in attachments
  /\ pack_status = "ready" => missing_evidence(evidence) = {}
  /\ pack_status = "gathering" /\ missing_evidence(evidence) = {} => RequiredKeys = {}

=============================================================================
