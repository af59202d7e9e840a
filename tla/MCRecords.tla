------------------------------- MODULE MCRecords -------------------------------
(***************************************************************************)
(* What is kept about a customer: content under keys and holds, texts kept *)
(* in plain, and attachments under scans; and the pack of a representment. *)
(* `scenario`, chosen at the start, says which of them moves.              *)
(***************************************************************************)
EXTENDS CustomerRecords, AttachmentScans, RepresentmentPack

VARIABLE scenario

allVars == <<recordsVars, scansVars, packVars, scenario>>

(* A hold of each scope that reaches ann through a case of hers, or directly. *)
MCHolds ==
  { [scope |-> "dispute", of |-> "k1"], [scope |-> "category", of |-> "fraud"],
    [scope |-> "period", of |-> "may"], [scope |-> "customer", of |-> "ann"] }

(* Bounds of the run: one hold, two pieces of content, erasers that are      *)
(* after ann; k1 is a case of hers.  Imports, and messages that come in,     *)
(* have a scenario of their own, without holds and with sealing on.         *)
Within ==
  /\ Cardinality(placed') <= 1 /\ Cardinality(content') <= 2
  /\ \A e \in Erasers : eraser'[e].stage # "idle" => eraser'[e].customer = "ann"
  /\ \A w \in Writers :
       writer'[w].busy /\ writer'[w].item.case = "k1" => writer'[w].row.customer = "ann"
  /\ IF scenario = "records"
     THEN plain' = {} /\ \A w \in Writers : writer'[w].busy => ~writer'[w].routed
     ELSE placed' = {} /\ ~everOff' /\ Cardinality(content') <= 1

RecordsMove ==
  /\ scenario \in {"records", "plain"} /\ RecordsNext /\ Within
  /\ UNCHANGED <<scansVars, packVars, scenario>>

ScansMove == scenario = "scans" /\ ScansNext /\ UNCHANGED <<recordsVars, packVars, scenario>>

PackMove == scenario = "pack" /\ PackNext /\ UNCHANGED <<recordsVars, scansVars, scenario>>

MCInit == RecordsInit /\ ScansInit /\ PackInit /\ scenario \in {"records", "plain", "scans", "pack"}

MCNext == RecordsMove \/ ScansMove \/ PackMove

MCSpec == MCInit /\ [][MCNext]_allVars

=============================================================================
