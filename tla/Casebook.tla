------------------------------- MODULE Casebook -------------------------------
(***************************************************************************)
(* The cases as the back office counts them: what filing, the transition   *)
(* table, a decision and an external body leave on a Dispute row.  The     *)
(* back-office modules (QualityReviews, RegulatoryReturns, Exposure) read  *)
(* these rows while the casework below goes on; clocks are in CaseClock.   *)
(*   disputeshield/disputes/service.py, disputes/escalation.py             *)
(***************************************************************************)
EXTENDS DisputeStates, Integers, FiniteSets

CONSTANTS
  Cases,          (* the cases there can be                                  *)
  Filings,        (* <<amount_minor, category>> a case can be filed with     *)
  Decisions,      (* <<outcome, refund_amount_minor>> a resolution records   *)
  Determinations, (* what an external body can decide                        *)
  Periods,        (* <<from, to>> in days: what the back office reports on   *)
  Targets,        (* bound: statuses the transitions explored lead to        *)
  LastDay         (* bound: the last day                                     *)

ASSUME CasebookAssumption ==
  /\ \A filing \in Filings : filing[1] \in Nat
  /\ \A decision \in Decisions : decision[2] \in Int
  /\ LastDay \in Nat

VARIABLES
  today,
  book            (* the filed cases: a function from them to their rows     *)

bookVars == <<today, book>>

Undated == -1       (* a null date *)
NoRefund == -1      (* a null refund_amount_minor *)
Undecided == ""     (* the outcome of a case that has none *)

Filed == DOMAIN book

(* file_dispute: the service and an import take any submitted_at, one that   *)
(* has not come yet included (service.py:90, importer.py:110).               *)
File(c, day, amount, category) ==
  /\ c \notin Filed
  /\ book' = [x \in Filed \cup {c} |->
       IF x = c
       THEN [status |-> "submitted", submitted_at |-> day, resolved_at |-> Undated,
             amount |-> amount, category |-> category, outcome |-> Undecided,
             refund |-> NoRefund, breached |-> FALSE, tracks |-> {}]
       ELSE book[x]]
  /\ UNCHANGED today

OpenTracks(c) == "open" \in book[c].tracks

(* transition: any move of the table, a terminal one only when no external   *)
(* track is open.  On its own it records no resolution.                      *)
Move(c, to) ==
  /\ c \in Filed
  /\ Find(book[c].status, to) # {}
  /\ to \in TERMINAL => ~OpenTracks(c)
  /\ book' = [book EXCEPT ![c].status = to]
  /\ UNCHANGED today

(* resolve: the outcome, the refund promised and the day, then the move.     *)
(* A case decided again after a reopening gets the new ones.                 *)
Resolve(c, outcome, refund) ==
  /\ c \in Filed
  /\ Find(book[c].status, "resolved") # {}
  /\ book' = [book EXCEPT ![c].status = "resolved", ![c].outcome = outcome,
                          ![c].refund = refund, ![c].resolved_at = today]
  /\ UNCHANGED today

(* open_track and close_track, at any status: one track per case here, open  *)
(* or determined.  A determination never touches the outcome, and a track    *)
(* that has one can be given another.                                        *)
OpenTrack(c) ==
  /\ c \in Filed
  /\ book[c].tracks = {}
  /\ book' = [book EXCEPT ![c].tracks = {"open"}]
  /\ UNCHANGED today

CloseTrack(c, determination) ==
  /\ c \in Filed
  /\ book[c].tracks # {}
  /\ book' = [book EXCEPT ![c].tracks = {determination}]
  /\ UNCHANGED today

NewDay == today < LastDay /\ today' = today + 1 /\ UNCHANGED book

BookInit == today = 0 /\ book = [c \in {} |-> 0]

Casework ==
  \/ \E c \in Cases, day \in 0 .. LastDay, filing \in Filings : File(c, day, filing[1], filing[2])
  \/ \E c \in Cases, to \in Targets : Move(c, to)
  \/ \E c \in Cases, decision \in Decisions : Resolve(c, decision[1], decision[2])
  \/ \E c \in Cases : OpenTrack(c)
  \/ \E c \in Cases, determination \in Determinations : CloseTrack(c, determination)
  \/ NewDay

=============================================================================
