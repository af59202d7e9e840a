------------------------------- MODULE Advice -------------------------------
(***************************************************************************)
(* Suggestions on a case and what people chose, intelligence/triage.py and *)
(* models/intelligence.py.  A decision writes the row and appends to the   *)
(* audit trail in one transaction; nothing asks whether the suggestion was *)
(* decided before, so two people may decide it at once, from copies.       *)
(***************************************************************************)
EXTENDS Integers, SequencesExt

CONSTANTS
  Deciders,
  CATEGORY_HINTS, (* <<category, hints>> in the order of the table           *)
  Texts,          (* what the text of a case can be read to say: hints, and  *)
                  (* "vulnerable"; nothing, of a sealed description          *)
  SizeBands,      (* "top" for an amount of 10,000,000 minor units or more   *)
  ValuesChosen,        (* values a person can choose                              *)
  MaxSuggestions, (* bound: suggestions proposed                             *)
  MaxDecisions    (* bound: decisions audited                                *)

ASSUME AdviceAssumption ==
  CATEGORY_HINTS \in Seq({ CATEGORY_HINTS[k] : k \in DOMAIN CATEGORY_HINTS })

VARIABLES
  facts,          (* the case: its readable text and its size                *)
  suggestions,    (* Suggestion rows in the order of creation                *)
  decisions,      (* the suggestion.accepted and .overridden audit records   *)
  deciding        (* the transaction of a decider                            *)

adviceVars == <<facts, suggestions, decisions, deciding>>

NoDecision == [at |-> "idle"]
Unchosen == ""

Score(k) == Cardinality(facts.text \cap CATEGORY_HINTS[k][2])

(* _category: the one with the most hints, the first in the table of those,  *)
(* if the text has any hint at all.                                          *)
_category ==
  { [kind |-> "category", value |-> CATEGORY_HINTS[best][1]] :
      best \in { k \in DOMAIN CATEGORY_HINTS :
                   /\ Score(k) > 0
                   /\ \A j \in DOMAIN CATEGORY_HINTS :
                        /\ Score(j) <= Score(k)
                        /\ j < k => Score(j) < Score(k) } }

(* _priority: the top band, or words of a vulnerable customer. *)
_priority ==
  IF facts.size = "top" \/ "vulnerable" \in facts.text
  THEN {[kind |-> "priority", value |-> "high"]} ELSE {}

Pending(proposal) ==
  [kind |-> proposal.kind, value |-> proposal.value,
   disposition |-> "pending", chosen_value |-> Unchosen, decided_by |-> Unchosen]

(* propose: every call adds its rows again. *)
Propose ==
  LET rows == { Pending(p) : p \in _category \cup _priority }
  IN  /\ Len(suggestions) + Cardinality(rows) <= MaxSuggestions
      /\ suggestions' = suggestions \o SetToSeq(rows)
      /\ UNCHANGED <<facts, decisions, deciding>>

Disposition(i, chosen) == IF chosen = suggestions[i].value THEN "accepted" ELSE "overridden"

(* The rows a transaction has written and not committed: nobody else can     *)
(* write them.                                                               *)
Locked == { deciding[p].suggestion : p \in { q \in Deciders : deciding[q].at # "idle" } }

(* The slip of deciding outside a transaction: the save commits at once and  *)
(* holds nothing while the audit record is on its way.                       *)
SaveAndCommit(p, i, chosen) ==
  /\ deciding[p].at = "idle"
  /\ deciding' = [deciding EXCEPT ![p] =
       [at |-> "saved", suggestion |-> i, chosen |-> chosen, was |-> suggestions[i]]]
  /\ suggestions' = [suggestions EXCEPT
       ![i].disposition = Disposition(i, chosen), ![i].chosen_value = chosen, ![i].decided_by = p]
  /\ UNCHANGED <<facts, decisions>>

(* decide: the save, which takes the row. *)
Save(p, i, chosen) ==
  /\ deciding[p].at = "idle"
  /\ i \notin Locked
  /\ deciding' = [deciding EXCEPT ![p] =
       [at |-> "saved", suggestion |-> i, chosen |-> chosen, was |-> suggestions[i]]]
  /\ suggestions' = [suggestions EXCEPT
       ![i].disposition = Disposition(i, chosen), ![i].chosen_value = chosen, ![i].decided_by = p]
  /\ UNCHANGED <<facts, decisions>>

(* Its audit record, and the commit. *)
Record(p) ==
  /\ deciding[p].at = "saved"
  /\ Len(decisions) < MaxDecisions
  /\ decisions' = Append(decisions,
       [suggestion |-> deciding[p].suggestion, actor_id |-> p, chosen |-> deciding[p].chosen,
        event |-> Disposition(deciding[p].suggestion, deciding[p].chosen)])
  /\ deciding' = [deciding EXCEPT ![p] = NoDecision]
  /\ UNCHANGED <<facts, suggestions>>

(* The append fails or the process is lost: the save is undone with it.      *)
Abort(p) ==
  /\ deciding[p].at = "saved"
  /\ suggestions' = [suggestions EXCEPT ![deciding[p].suggestion] = deciding[p].was]
  /\ deciding' = [deciding EXCEPT ![p] = NoDecision]
  /\ UNCHANGED <<facts, decisions>>

(* accuracy: of the committed rows that were decided, how many as proposed;  *)
(* nothing when none was.  The code counts the two in one query after the    *)
(* other; this is what they give when no decision commits between them.      *)
Committed == { i \in DOMAIN suggestions : i \notin Locked }

accuracy ==
  LET decided == { i \in Committed : suggestions[i].disposition \in {"accepted", "overridden"} }
      accepted == { i \in decided : suggestions[i].disposition = "accepted" }
  IN  IF decided = {} THEN {} ELSE {<<Cardinality(accepted), Cardinality(decided)>>}

AdviceInit ==
  /\ facts \in [text : Texts, size : SizeBands]
  /\ suggestions = <<>>
  /\ decisions = <<>>
  /\ deciding = [p \in Deciders |-> NoDecision]

AdviceNext ==
  \/ Propose
  \/ \E p \in Deciders :
       \/ \E i \in DOMAIN suggestions, chosen \in ValuesChosen : Save(p, i, chosen)
       \/ Record(p)
       \/ Abort(p)

AdviceSpec == AdviceInit /\ [][AdviceNext]_adviceVars

-----------------------------------------------------------------------------
(* Properties. *)

LastDecisionOn(i) ==
  LET of == { k \in DOMAIN decisions : decisions[k].suggestion = i }
  IN  IF of = {} THEN {} ELSE { decisions[CHOOSE k \in of : \A j \in of : j <= k] }

(* "The difference is the accuracy signal", triage.py: the disposition a row *)
(* shows is the last decision the audit trail has of it, and the accuracy,   *)
(* read while nobody decides, counts a suggestion once however often and by  *)
(* however many it was decided.                                              *)
RowsShowTheLastDecision ==
  /\ \A i \in Committed :
       IF LastDecisionOn(i) = {} THEN suggestions[i].disposition = "pending"
       ELSE \A d \in LastDecisionOn(i) :
              /\ suggestions[i].disposition = d.event
              /\ suggestions[i].decided_by = d.actor_id
              /\ suggestions[i].chosen_value = d.chosen
  /\ Locked = {} => \A score \in accuracy :
       /\ score[2] = Cardinality({ d.suggestion : d \in Range(decisions) })
       /\ score[1] = Cardinality({ i \in DOMAIN suggestions :
                                     \E d \in LastDecisionOn(i) : d.event = "accepted" })

=============================================================================
