-------------------------- MODULE RegulatoryReturns --------------------------
(***************************************************************************)
(* Periodic returns over the Casebook, reports/returns.py and              *)
(* models/returns.py.  A template version is an ordered list of sources of *)
(* the closed registry, each with its filter.  A return is counted source  *)
(* by source, a query each and no transaction, while casework goes on.     *)
(***************************************************************************)
EXTENDS Casebook, SequencesExt

CONSTANTS
  Templates,      (* the lists of <<source, filter>> a version can have      *)
  People,         (* who generates and approves                              *)
  MaxVersions,    (* bound: versions of the template                         *)
  MaxReturns      (* bound: returns created                                  *)

ASSUME ReturnsAssumption ==
  \A rows \in Templates : rows \in Seq({ rows[k] : k \in DOMAIN rows })

VARIABLES
  template,       (* ReturnTemplate versions of one code, oldest first       *)
  returns,        (* RegulatoryReturn rows in the order of creation          *)
  counting        (* what the generate a person called has so far            *)

returnsVars == <<bookVars, template, returns, counting>>

NotCounting == [at |-> "idle"]

_cases(period) ==
  { c \in Filed : period[1] <= book[c].submitted_at /\ book[c].submitted_at < period[2] }

(* SOURCES: the registry, by the cases of the period each one counts. *)
SOURCES ==
  {"cases_received", "cases_resolved", "cases_breached", "cases_outstanding",
   "cases_by_category", "cases_by_outcome", "escalated_externally", "upheld_externally"}

Counted(source, filter, c) ==
  CASE source = "cases_received" -> TRUE
    [] source = "cases_resolved" -> book[c].resolved_at # Undated
    [] source = "cases_breached" -> book[c].breached
    [] source = "cases_outstanding" -> book[c].status \notin {"closed", "auto_closed", "resolved"}
    [] source = "cases_by_category" -> book[c].category = filter
    [] source = "cases_by_outcome" -> book[c].outcome = filter
    [] source = "escalated_externally" -> book[c].tracks # {}
    [] source = "upheld_externally" -> "upheld" \in book[c].tracks

Value(row, period) == Cardinality({ c \in _cases(period) : Counted(row[1], row[2], c) })

validate_template(rows) == { rows[i][1] : i \in DOMAIN rows } \ SOURCES

(* A revision is version n+1; save() refuses to change a version that exists.*)
Revise(rows) ==
  /\ Len(template) < MaxVersions
  /\ template' = Append(template, rows)
  /\ UNCHANGED <<bookVars, returns, counting>>

(* generate: a template asking for a source the registry does not have is    *)
(* refused before anything is counted.                                       *)
generate(person, version, period) ==
  /\ counting[person].at = "idle"
  /\ Len(returns) < MaxReturns
  /\ validate_template(template[version]) = {}
  /\ counting' = [counting EXCEPT ![person] =
       [at |-> "counting", version |-> version, period |-> period, rows |-> <<>>]]
  /\ UNCHANGED <<bookVars, template, returns>>

Count(person) ==
  LET draft == counting[person]
  IN  /\ draft.at = "counting"
      /\ Len(draft.rows) < Len(template[draft.version])
      /\ counting' = [counting EXCEPT ![person].rows =
           Append(@, Value(template[draft.version][Len(@) + 1], draft.period))]
      /\ UNCHANGED <<bookVars, template, returns>>

Create(person) ==
  LET draft == counting[person]
  IN  /\ draft.at = "counting"
      /\ Len(draft.rows) = Len(template[draft.version])
      /\ Len(returns) < MaxReturns
      /\ returns' = Append(returns,
           [version |-> draft.version, period |-> draft.period, rows |-> draft.rows,
            status |-> "draft", generated_by |-> person, generated_at |-> today])
      /\ counting' = [counting EXCEPT ![person] = NotCounting]
      /\ UNCHANGED <<bookVars, template>>

(* The slip of reading the latest version of the template instead. *)
RegenerateUnderTheLatest(i) ==
  LET rows == template[Len(template)]
  IN  [k \in DOMAIN rows |-> Value(rows[k], returns[i].period)]

(* regenerate, under the version the return was filed with. *)
regenerate(i) ==
  LET rows == template[returns[i].version]
  IN  [k \in DOMAIN rows |-> Value(rows[k], returns[i].period)]

(* approve: once, by somebody else. *)
Approve(i, person) ==
  /\ i \in DOMAIN returns
  /\ person # returns[i].generated_by
  /\ returns[i].status # "approved"
  /\ returns' = [returns EXCEPT ![i].status = "approved"]
  /\ UNCHANGED <<bookVars, template, counting>>

ReturnsInit ==
  /\ template \in { <<rows>> : rows \in Templates }
  /\ returns = <<>>
  /\ counting = [p \in People |-> NotCounting]

ReturnsNext ==
  \/ Casework /\ UNCHANGED <<template, returns, counting>>
  \/ \E rows \in Templates : Revise(rows)
  \/ \E p \in People :
       \/ \E version \in DOMAIN template, period \in Periods : generate(p, version, period)
       \/ Count(p)
       \/ Create(p)
       \/ \E i \in DOMAIN returns : Approve(i, p)

ReturnsSpec == BookInit /\ ReturnsInit /\ [][ReturnsNext]_returnsVars

-----------------------------------------------------------------------------
(* Properties. *)

(* The figures casework can only add to: nothing un-files a case, changes    *)
(* its category, takes back that it was resolved once or closes the record   *)
(* of an external body.                                                      *)
GROWING == {"cases_received", "cases_resolved", "cases_by_category", "escalated_externally"}

(* "a return regenerated under this year's template would silently disagree  *)
(* with the document the supervisor holds", returns.py:12.  It may disagree, *)
(* but only by what has come since: row for row under the version it was     *)
(* filed with, of the figures casework only adds to none was overstated,     *)
(* though each was counted at another moment, versions were published and    *)
(* casework went on before, while and after it was counted.                  *)
NothingFiledWasOverstated ==
  \A i \in DOMAIN returns :
    LET now == regenerate(i)
    IN  /\ DOMAIN now = DOMAIN returns[i].rows
        /\ \A k \in DOMAIN now :
             template[returns[i].version][k][1] \in GROWING => returns[i].rows[k] <= now[k]

(* VIOLATED.  "so a return filed last year still regenerates as it was       *)
(* filed", models/returns.py:66: the template is pinned, the cases are not.  *)
(* An approved return that does regenerate, generated when its period was    *)
(* over, stops doing so when a case of the period is imported, reopened,     *)
(* decided again or determined outside.                                      *)
Regenerates(i) ==
  /\ i \in DOMAIN returns
  /\ returns[i].status = "approved" /\ returns[i].generated_at >= returns[i].period[2]
  /\ regenerate(i) = returns[i].rows

FiledReturnsRegenerate ==
  [][\A i \in DOMAIN returns : Regenerates(i) => Regenerates(i)']_returnsVars

=============================================================================
