---------------------------- MODULE PolicyVersions ----------------------------
(***************************************************************************)
(* The terms of one SLA policy and the compliance officers who publish     *)
(* them: disputeshield/sla/policies.py and api/views_policies.py.  Nothing *)
(* is edited in place: a POST or a PATCH publishes version n+1.  The first *)
(* version may come from management/commands/disputeshield_init.py.        *)
(*                                                                         *)
(* A request reads the version in force when it arrives (a PATCH, to fill  *)
(* in what it does not name), again inside the publishing transaction, and *)
(* then inserts; requests interleave between those statements.             *)
(*                                                                         *)
(* Terms are numbers.  A field that must be positive is refused at 0; for  *)
(* the others 0 is the default they take when a POST leaves them out, or a  *)
(* request names them with a null.                                         *)
(***************************************************************************)
EXTENDS Integers, FiniteSets

CONSTANTS
  Officers,      (* compliance officers, one request each at a time          *)
  Positive,      (* fields validate() wants to be at least 1                  *)
  Emptied,       (* fields validate() empties when left out: the thresholds   *)
  Kept,          (* fields left as they were: business hours, the reference   *)
  Values,        (* values a request may give a field                         *)
  Bodies,        (* the terms requests carry, and the calendar they name      *)
  Calendars,     (* the tenant's business calendars, in the order of their id *)
  Seeded         (* the terms disputeshield_init gives the policy             *)

ASSUME PolicyTermsAssumption ==
  /\ Values \in SUBSET Nat /\ 0 \in Values
  /\ Bodies \in SUBSET ([Positive \cup Emptied \cup Kept -> Values \cup {-1, -2}]
                        \X (Calendars \cup {-1}))
  /\ Seeded \in [Positive \cup Emptied \cup Kept -> Values]
  /\ Calendars \in SUBSET Nat

VARIABLES
  versions,       (* the SLAPolicyVersions of the policy                      *)
  publications,   (* the sla_policy.published audit records, with what the    *)
                  (* request named and the version it started from            *)
  requests        (* what each officer's request is doing                     *)

policyVars == <<versions, publications, requests>>

TERMS == Positive \cup Emptied \cup Kept

(* A field that a body leaves out, one it names with a null, and no calendar *)
(* in it.                                                                   *)
Unnamed == -1
Null == -2
NoCalendar == -1

Idle == [step |-> "idle"]

(* current_version: the latest, as a set with nothing or one record in it. *)
current_version == { v \in versions : \A w \in versions : w.version <= v.version }

Number(vs) == IF vs = {} THEN 0 ELSE (CHOOSE v \in vs : TRUE).version

-----------------------------------------------------------------------------

(* validate: a field that must be positive is 0 when it is missing, and the   *)
(* request raises when it is null; missing or null thresholds become none.   *)
Valid(terms) == \A field \in Positive : terms[field] >= 1

Cleaned(terms) ==
  [field \in TERMS |->
     IF field \in Emptied /\ terms[field] \in {Unnamed, Null} THEN 0 ELSE terms[field]]

(* diff, as [field |-> <<before, after>>] over what changed: a null differs   *)
(* from whatever the version before has.                                     *)
diff(previous, terms) ==
  LET before(field) == IF previous = {} THEN Null
                       ELSE (CHOOSE v \in previous : TRUE).terms[field]
      after(field) == IF terms[field] = Unnamed THEN before(field) ELSE terms[field]
  IN  [field \in { f \in TERMS : before(f) # after(f) } |-> <<before(field), after(field)>>]

(* The slip the comment in patch() warns of: the sparse body is published. *)
Sparse(body) ==
  [field \in TERMS |->
     IF body[field] # Unnamed \/ field \notin Positive \/ versions = {} THEN body[field]
     ELSE (CHOOSE v \in current_version : TRUE).terms[field]]

(* What a PATCH publishes: its own fields over those of the version in force. *)
Merged(body) ==
  [field \in TERMS |->
     IF body[field] # Unnamed \/ versions = {} THEN body[field]
     ELSE (CHOOSE v \in current_version : TRUE).terms[field]]

(* A request arrives: an invalid one is answered with 400 and forgotten.      *)
Arrive(officer, verb, body, terms, calendar) ==
  /\ requests[officer] = Idle
  /\ Valid(terms)
  /\ requests' = [requests EXCEPT ![officer] =
       [step |-> "validated", verb |-> verb, terms |-> Cleaned(terms), calendar |-> calendar,
        named |-> { f \in TERMS : body[f] # Unnamed }, base |-> Number(current_version)]]
  /\ UNCHANGED <<versions, publications>>

post(officer, body, calendar) == Arrive(officer, "post", body, body, calendar)

patch(officer, body, calendar) ==
  /\ versions # {}
  /\ Arrive(officer, "patch", body, Merged(body), calendar)

(* publish, inside its transaction: the version before, the calendar, and     *)
(* what changed.  Nothing changed publishes nothing; a tenant without a       *)
(* calendar cannot publish.                                                  *)
ReadPrevious(officer) ==
  LET r == requests[officer]
      previous == current_version
      calendar == IF r.calendar # NoCalendar THEN {r.calendar}
                  ELSE IF previous # {} THEN { v.calendar : v \in previous }
                  ELSE { c \in Calendars : \A d \in Calendars : c <= d }
      changed == diff(previous, r.terms)
      unchanged == /\ previous # {} /\ DOMAIN changed = {}
                   /\ calendar = { v.calendar : v \in previous }
  IN  /\ r.step = "validated"
      /\ requests' = [requests EXCEPT ![officer] =
           IF calendar = {} \/ unchanged THEN Idle
           ELSE [step |-> "read", terms |-> r.terms, calendar |-> CHOOSE c \in calendar : TRUE,
                 verb |-> r.verb, named |-> r.named, base |-> r.base,
                 changed |-> changed, previous |-> previous]]
      /\ UNCHANGED <<versions, publications>>

(* A null is left out of the row to insert, and the column has its default. *)
Stored(value) == IF value = Null THEN 0 ELSE value

(* The version a request that has read its previous one would insert. *)
Successor(officer) ==
  LET r == requests[officer]
      carried(field) == IF r.previous = {} THEN 0
                        ELSE (CHOOSE v \in r.previous : TRUE).terms[field]
  IN  [version |-> Number(r.previous) + 1, calendar |-> r.calendar, created_by |-> "officer",
       terms |-> [field \in TERMS |->
                    IF r.terms[field] = Unnamed THEN carried(field) ELSE Stored(r.terms[field])]]

Published(officer) ==
  LET r == requests[officer] IN
    [version |-> Number(r.previous) + 1, changed |-> r.changed,
     verb |-> r.verb, named |-> r.named, base |-> r.base]

(* The slip without uniq_version_per_policy: the row goes in all the same. *)
InsertTwice(officer) ==
  /\ requests[officer].step = "read"
  /\ requests' = [requests EXCEPT ![officer] = Idle]
  /\ versions' = versions \cup {Successor(officer)}
  /\ publications' = publications \cup {Published(officer)}

(* The insert and its audit record, committed together.  When another request *)
(* has taken the number the database refuses it and all of it is rolled back. *)
Insert(officer) ==
  /\ requests[officer].step = "read"
  /\ requests' = [requests EXCEPT ![officer] = Idle]
  /\ IF \E v \in versions : v.version = Successor(officer).version
     THEN UNCHANGED <<versions, publications>>
     ELSE /\ versions' = versions \cup {Successor(officer)}
          /\ publications' = publications \cup {Published(officer)}

(* The init command gives a policy without a version its first one, by       *)
(* nobody, and appends no record of it.                                     *)
Initialise(calendar) ==
  /\ versions = {}
  /\ versions' =
       {[version |-> 1, calendar |-> calendar, created_by |-> "nobody", terms |-> Seeded]}
  /\ UNCHANGED <<publications, requests>>

-----------------------------------------------------------------------------

PolicyInit ==
  /\ versions = {}
  /\ publications = {}
  /\ requests = [officer \in Officers |-> Idle]

PolicyNext ==
  \/ \E officer \in Officers :
       \/ \E body \in Bodies :
            post(officer, body[1], body[2]) \/ patch(officer, body[1], body[2])
       \/ ReadPrevious(officer)
       \/ Insert(officer)
  \/ \E calendar \in Calendars : Initialise(calendar)

PolicySpec == PolicyInit /\ [][PolicyNext]_policyVars

-----------------------------------------------------------------------------
(* Properties. *)

(* However publications overlap, with one another and with the init command, *)
(* the numbers run 1..n; each version that was published has one record, and *)
(* only the first can be without one; and what a version says is the version *)
(* before with the changes of its record, a null standing for the default.   *)
HistoryExplainsEveryVersion ==
  LET published == { v \in versions : v.created_by # "nobody" } IN
  /\ { v.version : v \in versions } = 1 .. Cardinality(versions)
  /\ { v.version : v \in versions \ published } \subseteq {1}
  /\ { p.version : p \in publications } = { v.version : v \in published }
  /\ Cardinality(publications) = Cardinality(published)
  /\ \A v, w \in versions, p \in publications :
       p.version = w.version /\ w.version = v.version + 1 =>
         \A f \in TERMS :
           IF f \in DOMAIN p.changed
           THEN p.changed[f][1] = v.terms[f] /\ Stored(p.changed[f][2]) = w.terms[f]
           ELSE w.terms[f] = v.terms[f]

(* "the rest is carried forward from the version in force",                  *)
(* views_policies.py:91.  A PATCH reads that version before the publishing    *)
(* transaction, so a field it does not name can go back to an older value;    *)
(* that takes another publication in between.                                *)
RevertsNeedAnOverlap ==
  \A p \in publications, v, w \in versions :
    p.verb = "patch" /\ p.version = w.version /\ w.version = v.version + 1 =>
      \A f \in TERMS \ p.named : w.terms[f] # v.terms[f] => p.base < v.version

=============================================================================
