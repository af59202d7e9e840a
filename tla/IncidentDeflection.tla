-------------------------- MODULE IncidentDeflection --------------------------
(***************************************************************************)
(* What a customer is offered before filing: a declared incident that      *)
(* covers the complaint, and "notify me" instead of a case.  The count of  *)
(* deflections is taken from the audit trail.                              *)
(***************************************************************************)
EXTENDS Naturals, Sequences, FiniteSets

CONSTANTS
  Incidents,   \* incidents the tenant may declare, each as what it matches
  Customers,   \* customers with a session
  Complaints,  \* what a customer is about to complain of
  Browsers     \* deflection requests being served

VARIABLES
  incidents,      \* the status of each incident
  subscriptions,  \* IncidentSubscription rows
  trail,          \* intake.deflected audit records, as <<incident, customer>>
  browsers        \* what each request is doing

deflectionVars == <<incidents, subscriptions, trail, browsers>>

IncidentStatuses == {"undeclared", "declared", "mitigating", "resolved"}

Waiting == [at |-> "waiting"]

is_live(i) == incidents[i] \in {"declared", "mitigating"}

(* An incident that names no category and no prefix covers nothing.          *)
matches(i, complaint) ==
  /\ is_live(i)
  /\ i.categories # {} => complaint.category \in i.categories
  /\ IF i.prefixes # {} THEN complaint.prefix \in i.prefixes ELSE i.categories # {}

(* The incident offered; the order of the incidents is not the model's.      *)
check(complaint) == { i \in Incidents : matches(i, complaint) }

deflections_total == Len(trail)

(* Incidents are set through the database's own tools: nothing in src/ does. *)
SetStatus(i, status) ==
  /\ incidents[i] # status /\ incidents[i] # "resolved" /\ status # "undeclared"
  /\ incidents' = [incidents EXCEPT ![i] = status]
  /\ UNCHANGED <<subscriptions, trail, browsers>>

(* A customer asks to be notified: the incident is found, and remembered.    *)
Ask(b, who, complaint) ==
  /\ browsers[b] = Waiting
  /\ \E i \in check(complaint) :
       browsers' = [browsers EXCEPT ![b] =
         [ at |-> "subscribing",
           row |-> [incident |-> i, customer |-> who, ref |-> complaint.prefix] ]]
  /\ UNCHANGED <<incidents, subscriptions, trail>>

(* get_or_create's first read found a row: nothing is written.               *)
Already(b) ==
  /\ browsers[b].at = "subscribing"
  /\ browsers[b].row \in subscriptions
  /\ browsers' = [browsers EXCEPT ![b] = Waiting]
  /\ UNCHANGED <<incidents, subscriptions, trail>>

(* It found none: the row will be inserted, and counted if it is.            *)
Missing(b) ==
  /\ browsers[b].at = "subscribing"
  /\ browsers[b].row \notin subscriptions
  /\ browsers' = [browsers EXCEPT ![b].at = "creating"]
  /\ UNCHANGED <<incidents, subscriptions, trail>>

(* As Subscribe, counting every click.                                       *)
SubscribeAndCount(b) ==
  LET row == browsers[b].row
  IN  /\ browsers[b].at = "creating"
      /\ subscriptions' = subscriptions \cup {row}
      /\ trail' = Append(trail, <<row.incident, row.customer>>)
      /\ browsers' = [browsers EXCEPT ![b] = Waiting]
      /\ UNCHANGED incidents

(* The row and its audit record commit together.  Where another request     *)
(* inserted the row first, get_or_create finds it and nothing is recorded.  *)
Subscribe(b) ==
  LET row == browsers[b].row  created == row \notin subscriptions
  IN  /\ browsers[b].at = "creating"
      /\ subscriptions' = subscriptions \cup {row}
      /\ trail' = IF created THEN Append(trail, <<row.incident, row.customer>>) ELSE trail
      /\ browsers' = [browsers EXCEPT ![b] = Waiting]
      /\ UNCHANGED incidents

(* The request dies: its transaction leaves nothing.                         *)
Abandon(b) ==
  /\ browsers[b] # Waiting
  /\ browsers' = [browsers EXCEPT ![b] = Waiting]
  /\ UNCHANGED <<incidents, subscriptions, trail>>

DeflectionInit ==
  /\ incidents = [i \in Incidents |-> "undeclared"]
  /\ subscriptions = {} /\ trail = <<>>
  /\ browsers = [b \in Browsers |-> Waiting]

DeflectionNext ==
  \/ \E i \in Incidents, status \in IncidentStatuses : SetStatus(i, status)
  \/ \E b \in Browsers :
       \/ \E who \in Customers, complaint \in Complaints : Ask(b, who, complaint)
       \/ Already(b) \/ Missing(b) \/ Subscribe(b) \/ Abandon(b)

DeflectionSpec == DeflectionInit /\ [][DeflectionNext]_deflectionVars

-----------------------------------------------------------------------------
(* Properties. *)

(* The number of deflections taken from the trail is the number of           *)
(* customers' subscriptions, incident by incident: none uncounted, and none  *)
(* counted twice by a second click or by two requests at once                *)
(* (deflection.py:88-111).                                                   *)
DeflectionsAreCounted ==
  /\ deflections_total = Cardinality(subscriptions)
  /\ \A i \in Incidents, who \in Customers :
       Cardinality({ n \in 1 .. Len(trail) : trail[n] = <<i, who>> })
         = Cardinality({ s \in subscriptions : s.incident = i /\ s.customer = who })

=============================================================================
