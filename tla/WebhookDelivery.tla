--------------------------- MODULE WebhookDelivery ---------------------------
(***************************************************************************)
(* Outbound events of webhooks/delivery.py: transactions that enqueue      *)
(* events of a dispute, dispatch passes, endpoints that fail, replays.     *)
(*                                                                         *)
(* A pass is one transaction per tenant (for_each_tenant) and its calls    *)
(* cannot be rolled back.  Nothing schedules passes in parallel, so there  *)
(* is one at a time.  Instants are left out: a delivery is `ready` when    *)
(* its next_attempt_at has passed, and a backoff may elapse at any time.   *)
(***************************************************************************)
EXTENDS Integers, FiniteSets

CONSTANTS
  Disputes,
  EventTypes,
  Endpoints,
  Wants(_),         (* the event types an endpoint subscribes to             *)
  Enqueuers,        (* transactions that enqueue an event                    *)
  MaxPostAttempts,
  LastSequence,     (* bound: events of one dispute                          *)
  MaxReplays,       (* bound: operator's replays                             *)
  MaxLosses         (* bound: passes lost to a crash                         *)

ASSUME WebhookAssumption ==
  /\ \A p \in Endpoints : Wants(p) \subseteq EventTypes
  /\ MaxPostAttempts \in Nat \ {0}
  /\ LastSequence \in Nat /\ MaxReplays \in Nat /\ MaxLosses \in Nat

VARIABLES
  queue,      (* WebhookDelivery rows, by endpoint and idempotency key       *)
  numbered,   (* of each enqueuer, the event it has numbered and not queued  *)
  passing,    (* a dispatch pass is in flight                                *)
  todo,       (* due deliveries the pass has read and not come to            *)
  saved,      (* rows the pass has saved and not committed                   *)
  stalled,    (* stalled_cases of the pass                                   *)
  accepted,   (* deliveries an endpoint has answered 2xx                     *)
  posted,     (* deliveries an endpoint has been called with                 *)
  replays,
  losses,
  overtaken,  (* history: of the enqueuers that have numbered an event, those  *)
              (* another has queued an event of the same dispute since         *)
  raced       (* history: the deliveries such an enqueuer queued               *)

passLocals == <<passing, todo, saved, stalled>>
history == <<overtaken, raced>>
webhookVars == <<queue, numbered, passLocals, accepted, posted, replays, losses, history>>

Sequences1 == 1 .. LastSequence

(* idempotency_key, with the endpoint it is unique for *)
DeliveryKeys ==
  [endpoint : Endpoints, dispute : Disputes, sequence : Sequences1, type : EventTypes]

Absent == [status |-> "absent", attempts |-> 0, ready |-> FALSE]

Fresh == [status |-> "pending", attempts |-> 0, ready |-> TRUE]

DeliveryRows ==
  [status : {"absent", "pending", "delivered", "parked"}, attempts : 0 .. MaxPostAttempts,
   ready : BOOLEAN]

NoEvent == [dispute |-> "", type |-> "", sequence |-> 0]

Queued == { k \in DeliveryKeys : queue[k] # Absent }

(* The last sequence number any statement can see for a dispute. *)
HighestSequence(x) ==
  LET taken == { k.sequence : k \in { q \in Queued : q.dispute = x } }
  IN IF taken = {} THEN 0 ELSE CHOOSE n \in taken : \A m \in taken : m <= n

-----------------------------------------------------------------------------
(* enqueue: the number is read, then rows are created and committed.        *)

ReadSequence(e, x, t) ==
  /\ numbered[e] = NoEvent
  /\ HighestSequence(x) < LastSequence
  /\ numbered' = [numbered EXCEPT
       ![e] = [dispute |-> x, type |-> t, sequence |-> HighestSequence(x) + 1]]
  /\ UNCHANGED <<queue, passLocals, accepted, posted, replays, losses, history>>

(* get_or_create: a row another transaction has created for the same number  *)
(* and type is taken to be this event's.                                    *)
CreateRows(e) ==
  LET event == numbered[e]
      created == { k \in DeliveryKeys : /\ k.dispute = event.dispute
                                        /\ k.sequence = event.sequence
                                        /\ k.type = event.type /\ event.type \in Wants(k.endpoint)
                                        /\ queue[k] = Absent }
  IN
  /\ event # NoEvent
  /\ queue' = [k \in DeliveryKeys |-> IF k \in created THEN Fresh ELSE queue[k]]
  /\ numbered' = [numbered EXCEPT ![e] = NoEvent]
  /\ overtaken' = { f \in Enqueuers \ {e} :
                     f \in overtaken \/ (created # {} /\ numbered[f].dispute = event.dispute) }
  /\ raced' = IF e \in overtaken THEN raced \cup created ELSE raced
  /\ UNCHANGED <<passLocals, accepted, posted, replays, losses>>

-----------------------------------------------------------------------------
(* dispatch.                                                                *)

DueNow == { k \in Queued : queue[k].status = "pending" /\ queue[k].ready }

BeginDispatch ==
  /\ ~passing
  /\ DueNow # {}
  /\ passing' = TRUE
  /\ todo' = DueNow /\ saved' = [k \in {} |-> Absent] /\ stalled' = {}
  /\ UNCHANGED <<queue, numbered, accepted, posted, replays, losses, history>>

(* Mutant of ComesNext: rows in no particular order. *)
ComesNextUnordered(k) == k \in todo

(* order_by("sequence_key", "sequence", "id"): cases do not matter to each   *)
(* other, and ids are random.                                               *)
ComesNext(k) ==
  /\ k \in todo
  /\ \A j \in todo : j.dispute = k.dispute => k.sequence <= j.sequence

Saving(k, row) ==
  [j \in DOMAIN saved \cup {k} |-> IF j = k THEN row ELSE saved[j]]

(* A case whose earlier event has not landed does not get its later one: in  *)
(* this pass.                                                               *)
Blocked(k) ==
  /\ ComesNext(k)
  /\ k.dispute \in stalled
  /\ todo' = todo \ {k}
  /\ UNCHANGED <<queue, numbered, passing, saved, stalled, accepted, posted, replays, losses, history>>

PostSucceeds(k) ==
  /\ ComesNext(k)
  /\ k.dispute \notin stalled
  /\ saved' = Saving(k, [status |-> "delivered", attempts |-> queue[k].attempts + 1,
                         ready |-> TRUE])
  /\ todo' = todo \ {k}
  /\ posted' = posted \cup {k} /\ accepted' = accepted \cup {k}
  /\ UNCHANGED <<queue, numbered, passing, stalled, replays, losses, history>>

(* Mutant of AfterFailure: attempts are not counted. *)
AfterFailureUncounted(n) == [status |-> "pending", attempts |-> n - 1, ready |-> FALSE]

(* The row after its nth attempt has failed. *)
AfterFailure(n) ==
  IF n >= MaxPostAttempts THEN [status |-> "parked", attempts |-> n, ready |-> TRUE]
  ELSE [status |-> "pending", attempts |-> n, ready |-> FALSE]

PostFails(k) ==
  /\ ComesNext(k)
  /\ k.dispute \notin stalled
  /\ saved' = Saving(k, AfterFailure(queue[k].attempts + 1))
  /\ stalled' = stalled \cup {k.dispute}
  /\ todo' = todo \ {k}
  /\ posted' = posted \cup {k}
  /\ UNCHANGED <<queue, numbered, passing, accepted, replays, losses, history>>

EndDispatch ==
  /\ passing /\ todo = {}
  /\ queue' = [k \in DeliveryKeys |-> IF k \in DOMAIN saved THEN saved[k] ELSE queue[k]]
  /\ passing' = FALSE /\ saved' = [k \in {} |-> Absent] /\ stalled' = {}
  /\ UNCHANGED <<numbered, todo, accepted, posted, replays, losses, history>>

DispatchDies ==
  /\ passing /\ losses < MaxLosses
  /\ passing' = FALSE /\ todo' = {} /\ saved' = [k \in {} |-> Absent] /\ stalled' = {}
  /\ losses' = losses + 1
  /\ UNCHANGED <<queue, numbered, accepted, posted, replays, history>>

-----------------------------------------------------------------------------
BackoffElapses(k) ==
  /\ queue[k].status = "pending" /\ ~queue[k].ready
  /\ queue' = [queue EXCEPT ![k].ready = TRUE]
  /\ UNCHANGED <<numbered, passLocals, accepted, posted, replays, losses, history>>

SomeBackoffElapses == \E k \in DeliveryKeys : BackoffElapses(k)

(* replay *)
Replay(k) ==
  /\ queue[k].status = "parked"
  /\ replays < MaxReplays
  /\ queue' = [queue EXCEPT ![k] = Fresh]
  /\ replays' = replays + 1
  /\ UNCHANGED <<numbered, passLocals, accepted, posted, losses, history>>

WebhookInit ==
  /\ queue = [k \in DeliveryKeys |-> Absent]
  /\ numbered = [e \in Enqueuers |-> NoEvent]
  /\ passing = FALSE /\ todo = {} /\ saved = [k \in {} |-> Absent] /\ stalled = {}
  /\ accepted = {} /\ posted = {}
  /\ replays = 0 /\ losses = 0
  /\ overtaken = {} /\ raced = {}

DispatchStep ==
  \/ BeginDispatch
  \/ \E k \in DeliveryKeys : Blocked(k) \/ PostSucceeds(k) \/ PostFails(k)
  \/ EndDispatch

WebhookNext ==
  \/ \E e \in Enqueuers :
       CreateRows(e) \/ \E x \in Disputes, t \in EventTypes : ReadSequence(e, x, t)
  \/ DispatchStep \/ DispatchDies
  \/ SomeBackoffElapses
  \/ \E k \in DeliveryKeys : Replay(k)

WebhookSpec == WebhookInit /\ [][WebhookNext]_webhookVars

(* Passes are run again and again, and time passes. *)
WebhookFairness ==
  /\ WF_webhookVars(DispatchStep)
  /\ WF_webhookVars(SomeBackoffElapses)

FairWebhookSpec == WebhookSpec /\ WebhookFairness

-----------------------------------------------------------------------------
(* Properties. *)

(* Every variable keeps its type. *)
WebhookTypeOK ==
  /\ queue \in [DeliveryKeys -> DeliveryRows]
  /\ DOMAIN numbered = Enqueuers
  /\ passing \in BOOLEAN
  /\ todo \subseteq DeliveryKeys
  /\ DOMAIN saved \subseteq DeliveryKeys
  /\ \A k \in DOMAIN saved : saved[k] \in DeliveryRows
  /\ stalled \subseteq Disputes
  /\ accepted \subseteq posted /\ posted \subseteq DeliveryKeys
  /\ replays \in 0 .. MaxReplays /\ losses \in 0 .. MaxLosses
  /\ overtaken \subseteq Enqueuers /\ raced \subseteq DeliveryKeys

(* Earlier(j, k): j tells the same endpoint of an earlier event of the case. *)
Earlier(j, k) ==
  j.endpoint = k.endpoint /\ j.dispute = k.dispute /\ j.sequence < k.sequence

(* No endpoint is called with an event of a case before it has been called   *)
(* with every earlier one, however passes die and parked deliveries are      *)
(* replayed.  Only an event whose number was read before another event of    *)
(* the case was committed can come late: two enqueues that overlap are not   *)
(* kept apart.  It is the first call that is in order: an event that backs   *)
(* off may be accepted after a later one (delivery.py:10-12).                *)
FirstAttemptsInOrder ==
  \A k \in posted, j \in Queued \ raced : Earlier(j, k) => j \in posted

(* A pending delivery is delivered or parked in the end: an event that waits *)
(* behind an earlier failure, of another endpoint even, does not wait for    *)
(* ever.                                                                    *)
QueuedEventsSettle ==
  \A k \in DeliveryKeys :
    queue[k].status = "pending" ~> queue[k].status \in {"delivered", "parked"}

=============================================================================
