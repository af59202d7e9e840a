---------------------------- MODULE ReportDelivery ----------------------------
(***************************************************************************)
(* The regulatory export of one report schedule: reports/schedules.py and  *)
(* reports/delivery.py, which queue a closed month as a NotificationOutbox *)
(* row, and notifications/dispatcher.py, whose passes send what is queued. *)
(*                                                                         *)
(* Month 1 is the month the schedule was created in.  A row is named by    *)
(* its idempotency key, the month and the number of the attempt.  A month  *)
(* keeps changing after it has closed, because its cases are still worked: *)
(* edition[m] is what an export of m would contain now.                    *)
(*                                                                         *)
(* A dispatcher pass is one transaction (for_each_tenant); beat starts one *)
(* every minute, so a slow one overlaps the next.  Sending cannot be       *)
(* rolled back.                                                            *)
(***************************************************************************)
EXTENDS Integers, FiniteSets

CONSTANTS
  LastMonth,            (* bound: months there are                           *)
  MaxAttemptsPerPeriod,
  MaxPeriodsPerRun,
  MaxAttempts,          (* of the dispatcher, per row                        *)
  LastEdition,          (* bound: changes to a month                         *)
  Oversized,            (* editions over MAX_ATTACHMENT_BYTES                *)
  Dispatchers,          (* workers running disputeshield.notifications       *)
  MaxAccidents          (* bound: passes that die, answers that are lost     *)

ASSUME DeliveryAssumption ==
  /\ LastMonth \in Nat /\ LastEdition \in Nat /\ MaxAccidents \in Nat
  /\ MaxAttemptsPerPeriod \in Nat \ {0} /\ MaxPeriodsPerRun \in Nat \ {0}
  /\ MaxAttempts \in Nat \ {0}
  /\ Oversized \subseteq 0 .. LastEdition

VARIABLES
  closed,         (* months whose fire_time has passed                       *)
  edition,
  active,         (* ReportSchedule.is_active                                *)
  registered,     (* every recipient is on the allowlist                     *)
  lastPeriod,     (* last_period_start, 0 for None                           *)
  failedPeriods,
  deliveries,     (* NotificationOutbox, by key                              *)
  memory,         (* of each pass, the pending rows it has read              *)
  sending,        (* of each pass, the row it has tried to send, as it will  *)
                  (* be saved                                                *)
  written,        (* of each pass, rows it has saved and not committed       *)
  mailed,         (* messages handed to the provider, per month              *)
  overlapped,     (* history: two passes have been in flight at once         *)
  accidents       (* passes that died, messages accepted and not confirmed   *)

scheduleVars == <<closed, edition, active, registered, lastPeriod, failedPeriods>>
passVars == <<memory, sending, written>>
deliveryVars == <<scheduleVars, deliveries, passVars, mailed, overlapped, accidents>>

Months == 1 .. LastMonth
Editions == 0 .. LastEdition

(* delivery.idempotency_key *)
Keys == Months \X (0 .. MaxAttemptsPerPeriod - 1)
MonthOf(k) == k[1]

NoDelivery == [status |-> "none", attempts |-> 0, promise |-> 0, created |-> 0]

Delivery ==
  [status : {"none", "pending", "sent", "failed"}, attempts : Nat,
   promise : Editions, created : Nat]

(* What a pass has in a place where it has nothing. *)
Nothing == [k \in {} |-> NoDelivery]

Open == { k \in Keys : deliveries[k] # NoDelivery }

Fits(m) == edition[m] \notin Oversized

(* resolve_recipients: one address off the allowlist refuses the request.    *)
AllAllowed == registered

(* The row request_delivery creates: the promise is the export of now. *)
Promise(m) ==
  [status |-> "pending", attempts |-> 0, promise |-> edition[m],
   created |-> Cardinality(Open) + 1]

-----------------------------------------------------------------------------
(* reports/schedules.py                                                     *)

Due == { m \in Months : lastPeriod < m /\ m <= closed /\ m \notin failedPeriods }

(* periods_owed *)
Owed == { m \in Due : Cardinality({ k \in Due : k < m }) < MaxPeriodsPerRun }

(* _attempts_so_far *)
Attempts(m) == { k \in Open : MonthOf(k) = m }

Sent(m) == \E k \in Attempts(m) : deliveries[k].status = "sent"

(* Mutant of InFlight: only the first attempt is looked at. *)
InFlightFirstOnly(m) ==
  /\ ~Sent(m)
  /\ deliveries[<<m, 0>>].status = "pending" /\ deliveries[<<m, 0>>].attempts = 0

InFlight(m) == ~Sent(m) /\ \E k \in Attempts(m) : deliveries[k].status = "pending"

Spent(m) == Cardinality(Attempts(m)) >= MaxAttemptsPerPeriod

(* Mutant of Abandons: the month is not recorded. *)
NeverAbandons(m) == FALSE

Abandons(m) == ~Sent(m) /\ ~InFlight(m) /\ Spent(m)

(* _advance_one_period comes to request_delivery, whose outcomes "queued",   *)
(* "retried" and "no_recipients" end the run for this schedule.              *)
Requests(m) == ~Sent(m) /\ ~InFlight(m) /\ ~Spent(m)

(* The months one run comes to; "pending" does not end it. *)
Reached == { m \in Owed : \A k \in Owed : k < m => ~Requests(k) }

(* UnknownRecipient and ReportTooLarge are audited and leave the month owed. *)
Opens(m) == Requests(m) /\ AllAllowed /\ Fits(m)

Confirmed == { m \in Reached : Sent(m) }

(* Mutant of Retired: a month is retired by what is queued. *)
RetiredWhenQueued == { m \in Reached : Attempts(m) # {} }

Retired == Confirmed

(* _run_one_tenant for this schedule: one transaction. *)
RunDue ==
  /\ active
  /\ Owed # {}
  /\ lastPeriod' = IF Retired = {} THEN lastPeriod
                   ELSE CHOOSE m \in Retired : \A k \in Retired : k <= m
  /\ failedPeriods' = failedPeriods \cup { m \in Reached : Abandons(m) }
  /\ deliveries' =
       [k \in Keys |->
          IF /\ MonthOf(k) \in Reached /\ Opens(MonthOf(k))
             /\ k[2] = Cardinality(Attempts(MonthOf(k)))
          THEN Promise(MonthOf(k)) ELSE deliveries[k]]
  /\ UNCHANGED <<closed, edition, active, registered, passVars, mailed, overlapped, accidents>>

(* A month ends and its due hour passes. *)
MonthCloses ==
  /\ closed < LastMonth
  /\ closed' = closed + 1
  /\ UNCHANGED <<edition, active, registered, lastPeriod, failedPeriods, deliveries,
                 passVars, mailed, overlapped, accidents>>

(* A case of the month is worked, or one is imported into it. *)
CaseChanges(m) ==
  /\ edition[m] < LastEdition
  /\ edition' = [edition EXCEPT ![m] = @ + 1]
  /\ UNCHANGED <<closed, active, registered, lastPeriod, failedPeriods, deliveries,
                 passVars, mailed, overlapped, accidents>>

-----------------------------------------------------------------------------
(* api/views_reports.py                                                     *)

(* A person asks for the same period and recipients: attempt 0, whether or   *)
(* not the month has closed.                                                *)
RequestDelivery(m) ==
  /\ AllAllowed /\ Fits(m)
  /\ deliveries[<<m, 0>>] = NoDelivery
  /\ deliveries' = [deliveries EXCEPT ![<<m, 0>>] = Promise(m)]
  /\ UNCHANGED <<scheduleVars, passVars, mailed, overlapped, accidents>>

RegisterRecipient ==
  /\ ~registered
  /\ registered' = TRUE
  /\ UNCHANGED <<closed, edition, active, lastPeriod, failedPeriods, deliveries,
                 passVars, mailed, overlapped, accidents>>

DeactivateRecipient ==
  /\ registered
  /\ registered' = FALSE
  /\ UNCHANGED <<closed, edition, active, lastPeriod, failedPeriods, deliveries,
                 passVars, mailed, overlapped, accidents>>

DeactivateSchedule ==
  /\ active
  /\ active' = FALSE
  /\ UNCHANGED <<closed, edition, registered, lastPeriod, failedPeriods, deliveries,
                 passVars, mailed, overlapped, accidents>>

-----------------------------------------------------------------------------
(* notifications/dispatcher.py                                              *)

Idle(d) == memory[d] = Nothing /\ sending[d] = Nothing /\ written[d] = Nothing

Pending == { k \in Keys : deliveries[k].status = "pending" }

(* The rows are read once, without a lock. *)
BeginPass(d) ==
  /\ Idle(d)
  /\ Pending # {}
  /\ memory' = [memory EXCEPT ![d] = [k \in Pending |-> deliveries[k]]]
  /\ overlapped' = (overlapped \/ \E e \in Dispatchers \ {d} : ~Idle(e))
  /\ UNCHANGED <<scheduleVars, deliveries, sending, written, mailed, accidents>>

(* order_by("created_at") *)
IsNext(d, k) ==
  /\ k \in DOMAIN memory[d]
  /\ \A j \in DOMAIN memory[d] : memory[d][k].created <= memory[d][j].created

Without(f, k) == [j \in DOMAIN f \ {k} |-> f[j]]

With(f, k, v) == [j \in DOMAIN f \cup {k} |-> IF j = k THEN v ELSE f[j]]

(* delivery.deliver: rebuilt, compared with the promise, sent.  The row in   *)
(* memory decides, whatever has become of the stored one.                   *)
Deliver(d, k) ==
  /\ sending[d] = Nothing
  /\ IsNext(d, k)
  /\ memory[d][k].promise = edition[MonthOf(k)]
  /\ mailed' = [mailed EXCEPT ![MonthOf(k)] = @ + 1]
  /\ sending' = [sending EXCEPT ![d] =
       With(Nothing, k, [memory[d][k] EXCEPT !.attempts = @ + 1, !.status = "sent"])]
  /\ memory' = [memory EXCEPT ![d] = Without(@, k)]
  /\ UNCHANGED <<scheduleVars, deliveries, written, overlapped, accidents>>

(* A send that raises: the row stays pending, or is parked at the last       *)
(* attempt.                                                                 *)
Refused(d, k) ==
  /\ sending[d] = Nothing
  /\ IsNext(d, k)
  /\ sending' = [sending EXCEPT ![d] =
       With(Nothing, k,
            [memory[d][k] EXCEPT
               !.attempts = @ + 1,
               !.status = IF memory[d][k].attempts + 1 >= MaxAttempts THEN "failed"
                                                                      ELSE "pending"])]
  /\ memory' = [memory EXCEPT ![d] = Without(@, k)]
  /\ UNCHANGED <<scheduleVars, deliveries, written, overlapped>>

(* BundleChanged, ReportTooLarge, or the provider refuses. *)
SendFails(d, k) == Refused(d, k) /\ UNCHANGED <<mailed, accidents>>

(* The provider takes the message and its answer is lost. *)
AnswerLost(d, k) ==
  /\ accidents < MaxAccidents
  /\ Refused(d, k)
  /\ memory[d][k].promise = edition[MonthOf(k)]
  /\ mailed' = [mailed EXCEPT ![MonthOf(k)] = @ + 1]
  /\ accidents' = accidents + 1

(* save(update_fields): waits for a pass that has saved the row and not      *)
(* committed, and then overwrites what it saved.                            *)
Save(d, k) ==
  /\ k \in DOMAIN sending[d]
  /\ \A e \in Dispatchers \ {d} : k \notin DOMAIN written[e]
  /\ written' = [written EXCEPT ![d] = With(@, k, sending[d][k])]
  /\ sending' = [sending EXCEPT ![d] = Nothing]
  /\ UNCHANGED <<scheduleVars, deliveries, memory, mailed, overlapped, accidents>>

EndPass(d) ==
  /\ memory[d] = Nothing /\ sending[d] = Nothing /\ written[d] # Nothing
  /\ deliveries' = [k \in Keys |-> IF k \in DOMAIN written[d] THEN written[d][k]
                                                              ELSE deliveries[k]]
  /\ written' = [written EXCEPT ![d] = Nothing]
  /\ UNCHANGED <<scheduleVars, memory, sending, mailed, overlapped, accidents>>

(* The worker dies: what it has saved is rolled back, what it has sent is not. *)
PassDies(d) ==
  /\ ~Idle(d)
  /\ accidents < MaxAccidents
  /\ memory' = [memory EXCEPT ![d] = Nothing]
  /\ sending' = [sending EXCEPT ![d] = Nothing]
  /\ written' = [written EXCEPT ![d] = Nothing]
  /\ accidents' = accidents + 1
  /\ UNCHANGED <<scheduleVars, deliveries, mailed, overlapped>>

-----------------------------------------------------------------------------
DeliveryInit ==
  /\ closed = 0 /\ edition = [m \in Months |-> 0]
  /\ active = TRUE /\ registered = TRUE
  /\ lastPeriod = 0 /\ failedPeriods = {}
  /\ deliveries = [k \in Keys |-> NoDelivery]
  /\ memory = [d \in Dispatchers |-> Nothing]
  /\ sending = [d \in Dispatchers |-> Nothing]
  /\ written = [d \in Dispatchers |-> Nothing]
  /\ mailed = [m \in Months |-> 0]
  /\ overlapped = FALSE /\ accidents = 0

PassStep(d) ==
  \/ BeginPass(d)
  \/ \E k \in Keys : Deliver(d, k) \/ SendFails(d, k) \/ Save(d, k)
  \/ EndPass(d)

DeliveryNext ==
  \/ RunDue \/ MonthCloses
  \/ \E m \in Months : CaseChanges(m) \/ RequestDelivery(m)
  \/ RegisterRecipient \/ DeactivateRecipient \/ DeactivateSchedule
  \/ \E d \in Dispatchers : PassStep(d) \/ PassDies(d) \/ \E k \in Keys : AnswerLost(d, k)

DeliverySpec == DeliveryInit /\ [][DeliveryNext]_deliveryVars

(* Beat starts the runner every hour and the dispatcher every minute. *)
DeliveryFairness ==
  /\ WF_deliveryVars(RunDue)
  /\ \A d \in Dispatchers : WF_deliveryVars(PassStep(d))

FairDeliverySpec == DeliverySpec /\ DeliveryFairness

-----------------------------------------------------------------------------
(* Properties. *)

(* Every variable keeps its type. *)
DeliveryTypeOK ==
  /\ closed \in 0 .. LastMonth /\ edition \in [Months -> Editions]
  /\ active \in BOOLEAN /\ registered \in BOOLEAN
  /\ lastPeriod \in 0 .. LastMonth /\ failedPeriods \subseteq Months
  /\ deliveries \in [Keys -> Delivery]
  /\ \A f \in {memory, sending, written} :
       /\ DOMAIN f = Dispatchers
       /\ \A d \in Dispatchers : /\ DOMAIN f[d] \subseteq Keys
                                 /\ \A k \in DOMAIN f[d] : f[d][k] \in Delivery
  /\ mailed \in [Months -> Nat]
  /\ overlapped \in BOOLEAN /\ accidents \in 0 .. MaxAccidents

(* Progress depends on the outcome and not on the attempt: the month a       *)
(* schedule names as its last delivered one has left the building, whatever  *)
(* passes overlapped or died.                                               *)
LastPeriodWasMailed == lastPeriod # 0 => mailed[lastPeriod] > 0

(* A month is mailed twice only if a dispatcher pass died, an answer of the  *)
(* provider was lost, or two passes were in flight together: neither         *)
(* retries, nor fresh promises, nor a person's request for the same period   *)
(* repeat it.                                                               *)
RepeatsNeedAnAccident ==
  \A m \in Months : mailed[m] > 1 => overlapped \/ accidents > 0

(* A month that is owed does not stay owed, unless the schedule is           *)
(* deactivated, a recipient is off the allowlist, or a month in front of it  *)
(* cannot be attached: failed attempts are retried and then given up.       *)
OwedMonthsSettle ==
  \A m \in Months :
    m \in Owed ~> \/ m \notin Owed \/ ~active \/ ~registered
                  \/ \E k \in Owed : k <= m /\ ~Fits(k)

(* VIOLATED.  schedules.py:3-6 and models/reports.py: no month is silently   *)
(* skipped.  A month the schedule has gone past was mailed or is recorded    *)
(* among the failed.                                                        *)
NoMonthIsSkipped ==
  \A m \in Months : m <= lastPeriod => mailed[m] > 0 \/ m \in failedPeriods

=============================================================================
