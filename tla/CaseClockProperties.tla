------------------------- MODULE CaseClockProperties -------------------------
(***************************************************************************)
(* What CaseClock is expected to satisfy.                                  *)
(***************************************************************************)
EXTENDS CaseClock

TypeOK ==
  /\ now \in Instant
  /\ dispute \in [status : Statuses \cup {"unfiled"},
                  acknowledged_at : Moment,
                  ack_deadline : Moment,
                  resolution_deadline : Moment,
                  breached : SUBSET {"acknowledgement", "resolution"}]
  /\ clock \in ClockRow
  /\ clock.state = "paused" => clock.paused_at \in 0 .. now
  /\ clock.state = "running" => clock.paused_at = Never
  /\ DOMAIN deadlines \in SUBSET Keys
  /\ \A k \in DOMAIN deadlines : deadlines[k] \in [fires_at : Nat, fired_at : Moment]
  /\ \A k \in DOMAIN deadlines \cap RegulatoryKeys : deadlines[k].fires_at \in Instant
  /\ last_event \in [kind : {"none", "started", "paused", "resumed", "stopped"},
                      clock_remaining_seconds : Int]
  /\ outbox \in SUBSET Keys
  /\ tracks \in SUBSET Bodies
  /\ membership \in [MassEvents -> Membership]
  /\ representment \in [chargeback_at : Moment, window : Nat]

-----------------------------------------------------------------------------
(* Safety.                                                                  *)

(* The two state machines agree: a case awaits its customer exactly while   *)
(* its clock is paused, and a decided case has a stopped clock, whichever of*)
(* transition, resolve and the mass-event fan-out decided it.  A case being *)
(* worked has a live clock unless it was reopened.                          *)
StatusMatchesClock ==
  /\ dispute.status = "unfiled" <=> clock.state = "none"
  /\ dispute.status = "awaiting_customer" <=> clock.state = "paused"
  /\ dispute.status \in {"submitted", "acknowledged"} => clock.state = "running"
  /\ dispute.status \in {"resolved", "reopened"} \cup TERMINAL => clock.state = "stopped"

(* Materialised rows never diverge from the arithmetic (ADR-0007): on a live *)
(* clock every regulatory row exists, and one that has not fired is due      *)
(* where compute_deadline puts it given the closed pauses.                   *)
RowsMatchArithmetic ==
  clock.state \in {"running", "paused"} =>
    \A k \in RegulatoryKeys :
      /\ k \in DOMAIN deadlines
      /\ k \in Unfired =>
           deadlines[k].fires_at =
             compute_deadline(clock.started_at, Window(k), clock.paused_intervals)

(* The queue's sort columns follow the rows they are copied from, through    *)
(* every pause, resume and stop (_sync_deadlines).                           *)
ColumnsMatchRows ==
  /\ Ack \in DOMAIN deadlines =>
       dispute.ack_deadline = deadlines[Ack].fires_at
  /\ Resolution \in DOMAIN deadlines =>
       dispute.resolution_deadline = deadlines[Resolution].fires_at

(* Notifications are recorded with the firing, one per fired row and none    *)
(* without: the outbox holds exactly the keys of fired rows.                 *)
OneNotificationPerFiring == outbox = Fired

(* The card scheme's window is wall-clock: whatever happens to the case, a   *)
(* scheme row stays due where the chargeback put it.                         *)
SchemeWindowFixed ==
  \A k \in SchemeKeys \cap DOMAIN deadlines :
    /\ representment # NoRepresentment
    /\ deadlines[k].fires_at = SchemeInstant(k, representment)

(* A fired deadline is history: no call moves it, clears it or deletes it    *)
(* ("a breach that was recorded could later be un-recorded", clock.py).      *)
FiredIsHistory ==
  [][\A k \in Fired : k \in DOMAIN deadlines' /\ deadlines'[k] = deadlines[k]]_vars

(* A stopped clock never fires again, although the mass-event fan-out and    *)
(* open_representment leave unfired rows on stopped clocks.                  *)
StoppedNeverFires ==
  [][clock.state = "stopped" => Fired' = Fired]_vars

(* Waiting on the customer costs the firm nothing and gains it nothing: a    *)
(* resume records the remaining time its pause recorded, while the           *)
(* resolution row is still to fire.                                          *)
PauseIsNeutral ==
  [][clock.state = "paused" /\ clock'.state = "running" /\ Resolution \in Unfired
       => last_event'.clock_remaining_seconds = last_event.clock_remaining_seconds]_vars

(* CaseClock implements DeadlineLedger. *)
LedgerMode == IF clock.state = "none" THEN "idle" ELSE clock.state

LedgerPhase ==
  [k \in Keys |->
     IF k \in Fired THEN "fired"
     ELSE IF k \in Unfired THEN "pending"
     ELSE IF \/ k \in RegulatoryKeys /\ clock.state # "none"
             \/ k \in SchemeKeys /\ representment # NoRepresentment
          THEN "withdrawn"
          ELSE "absent"]

Ledger == INSTANCE DeadlineLedger WITH
  mode <- LedgerMode, phase <- LedgerPhase, notified <- outbox

(* Every behaviour of a case is one the ledger allows. *)
ImplementsLedger == Ledger!LedgerSpec

-----------------------------------------------------------------------------
(* Liveness.                                                                *)

(* A due row is never forgotten.  However long the sweep was stalled, a row *)
(* of a live clock that is due fires, unless a resume moves it into the      *)
(* future or the clock stops first (sweeper.py, catch-up).                   *)
DueRowsFire ==
  \A k \in Keys :
    (k \in Overdue /\ clock.state # "stopped")
      ~> (k \in Fired \/ k \notin Overdue \/ clock.state = "stopped")

=============================================================================
