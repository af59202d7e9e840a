------------------------------ MODULE CaseClock ------------------------------
(***************************************************************************)
(* One dispute, its SLA clock and the deadline rows of that clock, with    *)
(* every service call that changes them and the sweep that fires the rows. *)
(*   disputeshield/disputes/service.py, escalation.py, mass_events.py,     *)
(*   representment.py; disputeshield/sla/clock.py, sweeper.py, reconcile.py*)
(* Each action is one service call, committed as one transaction; calls    *)
(* whose transactions overlap are the subject of CaseTransactions.         *)
(* A call that raises changes nothing, so it is no action here.            *)
(***************************************************************************)
EXTENDS DisputeStates, BusinessTicks

CONSTANTS
  AcknowledgementWindow,   (* policy_version.acknowledgement_minutes, ticks *)
  ResolutionWindow,        (* policy_version.resolution_hours, ticks        *)
  WarningThresholds,       (* policy_version.warning_thresholds, percent    *)
  ResponseWindows,         (* response_window_days of the reason codes      *)
  SchemeWarningThresholds, (* SCHEME_WARNING_THRESHOLDS, percent            *)
  Bodies,                  (* external bodies a case can be escalated to    *)
  MassEvents,              (* mass events a case can be a member of         *)
  Actors,                  (* actor types that call transition()            *)
  MaxPauses,               (* bound: pauses of non-zero length of a case    *)
  MaxTime                  (* bound: the last instant the model reaches     *)

ASSUME PolicyAssumption ==
  /\ AcknowledgementWindow \in Nat \ {0}
  /\ ResolutionWindow \in Nat \ {0}
  /\ WarningThresholds \in SUBSET Nat
  /\ ResponseWindows \in SUBSET (Nat \ {0})
  /\ SchemeWarningThresholds \in SUBSET (1 .. 99)
  /\ Actors \in SUBSET ActorTypes
  /\ MaxPauses \in Nat
  /\ MaxTime \in Instant

VARIABLES
  now,           (* wall-clock time                                         *)
  dispute,       (* the Dispute row                                         *)
  clock,         (* its SLAClock row                                        *)
  deadlines,     (* its SLADeadline rows, by (kind, threshold_percent)      *)
  last_event,    (* the SLAEvent clock.py or a fan-out wrote last            *)
  outbox,        (* idempotency keys present in NotificationOutbox          *)
  tracks,        (* external tracks open on the case                        *)
  membership,    (* its MassEventMembership of each mass event              *)
  representment  (* its Representment, NoRepresentment if none              *)

vars == <<now, dispute, clock, deadlines, last_event, outbox, tracks,
          membership, representment>>

-----------------------------------------------------------------------------
(* Deadline rows and their identities.                                      *)

Never == Horizon + 1     (* a null DateTimeField *)

Moment == Instant \cup {Never}

Key(kind, threshold) == [kind |-> kind, threshold |-> threshold]

Ack == Key("acknowledgement", 0)

Resolution == Key("resolution", 0)

WarningKeys == { Key("warning", t) : t \in WarningThresholds \cap (1 .. 99) }

RegulatoryKeys == {Ack, Resolution} \cup WarningKeys

SchemeKeys ==
  {Key("scheme_representment", 0)}
    \cup { Key("scheme_warning", t) : t \in SchemeWarningThresholds }

Keys == RegulatoryKeys \cup SchemeKeys

(* The window each regulatory row measures. *)
Window(k) ==
  CASE k = Ack        -> AcknowledgementWindow
    [] k = Resolution -> ResolutionWindow
    [] OTHER          -> (ResolutionWindow * k.threshold) \div 100

(* Wall-clock instants of the scheme rows. *)
SchemeInstant(k, r) ==
  IF k.kind = "scheme_representment"
  THEN r.chargeback_at + r.window
  ELSE r.chargeback_at + (r.window * k.threshold) \div 100

NoRepresentment == [chargeback_at |-> Never, window |-> 0]

(* SLAClock; "none" is a case that has not been filed. *)
ClockRow ==
  [state : {"none", "running", "paused", "stopped"}, started_at : Instant,
   paused_at : Moment, paused_intervals : SUBSET Interval]

(* MassEventMembership: what has happened to it; {} is no membership.        *)
Membership == SUBSET {"added", "removed", "applied"}

Row(fires_at) == [fires_at |-> fires_at, fired_at |-> Never]

Unfired == { k \in DOMAIN deadlines : deadlines[k].fired_at = Never }

Fired == DOMAIN deadlines \ Unfired

Overdue == { k \in Unfired : deadlines[k].fires_at <= now }

-----------------------------------------------------------------------------
(* The SLA clock: disputeshield/sla/clock.py.  An empty pause is not kept:   *)
(* _normalise drops it wherever pauses are used.                            *)

NonEmpty(from, to) == IF from < to THEN {<<from, to>>} ELSE {}

(* paused_intervals_of: the closed pauses, and the open one up to `at`. *)
PausesOf(c, at) ==
  c.paused_intervals \cup (IF c.state = "paused" THEN NonEmpty(c.paused_at, at) ELSE {})

AllComputable(c) ==
  \A k \in RegulatoryKeys :
    Computable(c.started_at, Window(k), PausesOf(c, now))

(* _materialise_deadlines: create what is missing, move what has not fired, *)
(* leave fired rows and unpausable rows alone.                              *)
Materialise(c, rows) ==
  [k \in DOMAIN rows \cup RegulatoryKeys |->
     IF k \in DOMAIN rows /\ (k \notin RegulatoryKeys \/ rows[k].fired_at # Never)
     THEN rows[k]
     ELSE Row(compute_deadline(c.started_at, Window(k), PausesOf(c, now)))]

(* Mutant of WithoutUnfired: stop deletes every row. *)
WithoutRows(rows) == [k \in {} |-> rows[k]]

(* stop(): what is left once unfired rows are deleted.  The one kind it      *)
(* spares, REOPEN_WINDOW, is never created by any code.                     *)
WithoutUnfired(rows) ==
  [k \in { j \in DOMAIN rows : rows[j].fired_at # Never } |-> rows[k]]

(* remaining_seconds: business time left to the resolution row, negative     *)
(* once it is past, 0 when there is no such row.                            *)
RemainingSeconds(c, rows, at) ==
  IF Resolution \notin DOMAIN rows THEN 0
  ELSE LET due == rows[Resolution].fires_at IN
         IF at <= due THEN BusinessTimeBetween(at, due, PausesOf(c, at))
                      ELSE - BusinessTimeBetween(due, at, PausesOf(c, at))

(* _record: the SLAEvent is written after the rows have been changed. *)
Record(kind) ==
  last_event' = [kind |-> kind,
                 clock_remaining_seconds |-> RemainingSeconds(clock', deadlines', now)]

Pause(reason) ==
  /\ reason
  /\ clock.state = "running"
  /\ clock' = [clock EXCEPT !.state = "paused", !.paused_at = now]
  /\ UNCHANGED deadlines
  /\ Record("paused")

(* Mutants of Resume: the rows are not recomputed; the pause is not kept;    *)
(* paused_at is not cleared.                                                *)
ResumeWithoutRecompute(reason) ==
  /\ reason
  /\ clock.state = "paused"
  /\ clock' = [clock EXCEPT !.state = "running",
                            !.paused_at = Never,
                            !.paused_intervals = @ \cup NonEmpty(clock.paused_at, now)]
  /\ Cardinality(clock'.paused_intervals) <= MaxPauses
  /\ UNCHANGED deadlines
  /\ Record("resumed")

ResumeForgettingPause(reason) ==
  /\ reason
  /\ clock.state = "paused"
  /\ clock' = [clock EXCEPT !.state = "running", !.paused_at = Never]
  /\ AllComputable(clock')
  /\ deadlines' = Materialise(clock', deadlines)
  /\ Record("resumed")

Resume(reason) ==
  /\ reason
  /\ clock.state = "paused"
  /\ clock' = [clock EXCEPT !.state = "running",
                            !.paused_at = Never,
                            !.paused_intervals = @ \cup NonEmpty(clock.paused_at, now)]
  /\ Cardinality(clock'.paused_intervals) <= MaxPauses
  /\ AllComputable(clock')
  /\ deadlines' = Materialise(clock', deadlines)
  /\ Record("resumed")

Stop ==
  /\ clock' = [clock EXCEPT !.state = "stopped"]
  /\ deadlines' = WithoutUnfired(deadlines)
  /\ Record("stopped")

-----------------------------------------------------------------------------
(* The dispute: disputeshield/disputes/service.py.                          *)

(* _sync_deadlines: a column follows its row for as long as the row exists. *)
SyncDeadlines(d, rows) ==
  [d EXCEPT
     !.ack_deadline = IF Ack \in DOMAIN rows THEN rows[Ack].fires_at ELSE @,
     !.resolution_deadline =
       IF Resolution \in DOMAIN rows THEN rows[Resolution].fires_at ELSE @]

(* file_dispute; submitted_at may lie in the past (a backdated import). *)
FileDispute(submitted_at) ==
  /\ dispute.status = "unfiled"
  /\ submitted_at <= now
  /\ clock' = [state |-> "running", started_at |-> submitted_at,
               paused_at |-> Never, paused_intervals |-> {}]
  /\ AllComputable(clock')
  /\ deadlines' = Materialise(clock', deadlines)
  /\ Record("started")
  /\ dispute' = SyncDeadlines([dispute EXCEPT !.status = "submitted"], deadlines')
  /\ UNCHANGED <<now, outbox, tracks, membership, representment>>

(* Mutant of ApplyClockEffect: leaving awaiting_customer resumes nothing. *)
ApplyClockEffectButResume(effect, reason) ==
  \/ effect = "pause" /\ Pause(reason)
  \/ effect = "stop" /\ clock.state # "stopped" /\ Stop
  \/ /\ effect \in {"none", "resume"} \/ (effect = "stop" /\ clock.state = "stopped")
     /\ UNCHANGED <<clock, deadlines, last_event>>

(* _apply_clock_effect *)
ApplyClockEffect(effect, reason) ==
  \/ effect = "pause" /\ Pause(reason)
  \/ effect = "resume" /\ Resume(reason)
  \/ effect = "stop" /\ clock.state # "stopped" /\ Stop
  \/ /\ effect = "none" \/ (effect = "stop" /\ clock.state = "stopped")
     /\ UNCHANGED <<clock, deadlines, last_event>>

(* transition, and resolve, which also stores the outcome and calls it.     *)
(* `reason` says whether a non-blank reason was given.                      *)
Transition(to, actor, reason) ==
  /\ \E rule \in Find(dispute.status, to) :
       /\ rule.requires_reason => reason
       /\ actor \in rule.actor_types
       /\ to \in TERMINAL => tracks = {}
       /\ ApplyClockEffect(rule.clock_effect, reason)
  /\ dispute' = SyncDeadlines(
       [dispute EXCEPT
          !.status = to,
          !.acknowledged_at = IF to = "acknowledged" /\ @ = Never THEN now ELSE @],
       deadlines')
  /\ UNCHANGED <<now, outbox, tracks, membership, representment>>

-----------------------------------------------------------------------------
(* What else is attached to a case.                                         *)

Filed == dispute.status # "unfiled"

(* escalation.open_track and close_track.  Neither looks at the status.     *)
OpenTrack(body) ==
  /\ Filed
  /\ body \notin tracks
  /\ tracks' = tracks \cup {body}
  /\ UNCHANGED <<now, dispute, clock, deadlines, last_event, outbox,
                 membership, representment>>

CloseTrack(body) ==
  /\ body \in tracks
  /\ tracks' = tracks \ {body}
  /\ UNCHANGED <<now, dispute, clock, deadlines, last_event, outbox,
                 membership, representment>>

(* representment.open_representment: one per case, in any status.           *)
(* _materialise_scheme_deadlines adds the rows, unpausable.                 *)
OpenRepresentment(window) ==
  /\ Filed
  /\ representment = NoRepresentment
  /\ representment' = [chargeback_at |-> now, window |-> window]
  /\ deadlines' = [k \in DOMAIN deadlines \cup SchemeKeys |->
                     IF k \in SchemeKeys THEN Row(SchemeInstant(k, representment'))
                                         ELSE deadlines[k]]
  /\ UNCHANGED <<now, dispute, clock, last_event, outbox, tracks, membership>>

(* mass_events.add: get_or_create, so a removed membership stays removed. *)
AddToMassEvent(event) ==
  /\ Filed
  /\ membership[event] = {}
  /\ membership' = [membership EXCEPT ![event] = {"added"}]
  /\ UNCHANGED <<now, dispute, clock, deadlines, last_event, outbox, tracks,
                 representment>>

RemoveFromMassEvent(event, reason) ==
  /\ reason
  /\ "added" \in membership[event]
  /\ membership' = [membership EXCEPT ![event] = @ \cup {"removed"}]
  /\ UNCHANGED <<now, dispute, clock, deadlines, last_event, outbox, tracks,
                 representment>>

APPLICABLE_FROM == {"investigating", "escalated"}

(* mass_events.apply_outcome on this member: resolved if its status allows,  *)
(* and marked applied either way.  The clock is stopped here, not through    *)
(* stop(): rows stay, and the event records 0 seconds remaining.            *)
ApplyOutcome(event, notes) ==
  /\ notes
  /\ membership[event] = {"added"}
  /\ membership' = [membership EXCEPT ![event] = @ \cup {"applied"}]
  /\ IF dispute.status \in APPLICABLE_FROM
     THEN /\ dispute' = [dispute EXCEPT !.status = "resolved"]
          /\ IF clock.state # "stopped"
             THEN /\ clock' = [clock EXCEPT !.state = "stopped"]
                  /\ last_event' = [kind |-> "stopped", clock_remaining_seconds |-> 0]
             ELSE UNCHANGED <<clock, last_event>>
     ELSE UNCHANGED <<dispute, clock, last_event>>
  /\ UNCHANGED <<now, deadlines, outbox, tracks, representment>>

-----------------------------------------------------------------------------
(* The sweep: disputeshield/sla/sweeper.py.  One run commits a tenant's     *)
(* batches together, so every due row of the case fires in one step.        *)
(* Nothing it calls is mark_breached: dispute.breached never changes.       *)

Fire(due) ==
  /\ due # {}
  /\ deadlines' = [k \in DOMAIN deadlines |->
                     IF k \in due THEN [deadlines[k] EXCEPT !.fired_at = now]
                                  ELSE deadlines[k]]
  /\ outbox' = outbox \cup due
  /\ UNCHANGED <<now, dispute, clock, last_event, tracks, membership, representment>>

(* Mutants of Sweep: stopped clocks are not excluded; paused clocks are. *)
SweepStoppedToo == Fire(Overdue)

SweepRunningOnly == clock.state = "running" /\ Fire(Overdue)

Sweep ==
  /\ clock.state \notin {"none", "stopped"}
  /\ Fire(Overdue)

(* Mismatches reconcile reports: rows that differ from the arithmetic as of  *)
(* now, for clocks that are not stopped.                                     *)
Mismatches ==
  IF clock.state \in {"none", "stopped"} THEN {}
  ELSE { k \in Unfired \cap RegulatoryKeys :
           deadlines[k].fires_at
             # compute_deadline(clock.started_at, Window(k), PausesOf(clock, now)) }

Tick ==
  /\ now < MaxTime
  /\ now' = now + 1
  /\ UNCHANGED <<dispute, clock, deadlines, last_event, outbox, tracks,
                 membership, representment>>

-----------------------------------------------------------------------------

Init ==
  /\ now = 0
  /\ dispute = [status |-> "unfiled", acknowledged_at |-> Never,
                ack_deadline |-> Never, resolution_deadline |-> Never,
                breached |-> {}]
  /\ clock = [state |-> "none", started_at |-> 0, paused_at |-> Never,
              paused_intervals |-> {}]
  /\ deadlines = [k \in {} |-> Row(0)]
  /\ last_event = [kind |-> "none", clock_remaining_seconds |-> 0]
  /\ outbox = {}
  /\ tracks = {}
  /\ membership = [event \in MassEvents |-> {}]
  /\ representment = NoRepresentment

Next ==
  \/ Tick
  \/ \E submitted_at \in Instant : FileDispute(submitted_at)
  \/ \E to \in Statuses, actor \in Actors, reason \in BOOLEAN :
       Transition(to, actor, reason)
  \/ \E body \in Bodies : OpenTrack(body)
  \/ \E body \in Bodies : CloseTrack(body)
  \/ \E window \in ResponseWindows : OpenRepresentment(window)
  \/ \E event \in MassEvents : AddToMassEvent(event)
  \/ \E event \in MassEvents, reason \in BOOLEAN : RemoveFromMassEvent(event, reason)
  \/ \E event \in MassEvents, notes \in BOOLEAN : ApplyOutcome(event, notes)
  \/ Sweep

Spec == Init /\ [][Next]_vars

(* Celery beat runs the sweep every minute and time passes; nobody is       *)
(* obliged to work a case.                                                  *)
FairSpec == Spec /\ WF_vars(Tick) /\ WF_vars(Sweep)

=============================================================================
