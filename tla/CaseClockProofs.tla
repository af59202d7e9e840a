--------------------------- MODULE CaseClockProofs ---------------------------
(***************************************************************************)
(* Proofs about CaseClock, for every calendar, policy, set of bodies and   *)
(* mass events and every bound: type correctness, then the inductive       *)
(* invariant that relates a case's status, its clock, its deadline rows,   *)
(* its queue columns and its outbox, then the action properties.           *)
(***************************************************************************)
EXTENDS CaseReplay, Inductions

-----------------------------------------------------------------------------
(* The arithmetic returns instants and amounts of the right type.           *)

(* A window that can be computed at all expires at an instant. *)
LEMMA ComputeDeadlineType ==
  ASSUME NEW start, NEW window, NEW intervals,
         Computable(start, window, intervals)
  PROVE  compute_deadline(start, window, intervals) \in Instant
<1>1. compute_deadline(start, window, intervals) \in Expiries(start, window, intervals)
  BY DEF Computable, compute_deadline
<1> QED BY <1>1 DEF Expiries

(* Business time is a natural number. *)
LEMMA BusinessTimeType ==
  ASSUME NEW a, NEW b, NEW intervals
  PROVE  BusinessTimeBetween(a, b, intervals) \in Nat
<1> DEFINE T == { t \in Usable(intervals) : a <= t /\ t < b }
<1>1. OpenTicks \subseteq 0 .. (Horizon - 1) /\ Horizon \in Nat
  BY CalendarAssumption
<1>2. IsFiniteSet(0 .. (Horizon - 1))
  BY <1>1, FS_Interval
<1>3. T \subseteq 0 .. (Horizon - 1)
  BY <1>1 DEF Usable
<1>4. IsFiniteSet(T)
  BY <1>2, <1>3, FS_Subset
<1>5. Cardinality(T) \in Nat
  BY <1>4, FS_CardinalityType
<1> QED BY <1>5 DEF BusinessTimeBetween

LEMMA RemainingSecondsType ==
  ASSUME NEW c, NEW rows, NEW at
  PROVE  RemainingSeconds(c, rows, at) \in Int
<1> DEFINE due == rows[Resolution].fires_at
<1>1. /\ BusinessTimeBetween(at, due, PausesOf(c, at)) \in Nat
      /\ BusinessTimeBetween(due, at, PausesOf(c, at)) \in Nat
  BY BusinessTimeType
<1> QED BY <1>1 DEF RemainingSeconds

(* A scheme row's instant, for a representment that exists. *)
LEMMA SchemeInstantType ==
  ASSUME NEW k \in SchemeKeys, NEW r \in [chargeback_at : Instant, window : Nat]
  PROVE  SchemeInstant(k, r) \in Nat
<1>1. Horizon \in Nat /\ SchemeWarningThresholds \in SUBSET (1 .. 99)
  BY CalendarAssumption, PolicyAssumption
<1>2. r.chargeback_at \in Nat /\ r.window \in Nat
  BY <1>1 DEF Instant
<1>3. k.threshold \in Nat
  BY <1>1 DEF SchemeKeys, Key
<1>4. r.window * k.threshold \in Nat
  BY <1>2, <1>3
<1>5. (r.window * k.threshold) \div 100 \in Nat
  <2> DEFINE x == r.window * k.threshold
  <2>1. x \in Nat BY <1>4
  <2> HIDE DEF x
  <2>2. x \div 100 \in Nat BY <2>1
  <2> QED BY <2>2 DEF x
<1> QED BY <1>2, <1>5 DEF SchemeInstant

(* The calls that write rows write rows. *)
RowType == [fires_at : Nat, fired_at : Moment]

RowsType(rows) ==
  /\ DOMAIN rows \in SUBSET Keys
  /\ \A k \in DOMAIN rows : rows[k] \in RowType
  /\ \A k \in DOMAIN rows \cap RegulatoryKeys : rows[k].fires_at \in Instant

LEMMA MaterialiseType ==
  ASSUME NEW c, NEW rows, RowsType(rows), AllComputable(c)
  PROVE  RowsType(Materialise(c, rows))
<1>1. Horizon \in Nat BY CalendarAssumption
<1>2. RegulatoryKeys \subseteq Keys BY DEF Keys
<1>3. ASSUME NEW k \in RegulatoryKeys
      PROVE  LET r == Row(compute_deadline(c.started_at, Window(k), PausesOf(c, now)))
             IN  r \in RowType /\ r.fires_at \in Instant
  <2>1. compute_deadline(c.started_at, Window(k), PausesOf(c, now)) \in Instant
    BY ComputeDeadlineType DEF AllComputable
  <2> QED BY <1>1, <2>1 DEF Row, RowType, Moment, Never, Instant
<1> QED BY <1>2, <1>3 DEF Materialise, RowsType

LEMMA WithoutUnfiredType ==
  ASSUME NEW rows, RowsType(rows)
  PROVE  RowsType(WithoutUnfired(rows))
BY DEF WithoutUnfired, RowsType

-----------------------------------------------------------------------------
(* Type correctness, one lemma per group of actions.                        *)

EventType ==
  [kind : {"none", "started", "paused", "resumed", "stopped"},
   clock_remaining_seconds : Int]

(* The clock, its rows and its last event. *)
ClockOK ==
  /\ now \in Instant
  /\ clock \in ClockRow
  /\ clock.state = "paused" => clock.paused_at \in 0 .. now
  /\ clock.state = "running" => clock.paused_at = Never
  /\ RowsType(deadlines)
  /\ last_event \in EventType

(* Everything else. *)
CaseOK ==
  /\ dispute \in [status : Statuses \cup {"unfiled"},
                  acknowledged_at : Moment,
                  ack_deadline : Moment,
                  resolution_deadline : Moment,
                  breached : SUBSET {"acknowledgement", "resolution"}]
  /\ outbox \in SUBSET Keys
  /\ tracks \in SUBSET Bodies
  /\ membership \in [MassEvents -> SUBSET {"added", "removed", "applied"}]
  /\ representment \in [chargeback_at : Moment, window : Nat]

LEMMA TypeOKParts == TypeOK <=> ClockOK /\ CaseOK
BY DEF TypeOK, ClockOK, CaseOK, ClockRow, Membership, EventType, RowsType, RowType

LEMMA RecordType ==
  ASSUME NEW kind \in {"started", "paused", "resumed", "stopped"}, Record(kind)
  PROVE  last_event' \in EventType
BY RemainingSecondsType DEF Record, EventType

(* pause, resume and stop leave the clock well formed. *)
LEMMA PauseType ==
  ASSUME ClockOK, NEW reason, Pause(reason), UNCHANGED now
  PROVE  ClockOK'
<1>1. last_event' \in EventType BY RecordType DEF Pause
<1>2. clock' = [clock EXCEPT !.state = "paused", !.paused_at = now] BY DEF Pause
<1>3. now \in Instant /\ now \in Moment /\ now \in 0 .. now
  BY CalendarAssumption DEF ClockOK, Instant, Moment
<1>4. clock' \in ClockRow BY <1>2, <1>3 DEF ClockOK, ClockRow
<1>5. clock'.state = "paused" /\ clock'.paused_at = now
  BY <1>2 DEF ClockOK, ClockRow
<1>6. RowsType(deadlines') BY DEF ClockOK, Pause
<1> QED BY <1>1, <1>3, <1>4, <1>5, <1>6 DEF ClockOK

LEMMA ResumeType ==
  ASSUME ClockOK, NEW reason, Resume(reason), UNCHANGED now
  PROVE  ClockOK'
<1>1. last_event' \in EventType BY RecordType DEF Resume
<1>2. clock' = [clock EXCEPT !.state = "running", !.paused_at = Never,
                 !.paused_intervals = clock.paused_intervals
                                        \cup NonEmpty(clock.paused_at, now)]
  BY DEF Resume, ClockOK, ClockRow
<1>3. now \in Instant /\ Never \in Moment /\ clock.paused_at \in Instant
  BY CalendarAssumption DEF ClockOK, Resume, Instant, Moment
<1>4. NonEmpty(clock.paused_at, now) \subseteq Interval
  BY <1>3 DEF NonEmpty, Interval
<1>5. clock' \in ClockRow BY <1>2, <1>3, <1>4 DEF ClockOK, ClockRow
<1>6. clock'.state = "running" /\ clock'.paused_at = Never
  BY <1>2 DEF ClockOK, ClockRow
<1>7. RowsType(deadlines')
  <2>1. deadlines' = Materialise(clock', deadlines) /\ AllComputable(clock')
    BY DEF Resume
  <2> QED BY <2>1, MaterialiseType DEF ClockOK
<1> QED BY <1>1, <1>3, <1>5, <1>6, <1>7 DEF ClockOK

LEMMA StopType ==
  ASSUME ClockOK, Stop, UNCHANGED now
  PROVE  ClockOK'
<1>1. last_event' \in EventType BY RecordType DEF Stop
<1>2. clock' = [clock EXCEPT !.state = "stopped"] BY DEF Stop
<1>3. clock' \in ClockRow /\ clock'.state = "stopped"
  BY <1>2 DEF ClockOK, ClockRow
<1>4. RowsType(deadlines') BY WithoutUnfiredType DEF ClockOK, Stop
<1> QED BY <1>1, <1>3, <1>4 DEF ClockOK

LEMMA ClockEffectType ==
  ASSUME ClockOK, NEW effect, NEW reason, ApplyClockEffect(effect, reason),
         UNCHANGED now
  PROVE  ClockOK'
<1>1. CASE Pause(reason) BY <1>1, PauseType
<1>2. CASE Resume(reason) BY <1>2, ResumeType
<1>3. CASE Stop BY <1>3, StopType
<1>4. CASE UNCHANGED <<clock, deadlines, last_event>>
  BY <1>4 DEF ClockOK, RowsType
<1> QED BY <1>1, <1>2, <1>3, <1>4 DEF ApplyClockEffect

(* The queue columns take the instants of rows that exist. *)
DisputeType ==
  [status : Statuses \cup {"unfiled"},
   acknowledged_at : Moment,
   ack_deadline : Moment,
   resolution_deadline : Moment,
   breached : SUBSET {"acknowledgement", "resolution"}]

LEMMA SyncType ==
  ASSUME NEW d \in DisputeType, NEW rows, RowsType(rows)
  PROVE  SyncDeadlines(d, rows) \in DisputeType
<1>1. Ack \in RegulatoryKeys /\ Resolution \in RegulatoryKeys BY DEF RegulatoryKeys
<1>2. Ack \in DOMAIN rows => rows[Ack].fires_at \in Moment
  BY <1>1 DEF RowsType, Moment
<1>3. Resolution \in DOMAIN rows => rows[Resolution].fires_at \in Moment
  BY <1>1 DEF RowsType, Moment
<1> QED BY <1>2, <1>3 DEF SyncDeadlines, DisputeType

LEMMA FileDisputeType ==
  ASSUME TypeOK, NEW submitted_at \in Instant, FileDispute(submitted_at)
  PROVE  ClockOK' /\ CaseOK'
<1>1. ClockOK /\ CaseOK BY TypeOKParts
<1>2. last_event' \in EventType BY RecordType DEF FileDispute
<1>3. clock' = [state |-> "running", started_at |-> submitted_at,
                paused_at |-> Never, paused_intervals |-> {}]
  BY DEF FileDispute
<1>4. clock' \in ClockRow BY <1>3 DEF ClockRow, Moment
<1>5. RowsType(deadlines')
  BY <1>1, MaterialiseType DEF FileDispute, ClockOK
<1>6. ClockOK' BY <1>1, <1>2, <1>3, <1>4, <1>5 DEF FileDispute, ClockOK
<1>7. [dispute EXCEPT !.status = "submitted"] \in DisputeType
  BY <1>1 DEF CaseOK, DisputeType, Statuses
<1>8. dispute' \in DisputeType BY <1>5, <1>7, SyncType DEF FileDispute
<1>9. CaseOK' BY <1>1, <1>8 DEF FileDispute, CaseOK, DisputeType
<1> QED BY <1>6, <1>9

LEMMA TransitionType ==
  ASSUME TypeOK, NEW to \in Statuses, NEW actor, NEW reason,
         Transition(to, actor, reason)
  PROVE  ClockOK' /\ CaseOK'
<1>1. ClockOK /\ CaseOK BY TypeOKParts
<1>2. ClockOK'
  <2>1. PICK rule \in Find(dispute.status, to) : ApplyClockEffect(rule.clock_effect, reason)
    BY DEF Transition
  <2> QED BY <1>1, <2>1, ClockEffectType DEF Transition
<1>3. now \in Moment BY <1>1 DEF ClockOK, Moment
<1>4. [dispute EXCEPT
         !.status = to,
         !.acknowledged_at =
            IF to = "acknowledged" /\ @ = Never THEN now ELSE @] \in DisputeType
  BY <1>1, <1>3 DEF CaseOK, DisputeType
<1>5. dispute' \in DisputeType
  BY <1>2, <1>4, SyncType DEF Transition, ClockOK
<1> QED BY <1>1, <1>2, <1>5 DEF Transition, CaseOK, DisputeType

LEMMA RepresentmentType ==
  ASSUME TypeOK, NEW window \in ResponseWindows, OpenRepresentment(window)
  PROVE  ClockOK' /\ CaseOK'
<1>1. ClockOK /\ CaseOK BY TypeOKParts
<1>2. now \in Instant /\ window \in Nat /\ Horizon \in Nat
  BY <1>1, CalendarAssumption, PolicyAssumption DEF ClockOK
<1>3. representment' = [chargeback_at |-> now, window |-> window]
  BY DEF OpenRepresentment
<1>4. \A k \in SchemeKeys : SchemeInstant(k, representment') \in Nat
  BY <1>2, <1>3, SchemeInstantType
<1>5. \A k \in SchemeKeys : Row(SchemeInstant(k, representment')) \in RowType
  BY <1>4 DEF Row, RowType, Moment
<1>6. SchemeKeys \subseteq Keys /\ SchemeKeys \cap RegulatoryKeys = {}
  BY DEF Keys, SchemeKeys, RegulatoryKeys, WarningKeys, Ack, Resolution, Key
<1>7. deadlines' = [k \in DOMAIN deadlines \cup SchemeKeys |->
                      IF k \in SchemeKeys THEN Row(SchemeInstant(k, representment'))
                                          ELSE deadlines[k]]
  BY DEF OpenRepresentment
<1>8. RowsType(deadlines') BY <1>1, <1>5, <1>6, <1>7 DEF ClockOK, RowsType
<1>9. ClockOK' BY <1>1, <1>8 DEF ClockOK, OpenRepresentment
<1>10. CaseOK'
  BY <1>1, <1>2, <1>3 DEF CaseOK, OpenRepresentment, Moment
<1> QED BY <1>9, <1>10

LEMMA SweepType ==
  ASSUME TypeOK, Sweep
  PROVE  ClockOK' /\ CaseOK'
<1>1. ClockOK /\ CaseOK BY TypeOKParts
<1>2. now \in Moment BY <1>1 DEF ClockOK, Moment
<1>3. Overdue \subseteq Keys BY <1>1 DEF Overdue, Unfired, ClockOK, RowsType
<1>4. deadlines' = [k \in DOMAIN deadlines |->
                      IF k \in Overdue THEN [deadlines[k] EXCEPT !.fired_at = now]
                                       ELSE deadlines[k]]
  BY DEF Sweep, Fire
<1>5. RowsType(deadlines') BY <1>1, <1>2, <1>4 DEF ClockOK, RowsType, RowType
<1>6. ClockOK' BY <1>1, <1>5 DEF ClockOK, Sweep, Fire
<1>7. CaseOK' BY <1>1, <1>3 DEF CaseOK, Sweep, Fire
<1> QED BY <1>6, <1>7

LEMMA MassEventType ==
  ASSUME TypeOK, NEW event \in MassEvents, NEW reason,
         \/ AddToMassEvent(event)
         \/ RemoveFromMassEvent(event, reason)
         \/ ApplyOutcome(event, reason)
  PROVE  ClockOK' /\ CaseOK'
<1>1. ClockOK /\ CaseOK BY TypeOKParts
<1>2. CASE AddToMassEvent(event)
  BY <1>1, <1>2 DEF AddToMassEvent, ClockOK, CaseOK, RowsType
<1>3. CASE RemoveFromMassEvent(event, reason)
  BY <1>1, <1>3 DEF RemoveFromMassEvent, ClockOK, CaseOK, RowsType
<1>4. CASE ApplyOutcome(event, reason)
  <2>1. ClockOK'
    BY <1>1, <1>4 DEF ApplyOutcome, ClockOK, RowsType, ClockRow, EventType
  <2>2. dispute' \in DisputeType
    BY <1>1, <1>4 DEF ApplyOutcome, CaseOK, DisputeType, Statuses
  <2>3. CaseOK' BY <1>1, <1>4, <2>2 DEF ApplyOutcome, CaseOK, DisputeType
  <2> QED BY <2>1, <2>3
<1> QED BY <1>2, <1>3, <1>4

LEMMA InitType == Init => ClockOK /\ CaseOK
<1>1. Horizon \in Nat /\ MaxTime \in Instant
  BY CalendarAssumption, PolicyAssumption
<1> QED
  BY <1>1 DEF Init, ClockOK, CaseOK, ClockRow, EventType, RowsType, RowType,
     Instant, Moment, Never, NoRepresentment, Row

LEMMA NextType == TypeOK /\ [Next]_vars => TypeOK'
<1> SUFFICES ASSUME TypeOK, [Next]_vars PROVE ClockOK' /\ CaseOK'
  BY DEF TypeOK, ClockOK, CaseOK, ClockRow, Membership, EventType, RowsType, RowType
<1>1. ClockOK /\ CaseOK BY TypeOKParts
<1>2. CASE Tick
  <2>1. now' \in Instant /\ (now \in 0 .. now => now \in 0 .. now') /\ now < now'
    BY <1>1, <1>2, CalendarAssumption, PolicyAssumption DEF Tick, Instant, ClockOK
  <2>2. clock.state = "paused" => clock.paused_at \in 0 .. now'
    BY <1>1, <2>1, CalendarAssumption DEF ClockOK, Instant
  <2> QED BY <1>1, <1>2, <2>1, <2>2 DEF Tick, ClockOK, CaseOK, RowsType
<1>3. CASE \E submitted_at \in Instant : FileDispute(submitted_at)
  BY <1>3, FileDisputeType
<1>4. CASE \E to \in Statuses, actor \in Actors, reason \in BOOLEAN :
             Transition(to, actor, reason)
  BY <1>4, TransitionType
<1>5. CASE \E body \in Bodies : OpenTrack(body) \/ CloseTrack(body)
  BY <1>1, <1>5 DEF OpenTrack, CloseTrack, ClockOK, CaseOK, RowsType
<1>6. CASE \E window \in ResponseWindows : OpenRepresentment(window)
  BY <1>6, RepresentmentType
<1>7. CASE \E event \in MassEvents, reason \in BOOLEAN :
             \/ AddToMassEvent(event)
             \/ RemoveFromMassEvent(event, reason)
             \/ ApplyOutcome(event, reason)
  BY <1>7, MassEventType
<1>8. CASE Sweep BY <1>8, SweepType
<1>9. CASE UNCHANGED vars BY <1>1, <1>9 DEF vars, ClockOK, CaseOK, RowsType
<1> QED BY <1>2, <1>3, <1>4, <1>5, <1>6, <1>7, <1>8, <1>9 DEF Next

(* Every record of a case keeps its type in every behaviour. *)
THEOREM TypeCorrect == Spec => []TypeOK
<1>1. Init => TypeOK BY InitType, TypeOKParts
<1>2. TypeOK /\ [Next]_vars => TypeOK' BY NextType
<1> QED BY <1>1, <1>2, PTL DEF Spec

-----------------------------------------------------------------------------
(* How a step can change the deadline rows.  The invariants about rows are  *)
(* proved from this case analysis and not from Next.                        *)

Live == {"running", "paused"}

(* The rows are left alone, and a clock that is live afterwards was live     *)
(* before, with the same start and the same closed pauses.                  *)
RowsKept ==
  /\ UNCHANGED <<deadlines, outbox, representment>>
  /\ \/ clock'.state = clock.state
     \/ clock.state = "running" /\ clock'.state = "paused"
     \/ clock.state \in Live /\ clock'.state = "stopped"
  /\ clock'.state \in Live => /\ clock'.started_at = clock.started_at
                              /\ clock'.paused_intervals = clock.paused_intervals

RowsMaterialised ==
  /\ UNCHANGED <<now, outbox, representment>>
  /\ clock.state \in {"none", "paused"}
  /\ clock'.state = "running"
  /\ deadlines' = Materialise(clock', deadlines)

RowsWithdrawn ==
  /\ UNCHANGED <<outbox, representment>>
  /\ clock.state \in Live
  /\ clock'.state = "stopped"
  /\ deadlines' = WithoutUnfired(deadlines)

RowStep ==
  \/ RowsKept
  \/ RowsMaterialised
  \/ RowsWithdrawn
  \/ \E window \in ResponseWindows : OpenRepresentment(window)
  \/ Sweep

LEMMA TransitionRowStep ==
  ASSUME TypeOK, StatusMatchesClock,
         NEW to, NEW actor, NEW reason, Transition(to, actor, reason)
  PROVE  RowsKept \/ RowsMaterialised \/ RowsWithdrawn
<1>0. clock.state # "none"
  <2>1. dispute.status # "unfiled"
    BY DEF Transition, Find, TRANSITIONS, Rule
  <2> QED BY <2>1 DEF StatusMatchesClock
<1>1. UNCHANGED <<now, outbox, representment>> BY DEF Transition
<1>2. PICK rule \in Find(dispute.status, to) : ApplyClockEffect(rule.clock_effect, reason)
  BY DEF Transition
<1>3. CASE Pause(reason) BY <1>1, <1>3 DEF Pause, RowsKept, Live, TypeOK, ClockRow
<1>4. CASE Resume(reason) BY <1>1, <1>4 DEF Resume, RowsMaterialised, TypeOK, ClockRow
<1>5. CASE clock.state # "stopped" /\ Stop
  BY <1>0, <1>1, <1>5 DEF Stop, RowsWithdrawn, Live, TypeOK, ClockRow
<1>6. CASE UNCHANGED <<clock, deadlines, last_event>>
  BY <1>1, <1>6 DEF RowsKept, Live
<1> QED BY <1>2, <1>3, <1>4, <1>5, <1>6 DEF ApplyClockEffect

LEMMA NextRowStep ==
  ASSUME TypeOK, StatusMatchesClock, [Next]_vars
  PROVE  RowStep
<1>1. CASE Tick BY <1>1 DEF Tick, RowStep, RowsKept, Live
<1>2. CASE \E submitted_at \in Instant : FileDispute(submitted_at)
  BY <1>2 DEF FileDispute, RowStep, RowsMaterialised, StatusMatchesClock
<1>3. CASE \E to \in Statuses, actor \in Actors, reason \in BOOLEAN :
             Transition(to, actor, reason)
  BY <1>3, TransitionRowStep DEF RowStep
<1>4. CASE \E body \in Bodies : OpenTrack(body) \/ CloseTrack(body)
  BY <1>4 DEF OpenTrack, CloseTrack, RowStep, RowsKept, Live
<1>5. CASE \E window \in ResponseWindows : OpenRepresentment(window)
  BY <1>5 DEF RowStep
<1>6. CASE \E event \in MassEvents, reason \in BOOLEAN :
             AddToMassEvent(event) \/ RemoveFromMassEvent(event, reason)
  BY <1>6 DEF AddToMassEvent, RemoveFromMassEvent, RowStep, RowsKept, Live
<1>7. CASE \E event \in MassEvents, notes \in BOOLEAN : ApplyOutcome(event, notes)
  BY <1>7 DEF ApplyOutcome, APPLICABLE_FROM, RowStep, RowsKept, Live, TypeOK, ClockRow,
     StatusMatchesClock
<1>8. CASE Sweep BY <1>8 DEF RowStep
<1>9. CASE UNCHANGED vars BY <1>9 DEF vars, RowStep, RowsKept, Live
<1> QED BY <1>1, <1>2, <1>3, <1>4, <1>5, <1>6, <1>7, <1>8, <1>9 DEF Next

(* Regulatory rows and scheme rows are different rows. *)
LEMMA KeysApart ==
  /\ SchemeKeys \cap RegulatoryKeys = {}
  /\ Ack \in RegulatoryKeys
  /\ Resolution \in RegulatoryKeys
BY DEF SchemeKeys, RegulatoryKeys, WarningKeys, Ack, Resolution, Key

(* A time that passes is never the null time. *)
LEMMA NowIsNotNull == TypeOK => now # Never
BY CalendarAssumption DEF TypeOK, ClockRow, Instant, Never

-----------------------------------------------------------------------------
(* The status of the case and the state of its clock.                       *)

LEMMA StatusStep ==
  ASSUME TypeOK, StatusMatchesClock, NEW to, NEW actor, NEW reason,
         Transition(to, actor, reason)
  PROVE  StatusMatchesClock'
<1>1. PICK rule \in Find(dispute.status, to) : ApplyClockEffect(rule.clock_effect, reason)
  BY DEF Transition
<1>2. dispute'.status = to BY DEF Transition, SyncDeadlines, TypeOK, ClockRow
<1>3. rule \in TRANSITIONS /\ rule.source = dispute.status /\ rule.target = to
  BY <1>1 DEF Find
<1>4. \/ rule.clock_effect = "pause" /\ clock.state = "running" /\ clock'.state = "paused"
      \/ rule.clock_effect = "resume" /\ clock.state = "paused" /\ clock'.state = "running"
      \/ rule.clock_effect = "stop" /\ clock'.state = "stopped"
      \/ rule.clock_effect = "none" /\ clock' = clock
  BY <1>1 DEF ApplyClockEffect, Pause, Resume, Stop, TypeOK, ClockRow
<1> QED BY <1>2, <1>3, <1>4 DEF StatusMatchesClock, TRANSITIONS, Rule, TERMINAL, TypeOK, ClockRow

LEMMA NextStatus ==
  ASSUME TypeOK, StatusMatchesClock, [Next]_vars
  PROVE  StatusMatchesClock'
<1>1. CASE \E submitted_at \in Instant : FileDispute(submitted_at)
  BY <1>1 DEF FileDispute, SyncDeadlines, StatusMatchesClock, TypeOK, ClockRow, TERMINAL
<1>2. CASE \E to \in Statuses, actor \in Actors, reason \in BOOLEAN :
             Transition(to, actor, reason)
  BY <1>2, StatusStep
<1>3. CASE \E event \in MassEvents, notes \in BOOLEAN : ApplyOutcome(event, notes)
  BY <1>3 DEF ApplyOutcome, APPLICABLE_FROM, StatusMatchesClock, TypeOK, ClockRow, TERMINAL
<1>4. CASE UNCHANGED <<dispute, clock>> BY <1>4 DEF StatusMatchesClock
<1> QED
  BY <1>1, <1>2, <1>3, <1>4 DEF Next, vars, Tick, OpenTrack, CloseTrack,
     OpenRepresentment, AddToMassEvent, RemoveFromMassEvent, Sweep, Fire

-----------------------------------------------------------------------------
(* The deadline rows.                                                       *)

LEMMA NextArithmetic ==
  ASSUME TypeOK, RowsMatchArithmetic, RowStep
  PROVE  RowsMatchArithmetic'
<1> SUFFICES ASSUME clock'.state \in Live, NEW k \in RegulatoryKeys
             PROVE  /\ k \in DOMAIN deadlines'
                    /\ deadlines'[k].fired_at = Never =>
                         deadlines'[k].fires_at =
                           compute_deadline(clock'.started_at, Window(k),
                                            clock'.paused_intervals)
  BY DEF RowsMatchArithmetic, Unfired, Live
<1>1. CASE RowsKept
  BY <1>1 DEF RowsKept, RowsMatchArithmetic, Unfired, Live
<1>2. CASE RowsMaterialised
  <2>1. PausesOf(clock', now) = clock'.paused_intervals
    BY <1>2 DEF RowsMaterialised, PausesOf
  <2> QED BY <1>2, <2>1 DEF RowsMaterialised, Materialise, Row
<1>3. CASE RowsWithdrawn BY <1>3 DEF RowsWithdrawn, Live
<1>4. CASE \E window \in ResponseWindows : OpenRepresentment(window)
  BY <1>4, KeysApart DEF OpenRepresentment, RowsMatchArithmetic, Unfired, Live
<1>5. CASE Sweep
  <2>1. k \in DOMAIN deadlines' /\ clock' = clock
    BY <1>5 DEF Sweep, Fire, RowsMatchArithmetic, Live
  <2>2. deadlines'[k].fires_at = deadlines[k].fires_at
    BY <1>5, <2>1 DEF Sweep, Fire, TypeOK, ClockRow
  <2>3. deadlines'[k].fired_at = Never => deadlines[k].fired_at = Never
    BY <1>5, <2>1, NowIsNotNull DEF Sweep, Fire, TypeOK, ClockRow
  <2> QED BY <2>1, <2>2, <2>3 DEF RowsMatchArithmetic, Unfired, Live
<1> QED BY <1>1, <1>2, <1>3, <1>4, <1>5 DEF RowStep

(* The rows an operation leaves keep the scheme's instants. *)
LEMMA NextScheme ==
  ASSUME TypeOK, SchemeWindowFixed, RowStep
  PROVE  SchemeWindowFixed'
<1> SUFFICES ASSUME NEW k \in SchemeKeys, k \in DOMAIN deadlines'
             PROVE  /\ representment' # NoRepresentment
                    /\ deadlines'[k].fires_at = SchemeInstant(k, representment')
  BY DEF SchemeWindowFixed
<1>1. CASE RowsKept BY <1>1 DEF RowsKept, SchemeWindowFixed
<1>2. CASE RowsMaterialised
  BY <1>2, KeysApart DEF RowsMaterialised, Materialise, SchemeWindowFixed
<1>3. CASE RowsWithdrawn
  BY <1>3 DEF RowsWithdrawn, WithoutUnfired, SchemeWindowFixed
<1>4. CASE \E window \in ResponseWindows : OpenRepresentment(window)
  BY <1>4, NowIsNotNull DEF OpenRepresentment, NoRepresentment, Row
<1>5. CASE Sweep BY <1>5 DEF Sweep, Fire, SchemeWindowFixed, TypeOK, ClockRow
<1> QED BY <1>1, <1>2, <1>3, <1>4, <1>5 DEF RowStep

(* What an operation does to the set of fired rows. *)
LEMMA FiredStep ==
  ASSUME TypeOK, SchemeWindowFixed, RowStep
  PROVE  /\ \A k \in Fired : k \in DOMAIN deadlines' /\ deadlines'[k] = deadlines[k]
         /\ \/ Fired' = Fired /\ outbox' = outbox
            \/ Sweep /\ Fired' = Fired \cup Overdue /\ outbox' = outbox \cup Overdue
<1>1. CASE RowsKept BY <1>1 DEF RowsKept, Fired, Unfired
<1>2. CASE RowsMaterialised
  BY <1>2 DEF RowsMaterialised, Materialise, Row, Fired, Unfired
<1>3. CASE RowsWithdrawn
  BY <1>3 DEF RowsWithdrawn, WithoutUnfired, Fired, Unfired
<1>4. CASE \E window \in ResponseWindows : OpenRepresentment(window)
  <2>1. SchemeKeys \cap DOMAIN deadlines = {}
    BY <1>4 DEF OpenRepresentment, SchemeWindowFixed
  <2> QED BY <1>4, <2>1 DEF OpenRepresentment, Row, Fired, Unfired
<1>5. CASE Sweep
  <2>1. \A k \in Overdue : deadlines'[k].fired_at = now /\ k \in DOMAIN deadlines'
    BY <1>5 DEF Sweep, Fire, Overdue, Unfired, TypeOK, ClockRow
  <2>2. \A k \in DOMAIN deadlines \ Overdue : deadlines'[k] = deadlines[k]
    BY <1>5 DEF Sweep, Fire
  <2>3. DOMAIN deadlines' = DOMAIN deadlines /\ outbox' = outbox \cup Overdue
    BY <1>5 DEF Sweep, Fire
  <2>4. Fired' = Fired \cup Overdue
    BY <2>1, <2>2, <2>3, NowIsNotNull DEF Fired, Unfired, Overdue
  <2> QED BY <1>5, <2>2, <2>3, <2>4 DEF Fired, Overdue
<1> QED BY <1>1, <1>2, <1>3, <1>4, <1>5 DEF RowStep

(* The queue columns. *)
LEMMA SyncCopies ==
  ASSUME NEW d \in DisputeType, NEW rows, NEW e, e = SyncDeadlines(d, rows)
  PROVE  /\ Ack \in DOMAIN rows => e.ack_deadline = rows[Ack].fires_at
         /\ Resolution \in DOMAIN rows => e.resolution_deadline = rows[Resolution].fires_at
BY DEF SyncDeadlines, DisputeType

LEMMA NextColumns ==
  ASSUME TypeOK, ColumnsMatchRows, [Next]_vars
  PROVE  ColumnsMatchRows'
<1>0. dispute \in DisputeType BY DEF TypeOK, ClockRow, DisputeType
<1>1. CASE \E submitted_at \in Instant : FileDispute(submitted_at)
  <2>1. [dispute EXCEPT !.status = "submitted"] \in DisputeType
    BY <1>0 DEF DisputeType, Statuses
  <2> QED BY <1>1, <2>1, SyncCopies DEF FileDispute, ColumnsMatchRows
<1>2. CASE \E to \in Statuses, actor \in Actors, reason \in BOOLEAN :
             Transition(to, actor, reason)
  <2>1. PICK to \in Statuses, actor \in Actors, reason \in BOOLEAN :
               Transition(to, actor, reason)
    BY <1>2
  <2>2. now \in Moment BY DEF TypeOK, ClockRow, Moment
  <2>3. [dispute EXCEPT
           !.status = to,
           !.acknowledged_at =
              IF to = "acknowledged" /\ @ = Never THEN now ELSE @] \in DisputeType
    BY <1>0, <2>2 DEF DisputeType
  <2> QED BY <2>1, <2>3, SyncCopies DEF Transition, ColumnsMatchRows
<1>3. CASE \E window \in ResponseWindows : OpenRepresentment(window)
  BY <1>3, KeysApart DEF OpenRepresentment, ColumnsMatchRows
<1>4. CASE Sweep BY <1>4 DEF Sweep, Fire, ColumnsMatchRows, TypeOK, ClockRow
<1>5. CASE /\ UNCHANGED deadlines
           /\ dispute'.ack_deadline = dispute.ack_deadline
           /\ dispute'.resolution_deadline = dispute.resolution_deadline
  BY <1>5 DEF ColumnsMatchRows
<1> QED
  BY <1>0, <1>1, <1>2, <1>3, <1>4, <1>5 DEF Next, vars, Tick, OpenTrack, CloseTrack,
     AddToMassEvent, RemoveFromMassEvent, ApplyOutcome, DisputeType

-----------------------------------------------------------------------------
(* The inductive invariant.  The firing invariant needs the scheme rows to   *)
(* be absent before a representment; the ledger needs no row before filing.  *)

NoRowsBeforeFiling == clock.state = "none" => DOMAIN deadlines = {}

Consistent ==
  /\ TypeOK
  /\ StatusMatchesClock
  /\ RowsMatchArithmetic
  /\ ColumnsMatchRows
  /\ OneNotificationPerFiring
  /\ SchemeWindowFixed
  /\ NoRowsBeforeFiling

LEMMA InitConsistent == Init => Consistent
<1> SUFFICES ASSUME Init PROVE Consistent OBVIOUS
<1>1. TypeOK BY InitType, TypeOKParts
<1>2. DOMAIN deadlines = {} BY DEF Init
<1>3. Fired = {} BY <1>2 DEF Fired, Unfired
<1> QED
  BY <1>1, <1>2, <1>3 DEF Init, Consistent, StatusMatchesClock, RowsMatchArithmetic,
     ColumnsMatchRows, OneNotificationPerFiring, SchemeWindowFixed,
     NoRowsBeforeFiling, TERMINAL

LEMMA NextConsistent == Consistent /\ [Next]_vars => Consistent'
<1> SUFFICES ASSUME Consistent, [Next]_vars PROVE Consistent' OBVIOUS
<1>1. RowStep BY NextRowStep DEF Consistent
<1>2. TypeOK' BY NextType DEF Consistent
<1>3. StatusMatchesClock' BY NextStatus DEF Consistent
<1>4. RowsMatchArithmetic' BY <1>1, NextArithmetic DEF Consistent
<1>5. ColumnsMatchRows' BY NextColumns DEF Consistent
<1>6. SchemeWindowFixed' BY <1>1, NextScheme DEF Consistent
<1>7. OneNotificationPerFiring'
  BY <1>1, FiredStep DEF Consistent, OneNotificationPerFiring
<1>8. NoRowsBeforeFiling'
  <2>1. CASE \E window \in ResponseWindows : OpenRepresentment(window)
    BY <2>1 DEF OpenRepresentment, Filed, Consistent, StatusMatchesClock, NoRowsBeforeFiling
  <2>2. CASE Sweep BY <2>2 DEF Sweep, Fire, NoRowsBeforeFiling
  <2> QED
    BY <1>1, <2>1, <2>2 DEF RowStep, RowsKept, RowsMaterialised, RowsWithdrawn,
       Consistent, NoRowsBeforeFiling
<1> QED BY <1>2, <1>3, <1>4, <1>5, <1>6, <1>7, <1>8 DEF Consistent

(* The inductive invariant holds in every behaviour: dispute, clock, rows    *)
(* and outbox agree after every operation and every sweep.                  *)
THEOREM AlwaysConsistent == Spec => []Consistent
BY InitConsistent, NextConsistent, PTL DEF Spec

(* A case awaits its customer exactly while its clock is paused, and a       *)
(* decided case has a stopped clock.                                        *)
THEOREM StatusAlwaysMatchesClock == Spec => []StatusMatchesClock
<1>1. Consistent => StatusMatchesClock BY DEF Consistent
<1> QED BY <1>1, AlwaysConsistent, PTL

(* No call lets a stored deadline diverge from the deadline arithmetic. *)
THEOREM RowsAlwaysMatchArithmetic == Spec => []RowsMatchArithmetic
<1>1. Consistent => RowsMatchArithmetic BY DEF Consistent
<1> QED BY <1>1, AlwaysConsistent, PTL

(* The nightly reconciliation (sla/reconcile.py) has nothing to report of a  *)
(* case whose clock runs: what it does report is a paused case, whose open   *)
(* pause it counts and the stored rows do not.                              *)
THEOREM ReconcileReportsOnlyPaused ==
  Spec => [](clock.state = "running" => Mismatches = {})
<1>1. ASSUME RowsMatchArithmetic, clock.state = "running" PROVE Mismatches = {}
  <2>1. PausesOf(clock, now) = clock.paused_intervals BY <1>1 DEF PausesOf
  <2> QED BY <1>1, <2>1 DEF RowsMatchArithmetic, Mismatches
<1>2. RowsMatchArithmetic => (clock.state = "running" => Mismatches = {}) BY <1>1
<1> QED BY <1>2, RowsAlwaysMatchArithmetic, PTL

(* No call lets a queue column diverge from its row. *)
THEOREM ColumnsAlwaysMatchRows == Spec => []ColumnsMatchRows
<1>1. Consistent => ColumnsMatchRows BY DEF Consistent
<1> QED BY <1>1, AlwaysConsistent, PTL

(* Every fired row has its one notification, and nothing else has one. *)
THEOREM NotifiedExactlyOnce == Spec => []OneNotificationPerFiring
<1>1. Consistent => OneNotificationPerFiring BY DEF Consistent
<1> QED BY <1>1, AlwaysConsistent, PTL

(* Nothing moves a scheme row. *)
THEOREM SchemeWindowAlwaysFixed == Spec => []SchemeWindowFixed
<1>1. Consistent => SchemeWindowFixed BY DEF Consistent
<1> QED BY <1>1, AlwaysConsistent, PTL

(* A breach that was recorded is never un-recorded. *)
THEOREM FiredRowsAreHistory == Spec => FiredIsHistory
<1>1. Consistent /\ [Next]_vars =>
        [\A k \in Fired : k \in DOMAIN deadlines' /\ deadlines'[k] = deadlines[k]]_vars
  BY NextRowStep, FiredStep DEF Consistent
<1> QED BY <1>1, AlwaysConsistent, PTL DEF Spec, FiredIsHistory

(* Whatever is left on a stopped clock, it never fires. *)
THEOREM StoppedClocksNeverFire == Spec => StoppedNeverFires
<1>1. Consistent /\ [Next]_vars => [clock.state = "stopped" => Fired' = Fired]_vars
  BY NextRowStep, FiredStep DEF Consistent, Sweep
<1> QED BY <1>1, AlwaysConsistent, PTL DEF Spec, StoppedNeverFires

-----------------------------------------------------------------------------
(* CaseClock implements DeadlineLedger.  Every kind of row step is one       *)
(* action of the ledger, or leaves it as it was.                            *)

MovedTo(S, p) == [k \in Keys |-> IF k \in S THEN p ELSE LedgerPhase[k]]

(* Steps that keep the rows only move the mode. *)
LEMMA KeptRefines ==
  ASSUME Consistent, RowsKept
  PROVE  Ledger!LedgerNext \/ UNCHANGED Ledger!ledgerVars
<1>1. Fired' = Fired /\ Unfired' = Unfired
  BY DEF RowsKept, Fired, Unfired
<1>2. clock.state = "none" <=> clock'.state = "none" BY DEF RowsKept, Live
<1>3. LedgerPhase' = LedgerPhase /\ outbox' = outbox
  BY <1>1, <1>2 DEF RowsKept, LedgerPhase
<1>4. CASE clock'.state = clock.state
  BY <1>3, <1>4 DEF Ledger!ledgerVars, LedgerMode
<1>5. CASE clock.state = "running" /\ clock'.state = "paused"
  <2>1. Ledger!Suspend BY <1>3, <1>5 DEF Ledger!Suspend, LedgerMode
  <2> QED BY <2>1 DEF Ledger!LedgerNext
<1>6. CASE clock.state \in Live /\ clock'.state = "stopped"
  <2>1. LedgerPhase' = MovedTo({}, "withdrawn") BY <1>3 DEF MovedTo, LedgerPhase
  <2>2. Ledger!Halt({})
    BY <1>3, <1>6, <2>1 DEF Ledger!Halt, Ledger!MovedTo, MovedTo, LedgerMode, Live
  <2> QED BY <2>2 DEF Ledger!LedgerNext
<1> QED BY <1>4, <1>5, <1>6 DEF RowsKept

(* Materialising at filing adds the regulatory rows; at a resume it moves    *)
(* instants, which the ledger does not see.                                 *)
LEMMA MaterialisedRefines ==
  ASSUME Consistent, RowsMaterialised
  PROVE  Ledger!LedgerNext
<1>1. Fired' = Fired
  BY DEF RowsMaterialised, Materialise, Row, Fired, Unfired
<1>2. Unfired' = Unfired \cup (RegulatoryKeys \ Fired)
  BY DEF RowsMaterialised, Materialise, Row, Fired, Unfired
<1>3. outbox' = outbox /\ LedgerMode' = "running"
  BY DEF RowsMaterialised, LedgerMode
<1>4. CASE clock.state = "none"
  <2>1. Fired = {} /\ Unfired = {}
    BY <1>4 DEF Consistent, NoRowsBeforeFiling, Fired, Unfired
  <2>2. RegulatoryKeys \subseteq Keys BY DEF Keys
  <2>3. RegulatoryKeys \in SUBSET Ledger!Absent
    BY <1>4, <2>1, <2>2, KeysApart DEF Ledger!Absent, LedgerPhase
  <2>4. LedgerPhase' = MovedTo(RegulatoryKeys, "pending")
    BY <1>1, <1>2, <1>4, <2>1, KeysApart DEF RowsMaterialised, LedgerPhase, MovedTo, Keys
  <2>5. Ledger!Begin(RegulatoryKeys)
    BY <1>3, <1>4, <2>4 DEF Ledger!Begin, Ledger!MovedTo, MovedTo, LedgerMode
  <2> QED BY <2>3, <2>5 DEF Ledger!LedgerNext
<1>5. CASE clock.state = "paused"
  <2>1. RegulatoryKeys \subseteq DOMAIN deadlines
    BY <1>5 DEF Consistent, RowsMatchArithmetic
  <2>2. Unfired' = Unfired BY <1>2, <2>1 DEF Fired
  <2>3. LedgerPhase' = LedgerPhase
    BY <1>1, <1>5, <2>2 DEF RowsMaterialised, LedgerPhase
  <2>4. Ledger!Continue BY <1>3, <1>5, <2>3 DEF Ledger!Continue, LedgerMode
  <2> QED BY <2>4 DEF Ledger!LedgerNext
<1> QED BY <1>4, <1>5 DEF RowsMaterialised

(* Stopping withdraws what has not fired. *)
LEMMA WithdrawnRefines ==
  ASSUME Consistent, RowsWithdrawn
  PROVE  Ledger!LedgerNext
<1>1. Fired' = Fired /\ Unfired' = {}
  BY DEF RowsWithdrawn, WithoutUnfired, Fired, Unfired
<1>2. Unfired \subseteq Keys /\ Fired \cap Unfired = {}
  BY DEF Consistent, TypeOK, ClockRow, Fired, Unfired
<1>3. \A k \in Unfired \cap SchemeKeys : representment # NoRepresentment
  BY DEF Consistent, SchemeWindowFixed, Unfired
<1>4. LedgerPhase' = MovedTo(Unfired, "withdrawn")
  BY <1>1, <1>2, <1>3 DEF RowsWithdrawn, Live, LedgerPhase, MovedTo, Keys
<1>5. Unfired \in SUBSET Ledger!Pending
  BY <1>2 DEF Ledger!Pending, LedgerPhase
<1>6. Ledger!Halt(Unfired)
  BY <1>4 DEF Ledger!Halt, Ledger!MovedTo, MovedTo, RowsWithdrawn, Live, LedgerMode
<1> QED BY <1>5, <1>6 DEF Ledger!LedgerNext

(* Opening a representment adds the scheme's rows, on a live clock or not. *)
LEMMA RepresentmentRefines ==
  ASSUME Consistent, NEW window \in ResponseWindows, OpenRepresentment(window)
  PROVE  Ledger!LedgerNext
<1>1. SchemeKeys \cap DOMAIN deadlines = {} /\ representment = NoRepresentment
  BY DEF OpenRepresentment, Consistent, SchemeWindowFixed
<1>2. Fired' = Fired /\ Unfired' = Unfired \cup SchemeKeys
  BY <1>1 DEF OpenRepresentment, Row, Fired, Unfired
<1>3. clock' = clock /\ clock.state \notin {"none", "idle"} /\ outbox' = outbox
  BY DEF OpenRepresentment, Filed, Consistent, StatusMatchesClock, TypeOK, ClockRow
<1>4. SchemeKeys \in SUBSET Ledger!Absent
  BY <1>1, KeysApart DEF Ledger!Absent, LedgerPhase, Keys, Fired, Unfired
<1>5. LedgerPhase' = MovedTo(SchemeKeys, "pending")
  BY <1>1, <1>2, <1>3, KeysApart DEF LedgerPhase, MovedTo, Keys, Fired, Unfired
<1>6. Ledger!Materialise(SchemeKeys)
  BY <1>3, <1>5 DEF Ledger!Materialise, Ledger!MovedTo, MovedTo, LedgerMode
<1> QED BY <1>4, <1>6 DEF Ledger!LedgerNext

(* The sweep fires and notifies together. *)
LEMMA SweepRefines ==
  ASSUME Consistent, Sweep
  PROVE  Ledger!LedgerNext
<1>1. Fired' = Fired \cup Overdue /\ outbox' = outbox \cup Overdue
  BY FiredStep, NowIsNotNull DEF Consistent, RowStep, Sweep, Fire, Overdue, Unfired, Fired
<1>2. Unfired' = Unfired \ Overdue
  BY <1>1 DEF Sweep, Fire, Fired, Unfired, Overdue
<1>3. Overdue \subseteq Unfired /\ Unfired \subseteq Keys /\ Fired \cap Unfired = {}
  BY DEF Overdue, Consistent, TypeOK, ClockRow, Fired, Unfired
<1>4. LedgerPhase' = MovedTo(Overdue, "fired")
  BY <1>1, <1>2, <1>3 DEF Sweep, Fire, LedgerPhase, MovedTo
<1>5. Overdue \in SUBSET Ledger!Pending
  BY <1>3 DEF Ledger!Pending, LedgerPhase
<1>6. clock' = clock /\ clock.state \in {"running", "paused"}
  BY DEF Sweep, Fire, Consistent, TypeOK, ClockRow
<1>7. Ledger!Fire(Overdue)
  BY <1>1, <1>4, <1>6 DEF Ledger!Fire, Ledger!MovedTo, MovedTo, LedgerMode
<1> QED BY <1>5, <1>7 DEF Ledger!LedgerNext

(* Every behaviour of a case, its clock and its rows is one the ledger of    *)
(* one-shot deadlines allows.                                               *)
THEOREM CaseClockImplementsLedger == Spec => ImplementsLedger
<1>1. Init => Ledger!LedgerInit
  BY DEF Init, Ledger!LedgerInit, LedgerMode, LedgerPhase, Fired, Unfired
<1>2. Consistent /\ [Next]_vars => [Ledger!LedgerNext]_(Ledger!ledgerVars)
  <2> SUFFICES ASSUME Consistent, [Next]_vars
               PROVE  Ledger!LedgerNext \/ UNCHANGED Ledger!ledgerVars
    OBVIOUS
  <2>1. RowStep BY NextRowStep DEF Consistent
  <2> QED
    BY <2>1, KeptRefines, MaterialisedRefines, WithdrawnRefines,
       RepresentmentRefines, SweepRefines DEF RowStep
<1> QED BY <1>1, <1>2, AlwaysConsistent, PTL DEF Spec, ImplementsLedger, Ledger!LedgerSpec


-----------------------------------------------------------------------------
(* Reading a case's events.  The fold of the library is a recursion over     *)
(* sets of positions, largest last; for the prefixes of a sequence it is the *)
(* recursion one expects.                                                   *)

(* Up to the nth event, walk[s] is what has been read of the positions s. *)
Reads(es, n, walk) ==
  walk = [s \in SUBSET (1 .. n) |->
            IF s = {} THEN NothingRead ELSE Read(walk[s \ {Max(s)}], es[Max(s)])]

Walk(es) == FoldLeft(Read, NothingRead, es)

LEMMA WalkIsFold ==
  ASSUME NEW S, NEW es \in Seq(S)
  PROVE  Walk(es) = (CHOOSE walk : Reads(es, Len(es), walk))[1 .. Len(es)]
<1>1. DOMAIN es = 1 .. Len(es)
  OBVIOUS
<1>2. Walk(es) = (CHOOSE walk : walk = [s \in SUBSET DOMAIN es |->
                    IF s = {} THEN NothingRead
                    ELSE Read(walk[s \ {Max(s)}], es[Max(s)])])[DOMAIN es]
  BY DEF Walk, FoldLeft, MapThenFoldSet
<1> QED BY <1>1, <1>2, Zenon DEF Reads

(* The largest of a set of positions that holds the last one. *)
LEMMA LastPosition ==
  ASSUME NEW n \in Nat, NEW s \in SUBSET (1 .. n + 1), n + 1 \in s
  PROVE  Max(s) = n + 1 /\ s \ {n + 1} \in SUBSET (1 .. n)
<1>1. \A x \in s : x \in Int /\ n + 1 >= x
  OBVIOUS
<1>2. \E x \in s : \A y \in s : x >= y
  BY <1>1
<1>3. Max(s) \in s /\ \A y \in s : Max(s) >= y
  BY <1>2 DEF Max
<1>4. PICK m \in s : m = Max(s) /\ \A y \in s : m >= y
  BY <1>3
<1>5. m = n + 1
  BY <1>1, <1>4
<1> QED BY <1>4, <1>5

LEMMA SomePosition ==
  ASSUME NEW n \in Nat, NEW s \in SUBSET (1 .. n), s # {}
  PROVE  Max(s) \in s
<1> DEFINE N == { k \in Nat : \E x \in s : k + x = n }
<1>1. N # {} /\ N \in SUBSET Nat
  <2>1. PICK x \in s : TRUE
    OBVIOUS
  <2>2. n - x \in Nat /\ (n - x) + x = n
    BY <2>1
  <2>3. n - x \in N
    BY <2>2
  <2> QED BY <2>3
<1>2. PICK k \in N : \A j \in N : k <= j
  BY <1>1, LeastNumber
<1>3. n - k \in s /\ \A y \in s : n - k >= y
  <2>1. k \in Nat /\ n - k \in s
    OBVIOUS
  <2>2. ASSUME NEW y \in s PROVE n - k >= y
    <3>1. n - y \in N
      OBVIOUS
    <3>2. k <= n - y
      BY <1>2, <3>1
    <3> QED BY <2>1, <3>2
  <2> QED BY <2>1, <2>2
<1> QED BY <1>3 DEF Max

(* The recursion has a solution for as many events as there are. *)
LEMMA WalkExists ==
  ASSUME NEW es, NEW n \in Nat
  PROVE  \E walk : Reads(es, n, walk)
<1> DEFINE N == { k \in Nat : \E walk : Reads(es, k, walk) }
<1>1. 0 \in N
  <2> DEFINE walk == [s \in SUBSET (1 .. 0) |-> NothingRead]
  <2>1. \A s \in SUBSET (1 .. 0) : s = {}
    OBVIOUS
  <2>2. walk = [s \in SUBSET (1 .. 0) |->
            IF s = {} THEN NothingRead ELSE Read(walk[s \ {Max(s)}], es[Max(s)])]
    BY <2>1
  <2>3. Reads(es, 0, walk)
    BY <2>2 DEF Reads
  <2> QED BY <2>3
<1>2. ASSUME NEW k \in N PROVE k + 1 \in N
  <2>1. k \in Nat /\ k + 1 \in Nat
    OBVIOUS
  <2>2. PICK walk : Reads(es, k, walk)
    OBVIOUS
  <2> DEFINE longer == [s \in SUBSET (1 .. k + 1) |->
                IF k + 1 \in s THEN Read(walk[s \ {k + 1}], es[k + 1]) ELSE walk[s]]
             Value(s) == IF s = {} THEN NothingRead
                         ELSE Read(longer[s \ {Max(s)}], es[Max(s)])
  <2>3. ASSUME NEW s \in SUBSET (1 .. k + 1) PROVE longer[s] = Value(s)
    <3>1. CASE k + 1 \in s
      <4>1. Max(s) = k + 1 /\ s \ {k + 1} \in SUBSET (1 .. k)
        BY <2>1, <3>1, LastPosition
      <4>2. k + 1 \notin s \ {k + 1} /\ s \ {k + 1} \in SUBSET (1 .. k + 1)
        OBVIOUS
      <4>3. longer[s \ {k + 1}] = walk[s \ {k + 1}]
        BY <4>2
      <4>4. longer[s] = Read(walk[s \ {k + 1}], es[k + 1])
        BY <3>1
      <4> HIDE DEF longer
      <4> QED BY <3>1, <4>1, <4>3, <4>4
    <3>2. CASE k + 1 \notin s
      <4>1. s \in SUBSET (1 .. k)
        BY <2>1, <3>2
      <4>2. longer[s] = walk[s]
        BY <3>2
      <4>3. walk[s] = IF s = {} THEN NothingRead ELSE Read(walk[s \ {Max(s)}], es[Max(s)])
        BY <2>2, <4>1 DEF Reads
      <4>4. longer[s \ {Max(s)}] = walk[s \ {Max(s)}]
        BY <3>2
      <4> HIDE DEF longer
      <4> QED BY <4>2, <4>3, <4>4
    <3> QED BY <3>1, <3>2
  <2>4. longer = [s \in SUBSET (1 .. k + 1) |-> longer[s]]
    OBVIOUS
  <2> HIDE DEF longer
  <2>5. longer = [s \in SUBSET (1 .. k + 1) |-> Value(s)]
    BY <2>3, <2>4
  <2>6. Reads(es, k + 1, longer)
    BY <2>5 DEF Reads
  <2> QED BY <2>1, <2>6
<1> HIDE DEF N
<1>3. N \in SUBSET Nat
  BY DEF N
<1>4. n \in N
  BY <1>1, <1>2, <1>3, NumberInduction
<1> QED BY <1>4 DEF N

(* What a solution has read of the first i events. *)
LEMMA ReadsOneByOne ==
  ASSUME NEW es, NEW n \in Nat, NEW walk, Reads(es, n, walk)
  PROVE  /\ walk[1 .. 0] = NothingRead
         /\ \A i \in Nat : i < n => walk[1 .. i + 1] = Read(walk[1 .. i], es[i + 1])
<1>1. walk[1 .. 0] = NothingRead
  <2>1. 1 .. 0 = {} /\ 1 .. 0 \in SUBSET (1 .. n)
    OBVIOUS
  <2> QED BY <2>1 DEF Reads
<1>2. ASSUME NEW i \in Nat, i < n PROVE walk[1 .. i + 1] = Read(walk[1 .. i], es[i + 1])
  <2>1. 1 .. i + 1 \in SUBSET (1 .. n) /\ 1 .. i + 1 # {} /\ i + 1 \in 1 .. i + 1
    BY <1>2
  <2>2. Max(1 .. i + 1) = i + 1
    BY <2>1, LastPosition
  <2>3. (1 .. i + 1) \ {i + 1} = 1 .. i
    OBVIOUS
  <2>4. walk[1 .. i + 1] = Read(walk[(1 .. i + 1) \ {Max(1 .. i + 1)}], es[Max(1 .. i + 1)])
    BY <2>1 DEF Reads
  <2> QED BY <2>2, <2>3, <2>4, Zenon
<1> QED BY <1>1, <1>2

(* Nothing is read of no events, and an event more is one more to read. *)
LEMMA WalkOfNothing == Walk(<<>>) = NothingRead
<1>1. <<>> \in Seq({}) /\ Len(<<>>) = 0
  OBVIOUS
<1>2. PICK walk : Reads(<<>>, 0, walk) /\ Walk(<<>>) = walk[1 .. 0]
  <2>1. \E walk : Reads(<<>>, 0, walk)
    BY WalkExists
  <2>2. Walk(<<>>) = (CHOOSE walk : Reads(<<>>, 0, walk))[1 .. 0]
    BY <1>1, WalkIsFold
  <2> QED BY <2>1, <2>2
<1> QED BY <1>2, ReadsOneByOne

LEMMA WalkAppends ==
  ASSUME NEW S, NEW es \in Seq(S), NEW e \in S
  PROVE  Walk(Append(es, e)) = Read(Walk(es), e)
<1> DEFINE n == Len(es)
           more == Append(es, e)
<1>1. n \in Nat /\ n + 1 \in Nat /\ more \in Seq(S) /\ Len(more) = n + 1 /\ more[n + 1] = e
  OBVIOUS
<1>2. \A i \in Nat : i < n => more[i + 1] = es[i + 1]
  OBVIOUS
<1> HIDE DEF more
<1>3. PICK walk : Reads(es, n, walk) /\ Walk(es) = walk[1 .. n]
  <2>1. \E walk : Reads(es, n, walk)
    BY <1>1, WalkExists
  <2>2. Walk(es) = (CHOOSE walk : Reads(es, n, walk))[1 .. n]
    BY WalkIsFold
  <2> QED BY <2>1, <2>2
<1>4. PICK longer : Reads(more, n + 1, longer) /\ Walk(more) = longer[1 .. n + 1]
  <2>1. \E longer : Reads(more, n + 1, longer)
    BY <1>1, WalkExists
  <2>2. Walk(more) = (CHOOSE longer : Reads(more, n + 1, longer))[1 .. n + 1]
    BY <1>1, WalkIsFold
  <2> QED BY <2>1, <2>2
<1> HIDE DEF n
<1>5. /\ walk[1 .. 0] = NothingRead
      /\ \A i \in Nat : i < n => walk[1 .. i + 1] = Read(walk[1 .. i], es[i + 1])
  BY <1>1, <1>3, ReadsOneByOne
<1>6. /\ longer[1 .. 0] = NothingRead
      /\ \A i \in Nat : i < n + 1 => longer[1 .. i + 1] = Read(longer[1 .. i], more[i + 1])
  BY <1>1, <1>4, ReadsOneByOne
<1> DEFINE N == { i \in Nat : i <= n => longer[1 .. i] = walk[1 .. i] }
<1>7. 0 \in N
  BY <1>5, <1>6
<1>8. ASSUME NEW i \in N PROVE i + 1 \in N
  <2>1. i \in Nat /\ (i <= n => longer[1 .. i] = walk[1 .. i])
    OBVIOUS
  <2>2. SUFFICES ASSUME i + 1 <= n PROVE longer[1 .. i + 1] = walk[1 .. i + 1]
    BY <2>1
  <2>3. i < n /\ i < n + 1 /\ i <= n
    BY <1>1, <2>1, <2>2
  <2>4. longer[1 .. i + 1] = Read(longer[1 .. i], more[i + 1])
    BY <1>6, <2>1, <2>3
  <2>5. walk[1 .. i + 1] = Read(walk[1 .. i], es[i + 1])
    BY <1>5, <2>1, <2>3
  <2>6. more[i + 1] = es[i + 1] /\ longer[1 .. i] = walk[1 .. i]
    BY <1>2, <2>1, <2>3
  <2> QED BY <2>4, <2>5, <2>6, Zenon
<1> HIDE DEF N
<1>9. n \in N
  <2>1. N \in SUBSET Nat
    BY DEF N
  <2> QED BY <1>1, <1>7, <1>8, <2>1, NumberInduction
<1>10. longer[1 .. n] = walk[1 .. n]
  BY <1>1, <1>9 DEF N
<1>11. longer[1 .. n + 1] = Read(longer[1 .. n], more[n + 1])
  BY <1>1, <1>6
<1>12. Walk(more) = Read(Walk(es), e)
  BY <1>1, <1>3, <1>4, <1>10, <1>11, Zenon
<1> QED BY <1>12 DEF more

-----------------------------------------------------------------------------
(* What a step does to the clock.                                           *)

ClockKept == clock' = clock

ClockStarted ==
  /\ clock.state = "none"
  /\ clock' = [state |-> "running", started_at |-> clock'.started_at,
               paused_at |-> Never, paused_intervals |-> {}]
  /\ clock'.started_at <= now
  /\ AllComputable(clock')
  /\ last_event'.kind = "started"

ClockPaused ==
  /\ clock.state = "running"
  /\ clock' = [clock EXCEPT !.state = "paused", !.paused_at = now]
  /\ UNCHANGED deadlines
  /\ Record("paused")

ClockResumed ==
  /\ clock.state = "paused"
  /\ clock' = [clock EXCEPT !.state = "running",
                            !.paused_at = Never,
                            !.paused_intervals = clock.paused_intervals
                                                   \cup NonEmpty(clock.paused_at, now)]
  /\ AllComputable(clock')
  /\ deadlines' = Materialise(clock', deadlines)
  /\ Record("resumed")

ClockStopped ==
  /\ clock.state \in Live
  /\ clock'.state = "stopped"
  /\ last_event'.kind = "stopped"

(* Of a clock that stays as it is, nobody writes an event. *)
ClockStep ==
  \/ ClockKept /\ UNCHANGED last_event
  \/ UNCHANGED now /\ (ClockStarted \/ ClockPaused \/ ClockResumed \/ ClockStopped)

LEMMA NextClockStep ==
  ASSUME TypeOK, StatusMatchesClock, [Next]_vars
  PROVE  ClockStep
<1>1. CASE \E submitted_at \in Instant : FileDispute(submitted_at)
  <2>1. PICK submitted_at \in Instant : FileDispute(submitted_at)
    BY <1>1
  <2>2. clock' = [state |-> "running", started_at |-> submitted_at,
                  paused_at |-> Never, paused_intervals |-> {}]
    BY <2>1 DEF FileDispute
  <2>3. clock.state = "none"
    BY <2>1 DEF FileDispute, StatusMatchesClock
  <2>4. clock'.started_at = submitted_at
    BY <2>2
  <2>5. submitted_at <= now /\ AllComputable(clock') /\ UNCHANGED now
    BY <2>1 DEF FileDispute
  <2>6. last_event'.kind = "started"
    BY <2>1 DEF FileDispute, Record
  <2> QED BY <2>2, <2>3, <2>4, <2>5, <2>6 DEF ClockStarted, ClockStep
<1>2. CASE \E to \in Statuses, actor \in Actors, reason \in BOOLEAN :
             Transition(to, actor, reason)
  <2>1. PICK to \in Statuses, actor \in Actors, reason \in BOOLEAN :
               Transition(to, actor, reason)
    BY <1>2
  <2>2. PICK rule \in Find(dispute.status, to) : ApplyClockEffect(rule.clock_effect, reason)
    BY <2>1 DEF Transition
  <2>3. UNCHANGED now
    BY <2>1 DEF Transition
  <2>4. CASE Pause(reason)
    BY <2>3, <2>4 DEF Pause, ClockPaused, ClockStep
  <2>5. CASE Resume(reason)
    <3>1. clock.state = "paused" /\ AllComputable(clock')
             /\ deadlines' = Materialise(clock', deadlines) /\ Record("resumed")
      BY <2>5 DEF Resume
    <3>2. clock' = [clock EXCEPT !.state = "running", !.paused_at = Never,
                      !.paused_intervals = clock.paused_intervals
                                             \cup NonEmpty(clock.paused_at, now)]
      BY <2>5 DEF Resume, TypeOK, ClockRow
    <3> QED BY <2>3, <3>1, <3>2 DEF ClockResumed, ClockStep
  <2>6. CASE clock.state # "stopped" /\ Stop
    <3>1. clock.state \in Live
      <4>1. dispute.status # "unfiled"
        BY <2>1 DEF Transition, Find, TRANSITIONS, Rule
      <4> QED BY <2>6, <4>1 DEF StatusMatchesClock, TypeOK, ClockRow, Live
    <3>2. clock'.state = "stopped"
      BY <2>6 DEF Stop, TypeOK, ClockRow
    <3>3. last_event'.kind = "stopped"
      BY <2>6 DEF Stop, Record
    <3> QED BY <2>3, <3>1, <3>2, <3>3 DEF ClockStopped, ClockStep
  <2>7. CASE UNCHANGED <<clock, deadlines, last_event>>
    BY <2>7 DEF ClockKept, ClockStep
  <2> QED BY <2>2, <2>4, <2>5, <2>6, <2>7 DEF ApplyClockEffect
<1>3. CASE \E event \in MassEvents, notes \in BOOLEAN : ApplyOutcome(event, notes)
  <2>1. PICK event \in MassEvents, notes \in BOOLEAN : ApplyOutcome(event, notes)
    BY <1>3
  <2>2. UNCHANGED now
    BY <2>1 DEF ApplyOutcome
  <2>3. CASE UNCHANGED <<clock, last_event>>
    BY <2>3 DEF ClockKept, ClockStep
  <2>4. CASE /\ dispute.status \in APPLICABLE_FROM
             /\ clock.state # "stopped"
             /\ clock' = [clock EXCEPT !.state = "stopped"]
             /\ last_event' = [kind |-> "stopped", clock_remaining_seconds |-> 0]
    <3>1. clock.state \in Live
      BY <2>4 DEF StatusMatchesClock, TypeOK, ClockRow, Live, APPLICABLE_FROM
    <3>2. clock'.state = "stopped" /\ last_event'.kind = "stopped"
      BY <2>4 DEF TypeOK, ClockRow
    <3> QED BY <2>2, <3>1, <3>2 DEF ClockStopped, ClockStep
  <2> QED BY <2>1, <2>3, <2>4 DEF ApplyOutcome
<1>4. CASE UNCHANGED <<clock, last_event>>
  BY <1>4 DEF ClockKept, ClockStep
<1> QED
  BY <1>1, <1>2, <1>3, <1>4 DEF Next, vars, Tick, OpenTrack, CloseTrack,
     OpenRepresentment, AddToMassEvent, RemoveFromMassEvent, Sweep, Fire

-----------------------------------------------------------------------------
(* Deadlines that can be computed are computed once: at most one instant     *)
(* expires a window.                                                        *)

LEMMA TicksAreFinite ==
  ASSUME NEW a, NEW b, NEW intervals
  PROVE  IsFiniteSet({ t \in Usable(intervals) : a <= t /\ t < b })
<1>1. { t \in Usable(intervals) : a <= t /\ t < b } \subseteq 0 .. (Horizon - 1)
  BY CalendarAssumption DEF Usable
<1>2. IsFiniteSet(0 .. (Horizon - 1))
  BY CalendarAssumption, FS_Interval
<1> QED BY <1>1, <1>2, FS_Subset

LEMMA UsableTicks ==
  ASSUME NEW intervals
  PROVE  Usable(intervals) \in SUBSET Nat
<1>1. OpenTicks \in SUBSET (0 .. Horizon - 1)
  BY CalendarAssumption
<1>2. \A t \in OpenTicks : t \in Nat
  BY <1>1
<1> QED BY <1>2 DEF Usable

(* Business time grows with every usable tick. *)
LEMMA TimeGrows ==
  ASSUME NEW start \in Int, NEW d \in Nat, NEW later \in Nat, NEW intervals,
         d < later, start <= d, later - 1 \in Usable(intervals)
  PROVE  BusinessTimeBetween(start, d, intervals) < BusinessTimeBetween(start, later, intervals)
<1> DEFINE U == Usable(intervals)
           Before == { t \in U : start <= t /\ t < d }
           After == { t \in U : start <= t /\ t < later }
<1>1. \A t \in U : t \in Nat
  BY UsableTicks
<1>2. Before \subseteq After
  BY <1>1
<1>3. later - 1 \in After /\ later - 1 \notin Before
  BY <1>1
<1>4. IsFiniteSet(After) /\ IsFiniteSet(Before)
  BY TicksAreFinite
<1>5. Cardinality(Before) < Cardinality(After)
  <2> HIDE DEF Before, After
  <2>1. Before # After
    BY <1>3
  <2>2. Cardinality(Before) <= Cardinality(After)
        /\ (Cardinality(Before) = Cardinality(After) => Before = After)
    BY <1>2, <1>4, FS_Subset
  <2>3. Cardinality(Before) \in Nat /\ Cardinality(After) \in Nat
    BY <1>4, FS_CardinalityType
  <2> QED BY <2>1, <2>2, <2>3
<1> QED BY <1>5 DEF BusinessTimeBetween

LEMMA OneExpiry ==
  ASSUME NEW start \in Nat, NEW window, NEW intervals, Computable(start, window, intervals)
  PROVE  Expiries(start, window, intervals) = {compute_deadline(start, window, intervals)}
<1> DEFINE E == Expiries(start, window, intervals)
<1>1. compute_deadline(start, window, intervals) \in E
  BY DEF Computable, compute_deadline
<1>2. ASSUME NEW d \in E, NEW later \in E, d < later PROVE FALSE
  <2>1. d \in Nat /\ later \in Nat /\ start <= d /\ later - 1 \in Usable(intervals)
    BY CalendarAssumption DEF Expiries, Instant
  <2>2. BusinessTimeBetween(start, d, intervals) < BusinessTimeBetween(start, later, intervals)
    BY <1>2, <2>1, TimeGrows
  <2>3. BusinessTimeBetween(start, d, intervals) = BusinessTimeBetween(start, later, intervals)
    BY DEF Expiries
  <2>4. BusinessTimeBetween(start, d, intervals) \in Nat
    BY BusinessTimeType
  <2> QED BY <2>2, <2>3, <2>4
<1>3. \A d \in E : d \in Nat
  BY CalendarAssumption DEF Expiries, Instant
<1>4. \A d, later \in E : d = later
  <2>1. TAKE d, later \in E
  <2>2. d \in Nat /\ later \in Nat
    BY <1>3
  <2>3. ~(d < later) /\ ~(later < d)
    BY <1>2
  <2> QED BY <2>2, <2>3
<1> QED BY <1>1, <1>4

-----------------------------------------------------------------------------
(* The case and its evidence.                                               *)

(* A live clock was started in the past, before it was paused, and its       *)
(* deadlines can be computed.                                               *)
LiveClockOK ==
  clock.state \in Live =>
    /\ clock.started_at <= now
    /\ clock.state = "paused" => clock.started_at <= clock.paused_at
    /\ \A k \in RegulatoryKeys : Computable(clock.started_at, Window(k), clock.paused_intervals)

LEMMA NextLiveClock ==
  ASSUME TypeOK, StatusMatchesClock, LiveClockOK, [Next]_vars
  PROVE  LiveClockOK'
<1>1. ClockStep
  BY NextClockStep
<1>2. now \in Int /\ now' \in Int /\ now <= now' /\ clock.started_at \in Int
  <2>1. now' = now \/ now' = now + 1
    BY DEF Next, vars, Tick, FileDispute, Transition, OpenTrack, CloseTrack, OpenRepresentment,
       AddToMassEvent, RemoveFromMassEvent, ApplyOutcome, Sweep, Fire
  <2>2. now \in Int /\ clock.started_at \in Int
    BY CalendarAssumption DEF TypeOK, ClockRow, Instant
  <2> QED BY <2>1, <2>2
<1>3. CASE ClockKept
  BY <1>2, <1>3 DEF ClockKept, LiveClockOK, Live
<1>4. CASE ClockStarted /\ UNCHANGED now
  <2>1. clock'.state = "running" /\ clock'.paused_intervals = {} /\ clock'.started_at <= now
    BY <1>4 DEF ClockStarted
  <2>2. PausesOf(clock', now) = clock'.paused_intervals
    BY <2>1 DEF PausesOf
  <2> QED BY <1>4, <2>1, <2>2 DEF ClockStarted, LiveClockOK, AllComputable
<1>5. CASE ClockPaused /\ UNCHANGED now
  <2>1. /\ clock'.paused_at = now /\ clock'.started_at = clock.started_at
        /\ clock'.paused_intervals = clock.paused_intervals
    BY <1>5 DEF ClockPaused, TypeOK, ClockRow
  <2> QED BY <1>5, <2>1 DEF ClockPaused, LiveClockOK, Live
<1>6. CASE ClockResumed /\ UNCHANGED now
  <2>1. clock'.state = "running" /\ clock'.started_at = clock.started_at
    BY <1>6 DEF ClockResumed, TypeOK, ClockRow
  <2>2. PausesOf(clock', now) = clock'.paused_intervals
    BY <2>1 DEF PausesOf
  <2> QED BY <1>6, <2>1, <2>2 DEF ClockResumed, LiveClockOK, AllComputable, Live
<1>7. CASE ClockStopped
  BY <1>7 DEF ClockStopped, LiveClockOK, Live
<1> QED BY <1>1, <1>3, <1>4, <1>5, <1>6, <1>7 DEF ClockStep

(* What the events say of a live clock, and that nothing settles it. *)
EventRecord ==
  [kind : {"none", "started", "paused", "resumed", "stopped"},
   occurred_at : Instant, clock_remaining_seconds : Int]

EventsTell ==
  /\ clock.state = "none" => events = <<>>
  /\ clock.state = "running" =>
       Walk(events) = [opened_at |-> Never, intervals |-> clock.paused_intervals]
  /\ clock.state = "paused" =>
       Walk(events) = [opened_at |-> clock.paused_at, intervals |-> clock.paused_intervals]

Unsettled ==
  clock.state # "stopped" => settlement = [resolved_at |-> Never, closed_at |-> Never]

ReplayInv ==
  /\ Consistent
  /\ LiveClockOK
  /\ events \in Seq(EventRecord)
  /\ EventsTell
  /\ Unsettled

LEMMA ReplayInitInv == ReplayInit => ReplayInv
<1> SUFFICES ASSUME ReplayInit PROVE ReplayInv
  OBVIOUS
<1>1. Consistent
  BY InitConsistent DEF ReplayInit
<1>2. clock.state = "none" /\ events = <<>>
  BY DEF ReplayInit, Init
<1>3. settlement = [resolved_at |-> Never, closed_at |-> Never]
  BY DEF ReplayInit
<1>4. <<>> \in Seq(EventRecord)
  OBVIOUS
<1> QED BY <1>1, <1>2, <1>3, <1>4 DEF ReplayInv, LiveClockOK, Live, EventsTell, Unsettled

LEMMA NextEvents ==
  ASSUME ReplayInv, Next, Recorded, Consistent'
  PROVE  events' \in Seq(EventRecord) /\ EventsTell'
<1>0. TypeOK /\ TypeOK' /\ StatusMatchesClock /\ events \in Seq(EventRecord)
  BY DEF ReplayInv, Consistent
<1>1. ClockStep
  BY <1>0, NextClockStep
<1>2. now \in Instant /\ now # Never
  BY <1>0, NowIsNotNull DEF TypeOK
<1> DEFINE e == [kind |-> last_event'.kind, occurred_at |-> now,
                 clock_remaining_seconds |-> last_event'.clock_remaining_seconds]
<1>3. e \in EventRecord
  BY <1>0, <1>2 DEF TypeOK, EventRecord
<1>4. Append(events, e) \in Seq(EventRecord)
  BY <1>0, <1>3
<1>5. events' = IF clock'.state = clock.state THEN events ELSE Append(events, e)
  BY DEF Recorded
<1>6. events' \in Seq(EventRecord)
  BY <1>0, <1>4, <1>5
<1>7. Walk(Append(events, e)) = Read(Walk(events), e)
  BY <1>0, <1>3, WalkAppends
<1>8. e.kind = last_event'.kind /\ e.occurred_at = now
  OBVIOUS
<1> HIDE DEF e
<1>9. CASE ClockKept
  <2>1. events' = events
    BY <1>5, <1>9 DEF ClockKept
  <2> QED BY <1>6, <1>9, <2>1 DEF ClockKept, EventsTell, ReplayInv
<1>10. CASE ClockStarted
  <2>1. clock'.state = "running" /\ clock'.paused_intervals = {} /\ e.kind = "started"
    BY <1>8, <1>10 DEF ClockStarted
  <2>2. events = <<>> /\ events' = Append(events, e)
    BY <1>5, <1>10, <2>1 DEF ClockStarted, ReplayInv, EventsTell
  <2>3. Walk(events') = NothingRead
    BY <1>7, <2>1, <2>2, WalkOfNothing DEF Read
  <2> QED BY <1>6, <2>1, <2>3 DEF EventsTell, NothingRead
<1>11. CASE ClockPaused
  <2>1. /\ clock'.state = "paused" /\ clock'.paused_at = now
        /\ clock'.paused_intervals = clock.paused_intervals
    BY <1>0, <1>11 DEF ClockPaused, TypeOK, ClockRow
  <2>2. e.kind = "paused" /\ events' = Append(events, e)
    BY <1>5, <1>8, <1>11, <2>1 DEF ClockPaused, Record
  <2>3. Walk(events) = [opened_at |-> Never, intervals |-> clock.paused_intervals]
    BY <1>11 DEF ClockPaused, ReplayInv, EventsTell
  <2>4. Read(Walk(events), e) = [opened_at |-> now, intervals |-> clock.paused_intervals]
    BY <1>8, <2>2, <2>3 DEF Read
  <2> QED BY <1>6, <1>7, <2>1, <2>2, <2>4 DEF EventsTell
<1>12. CASE ClockResumed
  <2>1. /\ clock'.state = "running"
        /\ clock'.paused_intervals = clock.paused_intervals \cup NonEmpty(clock.paused_at, now)
    BY <1>0, <1>12 DEF ClockResumed, TypeOK, ClockRow
  <2>2. e.kind = "resumed" /\ events' = Append(events, e)
    BY <1>5, <1>8, <1>12, <2>1 DEF ClockResumed, Record
  <2>3. Walk(events) = [opened_at |-> clock.paused_at, intervals |-> clock.paused_intervals]
    BY <1>12 DEF ClockResumed, ReplayInv, EventsTell
  <2>4. clock.paused_at # Never
    BY <1>0, <1>2, <1>12, CalendarAssumption DEF ClockResumed, TypeOK, Instant, Never
  <2>5. Read(Walk(events), e) = [opened_at |-> Never, intervals |-> clock'.paused_intervals]
    BY <1>8, <2>1, <2>2, <2>3, <2>4 DEF Read
  <2> QED BY <1>6, <1>7, <2>1, <2>2, <2>5 DEF EventsTell
<1>13. CASE ClockStopped
  BY <1>6, <1>13 DEF ClockStopped, EventsTell
<1> QED BY <1>1, <1>9, <1>10, <1>11, <1>12, <1>13 DEF ClockStep

LEMMA NextSettlement ==
  ASSUME ReplayInv, Next, NEW through_resolve, Settled(through_resolve), Consistent'
  PROVE  Unsettled'
<1> SUFFICES ASSUME clock'.state # "stopped"
             PROVE  settlement' = [resolved_at |-> Never, closed_at |-> Never]
  BY DEF Unsettled
<1>1. ClockStep
  BY NextClockStep DEF ReplayInv, Consistent
<1>2. clock.state # "stopped"
  BY <1>1 DEF ClockStep, ClockKept, ClockStarted, ClockPaused, ClockResumed, ClockStopped
<1>3. dispute'.status # "resolved" /\ dispute'.status \notin TERMINAL
  BY DEF Consistent, StatusMatchesClock
<1>4. settlement = [resolved_at |-> Never, closed_at |-> Never]
  BY <1>2 DEF ReplayInv, Unsettled
<1> QED BY <1>3, <1>4 DEF Settled

LEMMA ReplayNextInv == ReplayInv /\ [ReplayNext]_replayVars => ReplayInv'
<1> SUFFICES ASSUME ReplayInv, [ReplayNext]_replayVars PROVE ReplayInv'
  OBVIOUS
<1>1. [Next]_vars
  BY DEF ReplayNext, replayVars
<1>2. Consistent'
  BY <1>1, NextConsistent DEF ReplayInv
<1>3. LiveClockOK'
  BY <1>1, NextLiveClock DEF ReplayInv, Consistent
<1>4. CASE ReplayNext
  <2>1. events' \in Seq(EventRecord) /\ EventsTell'
    BY <1>2, <1>4, NextEvents DEF ReplayNext
  <2>2. Unsettled'
    BY <1>2, <1>4, NextSettlement DEF ReplayNext
  <2> QED BY <1>2, <1>3, <2>1, <2>2 DEF ReplayInv
<1>5. CASE UNCHANGED replayVars
  <2>1. clock' = clock /\ events' = events /\ settlement' = settlement
    BY <1>5 DEF replayVars, vars
  <2> QED BY <1>2, <1>3, <2>1 DEF ReplayInv, EventsTell, Unsettled
<1> QED BY <1>4, <1>5

(* What the simulator rebuilds from the evidence is what the clock holds. *)
LEMMA EventsRestore == ReplayInv => ReplayRestoresTheClock
<1> SUFFICES ASSUME ReplayInv, clock.state \in Live
             PROVE  /\ _historical_pauses = PausesOf(clock, now)
                    /\ Resolution \in Unfired /\ clock.state = "running" =>
                         /\ projected_deadline(ResolutionWindow) = {deadlines[Resolution].fires_at}
                         /\ projected_breach(ResolutionWindow) =
                              {now > deadlines[Resolution].fires_at}
  BY DEF ReplayRestoresTheClock, Live
<1>0. TypeOK
  BY DEF ReplayInv, Consistent
<1>1. settled_at = now
  <2>1. settlement = [resolved_at |-> Never, closed_at |-> Never]
    BY DEF ReplayInv, Unsettled, Live
  <2> QED BY <2>1 DEF settled_at
<1>2. _historical_pauses = PausesOf(clock, now)
  <2> DEFINE read == Walk(events)
  <2>1. _historical_pauses =
          read.intervals \cup (IF read.opened_at = Never THEN {}
                               ELSE NonEmpty(read.opened_at, settled_at))
    BY DEF _historical_pauses, Walk
  <2>2. CASE clock.state = "running"
    <3>1. read = [opened_at |-> Never, intervals |-> clock.paused_intervals]
      BY <2>2 DEF ReplayInv, EventsTell
    <3> HIDE DEF read
    <3> QED BY <2>1, <2>2, <3>1 DEF PausesOf
  <2>3. CASE clock.state = "paused"
    <3>1. read = [opened_at |-> clock.paused_at, intervals |-> clock.paused_intervals]
      BY <2>3 DEF ReplayInv, EventsTell
    <3>2. clock.paused_at # Never
      BY <1>0, <2>3, CalendarAssumption DEF TypeOK, Instant, Never
    <3> HIDE DEF read
    <3> QED BY <1>1, <2>1, <2>3, <3>1, <3>2 DEF PausesOf
  <2> QED BY <2>2, <2>3 DEF Live
<1>3. ASSUME Resolution \in Unfired, clock.state = "running"
      PROVE  /\ projected_deadline(ResolutionWindow) = {deadlines[Resolution].fires_at}
             /\ projected_breach(ResolutionWindow) = {now > deadlines[Resolution].fires_at}
  <2>1. _historical_pauses = clock.paused_intervals
    BY <1>2, <1>3 DEF PausesOf
  <2>2. Resolution \in RegulatoryKeys /\ Window(Resolution) = ResolutionWindow
    BY DEF RegulatoryKeys, Window, Resolution, Ack, Key
  <2>3. clock.started_at \in Nat
    BY <1>0, CalendarAssumption DEF TypeOK, ClockRow, Instant
  <2>4. Computable(clock.started_at, ResolutionWindow, clock.paused_intervals)
    BY <1>3, <2>2 DEF ReplayInv, LiveClockOK, Live
  <2>5. deadlines[Resolution].fires_at =
          compute_deadline(clock.started_at, ResolutionWindow, clock.paused_intervals)
    BY <1>3, <2>2 DEF ReplayInv, Consistent, RowsMatchArithmetic
  <2>6. projected_deadline(ResolutionWindow) = {deadlines[Resolution].fires_at}
    BY <2>1, <2>3, <2>4, <2>5, OneExpiry DEF projected_deadline
  <2>7. projected_breach(ResolutionWindow) = {now > deadlines[Resolution].fires_at}
    BY <1>1, <2>6 DEF projected_breach
  <2> QED BY <2>6, <2>7
<1> QED BY <1>2, <1>3

(* The simulator's replay of an unchanged policy finds the pauses, the       *)
(* deadline and the verdict of the live clock, however often the case was    *)
(* paused and resumed and whatever settled it before.                       *)
THEOREM ReplayAlwaysRestoresTheClock == ReplaySpec => []ReplayRestoresTheClock
<1>1. ReplaySpec => []ReplayInv
  BY ReplayInitInv, ReplayNextInv, PTL DEF ReplaySpec
<1> QED BY <1>1, EventsRestore, PTL

-----------------------------------------------------------------------------
(* Waiting on the customer.                                                 *)

LEMMA TimeSplits ==
  ASSUME NEW a \in Int, NEW m \in Int, NEW b \in Int, a <= m, m <= b, NEW intervals
  PROVE  BusinessTimeBetween(a, b, intervals) =
           BusinessTimeBetween(a, m, intervals) + BusinessTimeBetween(m, b, intervals)
<1> DEFINE U == Usable(intervals)
           Ticks(x, y) == { t \in U : x <= t /\ t < y }
<1>1. \A t \in U : t \in Nat
  BY UsableTicks
<1>2. Ticks(a, b) = Ticks(a, m) \cup Ticks(m, b) /\ Ticks(a, m) \cap Ticks(m, b) = {}
  BY <1>1
<1>3. \A x, y : IsFiniteSet(Ticks(x, y)) /\ Cardinality(Ticks(x, y)) \in Nat
  BY TicksAreFinite, FS_CardinalityType
<1>4. Cardinality(Ticks(a, b)) = Cardinality(Ticks(a, m)) + Cardinality(Ticks(m, b))
  <2> HIDE DEF Ticks
  <2>1. Cardinality(Ticks(a, m) \cup Ticks(m, b)) =
          Cardinality(Ticks(a, m)) + Cardinality(Ticks(m, b))
            - Cardinality(Ticks(a, m) \cap Ticks(m, b))
    BY <1>3, FS_Union
  <2>2. Cardinality(Ticks(a, m) \cap Ticks(m, b)) = 0
    BY <1>2, FS_EmptySet
  <2>3. Cardinality(Ticks(a, m)) \in Nat /\ Cardinality(Ticks(m, b)) \in Nat
    BY <1>3
  <2> QED BY <1>2, <2>1, <2>2, <2>3
<1> QED BY <1>4 DEF BusinessTimeBetween

LEMMA NoTimeAtOnce ==
  ASSUME NEW a \in Int, NEW intervals
  PROVE  BusinessTimeBetween(a, a, intervals) = 0
<1>1. \A t \in Usable(intervals) : t \in Nat
  BY UsableTicks
<1>2. { t \in Usable(intervals) : a <= t /\ t < a } = {}
  BY <1>1
<1> QED BY <1>2, FS_EmptySet DEF BusinessTimeBetween

(* A pause takes out its own ticks and no others. *)
LEMMA UsableOutsidePause ==
  ASSUME NEW intervals, NEW from \in Nat, NEW to \in Nat
  PROVE  Usable(intervals \cup NonEmpty(from, to)) =
           { t \in Usable(intervals) : ~(from <= t /\ t < to) }
<1>1. \A t \in OpenTicks : t \in Nat
  <2>1. OpenTicks \in SUBSET (0 .. Horizon - 1)
    BY CalendarAssumption
  <2> QED BY <2>1
<1>2. ASSUME NEW t \in OpenTicks
      PROVE  (\E p \in intervals \cup NonEmpty(from, to) : p[1] <= t /\ t < p[2])
               <=> (\E p \in intervals : p[1] <= t /\ t < p[2]) \/ (from <= t /\ t < to)
  <2>1. t \in Nat
    BY <1>1
  <2>2. CASE from < to
    <3>1. NonEmpty(from, to) = {<<from, to>>}
      BY <2>2 DEF NonEmpty
    <3>2. <<from, to>>[1] = from /\ <<from, to>>[2] = to
      OBVIOUS
    <3> QED BY <3>1, <3>2
  <2>3. CASE ~(from < to)
    <3>1. NonEmpty(from, to) = {} /\ ~(from <= t /\ t < to)
      BY <2>1, <2>3 DEF NonEmpty
    <3> QED BY <3>1
  <2> QED BY <2>2, <2>3
<1> QED BY <1>2 DEF Usable, PausedTicks

LEMMA TimeOutsidePause ==
  ASSUME NEW intervals, NEW from \in Nat, NEW to \in Nat, from <= to
  PROVE  /\ \A a, b \in Nat : b <= from =>
              BusinessTimeBetween(a, b, intervals \cup NonEmpty(from, to)) =
                BusinessTimeBetween(a, b, intervals)
         /\ BusinessTimeBetween(from, to, intervals \cup NonEmpty(from, to)) = 0
<1> DEFINE J == intervals \cup NonEmpty(from, to)
<1>1. \A t \in Usable(intervals) : t \in Nat
  BY UsableTicks
<1>2. Usable(J) = { t \in Usable(intervals) : ~(from <= t /\ t < to) }
  BY UsableOutsidePause
<1> HIDE DEF J
<1>3. ASSUME NEW a \in Nat, NEW b \in Nat, b <= from
      PROVE  BusinessTimeBetween(a, b, J) = BusinessTimeBetween(a, b, intervals)
  <2>1. { t \in Usable(J) : a <= t /\ t < b } = { t \in Usable(intervals) : a <= t /\ t < b }
    BY <1>1, <1>2, <1>3
  <2> QED BY <2>1 DEF BusinessTimeBetween
<1>4. BusinessTimeBetween(from, to, J) = 0
  <2>1. { t \in Usable(J) : from <= t /\ t < to } = {}
    BY <1>2
  <2> QED BY <2>1, FS_EmptySet DEF BusinessTimeBetween
<1> QED BY <1>3, <1>4 DEF J

(* remaining_seconds of a case due at an instant. *)
Left(at, due, intervals) ==
  IF at <= due THEN BusinessTimeBetween(at, due, intervals)
               ELSE - BusinessTimeBetween(due, at, intervals)

(* An instant that expires before a pause expires with it, and back. *)
LEMMA EarlyExpiry ==
  ASSUME NEW start \in Nat, NEW window, NEW intervals, NEW from \in Nat, NEW to \in Nat,
         from <= to, NEW d \in Nat, d <= from
  PROVE  d \in Expiries(start, window, intervals) <=>
           d \in Expiries(start, window, intervals \cup NonEmpty(from, to))
<1>1. d - 1 \in Usable(intervals) <=> d - 1 \in Usable(intervals \cup NonEmpty(from, to))
  BY UsableOutsidePause
<1>2. BusinessTimeBetween(start, d, intervals \cup NonEmpty(from, to)) =
        BusinessTimeBetween(start, d, intervals)
  BY TimeOutsidePause
<1> QED BY <1>1, <1>2 DEF Expiries

LEMMA MinusNothing == \A x \in Nat : x = 0 => - x = 0
<1>1. \A x \in Nat : - x = 0 - x
  OBVIOUS
<1>2. \A x \in Nat : x = 0 => 0 - x = 0
  OBVIOUS
<1> QED BY <1>1, <1>2, Zenon

(* The deadline moves by what the pause took: as much is left when it ends   *)
(* as when it began, late cases included.                                   *)
LEMMA PauseTakesNothing ==
  ASSUME NEW start \in Nat, NEW window, NEW intervals, NEW from \in Nat, NEW to \in Nat,
         start <= from, from <= to,
         Computable(start, window, intervals),
         Computable(start, window, intervals \cup NonEmpty(from, to))
  PROVE  Left(to, compute_deadline(start, window, intervals \cup NonEmpty(from, to)),
              intervals \cup NonEmpty(from, to))
           = Left(from, compute_deadline(start, window, intervals), intervals)
<1> DEFINE J == intervals \cup NonEmpty(from, to)
           due == compute_deadline(start, window, intervals)
           moved == compute_deadline(start, window, J)
<1>1. /\ Expiries(start, window, intervals) = {due}
      /\ Expiries(start, window, J) = {moved}
  BY OneExpiry
<1>2. /\ due \in Nat /\ start <= due /\ BusinessTimeBetween(start, due, intervals) = window
      /\ moved \in Nat /\ start <= moved /\ BusinessTimeBetween(start, moved, J) = window
      /\ moved - 1 \in Usable(J)
  <2>1. due \in Expiries(start, window, intervals) /\ moved \in Expiries(start, window, J)
    BY <1>1
  <2> HIDE DEF J, due, moved
  <2>2. due \in Instant /\ moved \in Instant /\ due > start /\ moved > start
    BY <2>1 DEF Expiries
  <2>3. due \in Nat /\ moved \in Nat /\ start <= due /\ start <= moved
    BY <2>2, CalendarAssumption DEF Instant
  <2> QED BY <2>1, <2>3 DEF Expiries
<1>3. /\ \A d \in Nat : d <= from =>
           (d \in Expiries(start, window, intervals) <=> d \in Expiries(start, window, J))
      /\ \A a, b \in Nat : b <= from =>
           BusinessTimeBetween(a, b, J) = BusinessTimeBetween(a, b, intervals)
      /\ BusinessTimeBetween(from, to, J) = 0
  BY EarlyExpiry, TimeOutsidePause
<1>4. \A t \in Usable(J) : ~(from <= t /\ t < to)
  BY UsableOutsidePause
<1>5. \A a, b : BusinessTimeBetween(a, b, J) \in Nat /\ BusinessTimeBetween(a, b, intervals) \in Nat
  BY BusinessTimeType
<1>6. Computable(start, window, J)
  OBVIOUS
<1> HIDE DEF J, due, moved
<1>7. CASE from <= due /\ to <= moved
  <2>1. BusinessTimeBetween(start, due, intervals) =
          BusinessTimeBetween(start, from, intervals) + BusinessTimeBetween(from, due, intervals)
    BY <1>2, <1>7, TimeSplits
  <2>2. BusinessTimeBetween(start, moved, J) =
          BusinessTimeBetween(start, from, J) + BusinessTimeBetween(from, moved, J)
    BY <1>2, <1>7, TimeSplits
  <2>3. BusinessTimeBetween(from, moved, J) =
          BusinessTimeBetween(from, to, J) + BusinessTimeBetween(to, moved, J)
    BY <1>2, <1>7, TimeSplits
  <2>4. BusinessTimeBetween(start, from, J) = BusinessTimeBetween(start, from, intervals)
    BY <1>3
  <2>5. PICK x \in Nat, y \in Nat, z \in Nat, v \in Nat :
          /\ x = BusinessTimeBetween(start, from, intervals)
          /\ y = BusinessTimeBetween(from, due, intervals)
          /\ z = BusinessTimeBetween(to, moved, J)
          /\ v = BusinessTimeBetween(from, moved, J)
    BY <1>5
  <2>6. x + y = x + v /\ v = 0 + z
    BY <1>2, <1>3, <2>1, <2>2, <2>3, <2>4, <2>5, Zenon
  <2>7. y = z
    BY <2>5, <2>6
  <2> QED BY <1>7, <2>5, <2>7 DEF Left, J, due, moved
<1>8. CASE moved < to
  <2>1. moved <= from
    <3>1. ~(from <= moved - 1 /\ moved - 1 < to)
      BY <1>2, <1>4
    <3> QED BY <1>2, <1>8, <3>1
  <2>2. moved = due
    BY <1>1, <1>2, <1>3, <2>1
  <2>3. CASE moved = from
    <3>1. BusinessTimeBetween(from, from, intervals) = 0
      BY NoTimeAtOnce
    <3>2. Left(from, due, intervals) = 0
      BY <2>2, <2>3, <3>1 DEF Left
    <3>3. ~(to <= moved) /\ BusinessTimeBetween(moved, to, J) = 0
      BY <1>2, <1>3, <1>8, <2>3
    <3>4. Left(to, moved, J) = 0
      <4>1. Left(to, moved, J) = - BusinessTimeBetween(moved, to, J)
        BY <3>3, Zenon DEF Left
      <4>2. PICK x \in Nat : x = BusinessTimeBetween(moved, to, J)
        BY <1>5
      <4>3. Left(to, moved, J) = - x /\ x = 0
        BY <3>3, <4>1, <4>2, Zenon
      <4>4. - x = 0
        BY <4>2, <4>3, MinusNothing
      <4> QED BY <4>3, <4>4, Zenon
    <3> QED BY <3>2, <3>4 DEF J, due, moved
  <2>4. CASE moved # from
    <3>1. ~(from <= due) /\ ~(to <= moved) /\ due <= from
      BY <1>2, <1>8, <2>1, <2>2, <2>4
    <3>2. BusinessTimeBetween(due, to, J) =
            BusinessTimeBetween(due, from, J) + BusinessTimeBetween(from, to, J)
      BY <1>2, <3>1, TimeSplits
    <3>3. BusinessTimeBetween(due, from, J) = BusinessTimeBetween(due, from, intervals)
      BY <1>2, <1>3
    <3>4. BusinessTimeBetween(due, to, J) = BusinessTimeBetween(due, from, intervals)
      <4>1. PICK x \in Nat : x = BusinessTimeBetween(due, from, intervals)
        BY <1>5
      <4>2. BusinessTimeBetween(due, to, J) = x + 0
        BY <1>3, <3>2, <3>3, <4>1, Zenon
      <4> QED BY <4>1, <4>2
    <3>5. Left(to, moved, J) = Left(from, due, intervals)
      BY <2>2, <3>1, <3>4, Zenon DEF Left
    <3> QED BY <3>5 DEF J, due, moved
  <2> QED BY <2>3, <2>4
<1>9. CASE ~(from <= due) /\ ~(moved < to)
  <2>1. due <= from /\ due \in Nat
    BY <1>2, <1>9
  <2>2. due = moved
    BY <1>1, <1>3, <2>1
  <2> QED BY <1>2, <1>9, <2>1, <2>2
<1> QED BY <1>2, <1>7, <1>8, <1>9

(* While a case is paused its last event keeps what was left at the pause. *)
RemainingKept ==
  clock.state = "paused" /\ Resolution \in Unfired =>
    last_event.clock_remaining_seconds =
      Left(clock.paused_at, deadlines[Resolution].fires_at, clock.paused_intervals)

LEMMA RemainingIsLeft ==
  ASSUME NEW c, NEW rows, NEW at, Resolution \in DOMAIN rows
  PROVE  RemainingSeconds(c, rows, at) = Left(at, rows[Resolution].fires_at, PausesOf(c, at))
BY DEF RemainingSeconds, Left

NeutralInv == Consistent /\ LiveClockOK /\ RemainingKept

(* A resolution row that has not fired after a step that resumes nothing is  *)
(* where it was before.                                                     *)
LEMMA ResolutionRowStays ==
  ASSUME TypeOK, RowStep, clock'.state = "paused", Resolution \in Unfired'
  PROVE  Resolution \in Unfired /\ deadlines'[Resolution].fires_at = deadlines[Resolution].fires_at
<1>1. Resolution \notin SchemeKeys
  BY KeysApart
<1>2. CASE RowsKept
  BY <1>2 DEF RowsKept, Unfired
<1>3. CASE RowsMaterialised \/ RowsWithdrawn
  BY <1>3 DEF RowsMaterialised, RowsWithdrawn
<1>4. CASE \E window \in ResponseWindows : OpenRepresentment(window)
  BY <1>1, <1>4 DEF OpenRepresentment, Unfired
<1>5. CASE Sweep
  <2>1. Resolution \in DOMAIN deadlines /\ deadlines'[Resolution].fired_at = Never
    BY <1>5 DEF Sweep, Fire, Unfired
  <2>2. deadlines'[Resolution].fires_at = deadlines[Resolution].fires_at
    BY <1>5, <2>1 DEF Sweep, Fire, TypeOK
  <2>3. deadlines[Resolution].fired_at = Never
    BY <1>5, <2>1, NowIsNotNull DEF Sweep, Fire, TypeOK
  <2> QED BY <2>1, <2>2, <2>3 DEF Unfired
<1> QED BY <1>2, <1>3, <1>4, <1>5 DEF RowStep

LEMMA NextRemaining ==
  ASSUME TypeOK, StatusMatchesClock, RemainingKept, [Next]_vars
  PROVE  RemainingKept'
<1> SUFFICES ASSUME clock'.state = "paused", Resolution \in Unfired'
             PROVE  last_event'.clock_remaining_seconds =
                      Left(clock'.paused_at, deadlines'[Resolution].fires_at,
                           clock'.paused_intervals)
  BY DEF RemainingKept
<1>1. ClockStep
  BY NextClockStep
<1>2. Resolution \in Unfired /\ deadlines'[Resolution].fires_at = deadlines[Resolution].fires_at
  BY NextRowStep, ResolutionRowStays
<1>3. CASE ClockKept /\ UNCHANGED last_event
  BY <1>2, <1>3 DEF ClockKept, RemainingKept
<1>4. CASE ClockPaused /\ UNCHANGED now
  <2>1. /\ clock'.paused_at = now /\ clock'.state = "paused"
        /\ clock'.paused_intervals = clock.paused_intervals
    BY <1>4 DEF ClockPaused, TypeOK, ClockRow
  <2>2. now \in Int
    BY CalendarAssumption DEF TypeOK, Instant
  <2>3. PausesOf(clock', now) = clock'.paused_intervals
    BY <2>1, <2>2 DEF PausesOf, NonEmpty
  <2>4. Resolution \in DOMAIN deadlines'
    BY DEF Unfired
  <2>5. last_event'.clock_remaining_seconds = RemainingSeconds(clock', deadlines', now)
    BY <1>4 DEF ClockPaused, Record
  <2>6. RemainingSeconds(clock', deadlines', now) =
          Left(now, deadlines'[Resolution].fires_at, PausesOf(clock', now))
    BY <2>4, RemainingIsLeft
  <2> QED BY <2>1, <2>3, <2>5, <2>6, Zenon
<1>5. ~ClockStarted /\ ~ClockStopped
  BY DEF ClockStarted, ClockStopped
<1>6. ~ClockResumed
  BY DEF ClockResumed, TypeOK, ClockRow
<1> QED BY <1>1, <1>3, <1>4, <1>5, <1>6 DEF ClockStep

LEMMA ResumeIsNeutral ==
  ASSUME NeutralInv, ClockResumed, Resolution \in Unfired
  PROVE  last_event'.clock_remaining_seconds = last_event.clock_remaining_seconds
<1> DEFINE J == clock.paused_intervals \cup NonEmpty(clock.paused_at, now)
           start == clock.started_at
<1>0. TypeOK
  BY DEF NeutralInv, Consistent
<1>1. /\ start \in Nat /\ clock.paused_at \in Nat /\ now \in Nat
      /\ start <= clock.paused_at /\ clock.paused_at <= now
  <2>1. now \in Nat /\ start \in Nat
    BY <1>0, CalendarAssumption DEF TypeOK, ClockRow, Instant
  <2>2. clock.paused_at \in 0 .. now
    BY <1>0 DEF TypeOK, ClockResumed
  <2>3. start <= clock.paused_at
    BY DEF NeutralInv, LiveClockOK, ClockResumed, Live
  <2> QED BY <2>1, <2>2, <2>3
<1>2. /\ clock'.state = "running" /\ clock'.started_at = start /\ clock'.paused_intervals = J
  BY <1>0 DEF ClockResumed, TypeOK, ClockRow
<1>3. PausesOf(clock', now) = J
  BY <1>2 DEF PausesOf
<1>4. Resolution \in RegulatoryKeys /\ Window(Resolution) = ResolutionWindow
  BY DEF RegulatoryKeys, Window, Resolution, Ack, Key
<1>5. /\ Computable(start, ResolutionWindow, clock.paused_intervals)
      /\ Computable(start, ResolutionWindow, J)
  BY <1>2, <1>3, <1>4 DEF NeutralInv, LiveClockOK, ClockResumed, AllComputable, Live
<1>6. deadlines[Resolution].fires_at =
        compute_deadline(start, ResolutionWindow, clock.paused_intervals)
  BY <1>4 DEF NeutralInv, Consistent, RowsMatchArithmetic, ClockResumed
<1>7. /\ Resolution \in DOMAIN deadlines'
      /\ deadlines'[Resolution].fires_at = compute_deadline(start, ResolutionWindow, J)
  BY <1>2, <1>3, <1>4 DEF ClockResumed, Materialise, Unfired, Row
<1>8. last_event'.clock_remaining_seconds = Left(now, deadlines'[Resolution].fires_at, J)
  BY <1>3, <1>7, RemainingIsLeft DEF ClockResumed, Record
<1>9. last_event.clock_remaining_seconds =
        Left(clock.paused_at, deadlines[Resolution].fires_at, clock.paused_intervals)
  BY DEF NeutralInv, RemainingKept, ClockResumed
<1> QED BY <1>1, <1>5, <1>6, <1>7, <1>8, <1>9, PauseTakesNothing

(* However long a case waits for its customer, and however late it was by    *)
(* then, it resumes with the business time it was paused with.              *)
THEOREM PausesAreNeutral == Spec => PauseIsNeutral
<1>1. Init => NeutralInv
  BY InitConsistent DEF NeutralInv, LiveClockOK, RemainingKept, Init, Live
<1>2. NeutralInv /\ [Next]_vars => NeutralInv'
  BY NextConsistent, NextLiveClock, NextRemaining DEF NeutralInv, Consistent
<1>3. NeutralInv /\ [Next]_vars =>
        [clock.state = "paused" /\ clock'.state = "running" /\ Resolution \in Unfired
           => last_event'.clock_remaining_seconds = last_event.clock_remaining_seconds]_vars
  <2> SUFFICES ASSUME NeutralInv, [Next]_vars, clock.state = "paused",
                      clock'.state = "running", Resolution \in Unfired
               PROVE  last_event'.clock_remaining_seconds = last_event.clock_remaining_seconds
    OBVIOUS
  <2>1. ClockStep
    BY NextClockStep DEF NeutralInv, Consistent
  <2>2. ClockResumed
    BY <2>1 DEF ClockStep, ClockKept, ClockStarted, ClockPaused, ClockStopped
  <2> QED BY <2>2, ResumeIsNeutral
<1> QED BY <1>1, <1>2, <1>3, PTL DEF Spec, PauseIsNeutral
=============================================================================
