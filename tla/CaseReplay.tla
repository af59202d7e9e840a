------------------------------ MODULE CaseReplay ------------------------------
(***************************************************************************)
(* A case read back from its evidence.  CaseClock's case, with the clock   *)
(* events it leaves behind and the dates it is settled on, and how         *)
(* disputeshield/sla/simulator.py replays a proposed policy from them.     *)
(* It only reads: every step is a step of CaseClock.                       *)
(***************************************************************************)
EXTENDS CaseClockProperties, Sequences, SequencesExt

VARIABLES
  events,      (* the clock's SLAEvents, oldest first                        *)
  settlement   (* resolved_at and closed_at of the Dispute                   *)

replayVars == <<vars, events, settlement>>

-----------------------------------------------------------------------------
(* What is written. *)

(* _record: one event for every change of the clock's state. *)
Recorded ==
  events' =
    IF clock'.state = clock.state THEN events
    ELSE Append(events, [kind |-> last_event'.kind, occurred_at |-> now,
                         clock_remaining_seconds |-> last_event'.clock_remaining_seconds])

(* resolve and the fan-out of a mass event store resolved_at; transition     *)
(* called on its own with RESOLVED does not.                                 *)
Settled(through_resolve) ==
  settlement' =
    [resolved_at |-> IF /\ dispute.status # "resolved" /\ dispute'.status = "resolved"
                        /\ through_resolve \/ membership' # membership
                     THEN now ELSE settlement.resolved_at,
     closed_at |-> IF dispute.status \notin TERMINAL /\ dispute'.status \in TERMINAL
                   THEN now ELSE settlement.closed_at]

-----------------------------------------------------------------------------
(* What the simulator reads. *)

settled_at ==
  IF settlement.resolved_at # Never THEN settlement.resolved_at
  ELSE IF settlement.closed_at # Never THEN settlement.closed_at
  ELSE now

(* The slip of _historical_pauses that drops the pause never resumed. *)
ClosedPausesOnly ==
  { <<events[i].occurred_at, events[i + 1].occurred_at>> :
      i \in { j \in 1 .. Len(events) - 1 :
                /\ events[j].kind = "paused" /\ events[j + 1].kind = "resumed"
                /\ events[j].occurred_at < events[j + 1].occurred_at } }

(* _historical_pauses: a pause opens at the first PAUSED and closes at the   *)
(* next RESUMED; one never resumed runs until the case was settled.          *)
NothingRead == [opened_at |-> Never, intervals |-> {}]

Read(walk, e) ==
  IF e.kind = "paused" /\ walk.opened_at = Never
  THEN [walk EXCEPT !.opened_at = e.occurred_at]
  ELSE IF e.kind = "resumed" /\ walk.opened_at # Never
  THEN [opened_at |-> Never,
        intervals |-> walk.intervals \cup NonEmpty(walk.opened_at, e.occurred_at)]
  ELSE walk

_historical_pauses ==
  LET read == FoldLeft(Read, NothingRead, events)
  IN  read.intervals
        \cup (IF read.opened_at = Never THEN {} ELSE NonEmpty(read.opened_at, settled_at))

(* _replay under a proposed window: the deadline, and whether the case would *)
(* have breached.  No answer when the deadline cannot be computed.           *)
projected_deadline(window) == Expiries(clock.started_at, window, _historical_pauses)

projected_breach(window) ==
  { settled_at > deadline : deadline \in projected_deadline(window) }

-----------------------------------------------------------------------------
ReplayInit ==
  /\ Init
  /\ events = <<>>
  /\ settlement = [resolved_at |-> Never, closed_at |-> Never]

ReplayNext ==
  /\ Next
  /\ Recorded
  /\ \E through_resolve \in BOOLEAN : Settled(through_resolve)

ReplaySpec == ReplayInit /\ [][ReplayNext]_replayVars

-----------------------------------------------------------------------------
(* Properties. *)

(* "For a replay that has to be defensible, read the evidence",             *)
(* simulator.py:230: the pauses rebuilt from the clock's events are the ones *)
(* the live clock counts, and the replay of an unchanged policy computes the *)
(* deadline of the row that has not fired and judges the case late exactly   *)
(* when that row is past, however the case was paused and resumed.           *)
ReplayRestoresTheClock ==
  clock.state \in {"running", "paused"} =>
    /\ _historical_pauses = PausesOf(clock, now)
    /\ Resolution \in Unfired /\ clock.state = "running" =>
         /\ projected_deadline(ResolutionWindow) = {deadlines[Resolution].fires_at}
         /\ projected_breach(ResolutionWindow) = {now > deadlines[Resolution].fires_at}

=============================================================================
