---------------------------- MODULE BusinessTicks ----------------------------
(***************************************************************************)
(* What the deadline arithmetic of disputeshield/sla/deadlines.py means,   *)
(* on a discrete time line: tick t is the span [t, t+1), a calendar is the *)
(* set OpenTicks of ticks that are business time, and a pause is a pair    *)
(* <<from, to>> that takes the ticks from..to-1 out of consideration.      *)
(* The code reaches the same instants by walking calendar segments day by  *)
(* day; that walk is abstracted here.                                      *)
(***************************************************************************)
EXTENDS Integers, FiniteSets

CONSTANTS
  Horizon,    (* Last instant of the calendar's search horizon (366 days). *)
  OpenTicks   (* The ticks that are business time.                         *)

ASSUME CalendarAssumption ==
  /\ Horizon \in Nat
  /\ OpenTicks \in SUBSET (0 .. Horizon - 1)

Instant == 0 .. Horizon

Interval == Instant \X Instant

PausedTicks(intervals) ==
  { t \in OpenTicks : \E p \in intervals : p[1] <= t /\ t < p[2] }

Usable(intervals) == OpenTicks \ PausedTicks(intervals)

(* business_time_between: the business time from a to b, 0 if b precedes a. *)
BusinessTimeBetween(a, b, intervals) ==
  Cardinality({ t \in Usable(intervals) : a <= t /\ t < b })

(* The instants at which a window of business time has just elapsed.  There *)
(* is at most one; none within the horizon is a DeadlineUncomputable.       *)
Expiries(start, window, intervals) ==
  { d \in Instant : /\ d > start
                    /\ d - 1 \in Usable(intervals)
                    /\ BusinessTimeBetween(start, d, intervals) = window }

Computable(start, window, intervals) == Expiries(start, window, intervals) # {}

compute_deadline(start, window, intervals) ==
  CHOOSE d \in Expiries(start, window, intervals) : TRUE

=============================================================================
