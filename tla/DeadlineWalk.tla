----------------------------- MODULE DeadlineWalk -----------------------------
(***************************************************************************)
(* The deadline arithmetic as the code computes it: the day-by-day walk of *)
(* sla/calendar.py over a tenant's opening hours, in local time, and the   *)
(* loops of sla/deadlines.py over its segments and the merged pauses.      *)
(* BusinessTicks says what the answers should be.                          *)
(*                                                                         *)
(* Instants are UTC ticks, and so are the times of a local day, of which   *)
(* there are DayLength, except on the day the clocks change.  They change  *)
(* by ChangeSpan ticks, so a window may open or close inside the hour that *)
(* is skipped or repeated.  The code's two exceptions are one answer here: *)
(* the empty set, an answer otherwise being a singleton.                   *)
(***************************************************************************)
EXTENDS Integers, Sequences, SequencesExt, FiniteSets

CONSTANTS
  DayLength,     (* Ticks of an ordinary local day.                          *)
  ChangeHour,    (* The time of day at which the clocks change,              *)
  ChangeSpan,    (* and by how much they do.                                 *)
  WeekLength,    (* Days of a week: weekday d is d % WeekLength.             *)
  MAX_DAYS,      (* The walk's horizon: 366 in the code.                     *)
  MAX_CLOSED     (* Closed days in a row it puts up with: 365 in the code.   *)

ASSUME WalkAssumption ==
  /\ {DayLength, ChangeSpan, WeekLength, MAX_DAYS, MAX_CLOSED} \subseteq Nat \ {0}
  /\ ChangeHour \in Nat /\ ChangeHour + 2 * ChangeSpan <= DayLength
  /\ MAX_CLOSED = MAX_DAYS - 1

VARIABLES
  calendar,    (* The tenant's calendar.                                      *)
  start,       (* Where the window starts, once a clock did.                  *)
  pauses       (* The pauses, in the order they were recorded.                *)

walkVars == <<calendar, start, pauses>>

NotStarted == -1

Later(a, b) == IF a > b THEN a ELSE b
Earlier(a, b) == IF a < b THEN a ELSE b

-----------------------------------------------------------------------------
(* The calendar *)

(* A weekday with no window is closed. *)
Closed == <<>>

(* The rows a calendar is made of: a weekday has one window at most, which   *)
(* opens before it closes, and a holiday is a local day.  Its clocks go      *)
(* forward, back within the day, or do not change.                           *)
IsCalendar(c) ==
  /\ c.always_open \in BOOLEAN /\ c.holidays \subseteq Nat
  /\ c.change.day \in Nat /\ c.change.shift \in {ChangeSpan, 0, 0 - ChangeSpan}
  /\ ChangeHour + c.change.shift >= 0
  /\ \A day \in 0 .. WeekLength - 1 :
       c.hours[day] # Closed => /\ c.hours[day] \in Nat \X Nat
                                /\ c.hours[day][1] < c.hours[day][2]
                                /\ c.hours[day][2] < DayLength

(* The instant a time of day names.  One the clocks skip is read with the    *)
(* offset from before the change, one they repeat as its first showing.      *)
At(day, hour) ==
  LET change == calendar.change
      from == IF change.shift > 0 THEN ChangeHour + change.shift ELSE ChangeHour
      past == day > change.day \/ (day = change.day /\ hour >= from)
  IN  day * DayLength + hour - (IF past THEN change.shift ELSE 0)

LocalDay(moment) ==
  CHOOSE day \in 0 .. moment : At(day, 0) <= moment /\ moment < At(day + 1, 0)

(* The open span of a local day: none on a holiday, on a weekday without a   *)
(* window, or when the change of clocks swallowed it.                        *)
_segment_for(day) ==
  LET window == calendar.hours[day % WeekLength]
      span == IF calendar.always_open
              THEN {<<At(day, 0), At(day + 1, 0)>>}
              ELSE IF window = Closed THEN {}
              ELSE {<<At(day, window[1]), At(day, window[2])>>}
  IN  IF day \in calendar.holidays THEN {} ELSE { s \in span : s[2] > s[1] }

(* The walk gives up with ImpossibleCalendar on the day that makes the run   *)
(* of closed days longer than MAX_CLOSED.                                    *)
GivesUpAt(moment) ==
  { last \in MAX_CLOSED .. MAX_DAYS :
      \A i \in last - MAX_CLOSED .. last : _segment_for(LocalDay(moment) + i) = {} }

Clipped(day, moment) ==
  { <<Later(s[1], moment), s[2]>> : s \in { x \in _segment_for(day) : x[2] > moment } }

(* A day of the walk, unless it gave up on an earlier one.                   *)
Visit(moment, found, i) ==
  IF \E last \in GivesUpAt(moment) : last < i THEN found
  ELSE found \o SetToSeq(Clipped(LocalDay(moment) + i - 1, moment))

segments_from(moment) ==
  FoldLeft(LAMBDA found, i : Visit(moment, found, i), <<>>, [i \in 1 .. MAX_DAYS + 1 |-> i])

-----------------------------------------------------------------------------
(* The arithmetic *)

(* The slip of _normalise that keeps overlapping pauses apart and unsorted. *)
KeepAsRecorded(intervals) == SelectSeq(intervals, LAMBDA p : p[2] > p[1])

(* Pauses that end no later than they start are dropped, the rest sorted by  *)
(* their start and merged where they touch.                                  *)
Merge(merged, p) ==
  IF merged # <<>> /\ p[1] <= Last(merged)[2]
  THEN Append(Front(merged), <<Last(merged)[1], Later(Last(merged)[2], p[2])>>)
  ELSE Append(merged, p)

InOrder(s) == \A i, j \in DOMAIN s : i < j => s[i][1] <= s[j][1]

_normalise(intervals) ==
  LET real == { p \in Range(intervals) : p[2] > p[1] }
  IN  FoldLeft(Merge, <<>>, CHOOSE s \in SetToSeqs(real) : InOrder(s))

(* The parts of a segment no pause covers, in order: the cursor moves over   *)
(* the pauses until one starts past the segment.                             *)
Cut(segment, walk, p) ==
  IF p[2] <= walk.cursor THEN walk
  ELSE IF walk.done \/ p[1] >= segment[2] THEN [walk EXCEPT !.done = TRUE]
  ELSE [parts |-> IF p[1] > walk.cursor
                  THEN Append(walk.parts, <<walk.cursor, Earlier(p[1], segment[2])>>)
                  ELSE walk.parts,
        cursor |-> p[2],
        done |-> p[2] >= segment[2]]

_subtract(segment, merged) ==
  LET uncut == [parts |-> <<>>, cursor |-> segment[1], done |-> FALSE]
      walked == FoldLeft(LAMBDA walk, p : Cut(segment, walk, p), uncut, merged)
  IN  IF walked.cursor < segment[2]
      THEN Append(walked.parts, <<walked.cursor, segment[2]>>)
      ELSE walked.parts

Leave(merged, parts, segment) == parts \o _subtract(segment, merged)

Parts(segments, merged) ==
  FoldLeft(LAMBDA parts, segment : Leave(merged, parts, segment), <<>>, segments)

Spend(walk, part) ==
  LET length == part[2] - part[1]
  IN  IF walk.answer # {} THEN walk
      ELSE IF length >= walk.remaining
      THEN [walk EXCEPT !.answer = {part[1] + walk.remaining}]
      ELSE [walk EXCEPT !.remaining = @ - length]

compute_deadline(window) ==
  FoldLeft(Spend, [remaining |-> window, answer |-> {}],
           Parts(segments_from(start), _normalise(pauses))).answer

(* The segments that start before an instant.  As they are in order these    *)
(* are the first so many of them.                                            *)
Within(segments, end) == { i \in DOMAIN segments : segments[i][1] < end }

AddLength(total, part) == total + part[2] - part[1]

(* The slip of the measure that forgets to clip the last segment at the end. *)
CountWholeSegments(end) ==
  LET segments == segments_from(start)
      span == [i \in Within(segments, end) |-> segments[i]]
  IN  {FoldLeft(AddLength, 0, Parts(span, _normalise(pauses)))}

(* The measure asks the walk for segments until one starts past the end, so  *)
(* a walk that gives up before that raises here too.                         *)
business_time_between(end) ==
  LET segments == segments_from(start)
      span == [i \in Within(segments, end) |->
                 <<segments[i][1], Earlier(segments[i][2], end)>>]
  IN  IF end <= start THEN {0}
      ELSE IF GivesUpAt(start) # {} /\ Within(segments, end) = DOMAIN segments THEN {}
      ELSE {FoldLeft(AddLength, 0, Parts(span, _normalise(pauses)))}

(* In per cent of the window's business time, clamped to 100. *)
elapsed_fraction(now, deadline) ==
  { IF total <= 0 THEN 100 ELSE Later(0, Earlier(100, (used * 100) \div total)) :
      total \in business_time_between(deadline), used \in business_time_between(now) }

-----------------------------------------------------------------------------
(* The inputs: a calendar, the start of a clock, then pause after pause. *)

WalkInit(calendars) ==
  /\ calendar \in { c \in calendars : IsCalendar(c) }
  /\ start = NotStarted
  /\ pauses = <<>>

StartClock(moment) ==
  /\ start = NotStarted
  /\ start' = moment
  /\ UNCHANGED <<calendar, pauses>>

AddPause(from, to) ==
  /\ start # NotStarted
  /\ pauses' = Append(pauses, <<from, to>>)
  /\ UNCHANGED <<calendar, start>>

(* From any of some calendars, a clock and any pauses. *)
WalkNext ==
  \/ \E moment \in Nat : StartClock(moment)
  \/ \E from, to \in Nat : AddPause(from, to)

WalkSpec(calendars) == WalkInit(calendars) /\ [][WalkNext]_walkVars

-----------------------------------------------------------------------------
(* Properties. *)

CONSTANTS Windows    (* The windows tried, in ticks of business time. *)

ASSUME WindowsAssumption == Windows \subseteq Nat \ {0}

(* The first instant past the walk's horizon. *)
HorizonOf == At(LocalDay(start) + MAX_DAYS + 1, 0)

(* What the wall clock shows at an instant. *)
WallClock(tick) ==
  LET day == LocalDay(tick)
      late == day = calendar.change.day /\ tick - At(day, 0) >= ChangeHour
  IN  <<day, tick - At(day, 0) + (IF late THEN calendar.change.shift ELSE 0)>>

(* The clocks jump over this time of the day: no tick of it shows it.        *)
Skipped(day, hour) ==
  /\ day = calendar.change.day
  /\ ChangeHour <= hour /\ hour < ChangeHour + calendar.change.shift

(* The wall clock has come to a time of the day, for the first time if it    *)
(* shows it twice; one it skips counts from when an unchanged clock would.   *)
HasCome(tick, hour) ==
  LET day == LocalDay(tick)
  IN  IF Skipped(day, hour) THEN At(day, 0) + hour <= tick
      ELSE \E t \in At(day, 0) .. tick : WallClock(t)[2] = hour

OpeningHours(tick) == calendar.hours[LocalDay(tick) % WeekLength]

(* Open time: the wall clock has come to the hour the weekday opens, and not *)
(* to the one it closes, and the day is no holiday.                          *)
IsOpen(tick) ==
  /\ LocalDay(tick) \notin calendar.holidays
  /\ \/ calendar.always_open
     \/ /\ OpeningHours(tick) # Closed
        /\ HasCome(tick, OpeningHours(tick)[1]) /\ ~HasCome(tick, OpeningHours(tick)[2])

(* Open time as a sign on the door has it: the hour shown is a window's.     *)
ShownOpen(tick) ==
  /\ LocalDay(tick) \notin calendar.holidays
  /\ \/ calendar.always_open
     \/ /\ OpeningHours(tick) # Closed
        /\ OpeningHours(tick)[1] <= WallClock(tick)[2]
        /\ WallClock(tick)[2] < OpeningHours(tick)[2]

(* A time strictly inside what the clocks skip or repeat on a day.           *)
InsideTheChange(day, hour) ==
  /\ day = calendar.change.day
  /\ \/ ChangeHour < hour /\ hour < ChangeHour + calendar.change.shift
     \/ ChangeHour + calendar.change.shift < hour /\ hour < ChangeHour

(* The two agree but on a window with a boundary there: of that one they     *)
(* cannot, for the sign means two spans of the day, or less than it says.    *)
OpenIsWhatTheClockShows ==
  \A tick \in 0 .. HorizonOf - 1 :
    \/ IsOpen(tick) <=> ShownOpen(tick)
    \/ OpeningHours(tick) # Closed
       /\ \E i \in {1, 2} : InsideTheChange(LocalDay(tick), OpeningHours(tick)[i])

OpenTicks == { tick \in 0 .. HorizonOf - 1 : IsOpen(tick) }

Ticks(horizon, open) == INSTANCE BusinessTicks WITH Horizon <- horizon, OpenTicks <- open

PauseSet == { p \in { pauses[i] : i \in DOMAIN pauses } : p[2] > p[1] }

(* The walk has given up before reaching any open day. *)
ClosedForAYear == MAX_CLOSED \in GivesUpAt(start)

-----------------------------------------------------------------------------

(* The segment walk of calendar.py and the loops of compute_deadline reach   *)
(* exactly the instant at which the window's business time is used up: over  *)
(* changes of clocks, boundaries inside the hour skipped or repeated among   *)
(* them, holidays, and pauses that overlap, touch or come out of order.      *)
(* They raise when there is none within the horizon.  Business time is what  *)
(* the wall clock shows as open, wherever that says it.                      *)
WalkReachesTheExpiry ==
  LET open == OpenTicks IN
  start # NotStarted =>
    /\ OpenIsWhatTheClockShows
    /\ \A window \in Windows :
         compute_deadline(window) =
           IF ClosedForAYear THEN {}
           ELSE Ticks(HorizonOf, open)!Expiries(start, window, PauseSet)

(* The measure, written apart from the walk and used for the time a clock    *)
(* has left when it is paused, is right at every instant and of every pause, *)
(* and is the walk's inverse, as deadlines.py:12 says: the fraction elapsed  *)
(* reaches 100 at the deadline and not a tick before it.                     *)
FractionIsFullAtTheDeadline ==
  LET open == OpenTicks IN
  start # NotStarted => \A window \in Windows : \A deadline \in compute_deadline(window) :
    \A now \in start .. HorizonOf :
      /\ \A used \in business_time_between(now) :
           used = Ticks(HorizonOf, open)!BusinessTimeBetween(start, now, PauseSet)
      /\ \A fraction \in elapsed_fraction(now, deadline) :
           (fraction = 100) <=> (now >= deadline)

=============================================================================
