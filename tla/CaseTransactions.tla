--------------------------- MODULE CaseTransactions ---------------------------
(***************************************************************************)
(* Requests that move one case at the same time, and the sweep: the        *)
(* statements of views_management.py, disputes/service.py transition() and *)
(* sla/clock.py, with the row locks they take under READ COMMITTED.        *)
(*                                                                         *)
(* get_object() reads the dispute joined with its clock into memory and    *)
(* locks nothing; transition() looks its rule up by the status in memory;  *)
(* the UPDATE of the dispute is the first lock, held to the end of the     *)
(* request (ATOMIC_REQUESTS), then the UPDATE of the clock.  The sweep     *)
(* locks its row and the clock joined to it, and skips what is locked.     *)
(*                                                                         *)
(* Writes appear when the request commits.  One resolution row stands for  *)
(* the regulatory rows, which every statement treats alike.                *)
(***************************************************************************)
EXTENDS DisputeStates, BusinessTicks

CONSTANTS
  Requests,          (* requests that are in flight at one time             *)
  ResolutionWindow,  (* policy_version.resolution_hours, ticks              *)
  MaxPauses,         (* bound: pauses stored on the clock                   *)
  MaxTime            (* bound: the last instant the model reaches           *)

ASSUME TransactionsAssumption ==
  /\ ResolutionWindow \in Nat \ {0} /\ MaxPauses \in Nat /\ MaxTime \in Instant
  /\ Computable(0, ResolutionWindow, {})

VARIABLES
  now,
  status,   (* Dispute.status, committed                                    *)
  clock,    (* SLAClock, committed                                          *)
  row,      (* its resolution SLADeadline, committed, or NoRow              *)
  at,       (* how far each request is                                      *)
  memory,   (* what each request has read                                   *)
  sweep     (* whether the sweep has claimed the row                        *)

txnVars == <<now, status, clock, row, at, memory, sweep>>

Never == Horizon + 1     (* a null DateTimeField *)

NoRow == [fires_at |-> Never, fired |-> FALSE]

Row(fires_at) == [fires_at |-> fires_at, fired |-> FALSE]

DueAfter(pauses) == compute_deadline(0, ResolutionWindow, pauses)

(* Locks that are held, by how far each transaction is. *)
HoldsDispute(r) == at[r] \in {"dispute", "clock"}

HoldsClock(r) == at[r] = "clock"

Goto(r, from, to) == at[r] = from /\ at' = [at EXCEPT ![r] = to]

(* What a request that has read nothing remembers. *)
NothingRead ==
  [rule |-> Rule("submitted", "acknowledged", "none", FALSE, ActorTypes),
   clock |-> [state |-> "running", paused_at |-> Never, paused_intervals |-> {}],
   time |-> 0, row |-> NoRow]

-----------------------------------------------------------------------------

Effect(r) == memory[r].rule.clock_effect

(* Whether the effect writes the clock, by the clock in memory. *)
WritesClock(r) ==
  \/ Effect(r) \in {"pause", "resume"}
  \/ Effect(r) = "stop" /\ memory[r].clock.state # "stopped"

(* The pauses a resume stores: those in memory and the one it ends, up to    *)
(* the time transition() took when it began.                                *)
PausesStored(r) ==
  memory[r].clock.paused_intervals
    \cup (IF memory[r].clock.paused_at < memory[r].time
          THEN {<<memory[r].clock.paused_at, memory[r].time>>} ELSE {})

(* The request reads the case and checks the move; what raises, in find(),   *)
(* pause() or resume(), rolls back and is no action.  The API's actors are  *)
(* agents and keys.                                                         *)
Load(r, to) ==
  /\ Goto(r, "idle", "loaded")
  /\ \E rule \in Find(status, to) :
       /\ rule.actor_types \cap {"user", "api_key"} # {}
       /\ rule.clock_effect = "pause" => clock.state = "running"
       /\ rule.clock_effect = "resume" =>
            clock.state = "paused" /\ Cardinality(clock.paused_intervals) < MaxPauses
       /\ memory' = [memory EXCEPT ![r] =
            [rule |-> rule, clock |-> clock, time |-> now, row |-> NoRow]]
  /\ UNCHANGED <<now, status, clock, row, sweep>>

(* dispute.save(update_fields=["status", ...]) *)
UpdateDispute(r) ==
  /\ \A q \in Requests : ~HoldsDispute(q)
  /\ Goto(r, "loaded", "dispute")
  /\ UNCHANGED <<now, status, clock, row, memory, sweep>>

(* Mutant of UpdateClock: the sweep's claim locks its row and no clock. *)
UpdateClockUnlocked(r) ==
  /\ WritesClock(r)
  /\ Goto(r, "dispute", "clock")
  /\ memory' = [memory EXCEPT ![r].row = row]
  /\ UNCHANGED <<now, status, clock, row, sweep>>

(* clock.save(), which waits for a sweep that holds the clock; then          *)
(* _materialise_deadlines reads the row it may move.                        *)
UpdateClock(r) ==
  /\ WritesClock(r)
  /\ sweep = "idle"
  /\ Goto(r, "dispute", "clock")
  /\ memory' = [memory EXCEPT ![r].row = row]
  /\ UNCHANGED <<now, status, clock, row, sweep>>

(* The columns each effect saves; the others keep what is committed. *)
PausedClock(r) == [clock EXCEPT !.state = "paused", !.paused_at = memory[r].time]

ResumedClock(pauses) ==
  [state |-> "running", paused_at |-> Never, paused_intervals |-> pauses]

StoppedClock == [clock EXCEPT !.state = "stopped"]

(* Mutant of ClockAfter: a resume appends its pause to those committed. *)
ClockAfterMergingPauses(r) ==
  CASE ~WritesClock(r) -> clock
    [] Effect(r) = "pause" -> PausedClock(r)
    [] Effect(r) = "resume" -> ResumedClock(clock.paused_intervals \cup PausesStored(r))
    [] Effect(r) = "stop" /\ WritesClock(r) -> StoppedClock

ClockAfter(r) ==
  CASE ~WritesClock(r) -> clock
    [] Effect(r) = "pause" -> PausedClock(r)
    [] Effect(r) = "resume" -> ResumedClock(PausesStored(r))
    [] Effect(r) = "stop" /\ WritesClock(r) -> StoppedClock

(* existing.save(update_fields=["fires_at"]) overwrites that column of       *)
(* whatever row is there; stop() deletes a row that has not fired.          *)
RowAfter(r) ==
  CASE ~WritesClock(r) \/ Effect(r) = "pause" -> row
    [] Effect(r) = "resume" ->
         IF memory[r].row = NoRow THEN Row(DueAfter(PausesStored(r)))
         ELSE IF memory[r].row.fired THEN row
         ELSE [row EXCEPT !.fires_at = DueAfter(PausesStored(r))]
    [] Effect(r) = "stop" /\ WritesClock(r) -> IF row.fired THEN row ELSE NoRow

(* The row is written, the events are appended and the request commits; the  *)
(* queue columns it syncs are in CaseClock.                                 *)
CommitRequest(r) ==
  /\ IF WritesClock(r) THEN Goto(r, "clock", "idle") ELSE Goto(r, "dispute", "idle")
  /\ RowAfter(r) # row => sweep = "idle"
  /\ Effect(r) = "resume" => Computable(0, ResolutionWindow, PausesStored(r))
  /\ status' = memory[r].rule.target
  /\ clock' = ClockAfter(r)
  /\ row' = RowAfter(r)
  /\ memory' = [memory EXCEPT ![r] = NothingRead]
  /\ UNCHANGED <<now, sweep>>

(* The request fails anywhere and its transaction is rolled back. *)
Fail(r) ==
  /\ at[r] # "idle"
  /\ at' = [at EXCEPT ![r] = "idle"]
  /\ memory' = [memory EXCEPT ![r] = NothingRead]
  /\ UNCHANGED <<now, status, clock, row, sweep>>

-----------------------------------------------------------------------------
(* The sweep: sla/sweeper.py _fire_batch.                                   *)

Claim ==
  /\ sweep = "idle"
  /\ row # NoRow /\ ~row.fired /\ row.fires_at <= now
  /\ clock.state # "stopped"
  /\ \A r \in Requests : ~HoldsClock(r)
  /\ sweep' = "claimed"
  /\ UNCHANGED <<now, status, clock, row, at, memory>>

(* The tranche is committed, or rolled back and its locks with it. *)
FireBatch ==
  /\ sweep = "claimed"
  /\ sweep' = "idle"
  /\ row' \in {row, [row EXCEPT !.fired = TRUE]}
  /\ UNCHANGED <<now, status, clock, at, memory>>

Tick ==
  /\ now < MaxTime
  /\ now' = now + 1
  /\ UNCHANGED <<status, clock, row, at, memory, sweep>>

-----------------------------------------------------------------------------

(* A case that has just been filed. *)
TxnInit ==
  /\ now = 0
  /\ status = "submitted"
  /\ clock = [state |-> "running", paused_at |-> Never, paused_intervals |-> {}]
  /\ row = Row(DueAfter({}))
  /\ at = [r \in Requests |-> "idle"]
  /\ memory = [r \in Requests |-> NothingRead]
  /\ sweep = "idle"

RequestStep(r) == UpdateDispute(r) \/ UpdateClock(r) \/ CommitRequest(r)

TxnNext ==
  \/ \E r \in Requests : RequestStep(r) \/ Fail(r) \/ \E to \in Statuses : Load(r, to)
  \/ Claim \/ FireBatch \/ Tick

TxnSpec == TxnInit /\ [][TxnNext]_txnVars

-----------------------------------------------------------------------------
(* Properties. *)

(* A deadline that has fired is never moved or deleted ("a breach that was   *)
(* recorded could later be un-recorded", sla/clock.py), although a resume    *)
(* reads the row before it writes it and the sweep may fire it in between:   *)
(* the sweep holds the clock row too, and a resume has written that first.   *)
FiredStaysFired == [][row.fired => row' = row]_txnVars

(* Whatever resumes overwrite each other, the row that is left is due where  *)
(* the pauses that are stored with it put it (ADR-0007).                    *)
RowsFollowPauses ==
  row # NoRow /\ ~row.fired /\ clock.state # "stopped"
    => row.fires_at = DueAfter(clock.paused_intervals)

=============================================================================
