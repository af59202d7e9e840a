--------------------------- MODULE DeadlineLedger ---------------------------
(***************************************************************************)
(* What a case's clock promises, whatever windows, calendars and pauses    *)
(* say about when.  A deadline is materialised once, and then either fires *)
(* once, together with its one notification, or is withdrawn when the      *)
(* clock stops.  Nothing fires unless the clock is live, and neither end   *)
(* is ever undone.  CaseClock and SweepWorkers implement it.               *)
(***************************************************************************)
CONSTANT Keys      (* the deadlines a case can have *)

VARIABLES
  mode,      (* "idle", "running", "paused", "stopped" *)
  phase,     (* of each deadline: "absent", "pending", "fired", "withdrawn" *)
  notified   (* deadlines whose notification has been recorded *)

ledgerVars == <<mode, phase, notified>>

Pending == { k \in Keys : phase[k] = "pending" }

Absent == { k \in Keys : phase[k] = "absent" }

MovedTo(S, p) == [k \in Keys |-> IF k \in S THEN p ELSE phase[k]]

LedgerInit ==
  /\ mode = "idle"
  /\ phase = [k \in Keys |-> "absent"]
  /\ notified = {}

Begin(S) ==
  /\ mode = "idle"
  /\ mode' = "running"
  /\ phase' = MovedTo(S, "pending")
  /\ UNCHANGED notified

(* Further deadlines may join a case at any time, even after its clock has  *)
(* stopped; those never fire.                                               *)
Materialise(S) ==
  /\ mode # "idle"
  /\ phase' = MovedTo(S, "pending")
  /\ UNCHANGED <<mode, notified>>

Suspend ==
  /\ mode = "running"
  /\ mode' = "paused"
  /\ UNCHANGED <<phase, notified>>

Continue ==
  /\ mode = "paused"
  /\ mode' = "running"
  /\ UNCHANGED <<phase, notified>>

Fire(S) ==
  /\ mode \in {"running", "paused"}
  /\ phase' = MovedTo(S, "fired")
  /\ notified' = notified \cup S
  /\ UNCHANGED mode

Halt(S) ==
  /\ mode \in {"running", "paused"}
  /\ mode' = "stopped"
  /\ phase' = MovedTo(S, "withdrawn")
  /\ UNCHANGED notified

LedgerNext ==
  \/ \E S \in SUBSET Absent : Begin(S) \/ Materialise(S)
  \/ \E S \in SUBSET Pending : Fire(S) \/ Halt(S)
  \/ Suspend
  \/ Continue

LedgerSpec == LedgerInit /\ [][LedgerNext]_ledgerVars

=============================================================================
