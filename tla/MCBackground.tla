----------------------------- MODULE MCBackground -----------------------------
(***************************************************************************)
(* The jobs beat starts for one tenant: the SLA sweep, and the checkpoints *)
(* with their anchoring.  They share no variable; `scenario`, chosen at    *)
(* the start, says which of them moves:                                    *)
(*   "sweep"    three deadlines on two clocks, so that one clock can stop  *)
(*              under a sweep that is firing the other; two workers        *)
(*   "chain"    a chain of three records, one of which may be altered and  *)
(*              one of which may be imported, and the checkpoint job;      *)
(*              nothing is anchored                                        *)
(*   "backlog"  one checkpoint, and two anchoring passes that overlap      *)
(***************************************************************************)
EXTENDS SweepWorkers, AuditAttestation

CONSTANT Original   (* the content of a record in the scenario "backlog"    *)

VARIABLE scenario

backgroundVars == <<sweepVars, attestVars, scenario>>

MCClockOf(d) == IF d = 2 THEN 2 ELSE 1

MCDeadlines == 1 .. 3

MCClocks == 1 .. 2

Sweeping(A) == A /\ scenario = "sweep" /\ UNCHANGED <<attestVars, scenario>>

(* A step stays within the bounds of the scenario. *)
Within ==
  /\ scenario # "sweep"
  /\ scenario = "chain" =>
       /\ \A w \in Anchorers : backlog'[w] = <<>>
       /\ Cardinality({ r \in records' : ~HashedInUTC(r) }) <= 1
  /\ scenario = "backlog" =>
       /\ altered' = 0
       /\ \A r \in records' : r.sequence = 1 /\ r.event = Original /\ HashedInUTC(r)

Attesting(A) == A /\ Within /\ UNCHANGED <<sweepVars, scenario>>

BackgroundInit == SweepInit /\ AttestInit /\ scenario \in {"sweep", "chain", "backlog"}

BackgroundNext == Sweeping(SweepNext) \/ Attesting(AttestNext)

(* The fairness of the two specifications, within the scenario; that of the  *)
(* anchoring passes serves no property here.                                *)
BackgroundSpec ==
  /\ BackgroundInit /\ [][BackgroundNext]_backgroundVars
  /\ \A w \in Workers : WF_backgroundVars(Sweeping(SweepStep(w)))
  /\ \A r \in Requests : SF_backgroundVars(Sweeping(RequestStep(r)))
  /\ WF_backgroundVars(Sweeping(\E t \in Txns : DeadlockVictim(t)))
  /\ WF_backgroundVars(Attesting(VerifyTenant))
  /\ WF_backgroundVars(Attesting(CreateCheckpoint))

=============================================================================
