----------------------------- MODULE SweepWorkers -----------------------------
(***************************************************************************)
(* The sweep of one tenant by several workers at once, while requests of   *)
(* that tenant are in flight: sla/sweeper.py _sweep_one_tenant and         *)
(* _fire_batch down to the locks their statements take.                    *)
(*                                                                         *)
(* The claim is select_related("clock", ..., "tenant") with                *)
(* select_for_update(skip_locked=True) and no `of`: it locks the joined    *)
(* clock and tenant rows FOR UPDATE with the deadline.  Every INSERT of a  *)
(* tenant-scoped row takes FOR KEY SHARE on the tenant row by its foreign  *)
(* key, which conflicts; every append takes the tenant's advisory lock.    *)
(***************************************************************************)
EXTENDS Integers, FiniteSets

CONSTANTS
  Deadlines,   (* SLADeadline rows, numbered in the order of fires_at       *)
  Clocks,
  ClockOf(_),  (* the clock of a deadline                                   *)
  Workers,     (* workers running disputeshield.sla.sweep                   *)
  Requests,    (* requests that change a case of the tenant                 *)
  Limit,       (* BATCH_SIZE                                                *)
  Nobody,      (* holder of a lock that is free                             *)
  MaxDeaths    (* bound: transactions lost to a crash                       *)

ASSUME SweepAssumption ==
  /\ Deadlines \in SUBSET Nat /\ IsFiniteSet(Deadlines)
  /\ \A d \in Deadlines : ClockOf(d) \in Clocks
  /\ Workers \cap Requests = {} /\ Nobody \notin Workers \cup Requests
  /\ Limit \in Nat \ {0} /\ MaxDeaths \in Nat

VARIABLES
  due,        (* deadlines whose fires_at has passed                        *)
  rows,       (* SLADeadline rows there are                                 *)
  fired,      (* rows with fired_at set                                     *)
  outbox,     (* rows with a NotificationOutbox row                         *)
  stopped,    (* clocks that are stopped                                    *)
  chain,      (* holder of the tenant's advisory lock                       *)
  at,         (* where each transaction stands                              *)
  target,     (* the clock each request is about                            *)
  claimed,    (* of each worker, rows its transaction has locked and marked *)
  batch,      (* of each worker, the tranche it is firing                   *)
  deaths

sweepVars ==
  <<due, rows, fired, outbox, stopped, chain, at, target, claimed, batch, deaths>>

Txns == Workers \cup Requests

Live == { d \in rows \cap due : d \notin fired /\ ClockOf(d) \notin stopped }

-----------------------------------------------------------------------------
(* Locks, by what each transaction has done.                                *)

Claims(w) == claimed[w] \cup batch[w]

LocksTenant(w) == Claims(w) # {}

(* FOR KEY SHARE on the tenant: a request that has inserted something. *)
SharesTenant(r) == at[r] \in {"inserted", "stop_inserted", "stop_chained"}

LocksClock(t, c) ==
  IF t \in Workers THEN \E d \in Claims(t) : ClockOf(d) = c
  ELSE target[t] = c /\ at[t] \in {"stop_updated", "stop_deleted",
                                    "stop_inserted", "stop_chained"}

FreeForInsert == \A w \in Workers : ~LocksTenant(w)

FreeToClaim(w, d) ==
  /\ \A v \in Workers \ {w} : ~LocksTenant(v)
  /\ \A r \in Requests : ~SharesTenant(r)
  /\ \A t \in Txns \ {w} : ~LocksClock(t, ClockOf(d))

WaitsForChain(t) ==
  \/ t \in Workers /\ at[t] = "firing"
  \/ t \in Requests /\ at[t] \in {"begun", "stop_inserted"}

WaitsForInsert(t) == t \in Requests /\ at[t] \in {"chained", "stop_deleted"}

(* pg's wait-for graph has a cycle through t: the tenant row one way, the    *)
(* advisory lock the other.                                                 *)
Deadlocked(t) ==
  \E u \in Txns :
    \/ WaitsForChain(t) /\ chain = u /\ WaitsForInsert(u) /\ t \in Workers /\ LocksTenant(t)
    \/ WaitsForInsert(t) /\ chain = t /\ u \in Workers /\ LocksTenant(u) /\ WaitsForChain(u)

Release(t) == chain' = IF chain = t THEN Nobody ELSE chain

-----------------------------------------------------------------------------
(* The sweep.                                                               *)

(* Mutant of Candidates: a watermark that only moves forward. *)
CandidatesAfterWatermark(w) ==
  { d \in Live \ Claims(w) : FreeToClaim(w, d) /\ \A f \in fired : f < d }

(* Mutant of Candidates: no lock is asked for. *)
CandidatesUnlocked(w) == Live \ Claims(w)

Candidates(w) == { d \in Live \ Claims(w) : FreeToClaim(w, d) }

FirstOf(S) ==
  { d \in S : Cardinality({ e \in S : e < d }) < Limit }

(* One claim; a tranche that is empty ends the run. *)
ClaimBatch(w) ==
  /\ at[w] \in {"idle", "claiming"}
  /\ at' = [at EXCEPT ![w] = IF Candidates(w) = {} THEN "finishing" ELSE "firing"]
  /\ batch' = [batch EXCEPT ![w] = FirstOf(Candidates(w))]
  /\ UNCHANGED <<due, rows, fired, outbox, stopped, chain, target, claimed, deaths>>

(* The rows are marked, events and notifications inserted, and the audit     *)
(* entries appended, which waits for the advisory lock and keeps it.  A      *)
(* tranche below the limit is the last.                                     *)
FireBatch(w) ==
  /\ at[w] = "firing"
  /\ chain \in {Nobody, w}
  /\ chain' = w
  /\ claimed' = [claimed EXCEPT ![w] = @ \cup batch[w]]
  /\ batch' = [batch EXCEPT ![w] = {}]
  /\ at' = [at EXCEPT ![w] = IF Cardinality(batch[w]) < Limit THEN "finishing"
                                                              ELSE "claiming"]
  /\ UNCHANGED <<due, rows, fired, outbox, stopped, target, deaths>>

(* Mutant of CommitSweep: notifications outside the transaction, lost. *)
CommitSweepLastOnly(w) ==
  /\ at[w] = "finishing"
  /\ fired' = fired \cup claimed[w]
  /\ outbox' = outbox \cup FirstOf(claimed[w])
  /\ claimed' = [claimed EXCEPT ![w] = {}]
  /\ at' = [at EXCEPT ![w] = "idle"]
  /\ Release(w)
  /\ UNCHANGED <<due, rows, stopped, target, batch, deaths>>

(* for_each_tenant commits the tenant's tranches together. *)
CommitSweep(w) ==
  /\ at[w] = "finishing"
  /\ fired' = fired \cup claimed[w]
  /\ outbox' = outbox \cup claimed[w]
  /\ claimed' = [claimed EXCEPT ![w] = {}]
  /\ at' = [at EXCEPT ![w] = "idle"]
  /\ Release(w)
  /\ UNCHANGED <<due, rows, stopped, target, batch, deaths>>

-----------------------------------------------------------------------------
(* Requests: an acknowledgement, the shortest transition, and a resolution, *)
(* which stops the clock.                                                   *)

Goto(r, from, to) == at[r] = from /\ at' = [at EXCEPT ![r] = to]

Begin(r, c) ==
  /\ at[r] = "new"
  /\ target' = [target EXCEPT ![r] = c]
  /\ at' = [at EXCEPT ![r] = "begun"]
  /\ UNCHANGED <<due, rows, fired, outbox, stopped, chain, claimed, batch, deaths>>

(* audit.append: the advisory lock, then the INSERT of the record. *)
LockChain(r) ==
  /\ \/ Goto(r, "begun", "chained")
     \/ Goto(r, "stop_inserted", "stop_chained")
  /\ chain = Nobody
  /\ chain' = r
  /\ UNCHANGED <<due, rows, fired, outbox, stopped, target, claimed, batch, deaths>>

InsertRecord(r) ==
  /\ Goto(r, "chained", "inserted")
  /\ FreeForInsert
  /\ UNCHANGED <<due, rows, fired, outbox, stopped, chain, target, claimed, batch, deaths>>

(* clock.stop: the clock's row is updated; its unfired rows deleted; the     *)
(* SLAEvent inserted; then the audit record.                                *)
UpdateClock(r) ==
  /\ Goto(r, "begun", "stop_updated")
  /\ target[r] \notin stopped
  /\ \A t \in Txns \ {r} : ~LocksClock(t, target[r])
  /\ UNCHANGED <<due, rows, fired, outbox, stopped, chain, target, claimed, batch, deaths>>

DeleteRows(r) ==
  /\ Goto(r, "stop_updated", "stop_deleted")
  /\ \A w \in Workers, d \in Deadlines : ClockOf(d) = target[r] => d \notin Claims(w)
  /\ UNCHANGED <<due, rows, fired, outbox, stopped, chain, target, claimed, batch, deaths>>

InsertEvent(r) ==
  /\ Goto(r, "stop_deleted", "stop_inserted")
  /\ FreeForInsert
  /\ UNCHANGED <<due, rows, fired, outbox, stopped, chain, target, claimed, batch, deaths>>

LeftBy(c) == { d \in rows : ClockOf(d) # c \/ d \in fired }

CommitRequest(r) ==
  \/ /\ Goto(r, "inserted", "done")
     /\ Release(r)
     /\ UNCHANGED <<due, rows, fired, outbox, stopped, target, claimed, batch, deaths>>
  \/ /\ Goto(r, "stop_chained", "done")
     /\ Release(r)
     /\ stopped' = stopped \cup {target[r]}
     /\ rows' = LeftBy(target[r])
     /\ UNCHANGED <<due, fired, outbox, target, claimed, batch, deaths>>

-----------------------------------------------------------------------------

Rollback(t) ==
  /\ at' = [at EXCEPT ![t] = IF t \in Workers THEN "idle" ELSE "done"]
  /\ IF t \in Workers
     THEN /\ claimed' = [claimed EXCEPT ![t] = {}]
          /\ batch' = [batch EXCEPT ![t] = {}]
     ELSE UNCHANGED <<claimed, batch>>
  /\ Release(t)
  /\ UNCHANGED <<due, rows, fired, outbox, stopped, target>>

Dies(t) ==
  /\ at[t] \notin {"idle", "new", "done"}
  /\ deaths < MaxDeaths /\ deaths' = deaths + 1
  /\ Rollback(t)

(* deadlock_timeout: pg cancels one of the transactions in the cycle.       *)
DeadlockVictim(t) ==
  /\ Deadlocked(t)
  /\ Rollback(t)
  /\ UNCHANGED deaths

(* Time passes. *)
FallDue(d) ==
  /\ d \notin due
  /\ \A e \in Deadlines : e < d => e \in due
  /\ due' = due \cup {d}
  /\ UNCHANGED <<rows, fired, outbox, stopped, chain, at, target, claimed, batch, deaths>>

SweepInit ==
  /\ due = {} /\ rows = Deadlines /\ fired = {} /\ outbox = {} /\ stopped = {}
  /\ chain = Nobody /\ deaths = 0
  /\ at = [t \in Txns |-> IF t \in Workers THEN "idle" ELSE "new"]
  /\ target \in [Requests -> Clocks]
  /\ claimed = [w \in Workers |-> {}] /\ batch = [w \in Workers |-> {}]

SweepStep(w) == ClaimBatch(w) \/ FireBatch(w) \/ CommitSweep(w)

RequestStep(r) ==
  LockChain(r) \/ InsertRecord(r) \/ UpdateClock(r) \/ DeleteRows(r)
    \/ InsertEvent(r) \/ CommitRequest(r)

SweepNext ==
  \/ \E d \in Deadlines : FallDue(d)
  \/ \E w \in Workers : SweepStep(w)
  \/ \E r \in Requests : RequestStep(r) \/ \E c \in Clocks : Begin(r, c)
  \/ \E t \in Txns : Dies(t) \/ DeadlockVictim(t)

SweepSpec == SweepInit /\ [][SweepNext]_sweepVars

(* Beat sweeps for ever, pg resolves deadlocks, and a request that has begun *)
(* gets on: a lock it waits for is handed to it when it is released.        *)
SweepFairSpec ==
  /\ SweepSpec
  /\ \A w \in Workers : WF_sweepVars(SweepStep(w))
  /\ \A r \in Requests : SF_sweepVars(RequestStep(r))
  /\ WF_sweepVars(\E t \in Txns : DeadlockVictim(t))

-----------------------------------------------------------------------------
(* Properties. *)

(* What a worker has claimed is its own and stays worth firing until its     *)
(* transaction ends, whatever resolutions and sweeps are in flight: no other *)
(* worker claims it, it has not been fired, its row is there and its clock   *)
(* live (SKIP LOCKED with the re-check of fired_at under the lock).         *)
ClaimsHold ==
  \A w \in Workers :
    /\ Claims(w) \subseteq Live
    /\ \A v \in Workers \ {w} : Claims(w) \cap Claims(v) = {}

(* Each clock's deadlines and notifications, swept by several workers and    *)
(* stopped by requests, with crashes and deadlocks, do what DeadlineLedger   *)
(* allows of a case that has been filed: fire once, with the notification,   *)
(* and only while live.                                                     *)
Phase(d) ==
  IF d \in fired THEN "fired" ELSE IF d \in rows THEN "pending" ELSE "withdrawn"

Ledger(c) ==
  INSTANCE DeadlineLedger WITH
    Keys <- { d \in Deadlines : ClockOf(d) = c },
    mode <- IF c \in stopped THEN "stopped" ELSE "running",
    phase <- [d \in { x \in Deadlines : ClockOf(x) = c } |-> Phase(d)],
    notified <- { d \in outbox : ClockOf(d) = c }

SweepStepsAreLedgerSteps ==
  [][\A c \in Clocks : [Ledger(c)!LedgerNext]_(Ledger(c)!ledgerVars)]_sweepVars

(* A deadline that is due on a live clock is fired in the end, or its clock  *)
(* stopped, if requests leave the tenant alone at some time: neither skipped *)
(* rows, nor crashes, nor deadlocks with requests lose it.                   *)
DueIsFired == \A d \in Deadlines : d \in Live ~> d \notin Live

=============================================================================
