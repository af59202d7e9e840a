--------------------------- MODULE BackgroundProofs ---------------------------
(***************************************************************************)
(* Proofs about the jobs beat starts.                                      *)
(*                                                                         *)
(* SweepWorkers, for any number of workers, requests, clocks and           *)
(* deadlines, and any size of a tranche: the lock on the tenant row lets   *)
(* one worker at a time hold claims, and the lock on the clock row keeps a *)
(* claim and a resolution of one clock apart, whichever comes first.  From *)
(* these two follows that a sweep commits only what is still worth firing, *)
(* and so that every commit is a step of the ledger of each clock.         *)
(*                                                                         *)
(* AuditAttestation, for any number of records, checkpoints, anchorers and *)
(* attempts: a stored digest covers every record before it as it was when  *)
(* it was appended (ChainHolds), and an anchor with a token is in no hand, *)
(* unless two passes had it at once (StampedAreLeftAlone).                 *)
(***************************************************************************)
EXTENDS SweepWorkers, AuditAttestation, Inductions, TLAPS

Stopping(r) == at[r] \in {"stop_updated", "stop_deleted", "stop_inserted", "stop_chained"}

(* Every variable keeps its type; a worker has a tranche only while firing.  *)
WorkerTypes ==
  /\ claimed \in [Workers -> SUBSET Deadlines] /\ batch \in [Workers -> SUBSET Deadlines]
  /\ target \in [Requests -> Clocks] /\ DOMAIN at = Txns
  /\ rows \subseteq Deadlines
  /\ \A w \in Workers : at[w] # "firing" => batch[w] = {}

(* The tenant row is locked by one worker at a time. *)
OneClaims == \A w, v \in Workers : w # v /\ Claims(w) # {} => Claims(v) = {}

(* What is claimed is worth firing. *)
ClaimsAreLive == \A w \in Workers : Claims(w) \subseteq Live

(* A clock being stopped is live, nobody else stops it, nothing of it is     *)
(* claimed.                                                                 *)
StopsExclude ==
  \A r \in Requests : Stopping(r) =>
    /\ target[r] \notin stopped
    /\ \A s \in Requests \ {r} : Stopping(s) => target[s] # target[r]
    /\ \A w \in Workers : \A d \in Claims(w) : ClockOf(d) # target[r]

SweepInv == WorkerTypes /\ OneClaims /\ ClaimsAreLive /\ StopsExclude

-----------------------------------------------------------------------------
(* The invariant. *)

LEMMA InitSweep == SweepInit => SweepInv
BY SweepAssumption
   DEF SweepInit, SweepInv, WorkerTypes, OneClaims, ClaimsAreLive, StopsExclude, Claims,
       Stopping, Txns

LEMMA ClaimKeepsInv ==
  ASSUME SweepInv, NEW w \in Workers, ClaimBatch(w)
  PROVE  SweepInv'
<1> DEFINE tranche == FirstOf(Candidates(w))
<1>1. /\ at[w] \in {"idle", "claiming"}
      /\ batch' = [batch EXCEPT ![w] = tranche]
      /\ at' = [at EXCEPT ![w] = IF Candidates(w) = {} THEN "finishing" ELSE "firing"]
      /\ UNCHANGED <<due, rows, fired, stopped, target, claimed>>
  BY DEF ClaimBatch
<1>2. tranche \subseteq Candidates(w)
  BY DEF FirstOf
<1>3. /\ tranche \subseteq Live /\ tranche \subseteq Deadlines
      /\ tranche # {} => \A v \in Workers \ {w} : Claims(v) = {}
      /\ \A d \in tranche, r \in Requests : ~LocksClock(r, ClockOf(d))
  BY <1>2, SweepAssumption
     DEF Candidates, FreeToClaim, LocksTenant, Live, SweepInv, WorkerTypes, Txns
<1>4. Candidates(w) = {} => tranche = {}
  BY <1>2
<1> HIDE DEF tranche
<1>5. /\ Claims(w)' = claimed[w] \cup tranche
      /\ \A v \in Workers \ {w} : Claims(v)' = Claims(v)
      /\ Live' = Live
  BY <1>1 DEF Claims, Live, SweepInv, WorkerTypes
<1>6. batch[w] = {} /\ Claims(w) = claimed[w]
  BY <1>1 DEF SweepInv, WorkerTypes, Claims
<1>7. \A r \in Requests : at'[r] = at[r]
  BY <1>1, SweepAssumption DEF SweepInv, WorkerTypes, Txns
<1>8. WorkerTypes'
  BY <1>1, <1>3, <1>4 DEF SweepInv, WorkerTypes, Txns
<1>9. OneClaims'
  BY <1>3, <1>5, <1>6 DEF SweepInv, OneClaims
<1>10. ClaimsAreLive'
  BY <1>3, <1>5, <1>6 DEF SweepInv, ClaimsAreLive
<1>11. ASSUME NEW r \in Requests, Stopping(r) PROVE \A d \in tranche : ClockOf(d) # target[r]
  BY <1>3, <1>11, SweepAssumption DEF LocksClock, Stopping
<1>12. StopsExclude'
  BY <1>1, <1>5, <1>6, <1>7, <1>11 DEF SweepInv, StopsExclude, Stopping
<1> QED BY <1>8, <1>9, <1>10, <1>12 DEF SweepInv

LEMMA FireKeepsInv ==
  ASSUME SweepInv, NEW w \in Workers, FireBatch(w)
  PROVE  SweepInv'
<1>1. /\ claimed' = [claimed EXCEPT ![w] = @ \cup batch[w]]
      /\ batch' = [batch EXCEPT ![w] = {}]
      /\ at' = [at EXCEPT ![w] = IF Cardinality(batch[w]) < Limit THEN "finishing"
                                                                  ELSE "claiming"]
      /\ UNCHANGED <<due, rows, fired, stopped, target>>
  BY DEF FireBatch
<1>2. \A v \in Workers : Claims(v)' = Claims(v)
  BY <1>1 DEF Claims, SweepInv, WorkerTypes
<1>3. \A r \in Requests : at'[r] = at[r]
  BY <1>1, SweepAssumption DEF SweepInv, WorkerTypes, Txns
<1>4. WorkerTypes'
  BY <1>1 DEF SweepInv, WorkerTypes, Txns
<1> QED BY <1>1, <1>2, <1>3, <1>4
        DEF SweepInv, OneClaims, ClaimsAreLive, StopsExclude, Stopping, Live

(* A worker that ends its transaction, having fired a set of its own. *)
LEMMA EndKeepsInv ==
  ASSUME SweepInv, NEW w \in Workers,
         claimed' = [claimed EXCEPT ![w] = {}], batch'[w] = {},
         \A v \in Workers \ {w} : batch'[v] = batch[v],
         batch' \in [Workers -> SUBSET Deadlines],
         at' = [at EXCEPT ![w] = "idle"],
         fired' \in {fired, fired \cup claimed[w]},
         UNCHANGED <<due, rows, stopped, target>>
  PROVE  SweepInv'
<1>1. Claims(w)' = {} /\ \A v \in Workers \ {w} : Claims(v)' = Claims(v)
  BY DEF Claims, SweepInv, WorkerTypes
<1>2. \A r \in Requests : at'[r] = at[r]
  BY SweepAssumption DEF SweepInv, WorkerTypes, Txns
<1>3. \A v \in Workers \ {w} : at'[v] = at[v]
  BY DEF SweepInv, WorkerTypes
<1>4. WorkerTypes'
  BY <1>3 DEF SweepInv, WorkerTypes
<1>5. OneClaims'
  BY <1>1 DEF SweepInv, OneClaims
<1>6. ASSUME NEW v \in Workers \ {w}, NEW d \in Claims(v) PROVE d \in Live'
  <2>1. claimed[w] = {}
    BY <1>6 DEF SweepInv, OneClaims, Claims
  <2>2. d \in Live
    BY <1>6 DEF SweepInv, ClaimsAreLive
  <2> QED BY <2>1, <2>2 DEF Live
<1>7. ClaimsAreLive'
  BY <1>1, <1>6 DEF ClaimsAreLive
<1>8. StopsExclude'
  BY <1>1, <1>2 DEF SweepInv, StopsExclude, Stopping
<1> QED BY <1>4, <1>5, <1>7, <1>8 DEF SweepInv

(* A request moves: claims are untouched, and clocks too unless it commits a *)
(* resolution.                                                              *)
LEMMA RequestKeepsInv ==
  ASSUME SweepInv, NEW r \in Requests, RequestStep(r)
  PROVE  SweepInv'
<1> USE DEF SweepInv
<1>1. /\ UNCHANGED <<due, fired, target, claimed, batch>>
      /\ \E place : at' = [at EXCEPT ![r] = place]
  BY DEF RequestStep, LockChain, InsertRecord, UpdateClock, DeleteRows, InsertEvent,
         CommitRequest, Goto
<1>2. \A t \in Txns \ {r} : at'[t] = at[t]
  BY <1>1 DEF WorkerTypes
<1>3. r \notin Workers /\ r \in Txns /\ Workers \subseteq Txns /\ Requests \subseteq Txns
  BY SweepAssumption DEF Txns
<1>4. \A w \in Workers : Claims(w)' = Claims(w) /\ at'[w] = at[w]
  BY <1>1, <1>2, <1>3 DEF Claims
<1>5. OneClaims'
  BY <1>4 DEF OneClaims
<1>6. CASE UNCHANGED <<rows, stopped>> /\ (Stopping(r)' => Stopping(r))
  <2>1. WorkerTypes'
    BY <1>1, <1>4, <1>6 DEF WorkerTypes
  <2>2. ClaimsAreLive'
    BY <1>1, <1>4, <1>6 DEF ClaimsAreLive, Live
  <2>3. StopsExclude'
    BY <1>1, <1>2, <1>3, <1>4, <1>6 DEF StopsExclude, Stopping
  <2> QED BY <1>5, <2>1, <2>2, <2>3
<1>7. CASE UpdateClock(r)
  <2>1. /\ target[r] \notin stopped /\ UNCHANGED <<rows, stopped>>
        /\ \A t \in Txns \ {r} : ~LocksClock(t, target[r])
    BY <1>7 DEF UpdateClock
  <2>2. \A s \in Requests \ {r} : Stopping(s) => target[s] # target[r]
    BY <2>1, <1>3, SweepAssumption DEF LocksClock, Stopping
  <2>3. \A w \in Workers : \A d \in Claims(w) : ClockOf(d) # target[r]
    BY <2>1, <1>3 DEF LocksClock
  <2>4. WorkerTypes'
    BY <1>1, <1>4, <2>1 DEF WorkerTypes
  <2>5. ClaimsAreLive'
    BY <1>1, <1>4, <2>1 DEF ClaimsAreLive, Live
  <2>6. StopsExclude'
    BY <1>1, <1>2, <1>3, <1>4, <2>1, <2>2, <2>3 DEF StopsExclude, Stopping
  <2> QED BY <1>5, <2>4, <2>5, <2>6
<1>8. CASE /\ Stopping(r) /\ ~Stopping(r)'
           /\ stopped' = stopped \cup {target[r]} /\ rows' = LeftBy(target[r])
  <2>1. WorkerTypes'
    BY <1>1, <1>4, <1>8 DEF WorkerTypes, LeftBy
  <2>2. ASSUME NEW w \in Workers, NEW d \in Claims(w) PROVE d \in Live'
    <3>1. d \in Live /\ ClockOf(d) # target[r]
      BY <1>8 DEF ClaimsAreLive, StopsExclude
    <3> QED BY <1>1, <1>8, <3>1 DEF Live, LeftBy
  <2>3. ClaimsAreLive'
    BY <1>4, <2>2 DEF ClaimsAreLive
  <2>4. StopsExclude'
    BY <1>1, <1>2, <1>3, <1>4, <1>8 DEF StopsExclude, Stopping
  <2> QED BY <1>5, <2>1, <2>3, <2>4
<1>9. CASE LockChain(r) \/ InsertRecord(r) \/ DeleteRows(r) \/ InsertEvent(r)
  BY <1>6, <1>9, <1>3
     DEF LockChain, InsertRecord, DeleteRows, InsertEvent, Goto, Stopping, WorkerTypes
<1>10. CASE CommitRequest(r)
  BY <1>6, <1>8, <1>10, <1>3 DEF CommitRequest, Goto, Stopping, WorkerTypes
<1> QED BY <1>7, <1>9, <1>10 DEF RequestStep

LEMMA NextSweep == SweepInv /\ [SweepNext]_sweepVars => SweepInv'
<1> SUFFICES ASSUME SweepInv, [SweepNext]_sweepVars PROVE SweepInv' OBVIOUS
<1>1. ASSUME NEW d \in Deadlines, FallDue(d) PROVE SweepInv'
  BY <1>1 DEF FallDue, SweepInv, WorkerTypes, OneClaims, ClaimsAreLive, StopsExclude,
              Claims, Stopping, Live
<1>2. ASSUME NEW w \in Workers, SweepStep(w) PROVE SweepInv'
  <2>1. CASE CommitSweep(w)
    BY <2>1, EndKeepsInv DEF CommitSweep, SweepInv, WorkerTypes
  <2> QED BY <1>2, <2>1, ClaimKeepsInv, FireKeepsInv DEF SweepStep
<1>3. ASSUME NEW r \in Requests, RequestStep(r) PROVE SweepInv'
  BY <1>3, RequestKeepsInv
<1>4. ASSUME NEW r \in Requests, NEW c \in Clocks, Begin(r, c) PROVE SweepInv'
  <2>1. /\ at[r] = "new" /\ target' = [target EXCEPT ![r] = c]
        /\ at' = [at EXCEPT ![r] = "begun"]
        /\ UNCHANGED <<due, rows, fired, stopped, claimed, batch>>
    BY <1>4 DEF Begin
  <2>2. /\ \A s \in Requests \ {r} : target'[s] = target[s] /\ at'[s] = at[s]
        /\ \A w \in Workers : at'[w] = at[w] /\ Claims(w)' = Claims(w)
        /\ ~Stopping(r)'
    BY <2>1, SweepAssumption DEF SweepInv, WorkerTypes, Txns, Claims, Stopping
  <2>3. WorkerTypes'
    BY <2>1, <2>2 DEF SweepInv, WorkerTypes
  <2> QED BY <2>1, <2>2, <2>3
          DEF SweepInv, OneClaims, ClaimsAreLive, StopsExclude, Stopping, Live
<1>5. ASSUME NEW t \in Txns, Rollback(t) PROVE SweepInv'
  <2>1. CASE t \in Workers
    <3>1. /\ claimed' = [claimed EXCEPT ![t] = {}] /\ batch' = [batch EXCEPT ![t] = {}]
          /\ at' = [at EXCEPT ![t] = "idle"]
          /\ UNCHANGED <<due, rows, fired, stopped, target>>
      BY <1>5, <2>1 DEF Rollback
    <3>2. /\ batch'[t] = {} /\ \A v \in Workers \ {t} : batch'[v] = batch[v]
          /\ batch' \in [Workers -> SUBSET Deadlines]
      BY <2>1, <3>1 DEF SweepInv, WorkerTypes
    <3> QED BY <2>1, <3>1, <3>2, EndKeepsInv
  <2>2. CASE t \notin Workers
    <3>1. /\ t \in Requests /\ at' = [at EXCEPT ![t] = "done"]
          /\ UNCHANGED <<due, rows, fired, stopped, target, claimed, batch>>
      BY <1>5, <2>2 DEF Rollback, Txns
    <3>2. /\ \A s \in Txns \ {t} : at'[s] = at[s]
          /\ \A w \in Workers : at'[w] = at[w] /\ Claims(w)' = Claims(w)
          /\ ~Stopping(t)'
      BY <3>1, <2>2 DEF SweepInv, WorkerTypes, Txns, Claims, Stopping
    <3>3. WorkerTypes'
      BY <3>1, <3>2 DEF SweepInv, WorkerTypes
    <3> QED BY <3>1, <3>2, <3>3
            DEF SweepInv, OneClaims, ClaimsAreLive, StopsExclude, Stopping, Live, Txns
  <2> QED BY <2>1, <2>2
<1>6. CASE UNCHANGED sweepVars
  BY <1>6 DEF sweepVars, SweepInv, WorkerTypes, OneClaims, ClaimsAreLive, StopsExclude,
              Claims, Stopping, Live
<1> QED BY <1>1, <1>2, <1>3, <1>4, <1>5, <1>6 DEF SweepNext, Dies, DeadlockVictim

LEMMA SweepAlways == SweepSpec => []SweepInv
BY InitSweep, NextSweep, PTL DEF SweepSpec

(* What a worker has claimed is its own and stays worth firing until its     *)
(* transaction ends: for any number of workers and requests, with crashes    *)
(* and deadlocks (_fire_batch's claim).                                      *)
THEOREM ClaimsAlwaysHold == SweepSpec => []ClaimsHold
<1>1. SweepInv => ClaimsHold
  BY DEF SweepInv, OneClaims, ClaimsAreLive, ClaimsHold
<1> QED BY <1>1, SweepAlways, PTL

-----------------------------------------------------------------------------
(* The refinement. *)

DeadlinesOf(c) == { d \in Deadlines : ClockOf(d) = c }

(* One transition moves a set S of a clock's pending deadlines to one phase. *)
LEMMA CommitIsFire ==
  ASSUME SweepInv, NEW w \in Workers, CommitSweep(w), NEW c \in Clocks
  PROVE  [Ledger(c)!LedgerNext]_(Ledger(c)!ledgerVars)
<1> PICK S : S = claimed[w] \cap DeadlinesOf(c) OBVIOUS
<1>1. /\ fired' = fired \cup claimed[w] /\ outbox' = outbox \cup claimed[w]
      /\ UNCHANGED <<rows, stopped>>
  BY DEF CommitSweep
<1>2. claimed[w] \subseteq Live /\ claimed[w] \subseteq Deadlines
  BY DEF SweepInv, WorkerTypes, ClaimsAreLive, Claims
<1>3. CASE S = {}
  <2>1. \A d \in DeadlinesOf(c) : Phase(d)' = Phase(d)
    BY <1>1, <1>3 DEF Phase
  <2>2. { d \in outbox : ClockOf(d) = c }' = { d \in outbox : ClockOf(d) = c }
    BY <1>1, <1>2, <1>3 DEF DeadlinesOf
  <2> QED BY <1>1, <2>1, <2>2 DEF Ledger!ledgerVars, DeadlinesOf
<1>4. CASE S # {}
  <2>1. c \notin stopped
    BY <1>2, <1>4 DEF Live, DeadlinesOf
  <2>2. \A d \in S : Phase(d) = "pending"
    BY <1>2 DEF Live, Phase
  <2>3. S \in SUBSET Ledger(c)!Pending
    BY <2>2 DEF Ledger!Pending, DeadlinesOf
  <2>4. \A d \in DeadlinesOf(c) : Phase(d)' = IF d \in S THEN "fired" ELSE Phase(d)
    BY <1>1 DEF Phase
  <2>5. { d \in outbox : ClockOf(d) = c }' = { d \in outbox : ClockOf(d) = c } \cup S
    BY <1>1, <1>2 DEF DeadlinesOf
  <2>6. Ledger(c)!Fire(S)
    BY <1>1, <2>1, <2>4, <2>5 DEF Ledger!Fire, Ledger!MovedTo, DeadlinesOf
  <2>7. \E T \in SUBSET Ledger(c)!Pending : Ledger(c)!Fire(T)
    BY <2>3, <2>6
  <2>8. Ledger(c)!LedgerNext
    BY <2>7, Zenon DEF Ledger!LedgerNext
  <2> QED BY <2>8
<1> QED BY <1>3, <1>4

(* A resolution withdraws what is pending on its clock and leaves the other  *)
(* clocks alone.                                                            *)
LEMMA ResolutionIsHalt ==
  ASSUME SweepInv, NEW r \in Requests, NEW c \in Clocks, Stopping(r),
         stopped' = stopped \cup {target[r]}, rows' = LeftBy(target[r]),
         UNCHANGED <<fired, outbox>>
  PROVE  [Ledger(c)!LedgerNext]_(Ledger(c)!ledgerVars)
<1>1. CASE c # target[r]
  <2>1. \A d \in DeadlinesOf(c) : Phase(d)' = Phase(d)
    BY <1>1 DEF Phase, LeftBy, DeadlinesOf
  <2>2. c \in stopped' <=> c \in stopped
    BY <1>1
  <2> QED BY <2>1, <2>2 DEF Ledger!ledgerVars, DeadlinesOf
<1>2. CASE c = target[r]
  <2> PICK S : S = { d \in DeadlinesOf(c) : Phase(d) = "pending" } OBVIOUS
  <2>1. c \notin stopped /\ c \in stopped'
    BY <1>2 DEF SweepInv, StopsExclude
  <2>2. S \in SUBSET Ledger(c)!Pending
    BY DEF Ledger!Pending, DeadlinesOf
  <2>3. \A d \in DeadlinesOf(c) : Phase(d)' = IF d \in S THEN "withdrawn" ELSE Phase(d)
    BY <1>2 DEF Phase, LeftBy, DeadlinesOf
  <2>4. Ledger(c)!Halt(S)
    BY <2>1, <2>3 DEF Ledger!Halt, Ledger!MovedTo, DeadlinesOf
  <2>7. \E T \in SUBSET Ledger(c)!Pending : Ledger(c)!Halt(T)
    BY <2>2, <2>4
  <2>8. Ledger(c)!LedgerNext
    BY <2>7, Zenon DEF Ledger!LedgerNext
  <2> QED BY <2>8
<1> QED BY <1>1, <1>2

LEMMA SweepStepIsLedgerStep ==
  ASSUME SweepInv, [SweepNext]_sweepVars, NEW c \in Clocks
  PROVE  [Ledger(c)!LedgerNext]_(Ledger(c)!ledgerVars)
<1>1. CASE UNCHANGED <<rows, fired, outbox, stopped>>
  BY <1>1 DEF Ledger!ledgerVars, Phase
<1>2. ASSUME NEW w \in Workers, CommitSweep(w)
      PROVE  [Ledger(c)!LedgerNext]_(Ledger(c)!ledgerVars)
  BY <1>2, CommitIsFire
<1>3. ASSUME NEW r \in Requests, CommitRequest(r)
      PROVE  [Ledger(c)!LedgerNext]_(Ledger(c)!ledgerVars)
  BY <1>1, <1>3, ResolutionIsHalt DEF CommitRequest, Goto, Stopping
<1>4. \/ UNCHANGED <<rows, fired, outbox, stopped>>
      \/ \E w \in Workers : CommitSweep(w)
      \/ \E r \in Requests : CommitRequest(r)
  BY DEF SweepNext, sweepVars, FallDue, SweepStep, ClaimBatch, FireBatch, RequestStep,
         LockChain, InsertRecord, UpdateClock, DeleteRows, InsertEvent, Begin, Dies,
         DeadlockVictim, Rollback
<1> QED BY <1>1, <1>2, <1>3, <1>4

(* Whatever several workers, requests, crashes and deadlocks do, every step  *)
(* is one the ledger of each clock allows: a deadline fires once, with its   *)
(* notification, and only while its clock is live.                           *)
THEOREM SweepFollowsTheLedger == SweepSpec => SweepStepsAreLedgerSteps
<1>1. SweepInv /\ [SweepNext]_sweepVars =>
        [\A c \in Clocks : [Ledger(c)!LedgerNext]_(Ledger(c)!ledgerVars)]_sweepVars
  BY SweepStepIsLedgerStep
<1> QED BY <1>1, SweepAlways, PTL DEF SweepSpec, SweepStepsAreLedgerSteps


-----------------------------------------------------------------------------
(* The walk of the chain.                                                   *)

Contents == [sequence : Nat, event : Events, offset : Offsets]

(* Rows numbered from 1 without a gap or a repeat. *)
Numbered(trail) ==
  /\ IsFiniteSet(trail)
  /\ \A r \in trail : r.sequence \in 1 .. Cardinality(trail)
  /\ \A n \in 1 .. Cardinality(trail) : \E r \in trail : r.sequence = n
  /\ \A r, q \in trail : r.sequence = q.sequence => r = q

(* The walk comes to the records in the order of their numbers. *)
LEMMA NthIsTheNth ==
  ASSUME NEW trail, Numbered(trail), NEW r \in trail
  PROVE  Nth(trail, r.sequence) = r
<1> DEFINE Below(q) == { p \in trail : p.sequence < q.sequence }
<1>1. ASSUME NEW q \in trail PROVE Cardinality(Below(q)) = q.sequence - 1
  <2>1. Cardinality(trail) \in Nat /\ q.sequence \in Nat /\ q.sequence - 1 \in Nat
    BY FS_CardinalityType DEF Numbered
  <2>2. IsFiniteSet(Below(q))
    <3>1. Below(q) \subseteq trail
      OBVIOUS
    <3> QED BY <3>1, FS_Subset DEF Numbered
  <2> DEFINE f == [p \in Below(q) |-> p.sequence]
  <2>3. f \in [Below(q) -> 1 .. q.sequence - 1]
    BY <2>1 DEF Numbered
  <2>4. \A a, b \in Below(q) : f[a] = f[b] => a = b
    BY DEF Numbered
  <2>5. \A n \in 1 .. q.sequence - 1 : \E p \in Below(q) : f[p] = n
    <3>1. TAKE n \in 1 .. q.sequence - 1
    <3>2. n \in 1 .. Cardinality(trail) /\ n < q.sequence
      BY <2>1 DEF Numbered
    <3>3. PICK p \in trail : p.sequence = n
      BY <3>2 DEF Numbered
    <3> QED BY <3>2, <3>3
  <2>6. ExistsBijection(Below(q), 1 .. q.sequence - 1)
    <3> HIDE DEF f, Below
    <3>1. f \in Bijection(Below(q), 1 .. q.sequence - 1)
      BY <2>3, <2>4, <2>5 DEF Bijection, Injection, Surjection, IsInjective
    <3> QED BY <3>1 DEF ExistsBijection
  <2>7. Cardinality(1 .. q.sequence - 1) = Cardinality(Below(q))
    BY <2>2, <2>6, FS_Bijection
  <2>8. Cardinality(1 .. q.sequence - 1) = q.sequence - 1
    <3>1. q.sequence - 1 \in Int /\ 1 \in Int
      BY <2>1
    <3>2. Cardinality(1 .. q.sequence - 1) =
            IF 1 > q.sequence - 1 THEN 0 ELSE (q.sequence - 1) - 1 + 1
      BY <3>1, FS_Interval
    <3> QED BY <2>1, <3>2
  <2> QED BY <2>7, <2>8
<1> HIDE DEF Below
<1>2. \A q \in trail : q.sequence \in Nat
  BY FS_CardinalityType DEF Numbered
<1>3. \A q \in trail : Cardinality(Below(q)) = r.sequence - 1 => q = r
  <2>1. TAKE q \in trail
  <2>2. Cardinality(Below(q)) = r.sequence - 1 => q.sequence = r.sequence
    BY <1>1, <1>2
  <2> QED BY <2>2 DEF Numbered
<1>4. Nth(trail, r.sequence) = CHOOSE q \in trail : Cardinality(Below(q)) = r.sequence - 1
  BY DEF Nth, Below
<1>5. (CHOOSE q \in trail : Cardinality(Below(q)) = r.sequence - 1) = r
  BY <1>1, <1>3
<1> QED BY <1>4, <1>5

(* The last record is the one with the number of the records. *)
LEMMA LastIsHead ==
  ASSUME NEW trail, Numbered(trail), trail # {}
  PROVE  \E r \in trail : /\ r.sequence = Cardinality(trail)
                         /\ ChainHead(trail) = [sequence |-> r.sequence, hash |-> r.hash]
<1>1. Cardinality(trail) \in Nat /\ Cardinality(trail) # 0
  BY FS_CardinalityType, FS_EmptySet DEF Numbered
<1>2. PICK r \in trail : r.sequence = Cardinality(trail)
  BY <1>1 DEF Numbered
<1>3. \A q \in trail : q.sequence <= r.sequence
  BY <1>1, <1>2 DEF Numbered
<1>4. \A q \in trail : (\A p \in trail : p.sequence <= q.sequence) => q = r
  <2>1. TAKE q \in trail
  <2>2. q.sequence \in Nat /\ r.sequence \in Nat
    BY <1>1 DEF Numbered
  <2>3. (\A p \in trail : p.sequence <= q.sequence) => q.sequence = r.sequence
    BY <1>3, <2>2
  <2> QED BY <2>3 DEF Numbered
<1>5. (CHOOSE q \in trail : \A p \in trail : p.sequence <= q.sequence) = r
  BY <1>3, <1>4
<1> QED BY <1>2, <1>5 DEF ChainHead

(* What the walk recomputes after n records covers their contents, in order. *)
LEMMA WalkCoversContents ==
  ASSUME NEW trail, Numbered(trail), \A r \in trail : record_content(r) \in Contents
  PROVE  \A n \in 0 .. Cardinality(trail) :
           /\ Recomputed(trail)[n] \in Seq(Contents) /\ Len(Recomputed(trail)[n]) = n
           /\ \A r \in trail : r.sequence <= n =>
                Recomputed(trail)[n][r.sequence] = record_content(r)
<1> DEFINE size == Cardinality(trail)
           content(n) == record_content(Nth(trail, n))
           Walks(h) == h = [n \in 0 .. size |->
                              IF n = 0 THEN GENESIS ELSE compute_hash(content(n), h[n - 1])]
           covered == [n \in 0 .. size |-> [i \in 1 .. n |-> content(i)]]
<1>1. size \in Nat
  BY FS_CardinalityType DEF Numbered
<1>2. \A n \in 1 .. size : content(n) \in Contents
  BY NthIsTheNth DEF Numbered
<1>3. \A r \in trail : content(r.sequence) = record_content(r) /\ r.sequence \in 1 .. size
  BY NthIsTheNth DEF Numbered
<1>4. Recomputed(trail) = CHOOSE h : Walks(h)
  BY DEF Recomputed
<1> HIDE DEF size, content
<1>5. \A n \in 0 .. size : covered[n] \in Seq(Contents) /\ Len(covered[n]) = n
  <2>1. TAKE n \in 0 .. size
  <2>2. n \in Nat /\ covered[n] = [i \in 1 .. n |-> content(i)]
    BY <1>1
  <2>3. \A i \in 1 .. n : content(i) \in Contents
    BY <1>1, <1>2
  <2>4. covered[n] \in [1 .. n -> Contents]
    BY <2>2, <2>3
  <2>5. covered[n] \in Seq(Contents)
    BY <2>2, <2>4
  <2>6. DOMAIN covered[n] = 1 .. n
    BY <2>2
  <2> QED BY <2>2, <2>5, <2>6
<1>6. ASSUME NEW n \in 1 .. size PROVE compute_hash(content(n), covered[n - 1]) = covered[n]
  <2>1. n - 1 \in 0 .. size /\ n \in 0 .. size /\ n \in Nat
    BY <1>1
  <2>2. covered[n - 1] = [i \in 1 .. n - 1 |-> content(i)] /\ covered[n] = [i \in 1 .. n |-> content(i)]
    BY <2>1
  <2>3. covered[n - 1] \in Seq(Contents) /\ Len(covered[n - 1]) = n - 1
    BY <1>5, <2>1
  <2>4. covered[n] \in Seq(Contents) /\ Len(covered[n]) = n
    BY <1>5, <2>1
  <2> DEFINE longer == Append(covered[n - 1], content(n))
  <2>5. longer \in Seq(Contents) /\ Len(longer) = n
    BY <1>2, <2>1, <2>3
  <2>6. \A i \in 1 .. n : longer[i] = content(i)
    <3>1. TAKE i \in 1 .. n
    <3>2. CASE i = n
      BY <1>2, <2>1, <2>3, <3>2
    <3>3. CASE i # n
      <4>1. i \in 1 .. n - 1
        BY <2>1, <3>3
      <4>2. longer[i] = covered[n - 1][i]
        BY <1>2, <2>1, <2>3, <4>1
      <4> QED BY <2>2, <4>1, <4>2
    <3> QED BY <3>2, <3>3
  <2>7. \A i \in 1 .. n : longer[i] = covered[n][i]
    BY <2>2, <2>6
  <2> HIDE DEF longer, covered
  <2>8. longer = covered[n]
    BY <2>4, <2>5, <2>7, SeqEqual
  <2> QED BY <2>8 DEF longer, compute_hash
<1>7. covered[0] = GENESIS
  <2>1. covered[0] \in Seq(Contents) /\ Len(covered[0]) = 0
    BY <1>1, <1>5
  <2> HIDE DEF covered
  <2> QED BY <2>1 DEF GENESIS
<1>8. Walks(covered)
  <2>1. \A n \in 0 .. size :
          covered[n] = IF n = 0 THEN GENESIS ELSE compute_hash(content(n), covered[n - 1])
    <3> HIDE DEF covered
    <3>1. TAKE n \in 0 .. size
    <3>2. CASE n = 0
      BY <1>7, <3>2
    <3>3. CASE n # 0
      <4>1. n \in 1 .. size
        BY <1>1, <3>3
      <4> QED BY <1>6, <3>3, <4>1
    <3> QED BY <3>2, <3>3
  <2>2. covered = [n \in 0 .. size |-> covered[n]]
    OBVIOUS
  <2> HIDE DEF covered
  <2> QED BY <2>1, <2>2
<1>9. ASSUME NEW h, Walks(h), NEW n \in 0 .. size PROVE h[n] = covered[n]
  <2> HIDE DEF covered
  <2>1. h[0] = GENESIS /\ \A k \in 1 .. size : h[k] = compute_hash(content(k), h[k - 1])
    <3>1. \A k \in 0 .. size :
            h[k] = IF k = 0 THEN GENESIS ELSE compute_hash(content(k), h[k - 1])
      BY <1>9
    <3>2. 0 \in 0 .. size /\ \A k \in 1 .. size : k \in 0 .. size /\ k # 0
      BY <1>1
    <3> QED BY <3>1, <3>2
  <2> HIDE DEF Walks
  <2> DEFINE N == { k \in Nat : k <= size => h[k] = covered[k] }
  <2>2. 0 \in N
    BY <1>7, <2>1
  <2>3. ASSUME NEW k \in N PROVE k + 1 \in N
    <3>1. SUFFICES ASSUME k + 1 <= size PROVE h[k + 1] = covered[k + 1]
      OBVIOUS
    <3>2. k + 1 \in 1 .. size /\ k <= size /\ (k + 1) - 1 = k
      BY <1>1, <3>1
    <3>3. h[k] = covered[k]
      BY <3>2
    <3>4. h[k + 1] = compute_hash(content(k + 1), h[k])
      BY <2>1, <3>2
    <3>5. covered[k + 1] = compute_hash(content(k + 1), covered[k])
      BY <1>6, <3>2
    <3> QED BY <3>3, <3>4, <3>5
  <2>4. \A k \in Nat : k \in N
    <3> HIDE DEF N
    <3>1. N \in SUBSET Nat
      BY DEF N
    <3> QED BY <2>2, <2>3, <3>1, NumberInduction
  <2>5. n \in Nat /\ n <= size
    BY <1>1
  <2> QED BY <2>4, <2>5
<1>10. ASSUME NEW n \in 0 .. size PROVE Recomputed(trail)[n] = covered[n]
  <2> HIDE DEF covered, Walks
  <2> QED BY <1>4, <1>8, <1>9
<1>11. ASSUME NEW n \in 0 .. size, NEW r \in trail, r.sequence <= n
       PROVE  covered[n][r.sequence] = record_content(r)
  <2>1. r.sequence \in 1 .. n /\ content(r.sequence) = record_content(r)
    BY <1>1, <1>3, <1>11
  <2> QED BY <2>1
<1> HIDE DEF covered
<1> QED BY <1>5, <1>10, <1>11 DEF size

-----------------------------------------------------------------------------
(* The chain and its checkpoints.                                           *)

Fields == {"sequence", "event", "prev_hash", "hash"}

(* The digest of a record covers itself and every record before it, as each  *)
(* was when it was appended: as it reads now, but for the one altered and   *)
(* those hashed with another offset than UTC.                               *)
ChainHolds ==
  /\ Numbered(records)
  /\ altered \in 0 .. Cardinality(records)
  /\ \A r \in records : /\ DOMAIN r = Fields /\ r.event \in Events
                        /\ r.hash \in Seq(Contents) /\ Len(r.hash) = r.sequence
  /\ \A r, q \in records : q.sequence <= r.sequence => r.hash[q.sequence] = q.hash[q.sequence]
  /\ \A q \in records : q.hash[q.sequence] = record_content(q)
                           <=> q.sequence # altered /\ HashedInUTC(q)

(* What a checkpoint signed was the head of the chain. *)
CheckpointsAreHeads ==
  \A c \in checkpoints : \E r \in records : c.sequence_to = r.sequence /\ c.head_hash = r.hash

ChainInv == ChainHolds /\ CheckpointsAreHeads

LEMMA NoRecords == Numbered({})
BY FS_EmptySet DEF Numbered

LEMMA InitChain == AttestInit => ChainInv
<1> SUFFICES ASSUME AttestInit PROVE ChainInv OBVIOUS
<1>1. records = {} /\ altered = 0 /\ checkpoints = {} /\ Cardinality({}) = 0
  BY FS_EmptySet DEF AttestInit
<1>2. 0 \in 0 .. 0
  OBVIOUS
<1> QED BY <1>1, <1>2, NoRecords DEF ChainInv, ChainHolds, CheckpointsAreHeads

LEMMA AppendKeepsChain ==
  ASSUME ChainInv, NEW e \in Events, NEW offset \in Offsets, AppendRecord(e, offset)
  PROVE  ChainInv'
<1> DEFINE head == ChainHead(records)
           size == Cardinality(records)
           new == AuditRecord(head.sequence + 1, e, offset, head.hash)
<1>1. records' = records \cup {new} /\ altered' = altered /\ checkpoints' = checkpoints
  BY DEF AppendRecord
<1>2. size \in Nat /\ IsFiniteSet(records)
  BY FS_CardinalityType DEF ChainInv, ChainHolds, Numbered
<1>3. /\ head.sequence = size /\ head.hash \in Seq(Contents) /\ Len(head.hash) = size
      /\ \A q \in records : head.hash[q.sequence] = q.hash[q.sequence]
  <2>1. CASE records = {}
    <3>1. head = NoHead /\ size = 0
      BY <2>1, FS_EmptySet DEF ChainHead
    <3>2. head.sequence = 0 /\ head.hash = << >>
      BY <3>1 DEF NoHead, GENESIS
    <3>3. << >> \in Seq(Contents) /\ Len(<< >>) = 0
      OBVIOUS
    <3> HIDE DEF head, size
    <3> QED BY <2>1, <3>1, <3>2, <3>3
  <2>2. CASE records # {}
    <3>1. PICK r \in records : /\ r.sequence = size
                               /\ head = [sequence |-> r.sequence, hash |-> r.hash]
      BY <2>2, LastIsHead DEF ChainInv, ChainHolds
    <3>2. \A q \in records : q.sequence <= r.sequence
      BY <1>2, <3>1 DEF ChainInv, ChainHolds, Numbered
    <3> QED BY <3>1, <3>2 DEF ChainInv, ChainHolds
  <2> QED BY <2>1, <2>2
<1> HIDE DEF head
<1> DEFINE content == Content(size + 1, e, offset)
<1>4. /\ new.sequence = size + 1 /\ new.event = e /\ new.hash = Append(head.hash, content)
      /\ DOMAIN new = Fields /\ content \in Contents /\ content.offset = offset
      /\ (record_content(new) = content <=> offset = UTC)
  BY <1>2, <1>3 DEF AuditRecord, compute_hash, record_content, Content, Contents, Fields
<1> HIDE DEF new, content
<1>5. /\ new.hash \in Seq(Contents) /\ Len(new.hash) = size + 1
      /\ new.hash[size + 1] = content
      /\ \A i \in 1 .. size : new.hash[i] = head.hash[i]
  BY <1>2, <1>3, <1>4
<1>6. /\ \A r \in records : r.sequence \in 1 .. size
      /\ \A n \in 1 .. size : \E r \in records : r.sequence = n
      /\ \A r, q \in records : r.sequence = q.sequence => r = q
  BY DEF ChainInv, ChainHolds, Numbered
<1>7. new \notin records
  BY <1>2, <1>4, <1>6
<1>8. IsFiniteSet(records') /\ Cardinality(records') = size + 1
  BY <1>1, <1>2, <1>7, FS_AddElement
<1> HIDE DEF size
<1>9. Numbered(records')
  <2>1. \A r \in records' : r.sequence \in 1 .. size + 1
    BY <1>1, <1>2, <1>4, <1>6
  <2>2. \A n \in 1 .. size + 1 : \E r \in records' : r.sequence = n
    <3>1. TAKE n \in 1 .. size + 1
    <3>2. n \in 1 .. size \/ n = size + 1
      BY <1>2
    <3> QED BY <1>1, <1>4, <1>6, <3>2
  <2>3. \A r, q \in records' : r.sequence = q.sequence => r = q
    <3>1. \A r \in records : r.sequence # new.sequence
      BY <1>2, <1>4, <1>6
    <3> QED BY <1>1, <1>6, <3>1
  <2> QED BY <1>8, <2>1, <2>2, <2>3 DEF Numbered
<1>10. altered \in 0 .. size /\ altered' \in 0 .. Cardinality(records')
  BY <1>1, <1>2, <1>8 DEF ChainInv, ChainHolds, size
<1>11. \A r, q \in records' : q.sequence <= r.sequence => r.hash[q.sequence] = q.hash[q.sequence]
  <2>1. ASSUME NEW r \in records', NEW q \in records', q.sequence <= r.sequence
        PROVE  r.hash[q.sequence] = q.hash[q.sequence]
    <3>1. CASE r \in records /\ q \in records
      BY <2>1, <3>1 DEF ChainInv, ChainHolds
    <3>2. CASE r \in records /\ q = new
      BY <1>2, <1>4, <1>6, <2>1, <3>2
    <3>3. CASE r = new /\ q \in records
      BY <1>3, <1>5, <1>6, <3>3
    <3> QED BY <1>1, <2>1, <3>1, <3>2, <3>3
  <2> QED BY <2>1
<1>14. \A q \in records' : q.hash[q.sequence] = record_content(q)
                              <=> q.sequence # altered /\ HashedInUTC(q)
  <2>1. CASE records' = records \cup {new}
    <3>1. size + 1 # altered
      BY <1>2, <1>10
    <3>2. new.hash[new.sequence] = content
      BY <1>4, <1>5
    <3>3. HashedInUTC(new) <=> offset = UTC
      BY <1>4, <3>2 DEF HashedInUTC
    <3>4. new.hash[new.sequence] = record_content(new)
            <=> new.sequence # altered /\ HashedInUTC(new)
      BY <1>4, <3>1, <3>2, <3>3
    <3> QED BY <2>1, <3>4 DEF ChainInv, ChainHolds
  <2> QED BY <1>1, <2>1
<1>12. \A r \in records' : /\ DOMAIN r = Fields /\ r.event \in Events
                           /\ r.hash \in Seq(Contents) /\ Len(r.hash) = r.sequence
  BY <1>1, <1>4, <1>5 DEF ChainInv, ChainHolds
<1>13. ChainHolds'
  BY <1>1, <1>9, <1>10, <1>11, <1>12, <1>14 DEF ChainHolds
<1> QED BY <1>1, <1>13 DEF ChainInv, CheckpointsAreHeads

LEMMA AlterKeepsChain ==
  ASSUME ChainInv, NEW r \in records, NEW e \in Events, AlterRecord(r, e)
  PROVE  ChainInv'
<1> DEFINE size == Cardinality(records)
           new == [r EXCEPT !.event = e]
           others == records \ {r}
<1>1. /\ altered = 0 /\ e # r.event /\ records' = others \cup {new}
      /\ altered' = r.sequence /\ checkpoints' = checkpoints
  BY DEF AlterRecord
<1>2. size \in Nat /\ IsFiniteSet(records)
  BY FS_CardinalityType DEF ChainInv, ChainHolds, Numbered
<1>3. /\ \A p \in records : p.sequence \in 1 .. size
      /\ \A n \in 1 .. size : \E p \in records : p.sequence = n
      /\ \A p, q \in records : p.sequence = q.sequence => p = q
  BY DEF ChainInv, ChainHolds, Numbered
<1>4. DOMAIN r = Fields /\ r.hash \in Seq(Contents) /\ Len(r.hash) = r.sequence
  BY DEF ChainInv, ChainHolds
<1>5. /\ DOMAIN new = Fields /\ new.event = e /\ new.sequence = r.sequence /\ new.hash = r.hash
      /\ record_content(new) # record_content(r) /\ record_content(new).offset = UTC
  BY <1>1, <1>4 DEF Fields, record_content, Content
<1> HIDE DEF new
<1>6. \A p \in others : p \in records /\ p.sequence # r.sequence
  BY <1>3
<1>7. new \notin others
  BY <1>5, <1>6
<1>8. IsFiniteSet(records') /\ Cardinality(records') = size
  <2>1. IsFiniteSet(others) /\ Cardinality(others) = size - 1
    BY <1>2, FS_RemoveElement
  <2>2. Cardinality(others \cup {new}) = (size - 1) + 1 /\ IsFiniteSet(others \cup {new})
    BY <1>7, <2>1, FS_AddElement
  <2>3. (size - 1) + 1 = size
    BY <1>2
  <2> QED BY <1>1, <2>2, <2>3
<1> HIDE DEF size
<1>9. Numbered(records')
  <2>1. \A p \in records' : p.sequence \in 1 .. size
    BY <1>1, <1>3, <1>5
  <2>2. \A n \in 1 .. size : \E p \in records' : p.sequence = n
    BY <1>1, <1>3, <1>5
  <2>3. \A p, q \in records' : p.sequence = q.sequence => p = q
    BY <1>1, <1>3, <1>5, <1>6
  <2> QED BY <1>8, <2>1, <2>2, <2>3 DEF Numbered
<1>10. altered' \in 0 .. Cardinality(records')
  <2>1. r.sequence \in 1 .. size
    BY <1>3
  <2> QED BY <1>1, <1>2, <1>8, <2>1
<1>11. \A p, q \in records' : q.sequence <= p.sequence => p.hash[q.sequence] = q.hash[q.sequence]
  <2>1. \A p \in records' : \E p0 \in records : p0.sequence = p.sequence /\ p0.hash = p.hash
    BY <1>1, <1>5, <1>6
  <2>2. \A p, q \in records : q.sequence <= p.sequence => p.hash[q.sequence] = q.hash[q.sequence]
    BY DEF ChainInv, ChainHolds
  <2> QED BY <2>1, <2>2
<1>15. \A q \in records' : q.hash[q.sequence] = record_content(q)
                              <=> q.sequence # altered' /\ HashedInUTC(q)
  <2>1. ASSUME NEW q \in others
        PROVE  q.hash[q.sequence] = record_content(q) <=> q.sequence # altered' /\ HashedInUTC(q)
    <3>1. q.sequence # 0 /\ q.sequence # altered'
      BY <1>1, <1>3, <1>6
    <3> QED BY <1>1, <1>6, <3>1 DEF ChainInv, ChainHolds
  <2>2. new.hash[new.sequence] # record_content(new)
    <3>1. CASE HashedInUTC(r)
      <4>1. r.sequence # 0
        BY <1>3
      <4>2. r.hash[r.sequence] = record_content(r)
        BY <1>1, <3>1, <4>1 DEF ChainInv, ChainHolds
      <4> QED BY <1>5, <4>2
    <3>2. CASE ~HashedInUTC(r)
      BY <1>5, <3>2 DEF HashedInUTC
    <3> QED BY <3>1, <3>2
  <2> QED BY <1>1, <1>5, <2>1, <2>2
<1>12. \A p \in records' : /\ DOMAIN p = Fields /\ p.event \in Events
                           /\ p.hash \in Seq(Contents) /\ Len(p.hash) = p.sequence
  BY <1>1, <1>4, <1>5, <1>6 DEF ChainInv, ChainHolds
<1>13. ChainHolds'
  BY <1>9, <1>10, <1>11, <1>12, <1>15 DEF ChainHolds
<1>14. CheckpointsAreHeads'
  <2>1. \A p \in records : \E q \in records' : q.sequence = p.sequence /\ q.hash = p.hash
    BY <1>1, <1>5
  <2> QED BY <1>1, <2>1 DEF ChainInv, CheckpointsAreHeads
<1> QED BY <1>13, <1>14 DEF ChainInv

(* A checkpoint is made only of a chain that has records. *)
LEMMA HeadIsOfARecord ==
  ASSUME ChainInv, ChainHead(records).sequence >= SequenceFrom
  PROVE  records # {}
<1>1. CASE checkpoints = {}
  <2>1. SequenceFrom = 1
    BY <1>1 DEF SequenceFrom
  <2>2. NoHead.sequence = 0 /\ ~(0 >= 1)
    BY DEF NoHead
  <2> QED BY <2>1, <2>2 DEF ChainHead
<1>2. CASE checkpoints # {}
  BY <1>2 DEF ChainInv, CheckpointsAreHeads
<1> QED BY <1>1, <1>2

LEMMA CheckpointKeepsChain ==
  ASSUME ChainInv, CreateCheckpoint
  PROVE  ChainInv'
<1>1. UNCHANGED <<records, altered>>
  BY DEF CreateCheckpoint, chainVars
<1>2. ChainHolds'
  BY <1>1 DEF ChainInv, ChainHolds
<1>3. CASE checkpoints' = checkpoints
  BY <1>1, <1>2, <1>3 DEF ChainInv, CheckpointsAreHeads
<1>4. CASE ChainHead(records).sequence >= SequenceFrom /\ Publish(Checkpoint)
  <2>1. records # {}
    BY <1>4, HeadIsOfARecord
  <2>2. PICK r \in records : ChainHead(records) = [sequence |-> r.sequence, hash |-> r.hash]
    BY <2>1, LastIsHead DEF ChainInv, ChainHolds
  <2>3. Checkpoint.sequence_to = r.sequence /\ Checkpoint.head_hash = r.hash
    BY <2>2 DEF Checkpoint
  <2>4. checkpoints' = checkpoints \cup {Checkpoint}
    BY <1>4 DEF Publish
  <2> QED BY <1>1, <1>2, <2>3, <2>4 DEF ChainInv, CheckpointsAreHeads
<1> QED BY <1>3, <1>4 DEF CreateCheckpoint

LEMMA NextChain == ChainInv /\ [AttestNext]_attestVars => ChainInv'
<1> SUFFICES ASSUME ChainInv, [AttestNext]_attestVars PROVE ChainInv' OBVIOUS
<1>1. ASSUME UNCHANGED <<records, altered, checkpoints>> PROVE ChainInv'
  BY <1>1 DEF ChainInv, ChainHolds, CheckpointsAreHeads
<1>2. ASSUME NEW e \in Events, NEW offset \in Offsets, AppendRecord(e, offset) PROVE ChainInv'
  BY <1>2, AppendKeepsChain
<1>3. ASSUME NEW r \in records, NEW e \in Events, AlterRecord(r, e) PROVE ChainInv'
  BY <1>3, AlterKeepsChain
<1>4. CASE CreateCheckpoint
  BY <1>4, CheckpointKeepsChain
<1>5. CASE VerifyTenant \/ JobDies
  BY <1>1, <1>5 DEF VerifyTenant, JobDies, chainVars
<1>6. ASSUME NEW w \in Anchorers, ReadBacklog(w) \/ Try(w) \/ CommitPass(w) \/ PassDies(w)
      PROVE  ChainInv'
  BY <1>1, <1>6 DEF ReadBacklog, Try, AnchorOne, CommitPass, PassDies, chainVars
<1>7. CASE UNCHANGED attestVars
  BY <1>1, <1>7 DEF attestVars, chainVars
<1> QED BY <1>2, <1>3, <1>4, <1>5, <1>6, <1>7 DEF AttestNext

(* An auditor who kept a checkpoint finds out: the walk reproduces its       *)
(* head_hash exactly as long as no record it covers was altered or hashed   *)
(* with another offset than UTC, whatever else is appended, verified or     *)
(* checkpointed before and after (verify.py, checkpoints.py).               *)
THEOREM CheckpointsAlwaysCatch == AttestSpec => []CheckpointCatchesAlteration
<1>1. ChainInv => CheckpointCatchesAlteration
  <2> DEFINE Sound(q) == q.sequence # altered /\ HashedInUTC(q)
  <2> SUFFICES ASSUME ChainInv, NEW c \in checkpoints
               PROVE  Recomputed(records)[c.sequence_to] = c.head_hash
                        <=> /\ altered = 0 \/ altered > c.sequence_to
                            /\ \A q \in records : q.sequence <= c.sequence_to => HashedInUTC(q)
    BY DEF CheckpointCatchesAlteration
  <2>1. PICK r \in records : c.sequence_to = r.sequence /\ c.head_hash = r.hash
    BY DEF ChainInv, CheckpointsAreHeads
  <2>2. /\ Numbered(records) /\ altered \in 0 .. Cardinality(records)
        /\ r.hash \in Seq(Contents) /\ Len(r.hash) = r.sequence
        /\ Cardinality(records) \in Nat
        /\ \A q \in records : q.sequence \in 1 .. Cardinality(records)
    BY FS_CardinalityType DEF ChainInv, ChainHolds, Numbered
  <2>3. r.sequence \in 0 .. Cardinality(records)
    BY <2>2
  <2>4. \A q \in records : record_content(q) \in Contents
    <3>1. UTC \in Offsets
      BY DEF Offsets
    <3>2. \A q \in records : q.event \in Events
      BY DEF ChainInv, ChainHolds
    <3> QED BY <2>2, <3>1, <3>2 DEF record_content, Content, Contents
  <2> DEFINE walked == Recomputed(records)[r.sequence]
  <2>5. /\ walked \in Seq(Contents) /\ Len(walked) = r.sequence
        /\ \A q \in records : q.sequence <= r.sequence => walked[q.sequence] = record_content(q)
    BY <2>2, <2>3, <2>4, WalkCoversContents
  <2> HIDE DEF walked
  <2>6. \A q \in records : q.sequence <= r.sequence =>
          (r.hash[q.sequence] = walked[q.sequence] <=> Sound(q))
    BY <2>5 DEF ChainInv, ChainHolds
  <2>7. \A i \in 1 .. r.sequence : \E q \in records : q.sequence = i
    BY <2>2 DEF Numbered
  <2>8. CASE \A q \in records : q.sequence <= r.sequence => Sound(q)
    <3>1. \A i \in 1 .. r.sequence : r.hash[i] = walked[i]
      <4>1. TAKE i \in 1 .. r.sequence
      <4>2. PICK q \in records : q.sequence = i
        BY <2>7
      <4>3. i <= r.sequence
        BY <2>2
      <4> QED BY <2>6, <2>8, <4>2, <4>3
    <3>2. r.hash = walked
      BY <2>2, <2>5, <3>1, SeqEqual
    <3>3. altered = 0 \/ altered > r.sequence
      <4>1. SUFFICES ASSUME altered \in 1 .. r.sequence PROVE FALSE
        BY <2>2
      <4>2. PICK q \in records : q.sequence = altered
        BY <2>7, <4>1
      <4>3. q.sequence <= r.sequence
        BY <2>2, <4>1, <4>2
      <4> QED BY <2>8, <4>2, <4>3
    <3> QED BY <2>1, <2>8, <3>2, <3>3 DEF walked
  <2>9. CASE ~\A q \in records : q.sequence <= r.sequence => Sound(q)
    <3>1. PICK q \in records : q.sequence <= r.sequence /\ ~Sound(q)
      BY <2>9
    <3>2. r.hash # walked
      BY <2>6, <3>1
    <3>3. CASE q.sequence # altered
      BY <2>1, <3>1, <3>2, <3>3 DEF walked
    <3>4. CASE q.sequence = altered
      <4>1. ~(altered = 0 \/ altered > r.sequence)
        BY <2>2, <3>1, <3>4
      <4> QED BY <2>1, <3>2, <4>1 DEF walked
    <3> QED BY <3>3, <3>4
  <2> QED BY <2>8, <2>9
<1> QED BY <1>1, InitChain, NextChain, PTL DEF AttestSpec

-----------------------------------------------------------------------------
(* The anchoring passes.  Unless two passes had an anchor in hand at once,   *)
(* nobody has one that already carries a token, so nobody touches it again. *)

AnchorFields == {"status", "token", "attempts"}

AnchorTypes ==
  /\ DOMAIN anchors \subseteq Nat /\ IsFiniteSet(DOMAIN anchors)
  /\ \A s \in DOMAIN anchors : DOMAIN anchors[s] = AnchorFields
  /\ DOMAIN backlog = Anchorers /\ DOMAIN written = Anchorers
  /\ \A w \in Anchorers :
       /\ \E S : backlog[w] \in Seq(S)
       /\ InHand(w) \subseteq DOMAIN anchors
       /\ \A s \in DOMAIN written[w] : DOMAIN written[w][s] = AnchorFields

(* An anchor in two hands was noted when the second pass read it. *)
HandsExclude ==
  \A v, w \in Anchorers : \A s \in InHand(v) \cap InHand(w) : v = w \/ s \in raced

(* Two passes never hold uncommitted updates of one anchor. *)
UpdatesExclude ==
  \A v, w \in Anchorers : \A s \in DOMAIN written[v] : s \in DOMAIN written[w] => v = w

(* What a pass is about to commit takes no token away, and a token it adds   *)
(* comes with the status that takes the anchor out of the backlog.          *)
UpdatesKeepTokens ==
  \A w \in Anchorers : \A s \in DOMAIN written[w] :
    /\ anchors[s].token # NoToken => written[w][s].token # NoToken
    /\ s \notin raced /\ written[w][s].token # NoToken => written[w][s].status = "anchored"

(* An anchor with a token is out of the backlog and out of every hand. *)
StampedAreLeftAlone ==
  \A s \in DOMAIN anchors \ raced : anchors[s].token # NoToken =>
    anchors[s].status = "anchored" /\ \A w \in Anchorers : s \notin InHand(w)

AnchorInv ==
  /\ ChainInv /\ AnchorTypes
  /\ HandsExclude /\ UpdatesExclude /\ UpdatesKeepTokens /\ StampedAreLeftAlone

StampsKept == \A s \in DOMAIN anchors : StampKept(s)

(* A pass reads anchors that are there. *)
LEMMA BacklogIsOfAnchors ==
  ASSUME NEW S \in SUBSET Nat, IsFiniteSet(S)
  PROVE  /\ \E E : OldestFirst(S) \in Seq(E)
         /\ \A n \in DOMAIN OldestFirst(S) : OldestFirst(S)[n].of \in S
<1> DEFINE size == IF Cardinality(S) < PassLimit THEN Cardinality(S) ELSE PassLimit
           nth == [n \in 1 .. Cardinality(S) |->
                     CHOOSE s \in S : Cardinality({ x \in S : x < s }) = n - 1]
           read == [n \in 1 .. size |-> Entry(nth[n])]
<1>1. OldestFirst(S) = read
  BY DEF OldestFirst
<1>2. Cardinality(S) \in Nat /\ PassLimit \in Nat
  BY FS_CardinalityType, AttestationAssumption
<1>3. \A n \in 1 .. Cardinality(S) : nth[n] \in S
  <2>1. TAKE n \in 1 .. Cardinality(S)
  <2>2. \E s \in S : Cardinality({ x \in S : x < s }) = n - 1
    BY NthNumber
  <2> QED BY <2>2
<1> HIDE DEF nth
<1>4. size \in Nat /\ \A n \in 1 .. size : n \in 1 .. Cardinality(S)
  BY <1>2
<1> HIDE DEF size
<1>5. read \in Seq({ read[n] : n \in 1 .. size }) /\ Len(read) = size
  <2>1. read \in [1 .. size -> { read[n] : n \in 1 .. size }] /\ DOMAIN read = 1 .. size
    OBVIOUS
  <2> HIDE DEF read
  <2>2. read \in Seq({ read[n] : n \in 1 .. size })
    BY <1>4, <2>1
  <2> QED BY <1>4, <2>1, <2>2
<1>6. \A n \in DOMAIN read : read[n].of \in S
  BY <1>3, <1>4 DEF Entry
<1> HIDE DEF read
<1> QED BY <1>1, <1>5, <1>6

LEMMA InitAnchors == AttestInit => AnchorInv
<1> SUFFICES ASSUME AttestInit PROVE AnchorInv OBVIOUS
<1>1. /\ anchors = NothingWritten /\ raced = {}
      /\ backlog = [w \in Anchorers |-> <<>>]
      /\ written = [w \in Anchorers |-> NothingWritten]
      /\ DOMAIN NothingWritten = {}
  BY DEF AttestInit, NothingWritten
<1>2. IsFiniteSet({})
  BY FS_EmptySet
<1>3. \A w \in Anchorers : backlog[w] \in Seq({}) /\ InHand(w) = {}
  BY <1>1 DEF InHand
<1> QED BY <1>1, <1>2, <1>3, InitChain
        DEF AnchorInv, AnchorTypes, HandsExclude, UpdatesExclude, UpdatesKeepTokens, StampedAreLeftAlone

(* What the steps that write no anchor keep. *)
LEMMA AnchorsUntouched ==
  ASSUME AnchorInv, ChainInv', UNCHANGED <<anchors, passVars>>
  PROVE  AnchorInv' /\ StampsKept
BY DEF AnchorInv, AnchorTypes, HandsExclude, UpdatesExclude, UpdatesKeepTokens,
       StampedAreLeftAlone, InHand, passVars, StampsKept, StampKept

LEMMA PublishKeepsAnchors ==
  ASSUME AnchorInv, ChainInv', Publish(Checkpoint), records # {},
         UNCHANGED <<records, passVars>>
  PROVE  AnchorInv' /\ StampsKept
<1>1. PICK to : to = Checkpoint.sequence_to
  OBVIOUS
<1>2. to \in Nat
  <2>1. PICK r \in records : ChainHead(records) = [sequence |-> r.sequence, hash |-> r.hash]
    BY LastIsHead DEF AnchorInv, ChainInv, ChainHolds
  <2>2. r.sequence \in Nat
    BY FS_CardinalityType DEF AnchorInv, ChainInv, ChainHolds, Numbered
  <2> QED BY <1>1, <2>1, <2>2 DEF Checkpoint
<1>3. /\ DOMAIN anchors' = DOMAIN anchors \cup {to}
      /\ \A s \in DOMAIN anchors : anchors'[s] = anchors[s]
      /\ to \notin DOMAIN anchors => anchors'[to] = NewAnchor
  BY <1>1 DEF Publish
<1>4. IsFiniteSet(DOMAIN anchors')
  BY <1>3, FS_AddElement DEF AnchorInv, AnchorTypes
<1>5. DOMAIN NewAnchor = AnchorFields /\ NewAnchor.token = NoToken
  BY DEF NewAnchor, AnchorFields
<1>6. /\ backlog' = backlog /\ written' = written /\ raced' = raced
      /\ \A w \in Anchorers : InHand(w)' = InHand(w)
  BY DEF passVars, InHand
<1>7. AnchorTypes'
  BY <1>2, <1>3, <1>4, <1>5, <1>6 DEF AnchorInv, AnchorTypes
<1>8. HandsExclude' /\ UpdatesExclude'
  BY <1>6 DEF AnchorInv, HandsExclude, UpdatesExclude
<1>9. UpdatesKeepTokens'
  <2>1. \A w \in Anchorers : DOMAIN written[w] \subseteq DOMAIN anchors
    BY DEF AnchorInv, AnchorTypes, InHand
  <2> QED BY <1>3, <1>6, <2>1 DEF AnchorInv, UpdatesKeepTokens
<1>10. StampedAreLeftAlone'
  BY <1>3, <1>5, <1>6 DEF AnchorInv, StampedAreLeftAlone
<1>11. StampsKept
  BY <1>3 DEF StampsKept, StampKept
<1> QED BY <1>7, <1>8, <1>9, <1>10, <1>11 DEF AnchorInv

LEMMA ReadKeepsAnchors ==
  ASSUME AnchorInv, ChainInv', NEW w \in Anchorers, ReadBacklog(w)
  PROVE  AnchorInv' /\ StampsKept
<1>1. PICK read : read = OldestFirst(Awaiting)
  OBVIOUS
<1> DEFINE reads == { read[n].of : n \in DOMAIN read }
<1>2. /\ backlog' = [backlog EXCEPT ![w] = read] /\ UNCHANGED <<anchors, written>>
      /\ backlog[w] = <<>> /\ written[w] = NothingWritten
      /\ raced' = raced \cup { s \in UNION { InHand(v) : v \in Anchorers \ {w} } : s \in reads }
  BY <1>1 DEF ReadBacklog, Idle
<1>3. Awaiting \subseteq DOMAIN anchors /\ Awaiting \in SUBSET Nat /\ IsFiniteSet(Awaiting)
  <2>1. Awaiting \subseteq DOMAIN anchors
    BY DEF Awaiting
  <2> QED BY <2>1, FS_Subset DEF AnchorInv, AnchorTypes
<1>4. (\E E : read \in Seq(E)) /\ reads \subseteq Awaiting
  BY <1>1, <1>3, BacklogIsOfAnchors
<1>5. \A v \in Anchorers : backlog'[v] = IF v = w THEN read ELSE backlog[v]
  BY <1>2 DEF AnchorInv, AnchorTypes
<1>6. /\ InHand(w)' = reads /\ DOMAIN written[w] = {}
      /\ \A v \in Anchorers \ {w} : InHand(v)' = InHand(v)
  <2>1. DOMAIN NothingWritten = {}
    BY DEF NothingWritten
  <2> QED BY <1>2, <1>5, <2>1 DEF InHand
<1>7. /\ \A s \in raced : s \in raced'
      /\ \A v \in Anchorers \ {w} : \A s \in InHand(v) : s \in reads => s \in raced'
  BY <1>2
<1> HIDE DEF reads
<1>8. AnchorTypes'
  <2>1. \A v \in Anchorers : InHand(v)' \subseteq DOMAIN anchors
    BY <1>3, <1>4, <1>6 DEF AnchorInv, AnchorTypes
  <2>2. \A v \in Anchorers : \E S : backlog'[v] \in Seq(S)
    BY <1>4, <1>5 DEF AnchorInv, AnchorTypes
  <2> QED BY <1>2, <2>1, <2>2 DEF AnchorInv, AnchorTypes
<1>9. HandsExclude'
  BY <1>6, <1>7 DEF AnchorInv, HandsExclude
<1>10. UpdatesExclude' /\ UpdatesKeepTokens'
  BY <1>2, <1>7 DEF AnchorInv, UpdatesExclude, UpdatesKeepTokens
<1>11. StampedAreLeftAlone'
  <2>1. SUFFICES ASSUME NEW s \in DOMAIN anchors, s \notin raced', anchors[s].token # NoToken
                 PROVE  anchors[s].status = "anchored" /\ \A v \in Anchorers : s \notin InHand(v)'
    BY <1>2 DEF StampedAreLeftAlone
  <2>2. anchors[s].status = "anchored" /\ \A v \in Anchorers : s \notin InHand(v)
    BY <1>7, <2>1 DEF AnchorInv, StampedAreLeftAlone
  <2>3. s \notin reads
    BY <1>4, <2>2 DEF Awaiting
  <2> QED BY <1>6, <2>2, <2>3
<1>12. StampsKept
  BY <1>2 DEF StampsKept, StampKept
<1> QED BY <1>8, <1>9, <1>10, <1>11, <1>12 DEF AnchorInv

LEMMA TryKeepsAnchors ==
  ASSUME AnchorInv, ChainInv', NEW w \in Anchorers, NEW answer, AnchorOne(w, answer)
  PROVE  AnchorInv' /\ StampsKept
<1>1. PICK entry : entry = Head(backlog[w])
  OBVIOUS
<1>2. PICK row : row = IF answer = NoToken THEN Failed(entry) ELSE Anchored(entry, answer)
  OBVIOUS
<1>3. PICK left : left = Tail(backlog[w])
  OBVIOUS
<1>4. /\ backlog[w] # <<>> /\ UNCHANGED <<anchors, raced>>
      /\ \A v \in Anchorers \ {w} : entry.of \notin DOMAIN written[v]
      /\ backlog' = [backlog EXCEPT ![w] = left]
      /\ written' = [written EXCEPT ![w] =
                       [s \in DOMAIN written[w] \cup {entry.of} |->
                          IF s = entry.of THEN row ELSE written[w][s]]]
  BY <1>1, <1>2, <1>3 DEF AnchorOne, AnchorInv, AnchorTypes
<1>5. PICK S : backlog[w] \in Seq(S)
  BY DEF AnchorInv, AnchorTypes
<1>6. /\ left \in Seq(S)
      /\ \A n \in DOMAIN left : n + 1 \in DOMAIN backlog[w] /\ left[n] = backlog[w][n + 1]
      /\ entry = backlog[w][1] /\ 1 \in DOMAIN backlog[w]
  BY <1>1, <1>3, <1>4, <1>5
<1>7. entry.of \in InHand(w) /\ InHand(w) \subseteq DOMAIN anchors
  BY <1>6 DEF AnchorInv, AnchorTypes, InHand
<1>8. /\ DOMAIN row = AnchorFields
      /\ anchors[entry.of].token # NoToken => row.token # NoToken
      /\ entry.of \notin raced /\ row.token # NoToken => row.status = "anchored"
  <2>1. DOMAIN anchors[entry.of] = AnchorFields
    BY <1>7 DEF AnchorInv, AnchorTypes
  <2>2. CASE answer # NoToken
    BY <1>2, <2>2 DEF Anchored, AnchorFields
  <2>3. CASE answer = NoToken
    <3>1. PICK n, status : row = [anchors[entry.of] EXCEPT !.attempts = n, !.status = status]
      BY <1>2, <2>3 DEF Failed
    <3>2. DOMAIN row = AnchorFields /\ row.token = anchors[entry.of].token
      BY <2>1, <3>1 DEF AnchorFields
    <3>3. entry.of \notin raced => anchors[entry.of].token = NoToken
      BY <1>7 DEF AnchorInv, StampedAreLeftAlone
    <3> QED BY <3>2, <3>3
  <2> QED BY <2>2, <2>3
<1>9. /\ DOMAIN written' = Anchorers
      /\ \A v \in Anchorers \ {w} : written'[v] = written[v]
      /\ DOMAIN written'[w] = DOMAIN written[w] \cup {entry.of}
      /\ \A s \in DOMAIN written'[w] : written'[w][s] = IF s = entry.of THEN row ELSE written[w][s]
  BY <1>4 DEF AnchorInv, AnchorTypes
<1>10. DOMAIN backlog' = Anchorers /\ \A v \in Anchorers : backlog'[v] = IF v = w THEN left ELSE backlog[v]
  BY <1>4 DEF AnchorInv, AnchorTypes
<1>11. \A v \in Anchorers : InHand(v)' \subseteq InHand(v)
  <2>1. { left[n].of : n \in DOMAIN left } \subseteq InHand(w)
    BY <1>6 DEF InHand
  <2>2. InHand(w)' \subseteq InHand(w)
    BY <1>7, <1>9, <1>10, <2>1 DEF InHand
  <2> QED BY <1>9, <1>10, <2>2 DEF InHand
<1>12. AnchorTypes'
  <2>1. ASSUME NEW v \in Anchorers, NEW s \in DOMAIN written'[v]
        PROVE  DOMAIN written'[v][s] = AnchorFields
    <3>1. CASE v = w /\ s = entry.of
      BY <1>8, <1>9, <3>1
    <3>2. CASE v = w /\ s # entry.of
      <4>1. s \in DOMAIN written[w] /\ written'[w][s] = written[w][s]
        BY <1>9, <3>2
      <4> QED BY <3>2, <4>1 DEF AnchorInv, AnchorTypes
    <3>3. CASE v # w
      <4>1. written'[v] = written[v]
        BY <1>9, <3>3
      <4> QED BY <4>1 DEF AnchorInv, AnchorTypes
    <3> QED BY <3>1, <3>2, <3>3
  <2>2. \A v \in Anchorers : \E E : backlog'[v] \in Seq(E)
    BY <1>6, <1>10 DEF AnchorInv, AnchorTypes
  <2>3. \A v \in Anchorers : InHand(v)' \subseteq DOMAIN anchors
    BY <1>11 DEF AnchorInv, AnchorTypes
  <2>4. /\ DOMAIN anchors \subseteq Nat /\ IsFiniteSet(DOMAIN anchors)
        /\ \A s \in DOMAIN anchors : DOMAIN anchors[s] = AnchorFields
    BY DEF AnchorInv, AnchorTypes
  <2>5. anchors' = anchors /\ DOMAIN backlog' = Anchorers /\ DOMAIN written' = Anchorers
    BY <1>4, <1>9, <1>10
  <2> QED BY <2>1, <2>2, <2>3, <2>4, <2>5 DEF AnchorTypes
<1>13. HandsExclude' /\ StampedAreLeftAlone'
  BY <1>4, <1>11 DEF AnchorInv, HandsExclude, StampedAreLeftAlone
<1>14. UpdatesExclude'
  BY <1>4, <1>9 DEF AnchorInv, UpdatesExclude
<1>15. UpdatesKeepTokens'
  BY <1>4, <1>8, <1>9 DEF AnchorInv, UpdatesKeepTokens
<1>16. StampsKept
  BY <1>4 DEF StampsKept, StampKept
<1> QED BY <1>12, <1>13, <1>14, <1>15, <1>16 DEF AnchorInv

LEMMA CommitKeepsAnchors ==
  ASSUME AnchorInv, ChainInv', NEW w \in Anchorers, CommitPass(w)
  PROVE  AnchorInv' /\ StampsKept
<1>1. /\ UNCHANGED <<backlog, raced>> /\ DOMAIN anchors' = DOMAIN anchors /\ backlog[w] = <<>>
      /\ \A s \in DOMAIN anchors :
           anchors'[s] = IF s \in DOMAIN written[w] THEN written[w][s] ELSE anchors[s]
  BY DEF CommitPass
<1>2. /\ DOMAIN written' = Anchorers /\ DOMAIN written'[w] = {}
      /\ \A v \in Anchorers \ {w} : written'[v] = written[v]
  BY DEF CommitPass, AnchorInv, AnchorTypes, NothingWritten
<1>3. /\ InHand(w)' = {} /\ DOMAIN written[w] \subseteq InHand(w)
      /\ \A v \in Anchorers \ {w} : InHand(v)' = InHand(v)
  BY <1>1, <1>2 DEF InHand
<1>4. AnchorTypes'
  <2>1. \A s \in DOMAIN anchors : DOMAIN anchors'[s] = AnchorFields
    <3>1. \A s \in DOMAIN anchors : DOMAIN anchors[s] = AnchorFields
      BY DEF AnchorInv, AnchorTypes
    <3>2. \A s \in DOMAIN written[w] : DOMAIN written[w][s] = AnchorFields
      BY DEF AnchorInv, AnchorTypes
    <3> QED BY <1>1, <3>1, <3>2
  <2>2. ASSUME NEW v \in Anchorers
        PROVE  \A s \in DOMAIN written'[v] : DOMAIN written'[v][s] = AnchorFields
    <3>1. CASE v = w
      BY <1>2, <3>1
    <3>2. CASE v # w
      <4>1. written'[v] = written[v]
        BY <1>2, <3>2
      <4> QED BY <4>1 DEF AnchorInv, AnchorTypes
    <3> QED BY <3>1, <3>2
  <2>3. \A v \in Anchorers : InHand(v)' \subseteq DOMAIN anchors
    BY <1>3 DEF AnchorInv, AnchorTypes
  <2>4. /\ DOMAIN backlog' = Anchorers /\ \A v \in Anchorers : \E S : backlog'[v] \in Seq(S)
        /\ DOMAIN anchors' \subseteq Nat /\ IsFiniteSet(DOMAIN anchors')
    BY <1>1 DEF AnchorInv, AnchorTypes
  <2> QED BY <1>1, <1>2, <2>1, <2>2, <2>3, <2>4 DEF AnchorTypes
<1>5. HandsExclude' /\ UpdatesExclude'
  BY <1>1, <1>2, <1>3 DEF AnchorInv, HandsExclude, UpdatesExclude
<1>6. UpdatesKeepTokens'
  <2>1. ASSUME NEW v \in Anchorers, NEW s \in DOMAIN written'[v]
        PROVE  /\ anchors'[s].token # NoToken => written'[v][s].token # NoToken
               /\ s \notin raced' /\ written'[v][s].token # NoToken =>
                    written'[v][s].status = "anchored"
    <3>1. v # w /\ written'[v] = written[v]
      BY <1>2
    <3>2. s \notin DOMAIN written[w] /\ s \in DOMAIN anchors
      BY <3>1 DEF AnchorInv, AnchorTypes, UpdatesExclude, InHand
    <3> QED BY <1>1, <3>1, <3>2 DEF AnchorInv, UpdatesKeepTokens
  <2> QED BY <2>1 DEF UpdatesKeepTokens
<1>7. StampedAreLeftAlone'
  <2>1. SUFFICES ASSUME NEW s \in DOMAIN anchors, s \notin raced, anchors'[s].token # NoToken
                 PROVE  anchors'[s].status = "anchored" /\ \A v \in Anchorers : s \notin InHand(v)'
    BY <1>1 DEF StampedAreLeftAlone
  <2>2. CASE s \in DOMAIN written[w]
    <3>1. anchors'[s] = written[w][s] /\ written[w][s].status = "anchored"
      BY <1>1, <2>1, <2>2 DEF AnchorInv, UpdatesKeepTokens
    <3>2. \A v \in Anchorers \ {w} : s \notin InHand(v)
      BY <1>3, <2>1, <2>2 DEF AnchorInv, HandsExclude
    <3> QED BY <1>3, <3>1, <3>2
  <2>3. CASE s \notin DOMAIN written[w]
    BY <1>1, <1>3, <2>1, <2>3 DEF AnchorInv, StampedAreLeftAlone
  <2> QED BY <2>2, <2>3
<1>8. StampsKept
  <2>1. ASSUME NEW s \in DOMAIN anchors, anchors[s].token # NoToken
        PROVE  anchors'[s].token # NoToken /\ (anchors'[s] # anchors[s] => s \in raced)
    <3>1. CASE s \in DOMAIN written[w]
      <4>1. anchors'[s].token # NoToken
        BY <1>1, <2>1, <3>1 DEF AnchorInv, UpdatesKeepTokens
      <4>2. s \in raced
        BY <1>3, <2>1, <3>1 DEF AnchorInv, StampedAreLeftAlone
      <4> QED BY <4>1, <4>2
    <3>2. CASE s \notin DOMAIN written[w]
      BY <1>1, <2>1, <3>2
    <3> QED BY <3>1, <3>2
  <2> QED BY <2>1 DEF StampsKept, StampKept
<1> QED BY <1>4, <1>5, <1>6, <1>7, <1>8 DEF AnchorInv

LEMMA PassDiesKeepsAnchors ==
  ASSUME AnchorInv, ChainInv', NEW w \in Anchorers, PassDies(w)
  PROVE  AnchorInv' /\ StampsKept
<1>1. UNCHANGED <<anchors, raced>>
  BY DEF PassDies
<1>2. /\ DOMAIN written' = Anchorers /\ DOMAIN written'[w] = {}
      /\ \A v \in Anchorers \ {w} : written'[v] = written[v]
  BY DEF PassDies, AnchorInv, AnchorTypes, NothingWritten
<1>3. DOMAIN backlog' = Anchorers
      /\ \A v \in Anchorers : backlog'[v] = IF v = w THEN <<>> ELSE backlog[v]
  BY DEF PassDies, AnchorInv, AnchorTypes
<1>4. <<>> \in Seq({})
  OBVIOUS
<1>5. InHand(w)' = {} /\ \A v \in Anchorers \ {w} : InHand(v)' = InHand(v)
  BY <1>2, <1>3 DEF InHand
<1>6. AnchorTypes'
  <2>1. ASSUME NEW v \in Anchorers
        PROVE  /\ \A s \in DOMAIN written'[v] : DOMAIN written'[v][s] = AnchorFields
               /\ \E S : backlog'[v] \in Seq(S)
    <3>1. CASE v = w
      BY <1>2, <1>3, <1>4, <3>1
    <3>2. CASE v # w
      <4>1. written'[v] = written[v] /\ backlog'[v] = backlog[v]
        BY <1>2, <1>3, <3>2
      <4> QED BY <4>1 DEF AnchorInv, AnchorTypes
    <3> QED BY <3>1, <3>2
  <2>2. \A v \in Anchorers : InHand(v)' \subseteq DOMAIN anchors
    BY <1>5 DEF AnchorInv, AnchorTypes
  <2>3. /\ DOMAIN anchors \subseteq Nat /\ IsFiniteSet(DOMAIN anchors)
        /\ \A s \in DOMAIN anchors : DOMAIN anchors[s] = AnchorFields
    BY DEF AnchorInv, AnchorTypes
  <2> QED BY <1>1, <1>2, <1>3, <2>1, <2>2, <2>3 DEF AnchorTypes
<1>7. HandsExclude' /\ StampedAreLeftAlone'
  BY <1>1, <1>5 DEF AnchorInv, HandsExclude, StampedAreLeftAlone
<1>8. UpdatesExclude' /\ UpdatesKeepTokens'
  BY <1>1, <1>2 DEF AnchorInv, UpdatesExclude, UpdatesKeepTokens
<1> QED BY <1>1, <1>6, <1>7, <1>8 DEF AnchorInv, StampsKept, StampKept

LEMMA NextAnchors ==
  AnchorInv /\ [AttestNext]_attestVars =>
    AnchorInv' /\ StampsKept
<1> SUFFICES ASSUME AnchorInv, [AttestNext]_attestVars
             PROVE  AnchorInv' /\ StampsKept
  OBVIOUS
<1>0. ChainInv'
  BY NextChain DEF AnchorInv
<1>1. CASE UNCHANGED <<anchors, passVars>>
  BY <1>0, <1>1, AnchorsUntouched
<1>2. ASSUME NEW e \in Events, NEW offset \in Offsets, AppendRecord(e, offset)
      PROVE  UNCHANGED <<anchors, passVars>>
  BY <1>2 DEF AppendRecord
<1>3. ASSUME NEW r \in records, NEW e \in Events, AlterRecord(r, e)
      PROVE  UNCHANGED <<anchors, passVars>>
  BY <1>3 DEF AlterRecord
<1>4. ASSUME VerifyTenant \/ JobDies PROVE UNCHANGED <<anchors, passVars>>
  BY <1>4 DEF VerifyTenant, JobDies
<1>5. CASE CreateCheckpoint
  <2>1. CASE UNCHANGED anchors
    BY <1>1, <1>5, <2>1 DEF CreateCheckpoint, passVars
  <2>2. CASE ~(UNCHANGED anchors)
    <3>1. /\ Publish(Checkpoint) /\ ChainHead(records).sequence >= SequenceFrom
          /\ UNCHANGED <<records, passVars>>
      BY <1>5, <2>2 DEF CreateCheckpoint, chainVars
    <3>2. records # {}
      BY <3>1, HeadIsOfARecord DEF AnchorInv
    <3> QED BY <1>0, <3>1, <3>2, PublishKeepsAnchors
  <2> QED BY <2>1, <2>2
<1>6. ASSUME NEW w \in Anchorers, ReadBacklog(w)
      PROVE  AnchorInv' /\ StampsKept
  BY <1>0, <1>6, ReadKeepsAnchors
<1>7. ASSUME NEW w \in Anchorers, Try(w)
      PROVE  AnchorInv' /\ StampsKept
  BY <1>0, <1>7, TryKeepsAnchors DEF Try
<1>8. ASSUME NEW w \in Anchorers, CommitPass(w)
      PROVE  AnchorInv' /\ StampsKept
  BY <1>0, <1>8, CommitKeepsAnchors
<1>9. ASSUME NEW w \in Anchorers, PassDies(w)
      PROVE  AnchorInv' /\ StampsKept
  BY <1>0, <1>9, PassDiesKeepsAnchors
<1>10. CASE UNCHANGED attestVars
  BY <1>1, <1>10 DEF attestVars, chainVars
<1> QED BY <1>1, <1>2, <1>3, <1>4, <1>5, <1>6, <1>7, <1>8, <1>9, <1>10 DEF AttestNext

(* For any number of overlapping passes: an anchor that has a token keeps    *)
(* one, and only an anchor that two passes had in hand at once is written   *)
(* again (anchoring.py).                                                    *)
THEOREM StampsAlwaysStand == AttestSpec => StampsChangeOnlyInRaces
<1>1. AnchorInv /\ [AttestNext]_attestVars
        => [\A s \in DOMAIN anchors : StampKept(s)]_attestVars
  BY NextAnchors DEF StampsKept
<1>2. AttestSpec => []AnchorInv
  <2>1. AnchorInv /\ [AttestNext]_attestVars => AnchorInv'
    BY NextAnchors
  <2> QED BY <2>1, InitAnchors, PTL DEF AttestSpec
<1> QED BY <1>1, <1>2, PTL DEF AttestSpec, StampsChangeOnlyInRaces
=============================================================================
