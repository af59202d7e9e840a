---------------------------- MODULE OutboundProofs ----------------------------
(***************************************************************************)
(* Proofs about what leaves the system: ReportDelivery, for any number of  *)
(* months, attempts, dispatchers and accidents; WebhookDelivery, for any   *)
(* endpoints, disputes and number of events.                               *)
(*                                                                         *)
(* A month is mailed twice only by accident because, while no pass has     *)
(* died and none has overlapped another, what a pass holds is what is      *)
(* stored (CopiesAreCurrent), a month has one row that could still be sent *)
(* or has been (OneRowPerMonth), and a month that was mailed has a row     *)
(* that says so (MailIsOnRecord).                                          *)
(***************************************************************************)
EXTENDS ReportDelivery, WebhookDelivery, FiniteSetTheorems, TLAPS

(* ReportDelivery.                                                          *)

(* A table of rows by key, as a pass keeps them. *)
IsTable(f) == DOMAIN f \subseteq Keys /\ \A k \in DOMAIN f : f[k] \in Delivery

(* Every variable keeps its type; a pass tries one row at a time, and what   *)
(* it saves has an outcome.                                                 *)
ReportTypes ==
  /\ edition \in [Months -> Editions]
  /\ lastPeriod \in 0 .. LastMonth
  /\ deliveries \in [Keys -> Delivery]
  /\ DOMAIN memory = Dispatchers /\ DOMAIN sending = Dispatchers
  /\ DOMAIN written = Dispatchers
  /\ \A d \in Dispatchers : IsTable(memory[d]) /\ IsTable(sending[d]) /\ IsTable(written[d])
  /\ \A d \in Dispatchers :
       /\ \A k \in DOMAIN sending[d] : sending[d][k].status # "none"
       /\ \A j, k \in DOMAIN sending[d] : j = k
       /\ \A k \in DOMAIN written[d] : written[d][k].status # "none"
  /\ mailed \in [Months -> Nat]
  /\ accidents \in Nat

(* A row that says "sent", wherever it is, is of a month that was mailed.    *)
SentWasMailed ==
  /\ \A k \in Keys : deliveries[k].status = "sent" => mailed[MonthOf(k)] > 0
  /\ \A d \in Dispatchers :
       /\ \A k \in DOMAIN sending[d] : sending[d][k].status = "sent" => mailed[MonthOf(k)] > 0
       /\ \A k \in DOMAIN written[d] : written[d][k].status = "sent" => mailed[MonthOf(k)] > 0

DeliveryInv ==
  ReportTypes /\ SentWasMailed /\ LastPeriodWasMailed

(* No accident so far. *)
Quiet == ~overlapped /\ accidents = 0

OnePass == \A d, e \in Dispatchers : ~Idle(d) /\ ~Idle(e) => d = e

(* The rows a pass holds, has tried and has saved are different rows; all    *)
(* are still pending, and what it holds is what is stored.                   *)
CopiesAreCurrent ==
  \A d \in Dispatchers :
    /\ \A k \in DOMAIN memory[d] :
         /\ memory[d][k] = deliveries[k] /\ deliveries[k].status = "pending"
         /\ k \notin DOMAIN sending[d] /\ k \notin DOMAIN written[d]
    /\ \A k \in DOMAIN sending[d] :
         deliveries[k].status = "pending" /\ k \notin DOMAIN written[d]
    /\ \A k \in DOMAIN written[d] : deliveries[k].status = "pending"

OneRowPerMonth ==
  \A j, k \in Keys :
    /\ MonthOf(j) = MonthOf(k)
    /\ deliveries[j].status \in {"pending", "sent"} /\ deliveries[k].status \in {"pending", "sent"}
    => j = k

(* Attempts of a month begin with number 0. *)
FirstAttemptOpens ==
  \A k \in Keys : deliveries[k] # NoDelivery => deliveries[<<MonthOf(k), 0>>] # NoDelivery

(* k is sent, as far as it is stored or the pass that sent it knows. *)
IsSent(k) ==
  \/ deliveries[k].status = "sent"
  \/ \E d \in Dispatchers : k \in DOMAIN sending[d] /\ sending[d][k].status = "sent"
  \/ \E d \in Dispatchers : k \in DOMAIN written[d] /\ written[d][k].status = "sent"

MailIsOnRecord ==
  \A m \in Months : mailed[m] > 0 => \E k \in Keys : MonthOf(k) = m /\ IsSent(k)

MailedOnce == \A m \in Months : mailed[m] <= 1

Orderly ==
  /\ OnePass /\ CopiesAreCurrent /\ OneRowPerMonth /\ FirstAttemptOpens
  /\ MailIsOnRecord /\ MailedOnce

QuietInv == Quiet => Orderly

-----------------------------------------------------------------------------
(* Operators the model is built from. *)

(* A nonempty set of numbers that is bounded has a highest. *)
LEMMA HighestExists ==
  ASSUME NEW n \in Nat, NEW S \in SUBSET (0 .. n), S # {}
  PROVE  \E m \in S : \A k \in S : k <= m
<1> DEFINE Bounds == { u \in Nat : \A k \in S : k <= u }
           Below == OpToRel(<, Nat)
<1>1. n \in Bounds /\ Bounds \subseteq Nat
  OBVIOUS
<1>2. PICK u \in Bounds : \A v \in Bounds : <<v, u>> \notin Below
  <2> HIDE DEF Bounds, Below
  <2>1. IsWellFoundedOn(Below, Nat)
    BY NatLessThanWellFounded DEF Below
  <2> QED BY <1>1, <2>1, WFMin
<1>3. \A v \in Bounds : u <= v
  <2> SUFFICES ASSUME NEW v \in Bounds PROVE u <= v OBVIOUS
  <2>1. ~(<<v, u>> \in Nat \X Nat /\ v < u)
    BY <1>2 DEF OpToRel
  <2> QED BY <2>1
<1>4. u \in S
  <2> SUFFICES ASSUME u \notin S PROVE FALSE OBVIOUS
  <2>1. PICK k \in S : TRUE OBVIOUS
  <2>2. \A j \in S : j \in Nat /\ j < u
    BY <1>1
  <2>3. u - 1 \in Bounds
    BY <2>1, <2>2
  <2> QED BY <1>3, <2>3
<1> QED BY <1>4

(* What it is to take a row out of a table, and to begin one. *)
LEMMA WithoutKeepsTable ==
  ASSUME NEW f, IsTable(f), NEW k
  PROVE  /\ IsTable(Without(f, k)) /\ DOMAIN Without(f, k) = DOMAIN f \ {k}
         /\ \A j \in DOMAIN f \ {k} : Without(f, k)[j] = f[j]
BY DEF IsTable, Without

LEMMA NothingIsTable == IsTable(Nothing) /\ DOMAIN Nothing = {}
BY DEF IsTable, Nothing

LEMMA TableOfOne ==
  ASSUME NEW k \in Keys, NEW row \in Delivery
  PROVE  /\ IsTable(With(Nothing, k, row)) /\ DOMAIN With(Nothing, k, row) = {k}
         /\ With(Nothing, k, row)[k] = row
BY DEF IsTable, With, Nothing

(* A row that has been tried is a row. *)
LEMMA TriedRow ==
  ASSUME NEW r \in Delivery, NEW s \in {"pending", "sent", "failed"}
  PROVE  LET tried == [r EXCEPT !.attempts = @ + 1, !.status = s]
         IN  tried \in Delivery /\ tried.status = s
<1> DEFINE tried == [r EXCEPT !.attempts = @ + 1, !.status = s]
           counted == [r EXCEPT !.attempts = @ + 1]
<1>1. counted \in Delivery
  BY DEF Delivery
<1>2. tried = [counted EXCEPT !.status = s]
  BY DEF Delivery
<1> HIDE DEF counted, tried
<1>3. tried \in Delivery /\ tried.status = s
  BY <1>1, <1>2 DEF Delivery
<1> QED BY <1>3 DEF tried

LEMMA KeysAreOfMonths ==
  /\ \A k \in Keys : MonthOf(k) \in Months
  /\ \A m \in Months : <<m, 0>> \in Keys /\ MonthOf(<<m, 0>>) = m
BY DeliveryAssumption DEF Keys, Months, MonthOf

(* A new row is pending. *)
LEMMA PromiseIsPending ==
  ASSUME NEW m \in Months, ReportTypes
  PROVE  /\ Promise(m).status = "pending" /\ Promise(m) # NoDelivery
         /\ Promise(m) \in Delivery
<1>1. IsFiniteSet(Months) /\ IsFiniteSet(0 .. MaxAttemptsPerPeriod - 1)
  BY DeliveryAssumption, FS_Interval DEF Months
<1>2. IsFiniteSet(Keys)
  BY <1>1, FS_Product DEF Keys
<1>3. Open \in SUBSET Keys
  BY DEF Open
<1>4. Cardinality(Open) \in Nat
  BY <1>2, <1>3, FS_Subset, FS_CardinalityType
<1> QED BY <1>4 DEF Promise, NoDelivery, Delivery, ReportTypes

-----------------------------------------------------------------------------
(* The invariant of the report schedule. *)

ReportInv == DeliveryInv /\ QuietInv

LEMMA InitReports == DeliveryInit => ReportInv
<1> SUFFICES ASSUME DeliveryInit PROVE ReportInv OBVIOUS
<1>1. ReportTypes
  BY NothingIsTable, DeliveryAssumption
     DEF DeliveryInit, ReportTypes, Delivery, NoDelivery, Editions, Months
<1>2. \A d \in Dispatchers : Idle(d) /\ DOMAIN memory[d] = {} /\ DOMAIN sending[d] = {}
                             /\ DOMAIN written[d] = {}
  BY NothingIsTable DEF DeliveryInit, Idle
<1>3. SentWasMailed /\ LastPeriodWasMailed
  BY <1>2 DEF DeliveryInit, SentWasMailed, LastPeriodWasMailed, NoDelivery
<1>4. QuietInv
  BY <1>2 DEF DeliveryInit, QuietInv, Orderly, OnePass, CopiesAreCurrent, OneRowPerMonth,
              FirstAttemptOpens, MailIsOnRecord, MailedOnce, NoDelivery
<1> QED BY <1>1, <1>3, <1>4 DEF ReportInv, DeliveryInv

(* What a run of the schedule opens: a row of a month none of whose rows is  *)
(* pending or sent.                                                         *)
LEMMA RunOpensOnlyWhereNothingIs ==
  ASSUME ReportInv, RunDue, NEW k \in Keys, deliveries'[k] # deliveries[k]
  PROVE  /\ deliveries'[k] = Promise(MonthOf(k))
         /\ \A j \in Keys : MonthOf(j) = MonthOf(k) =>
              deliveries[j].status \notin {"pending", "sent"}
         /\ k[2] = Cardinality(Attempts(MonthOf(k)))
<1>1. /\ deliveries'[k] = Promise(MonthOf(k)) /\ Requests(MonthOf(k))
      /\ k[2] = Cardinality(Attempts(MonthOf(k)))
  BY DEF RunDue, Opens
<1>2. \A j \in Keys : MonthOf(j) = MonthOf(k) => deliveries[j].status \notin {"pending", "sent"}
  BY <1>1 DEF Requests, Sent, InFlight, Attempts, Open, NoDelivery
<1> QED BY <1>1, <1>2

LEMMA RunDueKeeps ==
  ASSUME ReportInv, RunDue
  PROVE  ReportInv'
<1>1. /\ UNCHANGED <<edition, memory, sending, written, mailed, overlapped, accidents>>
      /\ deliveries' \in [Keys -> Delivery]
      /\ \A k \in Keys : deliveries'[k] # deliveries[k] =>
           deliveries'[k].status = "pending" /\ deliveries'[k] # NoDelivery
  <2>1. ReportTypes
    BY DEF ReportInv, DeliveryInv
  <2>2. \A k \in Keys : deliveries'[k] # deliveries[k] =>
          /\ deliveries'[k].status = "pending" /\ deliveries'[k] # NoDelivery
          /\ deliveries'[k] \in Delivery
    BY <2>1, RunOpensOnlyWhereNothingIs, PromiseIsPending, KeysAreOfMonths
  <2>3. deliveries' = [k \in Keys |-> deliveries'[k]]
    BY DEF RunDue
  <2> QED BY <2>1, <2>2, <2>3 DEF RunDue, passVars, ReportTypes
<1>2. lastPeriod' = lastPeriod \/ lastPeriod' \in Retired
  <2>1. Retired \in SUBSET (0 .. LastMonth) /\ LastMonth \in Nat
    BY DeliveryAssumption
       DEF Retired, Confirmed, Reached, Owed, Due, Months
  <2>2. Retired # {} => \E m \in Retired : \A k \in Retired : k <= m
    BY <2>1, HighestExists
  <2> QED BY <2>2 DEF RunDue
<1>3. Retired \subseteq Months /\ \A m \in Retired : mailed[m] > 0
  BY KeysAreOfMonths
     DEF Retired, Confirmed, Reached, Owed, Due, Sent, Attempts, Open, ReportInv,
         DeliveryInv, SentWasMailed
<1>4. ReportTypes'
  <2>1. ReportTypes
    BY DEF ReportInv, DeliveryInv
  <2>2. lastPeriod' \in 0 .. LastMonth
    <3>1. LastMonth \in Int /\ lastPeriod \in 0 .. LastMonth /\ Retired \subseteq 1 .. LastMonth
      BY <2>1, <1>3, DeliveryAssumption DEF ReportTypes, Months
    <3>2. \A m \in Retired : m \in 0 .. LastMonth
      BY <3>1
    <3> QED BY <1>2, <3>1, <3>2, Zenon
  <2>3. /\ (edition \in [Months -> Editions])' /\ mailed' \in [Months -> Nat] /\ accidents' \in Nat
    BY <1>1, <2>1 DEF ReportTypes
  <2>4. \A d \in Dispatchers :
          /\ IsTable(memory[d])' /\ IsTable(sending[d])' /\ IsTable(written[d])'
    BY <1>1, <2>1 DEF ReportTypes, IsTable
  <2> QED BY <1>1, <2>1, <2>2, <2>3, <2>4 DEF ReportTypes
<1>5. SentWasMailed'
  BY <1>1 DEF ReportInv, DeliveryInv, SentWasMailed
<1>6. LastPeriodWasMailed'
  BY <1>1, <1>2, <1>3 DEF ReportInv, DeliveryInv, LastPeriodWasMailed
<1>7. QuietInv'
  <2> SUFFICES ASSUME Quiet' PROVE Orderly'
    BY DEF QuietInv
  <2>1. /\ OnePass /\ CopiesAreCurrent /\ OneRowPerMonth /\ FirstAttemptOpens
        /\ MailIsOnRecord /\ MailedOnce
    BY <1>1 DEF Quiet, ReportInv, QuietInv, Orderly
  <2>2. \A k \in Keys : deliveries[k].status \in {"pending", "sent"} => deliveries'[k] = deliveries[k]
    BY RunOpensOnlyWhereNothingIs
  <2>3. OnePass' /\ MailedOnce'
    BY <1>1, <2>1 DEF OnePass, Idle, MailedOnce
  <2>4. CopiesAreCurrent'
    <3>1. \A d \in Dispatchers : /\ DOMAIN memory[d] \subseteq Keys /\ DOMAIN sending[d] \subseteq Keys
                                 /\ DOMAIN written[d] \subseteq Keys
      BY DEF ReportInv, DeliveryInv, ReportTypes, IsTable
    <3> QED BY <1>1, <2>1, <2>2, <3>1 DEF CopiesAreCurrent
  <2>5. OneRowPerMonth'
    <3> SUFFICES ASSUME NEW j \in Keys, NEW k \in Keys, MonthOf(j) = MonthOf(k),
                        deliveries'[j].status \in {"pending", "sent"},
                        deliveries'[k].status \in {"pending", "sent"}
                 PROVE  j = k
      BY DEF OneRowPerMonth
    <3>1. CASE deliveries'[j] = deliveries[j] /\ deliveries'[k] = deliveries[k]
      BY <2>1, <3>1 DEF OneRowPerMonth
    <3>2. CASE deliveries'[j] # deliveries[j] /\ deliveries'[k] # deliveries[k]
      <4>1. j[2] = k[2]
        BY <3>2, RunOpensOnlyWhereNothingIs
      <4> QED BY <4>1 DEF Keys, MonthOf
    <3>3. CASE deliveries'[j] # deliveries[j] /\ deliveries'[k] = deliveries[k]
      BY <3>3, RunOpensOnlyWhereNothingIs
    <3>4. CASE deliveries'[j] = deliveries[j] /\ deliveries'[k] # deliveries[k]
      BY <3>4, RunOpensOnlyWhereNothingIs
    <3> QED BY <3>1, <3>2, <3>3, <3>4
  <2>6. MailIsOnRecord'
    BY <1>1, <2>1, <2>2 DEF MailIsOnRecord, IsSent
  <2>7. FirstAttemptOpens'
    <3> SUFFICES ASSUME NEW k \in Keys, deliveries'[k] # NoDelivery
                 PROVE  deliveries'[<<MonthOf(k), 0>>] # NoDelivery
      BY DEF FirstAttemptOpens
    <3>1. <<MonthOf(k), 0>> \in Keys
      BY KeysAreOfMonths
    <3>2. CASE deliveries[<<MonthOf(k), 0>>] # NoDelivery
      BY <1>1, <3>1, <3>2
    <3>3. CASE deliveries[<<MonthOf(k), 0>>] = NoDelivery
      <4>1. \A j \in Keys : MonthOf(j) = MonthOf(k) => deliveries[j] = NoDelivery
        BY <2>1, <3>3 DEF FirstAttemptOpens
      <4>2. Attempts(MonthOf(k)) = {}
        BY <4>1 DEF Attempts, Open
      <4>3. deliveries'[k] # deliveries[k] /\ k[2] = 0
        BY <4>1, <4>2, RunOpensOnlyWhereNothingIs, FS_EmptySet
      <4>4. k = <<MonthOf(k), 0>>
        BY <4>3 DEF Keys, MonthOf
      <4> QED BY <4>4
    <3> QED BY <3>2, <3>3
  <2> QED BY <2>3, <2>4, <2>5, <2>6, <2>7 DEF Orderly
<1> QED BY <1>4, <1>5, <1>6, <1>7 DEF ReportInv, DeliveryInv

LEMMA RequestDeliveryKeeps ==
  ASSUME ReportInv, NEW m \in Months, RequestDelivery(m)
  PROVE  ReportInv'
<1> DEFINE first == <<m, 0>>
<1>1. /\ UNCHANGED <<edition, lastPeriod, memory, sending, written, mailed, overlapped, accidents>>
      /\ deliveries[first] = NoDelivery
      /\ deliveries' = [deliveries EXCEPT ![first] = Promise(m)]
  BY DEF RequestDelivery, scheduleVars, passVars
<1>2. first \in Keys /\ MonthOf(first) = m
  BY KeysAreOfMonths
<1>3. ReportTypes /\ Promise(m).status = "pending" /\ Promise(m) # NoDelivery
      /\ Promise(m) \in Delivery
  BY PromiseIsPending DEF ReportInv, DeliveryInv
<1>4. /\ deliveries' \in [Keys -> Delivery] /\ deliveries'[first] = Promise(m)
      /\ \A k \in Keys : k # first => deliveries'[k] = deliveries[k]
  BY <1>1, <1>2, <1>3 DEF ReportTypes
<1>5. ReportTypes'
  BY <1>1, <1>3, <1>4 DEF ReportTypes, IsTable
<1>6. SentWasMailed' /\ LastPeriodWasMailed'
  BY <1>1, <1>3, <1>4 DEF ReportInv, DeliveryInv, SentWasMailed, LastPeriodWasMailed
<1>8. QuietInv'
  <2> SUFFICES ASSUME Quiet' PROVE Orderly'
    BY DEF QuietInv
  <2>1. /\ OnePass /\ CopiesAreCurrent /\ OneRowPerMonth /\ FirstAttemptOpens
        /\ MailIsOnRecord /\ MailedOnce
    BY <1>1 DEF Quiet, ReportInv, QuietInv, Orderly
  <2>2. OnePass' /\ MailedOnce'
    BY <1>1, <2>1 DEF OnePass, Idle, MailedOnce
  <2>3. CopiesAreCurrent'
    <3>1. \A d \in Dispatchers : /\ DOMAIN memory[d] \subseteq Keys /\ DOMAIN sending[d] \subseteq Keys
                                 /\ DOMAIN written[d] \subseteq Keys
      BY <1>3 DEF ReportTypes, IsTable
    <3>2. deliveries[first].status # "pending"
      BY <1>1 DEF NoDelivery
    <3> QED BY <1>1, <1>4, <2>1, <3>1, <3>2 DEF CopiesAreCurrent
  <2>4. OneRowPerMonth'
    <3>1. \A k \in Keys : MonthOf(k) = m => deliveries[k] = NoDelivery
      BY <1>1, <2>1 DEF FirstAttemptOpens
    <3>2. \A k \in Keys : MonthOf(k) = m => deliveries[k].status \notin {"pending", "sent"}
      BY <3>1 DEF NoDelivery
    <3> QED BY <1>2, <1>4, <2>1, <3>2 DEF OneRowPerMonth
  <2>5. MailIsOnRecord'
    <3>1. deliveries[first].status # "sent"
      BY <1>1 DEF NoDelivery
    <3> QED BY <1>1, <1>4, <2>1, <3>1 DEF MailIsOnRecord, IsSent
  <2>6. FirstAttemptOpens'
    BY <1>2, <1>3, <1>4, <2>1, KeysAreOfMonths DEF FirstAttemptOpens
  <2> QED BY <2>1, <2>2, <2>3, <2>4, <2>5, <2>6 DEF Orderly
<1> QED BY <1>5, <1>6, <1>8 DEF ReportInv, DeliveryInv

(* Steps that leave rows and passes alone: time, cases, people. *)
LEMMA OtherStepsKeep ==
  ASSUME ReportInv, edition' \in [Months -> Editions],
         UNCHANGED <<lastPeriod, deliveries, memory, sending, written, mailed, overlapped, accidents>>
  PROVE  ReportInv'
<1>1. ReportTypes'
  BY DEF ReportInv, DeliveryInv, ReportTypes, IsTable
<1>2. SentWasMailed' /\ LastPeriodWasMailed'
  BY DEF ReportInv, DeliveryInv, SentWasMailed, LastPeriodWasMailed
<1>3. QuietInv'
  BY DEF ReportInv, QuietInv, Quiet, Orderly, OnePass, Idle, CopiesAreCurrent, OneRowPerMonth,
         FirstAttemptOpens, MailIsOnRecord, IsSent, MailedOnce
<1> QED BY <1>1, <1>2, <1>3 DEF ReportInv, DeliveryInv

LEMMA BeginPassKeeps ==
  ASSUME ReportInv, NEW d \in Dispatchers, BeginPass(d)
  PROVE  ReportInv'
<1> DEFINE copies == [k \in Pending |-> deliveries[k]]
<1>1. /\ UNCHANGED <<edition, lastPeriod, deliveries, sending, written, mailed, accidents>>
      /\ memory' = [memory EXCEPT ![d] = copies] /\ Idle(d)
      /\ overlapped' = (overlapped \/ \E e \in Dispatchers \ {d} : ~Idle(e))
  BY DEF BeginPass, scheduleVars
<1>2. ReportTypes
  BY DEF ReportInv, DeliveryInv
<1>3. /\ memory'[d] = copies /\ DOMAIN memory' = Dispatchers
      /\ \A e \in Dispatchers \ {d} : memory'[e] = memory[e]
  BY <1>1, <1>2 DEF ReportTypes
<1>4. /\ IsTable(copies) /\ DOMAIN copies \subseteq Keys
      /\ \A k \in DOMAIN copies : copies[k] = deliveries[k] /\ deliveries[k].status = "pending"
  BY <1>2 DEF Pending, ReportTypes, IsTable
<1>5. ReportTypes'
  <2> HIDE DEF copies
  <2>1. \A e \in Dispatchers : IsTable(memory'[e])
    BY <1>2, <1>3, <1>4 DEF ReportTypes
  <2> QED BY <1>1, <1>2, <1>3, <2>1 DEF ReportTypes, IsTable
<1>6. SentWasMailed' /\ LastPeriodWasMailed'
  BY <1>1 DEF ReportInv, DeliveryInv, SentWasMailed, LastPeriodWasMailed
<1>7. QuietInv'
  <2> HIDE DEF copies
  <2> SUFFICES ASSUME Quiet' PROVE Orderly'
    BY DEF QuietInv
  <2>1. \A e \in Dispatchers \ {d} : Idle(e)
    BY <1>1 DEF Quiet
  <2>2. /\ OnePass /\ CopiesAreCurrent /\ OneRowPerMonth /\ FirstAttemptOpens
        /\ MailIsOnRecord /\ MailedOnce
    BY <1>1 DEF Quiet, ReportInv, QuietInv, Orderly
  <2>3. OnePass'
    BY <1>1, <1>3, <2>1 DEF OnePass, Idle
  <2>4. CopiesAreCurrent'
    <3>1. DOMAIN sending[d] = {} /\ DOMAIN written[d] = {}
      BY <1>1, NothingIsTable DEF Idle
    <3> QED BY <1>1, <1>3, <1>4, <2>2, <3>1 DEF CopiesAreCurrent
  <2>5. OneRowPerMonth' /\ FirstAttemptOpens' /\ MailIsOnRecord' /\ MailedOnce'
    BY <1>1, <2>2 DEF OneRowPerMonth, FirstAttemptOpens, MailIsOnRecord, IsSent, MailedOnce
  <2> QED BY <2>3, <2>4, <2>5 DEF Orderly
<1> QED BY <1>5, <1>6, <1>7 DEF ReportInv, DeliveryInv

(* A pass comes to a row: it is no longer in memory, and is the one being    *)
(* sent.                                                                    *)
LEMMA TakingARow ==
  ASSUME ReportTypes, NEW d \in Dispatchers, NEW k \in Keys, NEW row \in Delivery,
         row.status # "none",
         sending' = [sending EXCEPT ![d] = With(Nothing, k, row)],
         memory' = [memory EXCEPT ![d] = Without(@, k)]
  PROVE  /\ DOMAIN sending'[d] = {k} /\ sending'[d][k] = row
         /\ DOMAIN memory'[d] = DOMAIN memory[d] \ {k}
         /\ \A j \in DOMAIN memory'[d] : memory'[d][j] = memory[d][j]
         /\ \A e \in Dispatchers \ {d} : sending'[e] = sending[e] /\ memory'[e] = memory[e]
         /\ DOMAIN sending' = Dispatchers /\ DOMAIN memory' = Dispatchers
         /\ \A e \in Dispatchers : IsTable(sending'[e]) /\ IsTable(memory'[e])
         /\ \A e \in Dispatchers : \A j \in DOMAIN sending'[e] : sending'[e][j].status # "none"
         /\ \A e \in Dispatchers : \A i, j \in DOMAIN sending'[e] : i = j
<1>1. /\ sending'[d] = With(Nothing, k, row) /\ memory'[d] = Without(memory[d], k)
      /\ \A e \in Dispatchers \ {d} : sending'[e] = sending[e] /\ memory'[e] = memory[e]
      /\ DOMAIN sending' = Dispatchers /\ DOMAIN memory' = Dispatchers
  BY DEF ReportTypes
<1>2. /\ IsTable(With(Nothing, k, row)) /\ DOMAIN With(Nothing, k, row) = {k}
      /\ With(Nothing, k, row)[k] = row
  BY TableOfOne
<1>3. /\ IsTable(Without(memory[d], k)) /\ DOMAIN Without(memory[d], k) = DOMAIN memory[d] \ {k}
      /\ \A j \in DOMAIN memory[d] \ {k} : Without(memory[d], k)[j] = memory[d][j]
  <2>1. IsTable(memory[d])
    BY DEF ReportTypes
  <2> QED BY <2>1, WithoutKeepsTable
<1> QED BY <1>1, <1>2, <1>3 DEF ReportTypes

(* What Quiet says of the pass that comes to k. *)
LEMMA QuietPassAtRow ==
  ASSUME ReportInv, Quiet, NEW d \in Dispatchers, NEW k \in DOMAIN memory[d],
         sending[d] = Nothing
  PROVE  /\ \A e \in Dispatchers \ {d} : Idle(e) /\ DOMAIN memory[e] = {}
                                         /\ DOMAIN sending[e] = {} /\ DOMAIN written[e] = {}
         /\ k \in Keys /\ k \notin DOMAIN written[d] /\ DOMAIN sending[d] = {}
         /\ deliveries[k].status = "pending"
         /\ mailed[MonthOf(k)] = 0
<1>1. OnePass /\ CopiesAreCurrent /\ OneRowPerMonth /\ MailIsOnRecord /\ MailedOnce /\ ReportTypes
  BY DEF ReportInv, QuietInv, Orderly, DeliveryInv
<1>2. ~Idle(d)
  BY NothingIsTable DEF Idle
<1>3. \A e \in Dispatchers \ {d} : Idle(e) /\ DOMAIN memory[e] = {}
                                   /\ DOMAIN sending[e] = {} /\ DOMAIN written[e] = {}
  BY <1>1, <1>2, NothingIsTable DEF OnePass, Idle
<1>4. /\ k \in Keys /\ k \notin DOMAIN written[d] /\ DOMAIN sending[d] = {}
      /\ deliveries[k].status = "pending"
  <2>1. IsTable(memory[d])
    BY <1>1 DEF ReportTypes
  <2> QED BY <1>1, <2>1, NothingIsTable DEF CopiesAreCurrent, IsTable
<1>5. mailed[MonthOf(k)] = 0
  <2> SUFFICES ASSUME mailed[MonthOf(k)] # 0 PROVE FALSE OBVIOUS
  <2>1. MonthOf(k) \in Months /\ mailed[MonthOf(k)] > 0
    BY <1>1, <1>4, KeysAreOfMonths DEF ReportTypes
  <2>2. PICK j \in Keys : MonthOf(j) = MonthOf(k) /\ IsSent(j)
    BY <1>1, <2>1 DEF MailIsOnRecord
  <2>3. deliveries[j].status # "sent"
    BY <1>1, <1>4, <2>2 DEF OneRowPerMonth
  <2>4. j \in DOMAIN written[d]
    BY <1>3, <1>4, <2>2, <2>3 DEF IsSent
  <2>5. deliveries[j].status = "pending"
    BY <1>1, <2>4 DEF CopiesAreCurrent
  <2>6. j = k
    BY <1>1, <1>4, <2>2, <2>5 DEF OneRowPerMonth
  <2> QED BY <1>4, <2>4, <2>6
<1> QED BY <1>3, <1>4, <1>5

LEMMA DeliverKeeps ==
  ASSUME ReportInv, NEW d \in Dispatchers, NEW k \in Keys, Deliver(d, k)
  PROVE  ReportInv'
<1> DEFINE row == [memory[d][k] EXCEPT !.attempts = @ + 1, !.status = "sent"]
           m == MonthOf(k)
<1>1. /\ UNCHANGED <<edition, lastPeriod, deliveries, written, overlapped, accidents>>
      /\ sending[d] = Nothing /\ k \in DOMAIN memory[d]
      /\ mailed' = [mailed EXCEPT ![m] = @ + 1]
      /\ sending' = [sending EXCEPT ![d] = With(Nothing, k, row)]
      /\ memory' = [memory EXCEPT ![d] = Without(@, k)]
  BY DEF Deliver, IsNext, scheduleVars
<1>2. ReportTypes /\ m \in Months
  BY KeysAreOfMonths DEF ReportInv, DeliveryInv
<1>3. row \in Delivery /\ row.status = "sent"
  <2>1. memory[d][k] \in Delivery
    BY <1>1, <1>2 DEF ReportTypes, IsTable
  <2> QED BY <2>1, TriedRow
<1> HIDE DEF row
<1>4. /\ DOMAIN sending'[d] = {k} /\ sending'[d][k] = row
      /\ DOMAIN memory'[d] = DOMAIN memory[d] \ {k}
      /\ \A j \in DOMAIN memory'[d] : memory'[d][j] = memory[d][j]
      /\ \A e \in Dispatchers \ {d} : sending'[e] = sending[e] /\ memory'[e] = memory[e]
      /\ DOMAIN sending' = Dispatchers /\ DOMAIN memory' = Dispatchers
      /\ \A e \in Dispatchers : IsTable(sending'[e]) /\ IsTable(memory'[e])
      /\ \A e \in Dispatchers : \A j \in DOMAIN sending'[e] : sending'[e][j].status # "none"
      /\ \A e \in Dispatchers : \A i, j \in DOMAIN sending'[e] : i = j
  <2>1. row.status # "none"
    BY <1>3
  <2> QED BY <1>1, <1>2, <1>3, <2>1, TakingARow
<1>5. /\ mailed' \in [Months -> Nat] /\ mailed'[m] = mailed[m] + 1
      /\ \A n \in Months : mailed'[n] >= mailed[n] /\ (n # m => mailed'[n] = mailed[n])
  BY <1>1, <1>2 DEF ReportTypes
<1>6. ReportTypes'
  BY <1>1, <1>2, <1>4, <1>5 DEF ReportTypes, IsTable
<1>7. SentWasMailed' /\ LastPeriodWasMailed'
  <2>1. mailed \in [Months -> Nat] /\ mailed'[m] > 0
    BY <1>2, <1>5 DEF ReportTypes
  <2>2. \A n \in Months : mailed[n] > 0 => mailed'[n] > 0
    BY <1>5, <2>1
  <2>3. SentWasMailed'
    <3>1. \A j \in Keys : deliveries'[j].status = "sent" => mailed'[MonthOf(j)] > 0
      BY <1>1, <2>2, KeysAreOfMonths DEF ReportInv, DeliveryInv, SentWasMailed
    <3>2. ASSUME NEW e \in Dispatchers, NEW j \in DOMAIN sending'[e], sending'[e][j].status = "sent"
          PROVE  mailed'[MonthOf(j)] > 0
      <4>1. CASE e = d
        BY <1>4, <2>1, <3>2, <4>1
      <4>2. CASE e # d
        <5>1. j \in Keys
          BY <1>4, <3>2 DEF IsTable
        <5> QED BY <1>4, <2>2, <3>2, <4>2, <5>1, KeysAreOfMonths
                DEF ReportInv, DeliveryInv, SentWasMailed
      <4> QED BY <4>1, <4>2
    <3>3. ASSUME NEW e \in Dispatchers, NEW j \in DOMAIN written[e], written[e][j].status = "sent"
          PROVE  mailed'[MonthOf(j)] > 0
      <4>1. j \in Keys
        BY <1>2, <3>3 DEF ReportTypes, IsTable
      <4> QED BY <2>2, <3>3, <4>1, KeysAreOfMonths DEF ReportInv, DeliveryInv, SentWasMailed
    <3> QED BY <1>1, <3>1, <3>2, <3>3 DEF SentWasMailed
  <2>4. LastPeriodWasMailed'
    BY <1>1, <1>2, <2>2 DEF ReportInv, DeliveryInv, ReportTypes, LastPeriodWasMailed, Months
  <2> QED BY <2>3, <2>4
<1>8. QuietInv'
  <2> SUFFICES ASSUME Quiet' PROVE Orderly'
    BY DEF QuietInv
  <2>1. Quiet
    BY <1>1 DEF Quiet
  <2>2. /\ OnePass /\ CopiesAreCurrent /\ OneRowPerMonth /\ FirstAttemptOpens
        /\ MailIsOnRecord /\ MailedOnce
    BY <2>1 DEF ReportInv, QuietInv, Orderly
  <2>3. /\ \A e \in Dispatchers \ {d} : Idle(e) /\ DOMAIN memory[e] = {}
                                         /\ DOMAIN sending[e] = {} /\ DOMAIN written[e] = {}
        /\ k \notin DOMAIN written[d] /\ DOMAIN sending[d] = {}
        /\ deliveries[k].status = "pending"
        /\ mailed[m] = 0
    BY <1>1, <2>1, QuietPassAtRow
  <2>4. OnePass'
    BY <1>1, <1>4, <2>3 DEF OnePass, Idle
  <2>5. CopiesAreCurrent'
    BY <1>1, <1>4, <2>2, <2>3 DEF CopiesAreCurrent
  <2>6. OneRowPerMonth' /\ FirstAttemptOpens'
    BY <1>1, <2>2 DEF OneRowPerMonth, FirstAttemptOpens
  <2>7. MailIsOnRecord'
    <3> SUFFICES ASSUME NEW n \in Months, mailed'[n] > 0
                 PROVE  \E j \in Keys : MonthOf(j) = n /\ IsSent(j)'
      BY DEF MailIsOnRecord
    <3>1. CASE n = m
      <4>1. IsSent(k)'
        BY <1>3, <1>4 DEF IsSent
      <4> QED BY <3>1, <4>1
    <3>2. CASE n # m
      <4>1. PICK j \in Keys : MonthOf(j) = n /\ IsSent(j)
        BY <1>5, <2>2, <3>2 DEF MailIsOnRecord
      <4>2. IsSent(j)'
        BY <1>1, <2>3, <4>1 DEF IsSent
      <4> QED BY <4>1, <4>2
    <3> QED BY <3>1, <3>2
  <2>8. MailedOnce'
    BY <1>5, <2>2, <2>3 DEF MailedOnce
  <2> QED BY <2>4, <2>5, <2>6, <2>7, <2>8 DEF Orderly
<1> QED BY <1>6, <1>7, <1>8 DEF ReportInv, DeliveryInv

(* A send that raises, whether or not the message was taken. *)
LEMMA RefusedKeepsTypes ==
  ASSUME ReportTypes, NEW d \in Dispatchers, NEW k \in Keys, Refused(d, k)
  PROVE  /\ DOMAIN sending'[d] = {k} /\ sending'[d][k].status \in {"pending", "failed"}
         /\ DOMAIN memory'[d] = DOMAIN memory[d] \ {k}
         /\ \A j \in DOMAIN memory'[d] : memory'[d][j] = memory[d][j]
         /\ \A e \in Dispatchers \ {d} : sending'[e] = sending[e] /\ memory'[e] = memory[e]
         /\ DOMAIN sending' = Dispatchers /\ DOMAIN memory' = Dispatchers
         /\ \A e \in Dispatchers : IsTable(sending'[e]) /\ IsTable(memory'[e])
         /\ \A e \in Dispatchers : \A j \in DOMAIN sending'[e] : sending'[e][j].status # "none"
         /\ \A e \in Dispatchers : \A i, j \in DOMAIN sending'[e] : i = j
         /\ sending[d] = Nothing /\ k \in DOMAIN memory[d]
         /\ UNCHANGED <<edition, lastPeriod, deliveries, written, overlapped>>
<1> DEFINE outcome == IF memory[d][k].attempts + 1 >= MaxAttempts THEN "failed" ELSE "pending"
           row == [memory[d][k] EXCEPT !.attempts = @ + 1, !.status = outcome]
<1>1. /\ sending' = [sending EXCEPT ![d] = With(Nothing, k, row)]
      /\ memory' = [memory EXCEPT ![d] = Without(@, k)]
      /\ sending[d] = Nothing /\ k \in DOMAIN memory[d]
      /\ UNCHANGED <<edition, lastPeriod, deliveries, written, overlapped>>
  BY DEF Refused, IsNext, scheduleVars
<1>2. outcome \in {"pending", "sent", "failed"} /\ outcome \in {"pending", "failed"}
  OBVIOUS
<1>3. memory[d][k] \in Delivery
  BY <1>1 DEF ReportTypes, IsTable
<1> HIDE DEF outcome
<1>4. row \in Delivery /\ row.status = outcome
  <2>1. \A s \in {"pending", "sent", "failed"} :
          LET tried == [memory[d][k] EXCEPT !.attempts = @ + 1, !.status = s]
          IN  tried \in Delivery /\ tried.status = s
    BY <1>3, TriedRow
  <2> QED BY <1>2, <2>1, Zenon
<1> HIDE DEF row
<1>5. row.status # "none"
  BY <1>2, <1>4
<1>6. /\ DOMAIN sending'[d] = {k} /\ sending'[d][k] = row
      /\ DOMAIN memory'[d] = DOMAIN memory[d] \ {k}
      /\ \A j \in DOMAIN memory'[d] : memory'[d][j] = memory[d][j]
      /\ \A e \in Dispatchers \ {d} : sending'[e] = sending[e] /\ memory'[e] = memory[e]
      /\ DOMAIN sending' = Dispatchers /\ DOMAIN memory' = Dispatchers
      /\ \A e \in Dispatchers : IsTable(sending'[e]) /\ IsTable(memory'[e])
      /\ \A e \in Dispatchers : \A j \in DOMAIN sending'[e] : sending'[e][j].status # "none"
      /\ \A e \in Dispatchers : \A i, j \in DOMAIN sending'[e] : i = j
  BY <1>1, <1>4, <1>5, TakingARow
<1> QED BY <1>1, <1>2, <1>4, <1>6

LEMMA SendFailsKeeps ==
  ASSUME ReportInv, NEW d \in Dispatchers, NEW k \in Keys, SendFails(d, k)
  PROVE  ReportInv'
<1>1. /\ DOMAIN sending'[d] = {k} /\ sending'[d][k].status \in {"pending", "failed"}
      /\ DOMAIN memory'[d] = DOMAIN memory[d] \ {k}
      /\ \A j \in DOMAIN memory'[d] : memory'[d][j] = memory[d][j]
      /\ \A e \in Dispatchers \ {d} : sending'[e] = sending[e] /\ memory'[e] = memory[e]
      /\ DOMAIN sending' = Dispatchers /\ DOMAIN memory' = Dispatchers
      /\ \A e \in Dispatchers : IsTable(sending'[e]) /\ IsTable(memory'[e])
      /\ \A e \in Dispatchers : \A j \in DOMAIN sending'[e] : sending'[e][j].status # "none"
      /\ \A e \in Dispatchers : \A i, j \in DOMAIN sending'[e] : i = j
      /\ sending[d] = Nothing /\ k \in DOMAIN memory[d]
      /\ UNCHANGED <<edition, lastPeriod, deliveries, written, overlapped, mailed, accidents>>
  BY RefusedKeepsTypes DEF SendFails, ReportInv, DeliveryInv
<1>2. ReportTypes'
  BY <1>1 DEF ReportInv, DeliveryInv, ReportTypes, IsTable
<1>3. SentWasMailed'
  <2>1. \A e \in Dispatchers : \A j \in DOMAIN sending'[e] :
          sending'[e][j].status = "sent" => e # d
    BY <1>1
  <2> QED BY <1>1, <2>1 DEF ReportInv, DeliveryInv, SentWasMailed
<1>4. LastPeriodWasMailed'
  BY <1>1 DEF ReportInv, DeliveryInv, LastPeriodWasMailed
<1>5. QuietInv'
  <2> SUFFICES ASSUME Quiet' PROVE Orderly'
    BY DEF QuietInv
  <2>1. Quiet
    BY <1>1 DEF Quiet
  <2>2. /\ OnePass /\ CopiesAreCurrent /\ OneRowPerMonth /\ FirstAttemptOpens
        /\ MailIsOnRecord /\ MailedOnce
    BY <2>1 DEF ReportInv, QuietInv, Orderly
  <2>3. /\ \A e \in Dispatchers \ {d} : Idle(e) /\ DOMAIN memory[e] = {}
                                         /\ DOMAIN sending[e] = {} /\ DOMAIN written[e] = {}
        /\ k \notin DOMAIN written[d] /\ DOMAIN sending[d] = {}
        /\ deliveries[k].status = "pending"
    BY <1>1, <2>1, QuietPassAtRow
  <2>4. OnePass'
    BY <1>1, <2>3 DEF OnePass, Idle
  <2>5. CopiesAreCurrent'
    BY <1>1, <2>2, <2>3 DEF CopiesAreCurrent
  <2>6. OneRowPerMonth' /\ FirstAttemptOpens' /\ MailedOnce'
    BY <1>1, <2>2 DEF OneRowPerMonth, FirstAttemptOpens, MailedOnce
  <2>7. MailIsOnRecord'
    <3>1. \A j \in Keys : IsSent(j) => IsSent(j)'
      BY <1>1, <2>3 DEF IsSent
    <3> QED BY <1>1, <2>2, <3>1 DEF MailIsOnRecord
  <2> QED BY <2>4, <2>5, <2>6, <2>7 DEF Orderly
<1> QED BY <1>2, <1>3, <1>4, <1>5 DEF ReportInv, DeliveryInv

LEMMA AnswerLostKeeps ==
  ASSUME ReportInv, NEW d \in Dispatchers, NEW k \in Keys, AnswerLost(d, k)
  PROVE  ReportInv'
<1>1. /\ DOMAIN sending'[d] = {k} /\ sending'[d][k].status \in {"pending", "failed"}
      /\ \A e \in Dispatchers \ {d} : sending'[e] = sending[e] /\ memory'[e] = memory[e]
      /\ DOMAIN sending' = Dispatchers /\ DOMAIN memory' = Dispatchers
      /\ \A e \in Dispatchers : IsTable(sending'[e]) /\ IsTable(memory'[e])
      /\ \A e \in Dispatchers : \A j \in DOMAIN sending'[e] : sending'[e][j].status # "none"
      /\ \A e \in Dispatchers : \A i, j \in DOMAIN sending'[e] : i = j
      /\ UNCHANGED <<edition, lastPeriod, deliveries, written, overlapped>>
      /\ accidents' = accidents + 1
      /\ mailed' = [mailed EXCEPT ![MonthOf(k)] = @ + 1]
  BY RefusedKeepsTypes DEF AnswerLost, ReportInv, DeliveryInv
<1>2. ReportTypes
  BY DEF ReportInv, DeliveryInv
<1>3. mailed' \in [Months -> Nat] /\ \A n \in Months : mailed[n] > 0 => mailed'[n] > 0
  BY <1>1, <1>2, KeysAreOfMonths DEF ReportTypes
<1>4. ReportTypes'
  BY <1>1, <1>2, <1>3 DEF ReportTypes, IsTable
<1>5. SentWasMailed'
  <2>1. \A e \in Dispatchers : \A j \in DOMAIN sending'[e] :
          /\ sending'[e][j].status = "sent" => e # d
          /\ j \in Keys
    BY <1>1 DEF IsTable
  <2>2. \A e \in Dispatchers : \A j \in DOMAIN written[e] : j \in Keys
    BY <1>2 DEF ReportTypes, IsTable
  <2> QED BY <1>1, <1>3, <2>1, <2>2, KeysAreOfMonths
          DEF ReportInv, DeliveryInv, SentWasMailed
<1>7. LastPeriodWasMailed'
  <2>1. lastPeriod # 0 => lastPeriod \in Months
    BY <1>2, DeliveryAssumption DEF ReportTypes, Months
  <2> QED BY <1>1, <1>3, <2>1 DEF ReportInv, DeliveryInv, LastPeriodWasMailed
<1>8. QuietInv'
  BY <1>1, <1>2 DEF QuietInv, Quiet, ReportTypes
<1> QED BY <1>4, <1>5, <1>7, <1>8 DEF ReportInv, DeliveryInv

LEMMA SaveKeeps ==
  ASSUME ReportInv, NEW d \in Dispatchers, NEW k \in Keys, Save(d, k)
  PROVE  ReportInv'
<1> DEFINE row == sending[d][k]
<1>1. /\ UNCHANGED <<edition, lastPeriod, deliveries, memory, mailed, overlapped, accidents>>
      /\ k \in DOMAIN sending[d]
      /\ written' = [written EXCEPT ![d] = With(@, k, row)]
      /\ sending' = [sending EXCEPT ![d] = Nothing]
  BY DEF Save, scheduleVars
<1>2. ReportTypes
  BY DEF ReportInv, DeliveryInv
<1>3. row \in Delivery /\ row.status # "none" /\ IsTable(written[d])
  BY <1>1, <1>2 DEF ReportTypes, IsTable
<1> HIDE DEF row
<1>4. /\ IsTable(With(written[d], k, row))
      /\ DOMAIN With(written[d], k, row) = DOMAIN written[d] \cup {k}
      /\ With(written[d], k, row)[k] = row
      /\ \A j \in DOMAIN written[d] : j # k => With(written[d], k, row)[j] = written[d][j]
  BY <1>1, <1>2, <1>3 DEF IsTable, With, ReportTypes
<1>5. /\ DOMAIN written' = Dispatchers /\ DOMAIN sending' = Dispatchers
      /\ written'[d] = With(written[d], k, row) /\ sending'[d] = Nothing
      /\ DOMAIN written'[d] = DOMAIN written[d] \cup {k} /\ written'[d][k] = row
      /\ \A j \in DOMAIN written[d] : j # k => written'[d][j] = written[d][j]
      /\ DOMAIN sending'[d] = {} /\ IsTable(sending'[d]) /\ IsTable(written'[d])
      /\ \A e \in Dispatchers \ {d} : written'[e] = written[e] /\ sending'[e] = sending[e]
  BY <1>1, <1>2, <1>4, NothingIsTable DEF ReportTypes
<1>6. ReportTypes'
  <2>1. \A e \in Dispatchers : IsTable(memory'[e]) /\ IsTable(sending'[e]) /\ IsTable(written'[e])
    BY <1>1, <1>2, <1>5 DEF ReportTypes
  <2>2. \A e \in Dispatchers :
          /\ \A j \in DOMAIN sending'[e] : sending'[e][j].status # "none"
          /\ \A i, j \in DOMAIN sending'[e] : i = j
          /\ \A j \in DOMAIN written'[e] : written'[e][j].status # "none"
    BY <1>2, <1>3, <1>5 DEF ReportTypes
  <2> QED BY <1>1, <1>2, <1>5, <2>1, <2>2 DEF ReportTypes, IsTable
<1>7. SentWasMailed'
  <2>1. row.status = "sent" => mailed[MonthOf(k)] > 0
    BY <1>1 DEF row, ReportInv, DeliveryInv, SentWasMailed
  <2> QED BY <1>1, <1>5, <2>1 DEF ReportInv, DeliveryInv, SentWasMailed
<1>8. LastPeriodWasMailed'
  BY <1>1 DEF ReportInv, DeliveryInv, LastPeriodWasMailed
<1>9. QuietInv'
  <2> SUFFICES ASSUME Quiet' PROVE Orderly'
    BY DEF QuietInv
  <2>1. /\ OnePass /\ CopiesAreCurrent /\ OneRowPerMonth /\ FirstAttemptOpens
        /\ MailIsOnRecord /\ MailedOnce
    BY <1>1 DEF Quiet, ReportInv, QuietInv, Orderly
  <2>2. ~Idle(d)
    BY <1>1, NothingIsTable DEF Idle
  <2>3. OnePass'
    BY <1>1, <1>5, <2>1, <2>2 DEF OnePass, Idle
  <2>4. CopiesAreCurrent'
    BY <1>1, <1>5, <2>1 DEF CopiesAreCurrent
  <2>5. OneRowPerMonth' /\ FirstAttemptOpens' /\ MailedOnce'
    BY <1>1, <2>1 DEF OneRowPerMonth, FirstAttemptOpens, MailedOnce
  <2>6. MailIsOnRecord'
    <3>1. k \notin DOMAIN written[d] /\ \A e \in Dispatchers \ {d} : DOMAIN sending[e] = {}
      BY <1>1, <2>1, <2>2, NothingIsTable DEF CopiesAreCurrent, OnePass, Idle
    <3>2. ASSUME NEW j \in Keys, IsSent(j) PROVE IsSent(j)'
      <4>1. CASE deliveries[j].status = "sent"
        BY <1>1, <4>1 DEF IsSent
      <4>2. CASE j \in DOMAIN sending[d] /\ sending[d][j].status = "sent"
        <5>1. sending[d][k] = row
          BY DEF row
        <5>2. CASE j = k
          BY <1>5, <4>2, <5>1, <5>2 DEF IsSent
        <5>3. CASE j # k
          BY <1>1, <1>2, <4>2, <5>3 DEF ReportTypes
        <5> QED BY <5>2, <5>3
      <4>3. CASE \E e \in Dispatchers : j \in DOMAIN written[e] /\ written[e][j].status = "sent"
        BY <1>5, <3>1, <4>3 DEF IsSent
      <4> QED BY <3>1, <3>2, <4>1, <4>2, <4>3 DEF IsSent
    <3> QED BY <1>1, <2>1, <3>2 DEF MailIsOnRecord
  <2> QED BY <2>3, <2>4, <2>5, <2>6 DEF Orderly
<1> QED BY <1>6, <1>7, <1>8, <1>9 DEF ReportInv, DeliveryInv

LEMMA EndPassKeeps ==
  ASSUME ReportInv, NEW d \in Dispatchers, EndPass(d)
  PROVE  ReportInv'
<1>1. /\ UNCHANGED <<edition, lastPeriod, memory, sending, mailed, overlapped, accidents>>
      /\ memory[d] = Nothing /\ sending[d] = Nothing /\ written[d] # Nothing
      /\ deliveries' = [k \in Keys |-> IF k \in DOMAIN written[d] THEN written[d][k]
                                                                  ELSE deliveries[k]]
      /\ written' = [written EXCEPT ![d] = Nothing]
  BY DEF EndPass, scheduleVars
<1>2. ReportTypes
  BY DEF ReportInv, DeliveryInv
<1>3. /\ IsTable(written[d])
      /\ \A k \in DOMAIN written[d] : k \in Keys /\ written[d][k] \in Delivery
                                      /\ written[d][k].status # "none"
  BY <1>2 DEF ReportTypes, IsTable
<1>4. /\ deliveries' \in [Keys -> Delivery]
      /\ \A k \in DOMAIN written[d] : deliveries'[k] = written[d][k]
      /\ \A k \in Keys : k \notin DOMAIN written[d] => deliveries'[k] = deliveries[k]
  BY <1>1, <1>2, <1>3 DEF ReportTypes
<1>5. /\ DOMAIN written' = Dispatchers /\ written'[d] = Nothing /\ DOMAIN written'[d] = {}
      /\ \A e \in Dispatchers \ {d} : written'[e] = written[e]
  BY <1>1, <1>2, NothingIsTable DEF ReportTypes
<1>6. ReportTypes'
  <2>1. \A e \in Dispatchers : /\ IsTable(written'[e])
                               /\ \A j \in DOMAIN written'[e] : written'[e][j].status # "none"
    BY <1>2, <1>5, NothingIsTable DEF ReportTypes
  <2> QED BY <1>1, <1>2, <1>4, <1>5, <2>1 DEF ReportTypes, IsTable
<1>7. SentWasMailed'
  BY <1>1, <1>4, <1>5 DEF ReportInv, DeliveryInv, SentWasMailed
<1>8. LastPeriodWasMailed'
  BY <1>1 DEF ReportInv, DeliveryInv, LastPeriodWasMailed
<1>9. QuietInv'
  <2> SUFFICES ASSUME Quiet' PROVE Orderly'
    BY DEF QuietInv
  <2>1. /\ OnePass /\ CopiesAreCurrent /\ OneRowPerMonth /\ FirstAttemptOpens
        /\ MailIsOnRecord /\ MailedOnce
    BY <1>1 DEF Quiet, ReportInv, QuietInv, Orderly
  <2>2. \A e \in Dispatchers : /\ DOMAIN memory[e] = {} /\ DOMAIN sending[e] = {}
                               /\ e # d => Idle(e) /\ DOMAIN written[e] = {}
    BY <1>1, <2>1, NothingIsTable DEF OnePass, Idle
  <2>3. OnePass' /\ MailedOnce'
    BY <1>1, <1>5, <2>1, <2>2 DEF OnePass, Idle, MailedOnce
  <2>4. CopiesAreCurrent'
    BY <1>1, <1>5, <2>2 DEF CopiesAreCurrent
  <2>5. OneRowPerMonth'
    <3>1. \A k \in Keys : deliveries'[k].status \in {"pending", "sent"} =>
            deliveries[k].status \in {"pending", "sent"}
      BY <1>4, <2>1 DEF CopiesAreCurrent
    <3> QED BY <2>1, <3>1 DEF OneRowPerMonth
  <2>6. MailIsOnRecord'
    <3>1. ASSUME NEW k \in Keys, IsSent(k) PROVE deliveries'[k].status = "sent"
      <4>1. CASE deliveries[k].status = "sent"
        BY <1>4, <2>1, <4>1 DEF CopiesAreCurrent
      <4>2. CASE deliveries[k].status # "sent"
        BY <1>4, <2>2, <3>1, <4>2 DEF IsSent
      <4> QED BY <4>1, <4>2
    <3> QED BY <1>1, <2>1, <3>1 DEF MailIsOnRecord, IsSent
  <2>7. FirstAttemptOpens'
    <3>1. \A k \in DOMAIN written[d] : deliveries[k] # NoDelivery
      BY <2>1 DEF CopiesAreCurrent, NoDelivery
    <3>2. \A k \in DOMAIN written[d] : written[d][k] # NoDelivery
      BY <1>3 DEF NoDelivery
    <3>3. \A k \in Keys : deliveries'[k] # NoDelivery <=> deliveries[k] # NoDelivery
      BY <1>4, <3>1, <3>2
    <3> QED BY <2>1, <3>3, KeysAreOfMonths DEF FirstAttemptOpens
  <2> QED BY <2>3, <2>4, <2>5, <2>6, <2>7 DEF Orderly
<1> QED BY <1>6, <1>7, <1>8, <1>9 DEF ReportInv, DeliveryInv

LEMMA PassDiesKeeps ==
  ASSUME ReportInv, NEW d \in Dispatchers, PassDies(d)
  PROVE  ReportInv'
<1>1. /\ UNCHANGED <<edition, lastPeriod, deliveries, mailed, overlapped>>
      /\ accidents' = accidents + 1
      /\ memory' = [memory EXCEPT ![d] = Nothing]
      /\ sending' = [sending EXCEPT ![d] = Nothing]
      /\ written' = [written EXCEPT ![d] = Nothing]
  BY DEF PassDies, scheduleVars
<1>2. ReportTypes
  BY DEF ReportInv, DeliveryInv
<1>3. /\ DOMAIN memory' = Dispatchers /\ DOMAIN sending' = Dispatchers
      /\ DOMAIN written' = Dispatchers
      /\ memory'[d] = Nothing /\ sending'[d] = Nothing /\ written'[d] = Nothing
      /\ \A e \in Dispatchers \ {d} :
           memory'[e] = memory[e] /\ sending'[e] = sending[e] /\ written'[e] = written[e]
  BY <1>1, <1>2 DEF ReportTypes
<1>4. ReportTypes'
  <2>1. \A e \in Dispatchers :
          /\ IsTable(memory'[e]) /\ IsTable(sending'[e]) /\ IsTable(written'[e])
          /\ \A j \in DOMAIN sending'[e] : sending'[e][j].status # "none"
          /\ \A i, j \in DOMAIN sending'[e] : i = j
          /\ \A j \in DOMAIN written'[e] : written'[e][j].status # "none"
    BY <1>2, <1>3, NothingIsTable DEF ReportTypes
  <2> QED BY <1>1, <1>2, <1>3, <2>1 DEF ReportTypes, IsTable
<1>5. SentWasMailed' /\ LastPeriodWasMailed'
  BY <1>1, <1>3, NothingIsTable
     DEF ReportInv, DeliveryInv, SentWasMailed, LastPeriodWasMailed
<1>6. QuietInv'
  BY <1>1, <1>2 DEF QuietInv, Quiet, ReportTypes
<1> QED BY <1>4, <1>5, <1>6 DEF ReportInv, DeliveryInv

LEMMA NextReports ==
  ASSUME ReportInv, [DeliveryNext]_deliveryVars
  PROVE  ReportInv'
<1>1. edition \in [Months -> Editions]
  BY DEF ReportInv, DeliveryInv, ReportTypes
<1>2. CASE RunDue
  BY <1>2, RunDueKeeps
<1>3. CASE MonthCloses \/ RegisterRecipient \/ DeactivateRecipient \/ DeactivateSchedule
  BY <1>1, <1>3, OtherStepsKeep
     DEF MonthCloses, RegisterRecipient, DeactivateRecipient, DeactivateSchedule, passVars
<1>4. ASSUME NEW m \in Months, CaseChanges(m) PROVE ReportInv'
  <2>1. edition' \in [Months -> Editions]
    BY <1>1, <1>4, DeliveryAssumption DEF CaseChanges, Editions
  <2> QED BY <1>4, <2>1, OtherStepsKeep DEF CaseChanges, passVars
<1>5. ASSUME NEW m \in Months, RequestDelivery(m) PROVE ReportInv'
  BY <1>5, RequestDeliveryKeeps
<1>6. ASSUME NEW d \in Dispatchers, PassStep(d) PROVE ReportInv'
  BY <1>6, BeginPassKeeps, DeliverKeeps, SendFailsKeeps, SaveKeeps, EndPassKeeps DEF PassStep
<1>7. ASSUME NEW d \in Dispatchers, PassDies(d) PROVE ReportInv'
  BY <1>7, PassDiesKeeps
<1>8. ASSUME NEW d \in Dispatchers, NEW k \in Keys, AnswerLost(d, k) PROVE ReportInv'
  BY <1>8, AnswerLostKeeps
<1>9. CASE UNCHANGED deliveryVars
  BY <1>1, <1>9, OtherStepsKeep DEF deliveryVars, scheduleVars, passVars
<1> QED BY <1>2, <1>3, <1>4, <1>5, <1>6, <1>7, <1>8, <1>9 DEF DeliveryNext

(* Every behaviour of the schedule and its dispatchers keeps the invariant.  *)
THEOREM ReportsKeepTheirInvariant == DeliverySpec => []ReportInv
<1> QED BY InitReports, NextReports, PTL DEF DeliverySpec

(* A month the schedule names as delivered has been mailed, whatever passes  *)
(* overlapped or died: reports/schedules.py advances on "sent" alone.        *)
THEOREM LastPeriodAlwaysMailed == DeliverySpec => []LastPeriodWasMailed
<1>1. ReportInv => LastPeriodWasMailed
  BY DEF ReportInv, DeliveryInv
<1> QED BY <1>1, ReportsKeepTheirInvariant, PTL

(* No retry, fresh promise or request of a person mails a month twice: only  *)
(* two passes in flight together, a pass that died or a lost answer do.      *)
THEOREM RepeatsAlwaysNeedAnAccident == DeliverySpec => []RepeatsNeedAnAccident
<1>1. ReportInv => RepeatsNeedAnAccident
  <2> SUFFICES ASSUME ReportInv, NEW m \in Months, mailed[m] > 1, ~overlapped
               PROVE  accidents > 0
    BY DEF RepeatsNeedAnAccident
  <2>1. accidents \in Nat /\ mailed[m] \in Nat
    BY DEF ReportInv, DeliveryInv, ReportTypes
  <2>2. accidents # 0
    BY <2>1 DEF ReportInv, QuietInv, Quiet, Orderly, MailedOnce
  <2> QED BY <2>1, <2>2
<1> QED BY <1>1, ReportsKeepTheirInvariant, PTL

-----------------------------------------------------------------------------
(* WebhookDelivery.  Any number of enqueuers: of two at once, one can commit *)
(* a lower number after a higher one, and is noted as overtaken.             *)

(* A row that is there, with an attempt left if it is pending.               *)
IsLive(row) ==
  row \in DeliveryRows /\ row # Absent /\ (row.status = "pending" => row.attempts < MaxPostAttempts)

(* Every variable keeps its type; a pass comes to pending rows, and saves    *)
(* rows it has posted.                                                      *)
PassTypes ==
  /\ queue \in [DeliveryKeys -> DeliveryRows]
  /\ \A k \in Queued : IsLive(queue[k])
  /\ DOMAIN numbered = Enqueuers
  /\ todo \subseteq Queued /\ \A k \in todo : queue[k].status = "pending"
  /\ posted \subseteq Queued
  /\ DOMAIN saved \subseteq posted /\ \A k \in DOMAIN saved : IsLive(saved[k])

(* A number that was read is above every number of its dispute, until the    *)
(* one who read it is overtaken.                                             *)
NumbersAreNew ==
  \A e \in Enqueuers \ overtaken : numbered[e] # NoEvent =>
    \A k \in Queued : k.dispute = numbered[e].dispute => k.sequence < numbered[e].sequence

(* What no endpoint was called with is as it was queued.                     *)
UntriedIsFresh == \A k \in Queued \ posted : queue[k] = Fresh

(* In a pass, what stands before a delivery still to come will come before   *)
(* it, has been posted, or holds it up: its case is stalled.  All but what   *)
(* was queued late, by an enqueuer that was overtaken.                       *)
EarlierComesFirst ==
  \A k \in todo, j \in Queued \ raced :
    Earlier(j, k) => j \in todo \/ j \in posted \/ k.dispute \in stalled

WebhookInv ==
  PassTypes /\ NumbersAreNew /\ UntriedIsFresh /\ EarlierComesFirst /\ FirstAttemptsInOrder

LEMMA InitWebhooks == WebhookInit => WebhookInv
BY WebhookAssumption
   DEF WebhookInit, WebhookInv, PassTypes, NumbersAreNew, UntriedIsFresh, EarlierComesFirst,
       FirstAttemptsInOrder, Queued, Absent, DeliveryRows

LEMMA FreshIsLive == IsLive(Fresh) /\ Absent \in DeliveryRows
BY WebhookAssumption DEF IsLive, Fresh, Absent, DeliveryRows

(* What a failure leaves of a pending row: one attempt more, and parked when *)
(* none is left.                                                            *)
LEMMA TriedIsLive ==
  ASSUME NEW n \in Nat, n < MaxPostAttempts
  PROVE  /\ IsLive(AfterFailure(n + 1))
         /\ IsLive([status |-> "delivered", attempts |-> n + 1, ready |-> TRUE])
BY WebhookAssumption DEF IsLive, AfterFailure, Absent, DeliveryRows

LEMMA HighestIsHighest ==
  ASSUME NEW x, NEW k \in Queued, k.dispute = x
  PROVE  /\ HighestSequence(x) \in Nat
         /\ k.sequence <= HighestSequence(x)
<1> DEFINE taken == { q.sequence : q \in { p \in Queued : p.dispute = x } }
<1>1. taken \in SUBSET (0 .. LastSequence) /\ k.sequence \in taken /\ LastSequence \in Nat
  BY WebhookAssumption DEF Queued, DeliveryKeys, Sequences1
<1> HIDE DEF taken
<1>2. PICK m \in taken : \A n \in taken : n <= m
  BY <1>1, HighestExists
<1>3. HighestSequence(x) = CHOOSE n \in taken : \A i \in taken : i <= n
  BY <1>1 DEF HighestSequence, taken
<1>4. HighestSequence(x) \in taken /\ \A n \in taken : n <= HighestSequence(x)
  BY <1>2, <1>3
<1>5. \A n \in taken : n \in Nat
  BY <1>1
<1> QED BY <1>1, <1>4, <1>5

LEMMA ReadSequenceKeeps ==
  ASSUME WebhookInv, NEW e \in Enqueuers, NEW x \in Disputes, NEW t \in EventTypes,
         ReadSequence(e, x, t)
  PROVE  WebhookInv'
<1> DEFINE event == [dispute |-> x, type |-> t, sequence |-> HighestSequence(x) + 1]
<1>1. /\ UNCHANGED <<queue, todo, saved, stalled, posted, overtaken, raced>>
      /\ numbered' = [numbered EXCEPT ![e] = event]
  BY DEF ReadSequence, passLocals, history
<1>2. Queued' = Queued
  BY <1>1 DEF Queued
<1>3. PassTypes' /\ UntriedIsFresh' /\ EarlierComesFirst' /\ FirstAttemptsInOrder'
  BY <1>1, <1>2
     DEF WebhookInv, PassTypes, UntriedIsFresh, EarlierComesFirst, FirstAttemptsInOrder, IsLive
<1>4. NumbersAreNew'
  <2> SUFFICES ASSUME NEW f \in Enqueuers \ overtaken, numbered'[f] # NoEvent,
                      NEW k \in Queued, k.dispute = numbered'[f].dispute
               PROVE  k.sequence < numbered'[f].sequence
    BY <1>1, <1>2 DEF NumbersAreNew
  <2>4. numbered'[f] = IF f = e THEN event ELSE numbered[f]
    BY <1>1 DEF WebhookInv, PassTypes
  <2>5. CASE f # e
    BY <2>4, <2>5 DEF WebhookInv, NumbersAreNew
  <2> SUFFICES ASSUME f = e PROVE k.sequence < numbered'[f].sequence
    BY <2>5
  <2>1. numbered'[f] = event
    BY <2>4
  <2>2. k.dispute = x /\ k.sequence \in Nat
    BY <2>1, WebhookAssumption DEF Queued, DeliveryKeys, Sequences1
  <2>3. HighestSequence(x) \in Nat /\ k.sequence <= HighestSequence(x)
    BY <2>2, HighestIsHighest
  <2> QED BY <2>1, <2>2, <2>3
<1> QED BY <1>3, <1>4 DEF WebhookInv

LEMMA CreateRowsKeeps ==
  ASSUME WebhookInv, NEW e \in Enqueuers, CreateRows(e)
  PROVE  WebhookInv'
<1> DEFINE event == numbered[e]
           New == { k \in DeliveryKeys : /\ k.dispute = event.dispute
                                         /\ k.sequence = event.sequence
                                         /\ k.type = event.type /\ event.type \in Wants(k.endpoint)
                                         /\ queue[k] = Absent }
<1>1. /\ UNCHANGED <<todo, saved, stalled, posted>>
      /\ event # NoEvent
      /\ queue' = [k \in DeliveryKeys |-> IF k \in New THEN Fresh ELSE queue[k]]
      /\ numbered' = [numbered EXCEPT ![e] = NoEvent]
      /\ overtaken' = { f \in Enqueuers \ {e} :
                         f \in overtaken \/ (New # {} /\ numbered[f].dispute = event.dispute) }
      /\ raced' = IF e \in overtaken THEN raced \cup New ELSE raced
  BY DEF CreateRows, passLocals
<1>2. /\ New \subseteq DeliveryKeys /\ New \cap Queued = {}
      /\ \A k \in New : k.dispute = event.dispute /\ k.sequence = event.sequence
  BY DEF Queued
<1>3. \A k \in Queued, j \in New \ raced' : ~Earlier(j, k)
  <2> SUFFICES ASSUME NEW k \in Queued, NEW j \in New \ raced', Earlier(j, k) PROVE FALSE OBVIOUS
  <2>4. e \notin overtaken
    BY <1>1
  <2>1. k.dispute = event.dispute /\ event.sequence < k.sequence
    BY <1>2 DEF Earlier
  <2>2. k.sequence < event.sequence
    BY <1>1, <2>1, <2>4 DEF WebhookInv, NumbersAreNew
  <2>3. k.sequence \in Int /\ event.sequence \in Int
    BY <1>2, WebhookAssumption DEF Queued, DeliveryKeys, Sequences1
  <2> QED BY <2>1, <2>2, <2>3
<1> HIDE DEF New
<1>4. /\ \A k \in New : queue'[k] = Fresh
      /\ \A k \in DeliveryKeys \ New : queue'[k] = queue[k]
      /\ Queued' = Queued \cup New
  BY <1>1, <1>2, FreshIsLive DEF Queued, IsLive
<1>5. Queued \subseteq DeliveryKeys
  BY DEF Queued
<1>6. PassTypes'
  <2>1. queue' \in [DeliveryKeys -> DeliveryRows] /\ \A k \in Queued' : IsLive(queue'[k])
    BY <1>1, <1>2, <1>4, <1>5, FreshIsLive DEF WebhookInv, PassTypes, IsLive
  <2> QED BY <1>1, <1>2, <1>4, <1>5, <2>1 DEF WebhookInv, PassTypes, IsLive
<1>7. NumbersAreNew'
  <2> SUFFICES ASSUME NEW f \in Enqueuers, f \notin overtaken', numbered'[f] # NoEvent,
                      NEW k \in Queued', k.dispute = numbered'[f].dispute
               PROVE  k.sequence < numbered'[f].sequence
    BY DEF NumbersAreNew
  <2>1. f # e /\ numbered'[f] = numbered[f]
    BY <1>1 DEF WebhookInv, PassTypes
  <2>2. f \notin overtaken /\ (New = {} \/ numbered[f].dispute # event.dispute)
    BY <1>1, <2>1
  <2>3. k \in Queued
    BY <1>2, <1>4, <2>1, <2>2
  <2> QED BY <2>1, <2>2, <2>3 DEF WebhookInv, NumbersAreNew
<1>8. UntriedIsFresh'
  BY <1>1, <1>2, <1>4, <1>5 DEF WebhookInv, UntriedIsFresh
<1>9. EarlierComesFirst' /\ FirstAttemptsInOrder'
  <2>1. raced \subseteq raced' /\ Queued' \ raced' \subseteq (Queued \ raced) \cup (New \ raced')
    BY <1>1, <1>4
  <2>2. todo' \subseteq Queued /\ posted' \subseteq Queued
    BY <1>1 DEF WebhookInv, PassTypes
  <2> QED BY <1>1, <1>3, <2>1, <2>2 DEF WebhookInv, EarlierComesFirst, FirstAttemptsInOrder
<1> QED BY <1>6, <1>7, <1>8, <1>9 DEF WebhookInv

(* What the steps of a pass have in common that leave the queue alone. *)
LEMMA PassStepsKeep ==
  ASSUME WebhookInv, UNCHANGED <<queue, numbered, overtaken>>,
         posted \subseteq posted', posted' \subseteq Queued,
         todo' \subseteq Queued, \A k \in todo' : queue[k].status = "pending",
         DOMAIN saved' \subseteq posted', \A k \in DOMAIN saved' : IsLive(saved'[k])
  PROVE  Queued' = Queued /\ PassTypes' /\ NumbersAreNew' /\ UntriedIsFresh'
<1>1. Queued' = Queued
  BY DEF Queued
<1> QED BY <1>1 DEF WebhookInv, PassTypes, NumbersAreNew, UntriedIsFresh, IsLive

LEMMA BeginDispatchKeeps ==
  ASSUME WebhookInv, BeginDispatch
  PROVE  WebhookInv'
<1>1. /\ UNCHANGED <<queue, numbered, posted, overtaken, raced>> /\ todo' = DueNow /\ DOMAIN saved' = {}
  BY DEF BeginDispatch, history
<1>2. DueNow \subseteq Queued /\ \A k \in DueNow : queue[k].status = "pending"
  BY DEF DueNow
<1>3. Queued' = Queued /\ PassTypes' /\ NumbersAreNew' /\ UntriedIsFresh'
  BY <1>1, <1>2, PassStepsKeep DEF WebhookInv, PassTypes
<1>4. \A j \in Queued : j \in posted \/ j \in DueNow
  BY DEF WebhookInv, UntriedIsFresh, DueNow, Fresh
<1>5. EarlierComesFirst' /\ FirstAttemptsInOrder'
  BY <1>1, <1>3, <1>4 DEF WebhookInv, EarlierComesFirst, FirstAttemptsInOrder
<1> QED BY <1>3, <1>5 DEF WebhookInv

LEMMA BlockedKeeps ==
  ASSUME WebhookInv, NEW k \in DeliveryKeys, Blocked(k)
  PROVE  WebhookInv'
<1>1. /\ UNCHANGED <<queue, numbered, saved, stalled, posted, overtaken, raced>>
      /\ k \in todo /\ todo' = todo \ {k} /\ k.dispute \in stalled
  BY DEF Blocked, ComesNext, history
<1>2. Queued' = Queued /\ PassTypes' /\ NumbersAreNew' /\ UntriedIsFresh'
  BY <1>1, PassStepsKeep DEF WebhookInv, PassTypes
<1>3. EarlierComesFirst' /\ FirstAttemptsInOrder'
  BY <1>1, <1>2 DEF WebhookInv, EarlierComesFirst, FirstAttemptsInOrder, Earlier
<1> QED BY <1>2, <1>3 DEF WebhookInv

(* A call to an endpoint, whatever comes of it. *)
LEMMA PostKeeps ==
  ASSUME WebhookInv, NEW k \in DeliveryKeys, ComesNext(k), k.dispute \notin stalled,
         NEW row, IsLive(row), saved' = Saving(k, row),
         stalled \subseteq stalled', todo' = todo \ {k}, posted' = posted \cup {k},
         UNCHANGED <<queue, numbered, overtaken, raced>>
  PROVE  WebhookInv'
<1>1. k \in todo /\ k \in Queued /\ \A j \in todo : j.dispute = k.dispute => k.sequence <= j.sequence
  BY DEF ComesNext, WebhookInv, PassTypes
<1>2. /\ DOMAIN saved' \subseteq posted'
      /\ \A j \in DOMAIN saved' : IsLive(saved'[j])
  BY DEF Saving, WebhookInv, PassTypes
<1>3. Queued' = Queued /\ PassTypes' /\ NumbersAreNew' /\ UntriedIsFresh'
  BY <1>1, <1>2, PassStepsKeep DEF WebhookInv, PassTypes
<1>4. EarlierComesFirst'
  BY <1>3 DEF WebhookInv, EarlierComesFirst
<1>5. \A j \in Queued \ raced : Earlier(j, k) => j \in posted
  <2> SUFFICES ASSUME NEW j \in Queued \ raced, Earlier(j, k), j \in todo PROVE FALSE
    BY <1>1 DEF WebhookInv, EarlierComesFirst
  <2>1. j.sequence \in Int /\ k.sequence \in Int
    BY WebhookAssumption DEF Queued, DeliveryKeys, Sequences1
  <2> QED BY <1>1, <2>1 DEF Earlier
<1>6. FirstAttemptsInOrder'
  BY <1>3, <1>5 DEF WebhookInv, FirstAttemptsInOrder
<1> QED BY <1>3, <1>4, <1>6 DEF WebhookInv

LEMMA PostsKeep ==
  ASSUME WebhookInv, NEW k \in DeliveryKeys, PostSucceeds(k) \/ PostFails(k)
  PROVE  WebhookInv'
<1>1. ComesNext(k) /\ k.dispute \notin stalled
  BY DEF PostSucceeds, PostFails
<1>2. queue[k].attempts \in Nat /\ queue[k].attempts < MaxPostAttempts
  BY <1>1, WebhookAssumption DEF ComesNext, WebhookInv, PassTypes, IsLive, DeliveryRows
<1>3. /\ IsLive(AfterFailure(queue[k].attempts + 1))
      /\ IsLive([status |-> "delivered", attempts |-> queue[k].attempts + 1, ready |-> TRUE])
  BY <1>2, TriedIsLive
<1>4. CASE PostSucceeds(k)
  BY <1>1, <1>3, <1>4, PostKeeps DEF PostSucceeds, history
<1>5. CASE PostFails(k)
  BY <1>1, <1>3, <1>5, PostKeeps DEF PostFails, history
<1> QED BY <1>4, <1>5

LEMMA EndDispatchKeeps ==
  ASSUME WebhookInv, EndDispatch
  PROVE  WebhookInv'
<1>1. /\ UNCHANGED <<numbered, todo, posted, overtaken, raced>> /\ todo = {} /\ DOMAIN saved' = {}
      /\ queue' = [k \in DeliveryKeys |-> IF k \in DOMAIN saved THEN saved[k] ELSE queue[k]]
  BY DEF EndDispatch, history
<1>2. /\ DOMAIN saved \subseteq posted /\ posted \subseteq Queued /\ Queued \subseteq DeliveryKeys
      /\ \A k \in DOMAIN saved : IsLive(saved[k])
  BY DEF WebhookInv, PassTypes, Queued
<1>3. /\ \A k \in DOMAIN saved : queue'[k] = saved[k]
      /\ \A k \in DeliveryKeys : k \notin DOMAIN saved => queue'[k] = queue[k]
  BY <1>1, <1>2
<1>4. Queued' = Queued
  BY <1>2, <1>3 DEF Queued, IsLive
<1>5. PassTypes'
  <2>1. queue' \in [DeliveryKeys -> DeliveryRows] /\ \A k \in Queued : IsLive(queue'[k])
    BY <1>1, <1>2, <1>3 DEF WebhookInv, PassTypes, IsLive
  <2> QED BY <1>1, <1>4, <2>1 DEF WebhookInv, PassTypes, IsLive
<1>6. NumbersAreNew' /\ EarlierComesFirst' /\ FirstAttemptsInOrder'
  BY <1>1, <1>4 DEF WebhookInv, NumbersAreNew, EarlierComesFirst, FirstAttemptsInOrder
<1>7. UntriedIsFresh'
  BY <1>1, <1>2, <1>3, <1>4 DEF WebhookInv, UntriedIsFresh
<1> QED BY <1>5, <1>6, <1>7 DEF WebhookInv

LEMMA DispatchDiesKeeps ==
  ASSUME WebhookInv, DispatchDies
  PROVE  WebhookInv'
<1>1. /\ UNCHANGED <<queue, numbered, posted, overtaken, raced>> /\ todo' = {} /\ DOMAIN saved' = {}
  BY DEF DispatchDies, history
<1>2. Queued' = Queued /\ PassTypes' /\ NumbersAreNew' /\ UntriedIsFresh'
  BY <1>1, PassStepsKeep DEF WebhookInv, PassTypes
<1>3. EarlierComesFirst' /\ FirstAttemptsInOrder'
  BY <1>1, <1>2 DEF WebhookInv, EarlierComesFirst, FirstAttemptsInOrder
<1> QED BY <1>2, <1>3 DEF WebhookInv

(* A backoff that elapses, a replay: one posted row changes, and stays. *)
LEMMA RowChangesKeep ==
  ASSUME WebhookInv, NEW k \in Queued, NEW row, IsLive(row), queue' = [queue EXCEPT ![k] = row],
         queue[k] # Fresh, k \in todo => row.status = "pending",
         UNCHANGED <<numbered, todo, saved, stalled, posted, overtaken, raced>>
  PROVE  WebhookInv'
<1>1. /\ queue \in [DeliveryKeys -> DeliveryRows] /\ k \in DeliveryKeys
      /\ queue'[k] = row /\ \A j \in DeliveryKeys : j # k => queue'[j] = queue[j]
  BY DEF WebhookInv, PassTypes, Queued
<1>2. Queued' = Queued
  BY <1>1 DEF Queued, IsLive
<1>3. k \in posted
  BY DEF WebhookInv, UntriedIsFresh
<1>4. PassTypes'
  BY <1>1, <1>2 DEF WebhookInv, PassTypes, IsLive, Queued
<1>5. NumbersAreNew' /\ EarlierComesFirst' /\ FirstAttemptsInOrder'
  BY <1>2 DEF WebhookInv, NumbersAreNew, EarlierComesFirst, FirstAttemptsInOrder
<1>6. UntriedIsFresh'
  BY <1>1, <1>2, <1>3 DEF WebhookInv, UntriedIsFresh, Queued
<1> QED BY <1>4, <1>5, <1>6 DEF WebhookInv

LEMMA NextWebhooks ==
  ASSUME WebhookInv, [WebhookNext]_webhookVars
  PROVE  WebhookInv'
<1>1. ASSUME NEW e \in Enqueuers, CreateRows(e) PROVE WebhookInv'
  BY <1>1, CreateRowsKeeps
<1>2. ASSUME NEW e \in Enqueuers, NEW x \in Disputes, NEW t \in EventTypes, ReadSequence(e, x, t)
      PROVE  WebhookInv'
  BY <1>2, ReadSequenceKeeps
<1>3. CASE DispatchStep
  BY <1>3, BeginDispatchKeeps, BlockedKeeps, PostsKeep, EndDispatchKeeps DEF DispatchStep
<1>4. CASE DispatchDies
  BY <1>4, DispatchDiesKeeps
<1>5. ASSUME NEW k \in DeliveryKeys, BackoffElapses(k) PROVE WebhookInv'
  <2> DEFINE row == [queue[k] EXCEPT !.ready = TRUE]
  <2>1. /\ UNCHANGED <<numbered, todo, saved, stalled, posted, overtaken, raced>>
        /\ queue[k].status = "pending" /\ ~queue[k].ready
        /\ queue' = [queue EXCEPT ![k].ready = TRUE]
    BY <1>5 DEF BackoffElapses, passLocals, history
  <2>2. k \in Queued /\ queue[k] # Fresh
    BY <2>1 DEF Queued, Absent, Fresh
  <2>3. IsLive(row) /\ row.status = "pending"
    BY <2>1, <2>2 DEF WebhookInv, PassTypes, IsLive, DeliveryRows, Absent
  <2>4. queue' = [queue EXCEPT ![k] = row]
    BY <2>1
  <2> HIDE DEF row
  <2> QED BY <2>1, <2>2, <2>3, <2>4, RowChangesKeep
<1>6. ASSUME NEW k \in DeliveryKeys, Replay(k) PROVE WebhookInv'
  <2>1. /\ UNCHANGED <<numbered, todo, saved, stalled, posted, overtaken, raced>>
        /\ queue[k].status = "parked" /\ queue' = [queue EXCEPT ![k] = Fresh]
    BY <1>6 DEF Replay, passLocals, history
  <2>2. k \in Queued /\ queue[k] # Fresh /\ Fresh.status = "pending"
    BY <2>1 DEF Queued, Absent, Fresh
  <2> QED BY <2>1, <2>2, FreshIsLive, RowChangesKeep
<1>7. CASE UNCHANGED webhookVars
  <2>1. UNCHANGED <<queue, numbered, todo, saved, stalled, posted, overtaken, raced>>
    BY <1>7 DEF webhookVars, passLocals, history
  <2> QED BY <2>1 DEF WebhookInv, PassTypes, NumbersAreNew, UntriedIsFresh, EarlierComesFirst,
                      FirstAttemptsInOrder, Queued, IsLive
<1> QED BY <1>1, <1>2, <1>3, <1>4, <1>5, <1>6, <1>7 DEF WebhookNext, SomeBackoffElapses

(* No endpoint is called with an event of a case before it was called with   *)
(* the earlier ones, however many enqueue, passes die, deliveries fail and   *)
(* are replayed, but for one whose number was read before another event of   *)
(* the case was queued.                                                      *)
THEOREM FirstAttemptsAlwaysInOrder == WebhookSpec => []FirstAttemptsInOrder
<1>1. WebhookInv => FirstAttemptsInOrder
  BY DEF WebhookInv
<1>2. WebhookInv /\ [WebhookNext]_webhookVars => WebhookInv'
  BY NextWebhooks
<1> QED BY <1>1, <1>2, InitWebhooks, PTL DEF WebhookSpec

=============================================================================
