------------------------------- MODULE Exposure -------------------------------
(***************************************************************************)
(* The finance view, disputeshield/finance/exposure.py: sums over the      *)
(* Casebook and over the payments the institution's ledger confirms        *)
(* (models/connectors.py).  Money is integer minor units; it is never moved.*)
(***************************************************************************)
EXTENDS Casebook, Sequences, Functions

CONSTANTS
  AGE_BANDS,      (* <<from, to>> in days; a band without an end has to = 0  *)
  Lookback,       (* lookback_days of the uphold rate                        *)
  References,     (* references a ledger can give a payment                  *)
  Payments        (* amount_minor of one                                     *)

(* AGE_BANDS is a constant of the code: its bands begin at 0, each begins     *)
(* where the one before ends, and the last has no end.                       *)
ASSUME ExposureAssumption ==
  /\ Payments \subseteq Int /\ Lookback \in Nat
  /\ AGE_BANDS \in Seq(Nat \X Nat) /\ AGE_BANDS # <<>>
  /\ AGE_BANDS[1][1] = 0 /\ AGE_BANDS[Len(AGE_BANDS)][2] = 0
  /\ \A i \in 1 .. Len(AGE_BANDS) - 1 :
       AGE_BANDS[i][1] < AGE_BANDS[i][2] /\ AGE_BANDS[i][2] = AGE_BANDS[i + 1][1]

VARIABLES
  settlements,  (* SettlementConfirmations, by their unique reference       *)
  view,         (* a summary() as its queries answer, one after another      *)
  steady,       (* history: the cases open ever since its first query        *)
  ever          (* history: the cases open at some moment since              *)

viewVars == <<view, steady, ever>>
exposureVars == <<bookVars, settlements, viewVars>>

OPEN_STATUSES ==
  {"submitted", "acknowledged", "investigating", "awaiting_customer", "escalated", "reopened"}

OpenCases == { c \in Filed : book[c].status \in OPEN_STATUSES }

AmountOf(cases) == SumFunctionOnSet([c \in Filed |-> book[c].amount], cases)

(* summary() reads outside of any lock, so casework commits between its      *)
(* queries.  A case's amount, category and submitted_at never change: an     *)
(* answer is kept as the cases it counted and summed.                        *)
NoView == [at |-> "none"]
BeingRead == view.at \notin {"none", "shown"}

(* under_dispute: one query, one row per category among the open cases.      *)
under_dispute ==
  [ category \in { book[c].category : c \in OpenCases } |->
      { c \in OpenCases : book[c].category = category } ]

UnderDispute ==
  /\ ~BeingRead
  /\ view' = [at |-> "by_age", now |-> Undated, categories |-> under_dispute, bands |-> <<>>,
              decided |-> 0, upheld |-> 0, open |-> {}]
  /\ steady' = OpenCases /\ ever' = OpenCases

(* by_age: a query for each band, all against the one `now` it began with.   *)
Band(i, now) ==
  { c \in OpenCases :
      /\ book[c].submitted_at <= now - AGE_BANDS[i][1]
      /\ AGE_BANDS[i][2] # 0 => book[c].submitted_at > now - AGE_BANDS[i][2] }

ReadBandAt(now) ==
  /\ view.at = "by_age"
  /\ LET i == Len(view.bands) + 1
     IN  view' = [view EXCEPT !.at = IF i = Len(AGE_BANDS) THEN "rate" ELSE @,
                              !.now = now,
                              !.bands = Append(@, Band(i, now))]
  /\ UNCHANGED <<steady, ever>>

(* The slip of by_age that asks for the time again at every band. *)
ReadBandAfresh == ReadBandAt(today)

ReadBand == ReadBandAt(IF view.at = "by_age" /\ view.bands # <<>> THEN view.now ELSE today)

(* expected_loss: what of the lookback was decided and upheld, then what is  *)
(* open; nothing is expected when nothing was decided.                       *)
ReadRate ==
  /\ view.at = "rate"
  /\ LET decided == { c \in Filed : /\ book[c].resolved_at # Undated
                                    /\ book[c].resolved_at >= today - Lookback }
         upheld == { c \in decided : book[c].outcome \in {"upheld", "partial"} }
     IN  view' = [view EXCEPT !.at = "_open_amount", !.decided = Cardinality(decided),
                              !.upheld = Cardinality(upheld)]
  /\ UNCHANGED <<steady, ever>>

_open_amount ==
  /\ view.at = "_open_amount"
  /\ view' = [view EXCEPT !.at = "shown", !.open = OpenCases]
  /\ UNCHANGED <<steady, ever>>

expected_minor == (AmountOf(view.open) * view.upheld) \div view.decided

Promised(from, to) ==
  { c \in Filed : from <= book[c].resolved_at /\ book[c].resolved_at < to
                  /\ book[c].refund # NoRefund }

(* reconcile, one query per figure: what was promised in a period, what was  *)
(* paid in it, and the promises nothing was ever paid against.               *)
reconcile(from, to) ==
  LET paid == { r \in DOMAIN settlements :
                  from <= settlements[r].settled_at /\ settlements[r].settled_at < to }
  IN  [promised_minor |-> SumFunctionOnSet([c \in Filed |-> book[c].refund], Promised(from, to)),
       settled_minor |->
         SumFunctionOnSet([r \in DOMAIN settlements |-> settlements[r].amount_minor], paid),
       unreconciled_cases |->
         Cardinality({ c \in Promised(from, to) :
                         \A r \in DOMAIN settlements : settlements[r].dispute # c })]

(* The institution confirms a payment.  Nothing in src/ writes this row.     *)
Settle(reference, c, amount) ==
  /\ reference \notin DOMAIN settlements
  /\ c \in Filed
  /\ settlements' = [r \in DOMAIN settlements \cup {reference} |->
       IF r = reference THEN [dispute |-> c, amount_minor |-> amount, settled_at |-> today]
       ELSE settlements[r]]
  /\ UNCHANGED <<bookVars, viewVars>>

(* Casework while the view is read, or not. *)
ExposureCasework ==
  /\ Casework
  /\ steady' = IF BeingRead THEN steady \cap OpenCases' ELSE steady
  /\ ever' = IF BeingRead THEN ever \cup OpenCases' ELSE ever
  /\ UNCHANGED <<settlements, view>>

ExposureInit ==
  /\ settlements = [r \in {} |-> 0]
  /\ view = NoView /\ steady = {} /\ ever = {}

ReadView ==
  /\ UnderDispute \/ ReadBand \/ ReadRate \/ _open_amount
  /\ UNCHANGED <<bookVars, settlements>>

ExposureNext ==
  \/ ExposureCasework
  \/ ReadView
  \/ \E r \in References, c \in Cases, amount \in Payments : Settle(r, c, amount)

ExposureSpec == BookInit /\ ExposureInit /\ [][ExposureNext]_exposureVars

-----------------------------------------------------------------------------
(* Properties. *)

(* Rows that count no case twice: their figures add up to those of the cases *)
(* in them, among which are the cases of `least` and none beyond `most`.     *)
AddUp(rows, least, most) ==
  LET all == UNION { rows[k] : k \in DOMAIN rows }
  IN  /\ SumFunction([k \in DOMAIN rows |-> Cardinality(rows[k])]) = Cardinality(all)
      /\ SumFunction([k \in DOMAIN rows |-> AmountOf(rows[k])]) = AmountOf(all)
      /\ least \subseteq all /\ all \subseteq most

(* Of the cases, those that by_age takes to have been submitted. *)
Aged(cases) == { c \in cases : book[c].submitted_at <= view.now }

(* "a view somebody reconciles against a ledger and finds off by cents",     *)
(* exposure.py:65: the three views of the money at stake agree up to what    *)
(* casework changed while they were read.  A case open all along is in one   *)
(* category row and in one age band, the day it crosses from one band to the *)
(* next included, and in the open amount; no case is in two rows or in a view *)
(* it was never open for.  Only a case dated in the future has a category    *)
(* and no band.  No loss beyond the open amount is expected.                 *)
(* On tables nobody writes to, a promise or a payment is in one reporting    *)
(* period: the figures of two periods that meet are those of the whole,      *)
(* whatever was decided again or paid late.                                  *)
FiguresAddUp ==
  /\ view.at # "none" => AddUp(view.categories, steady, ever)
  /\ view.at \in {"rate", "_open_amount", "shown"} =>
       AddUp(view.bands, Aged(steady), Aged(ever))
  /\ view.at = "shown" =>
       /\ steady \subseteq view.open /\ view.open \subseteq ever
       /\ view.decided # 0 => expected_minor <= AmountOf(view.open)
  /\ \A from, mid, to \in 0 .. LastDay + 1 :
         from <= mid /\ mid <= to =>
           LET a == reconcile(from, mid)
               b == reconcile(mid, to)
               whole == reconcile(from, to)
           IN  \A figure \in DOMAIN whole : a[figure] + b[figure] = whole[figure]

=============================================================================
