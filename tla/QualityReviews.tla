--------------------------- MODULE QualityReviews ---------------------------
(***************************************************************************)
(* Choosing which resolved cases a supervisor reviews.  A review's score   *)
(* and answer write its own row only and are left out.                     *)
(*   disputeshield/quality/sampling.py, models/operations.py QaReview      *)
(* open_reviews has no transaction.  It reads the pool, then each forced   *)
(* criterion with a query of its own, draws the sample in memory and       *)
(* inserts; casework and another supervisor's run go on between them.      *)
(***************************************************************************)
EXTENDS Casebook, SequencesExt

CONSTANTS
  Supervisors,
  Percents,       (* sampling rates a run can be given                       *)
  TopBand         (* amount_minor at which a case is in the top band         *)

ASSUME QualityAssumption == Percents \in SUBSET (0 .. 100)

VARIABLES
  reviews,        (* QaReview rows by their unique case: what triggered each *)
  run,            (* what the open_reviews of a supervisor holds             *)
  due             (* history of a run, written by no code: the cases that    *)
                  (* were eligible and met a criterion ever since it began   *)

qualityVars == <<bookVars, reviews, run, due>>

NoRun == [at |-> "idle"]

(* FORCED_CRITERIA, a module constant, in its order. *)
FORCED_CRITERIA == <<"reopened", "escalated", "breached", "high_value">>

Meets(c, criterion) ==
  CASE criterion = "reopened" -> book[c].status = "reopened"
    [] criterion = "escalated" -> book[c].tracks # {}
    [] criterion = "breached" -> book[c].breached
    [] criterion = "high_value" -> book[c].amount >= TopBand

(* eligible: resolved in the period and not reviewed yet. *)
eligible(period_from, period_to) ==
  { c \in Filed : /\ book[c].resolved_at # Undated
                  /\ period_from <= book[c].resolved_at
                  /\ book[c].resolved_at < period_to
                  /\ c \notin DOMAIN reviews }

(* round(n * percent / 100): to the nearest, a half to the even neighbour.   *)
SampleSize(n, percent) ==
  LET whole == (n * percent) \div 100
      rest == (n * percent) % 100
  IN  IF rest > 50 \/ (rest = 50 /\ whole % 2 = 1) THEN whole + 1 ELSE whole

Forced(c) == \E k \in DOMAIN FORCED_CRITERIA : Meets(c, FORCED_CRITERIA[k])

(* What must be reviewed by the run of a supervisor, on the rows as they are. *)
Owed(s) ==
  IF run[s].at = "idle" THEN {}
  ELSE { c \in eligible(run[s].period_from, run[s].period_to) : Forced(c) }

(* select: the pool is read first. *)
ReadPool(s, period_from, period_to, percent) ==
  /\ run[s].at = "idle"
  /\ run' = [run EXCEPT ![s] =
       [at |-> "forced", period_from |-> period_from, period_to |-> period_to,
        percent |-> percent, pool |-> eligible(period_from, period_to), forced |-> {},
        criteria |-> FORCED_CRITERIA]]
  /\ due' = [due EXCEPT ![s] = { c \in eligible(period_from, period_to) : Forced(c) }]
  /\ UNCHANGED <<bookVars, reviews>>

(* Each criterion reads the eligible cases again. *)
ReadForced(s) ==
  /\ run[s].at = "forced"
  /\ run[s].criteria # <<>>
  /\ run' = [run EXCEPT
       ![s].forced = @ \cup { c \in eligible(run[s].period_from, run[s].period_to) :
                                Meets(c, Head(run[s].criteria)) },
       ![s].criteria = Tail(@)]
  /\ UNCHANGED <<bookVars, reviews, due>>

(* The slip of drawing the sample first and asking who is forced among it.   *)
SampledFirst(r) ==
  { [forced |-> drawn \cap r.forced, sampled |-> drawn \ r.forced] :
      drawn \in { s \in SUBSET (r.pool \cup r.forced) :
                    Cardinality(s) = SampleSize(Cardinality(r.pool), r.percent) } }

(* What a run may pick: every forced case, and a uniform sample of the rest  *)
(* of the pool, whose size is set by the rest alone.                         *)
Selections(r) ==
  LET remainder == r.pool \ r.forced
  IN  { [forced |-> r.forced, sampled |-> sampled] :
          sampled \in { s \in SUBSET remainder :
                          Cardinality(s) = SampleSize(Cardinality(remainder), r.percent) } }

(* bulk_create with ignore_conflicts: a case that has a review keeps it.     *)
OpenReviews(s) ==
  /\ run[s].at = "forced"
  /\ run[s].criteria = <<>>
  /\ \E chosen \in Selections(run[s]) :
       LET new == (chosen.forced \cup chosen.sampled) \ DOMAIN reviews
       IN  reviews' = [c \in DOMAIN reviews \cup new |->
             IF c \notin new THEN reviews[c]
             ELSE IF c \in chosen.forced THEN "forced" ELSE "sampled"]
  /\ run' = [run EXCEPT ![s] = NoRun]
  /\ due' = [due EXCEPT ![s] = {}]
  /\ UNCHANGED bookVars

QualityInit ==
  /\ reviews = [c \in {} |-> 0]
  /\ run = [s \in Supervisors |-> NoRun]
  /\ due = [s \in Supervisors |-> {}]

(* Casework goes on; the history of the runs under way follows it.           *)
QualityCasework ==
  /\ Casework
  /\ UNCHANGED <<reviews, run>>
  /\ due' = [s \in Supervisors |-> due[s] \cap Owed(s)']

QualityNext ==
  \/ QualityCasework
  \/ \E s \in Supervisors :
       \/ \E period \in Periods, percent \in Percents : ReadPool(s, period[1], period[2], percent)
       \/ ReadForced(s)
       \/ OpenReviews(s)

QualitySpec == BookInit /\ QualityInit /\ [][QualityNext]_qualityVars

-----------------------------------------------------------------------------
(* Properties. *)

(* "Forced-review criteria cannot be disabled", sampling.py:8: when a run    *)
(* ends, every case that met a criterion for as long as it lasted has a      *)
(* review, whatever the sampling rate drew, whatever casework or another     *)
(* supervisor's run did between its queries.                                 *)
EveryForcedCaseIsReviewed ==
  [][\A s \in Supervisors :
       (run[s].at = "forced" /\ run'[s].at = "idle") =>
         due[s] \subseteq DOMAIN reviews']_qualityVars

=============================================================================
