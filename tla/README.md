# DisputeShield in TLA+

This directory is a verification project for DisputeShield
(`src/disputeshield`, Django with Celery, PostgreSQL and Redis). It holds TLA+
modules translated from the source, TLC configurations that check them on small
instances, and theorems that TLAPS checks for every value of the constants.
`PROJECT.json` is its index: components, runs, mutants, the map from
definitions to source lines, findings, hazards and theorems.

    tlc -workers 2 -config MCOutbound.cfg MCOutbound     # one run
    tlapm CaseClockProofs.tla                            # one proof module

Contents: [the system](#the-system) ·
[modules and code](#modules-and-the-code-they-model) ·
[runs](#the-runs) · [findings](#findings) · [observations](#observations) ·
[fairness](#fairness) · [proofs](#what-is-proved) ·
[limits](#what-is-not-modelled)

## The system

A fintech files its customers' complaints through a widget, an API or channel
gateways. Each complaint is a *dispute* with an *SLA clock*: windows of business
time in which it must be acknowledged and resolved, held as *deadline rows* that
a sweep fires every minute. Everything that happens to a case is appended to a
hash-chained *audit trail* of its tenant, which is checkpointed every night and
anchored with a timestamp authority. Around that core are notifications, monthly
reports, webhooks, retention with key shredding, card-scheme representments,
and a back office that samples, counts and advises.

How it runs decides what can go wrong:

* **Requests** run under `ATOMIC_REQUESTS` at READ COMMITTED: one transaction
  per request, inner `atomic()` blocks are savepoints. Handlers read a row into
  memory, decide by it, and save named columns; there is no row version and no
  `select_for_update` outside the sweep.
* **Celery beat** starts the sweep and the notification dispatch every minute,
  anchoring every quarter of an hour, report schedules hourly, checkpoints and
  reconciliation nightly. A run that outlives its interval overlaps the next.
* **`for_each_tenant`** gives each tenant one transaction in such a job; an
  exception ends the job for the tenants that follow. Sending a message inside
  such a transaction cannot be rolled back with it.
* **Locks** are PostgreSQL's: row locks of UPDATE and DELETE, the FOR KEY SHARE
  an INSERT takes on the tenant it refers to, the sweep's `SKIP LOCKED` claim,
  and one advisory lock per tenant that every audit append takes and keeps to
  the end of its transaction.
* **Row level security** shows a statement the rows of the tenant its transaction
  has named, and none when it has named none.

### Components

State, operations and hazards of each part; "hard" says which behaviours a test
would hardly reach.

| Component | State | Operations | What makes it hard, and what would be correct |
|---|---|---|---|
| Case lifecycle (`disputes/states.py`, `service.py`) | `Dispute` row: status, queue columns, outcome | file, transition, resolve, message | transitions have clock effects; concurrent requests decide by stale memory. Status and clock agree |
| SLA clock (`sla/clock.py`) | `SLAClock`, `SLADeadline`, `SLAEvent` | start, pause, resume, stop, `_materialise_deadlines` | long pause histories, rows moved while the sweep fires. Rows are where the arithmetic puts them; fired rows are history |
| Deadline arithmetic (`sla/deadlines.py`, `calendar.py`) | calendar rows | `compute_deadline`, `business_time_between` | clock changes, opening hours that begin or end inside one, closed days, overlapping pauses. The walk reaches what the definition says |
| Sweep (`sla/sweeper.py`) | marks rows, writes events, outbox | `sweep`, `_fire_batch` | several workers, requests in flight, crashes, deadlocks. Fire once, only while live, never forget |
| Reconciliation (`sla/reconcile.py`) | none | compare rows with arithmetic | open pauses |
| Policies, simulator (`sla/policies.py`, `simulator.py`) | policy versions | publish, patch, replay | two officers at once, nulls, a version nobody published; a replay from events alone. No change vanishes without an overlap |
| External escalation, mass events (`disputes/`) | tracks, memberships | open, close, fan-out | the fan-out writes cases and clocks directly |
| Representment (`disputes/representment.py`) | representment, unpausable rows, packs | open, evidence, pack, submit | two kinds of rows on one clock; stale copies. A pack that leaves is whole |
| Audit chain (`audit/service.py`, `chain.py`) | `AuditRecord` rows | append, append_batch, correct | concurrent appends, rollbacks. No forks, no gaps |
| Verification (`audit/verify.py`) | none | walk and recompute | one alteration invalidates what follows |
| Checkpoints, anchoring (`audit/checkpoints.py`, `anchoring.py`) | checkpoints, anchors | nightly job, passes | overlap, crashes, failures of the authority. Every record comes under a checkpoint; an anchor with a token keeps one, and only a race replaces it |
| Dispatcher, reports (`notifications/`, `reports/schedules.py`, `delivery.py`) | outbox rows, schedule | run_due, request, dispatch | a death after a send, overlap, retries, giving up. Months settle; what is named as delivered was mailed |
| Webhooks (`webhooks/delivery.py`) | delivery rows | enqueue, dispatch, replay | backoff and overlapping enqueues against order. First attempts in order but for raced numbers, nothing waits for ever |
| Intake, idempotency (`intake/`, `api/idempotency.py`) | inbound rows, recorded answers | receive, attribute, file, message | retries that overlap, work that raises, strangers in threads. One effect per key |
| Incidents, deflection (`intake/deflection.py`) | incidents, subscriptions | match, deflect | overlapping clicks. Each counted once, with its record |
| Attachments (`attachments/`) | verdicts, files | upload, scan, download | scans that overlap or see no tenant. Only cleared content leaves |
| Records (`crypto/vault.py`, `retention/`) | keys, holds, erasure requests | seal, hold, release, shred, decide | a shred between check and commit, texts stored beside the seal. Sealed under the stored key, unreadable for good |
| Quality, finance, returns (`quality/`, `finance/`, `reports/returns.py`) | reviews, returns, confirmations | sample, sum, count, approve | casework between the queries, future and past dates. Forced cases are reviewed, figures add up, returns say what was filed |
| Importer, intelligence (`migration/`, `intelligence/`) | batches, suggestions | import, suggest, decide | errors half way, two deciders |
| Sessions, tenant context, connectors, templates, commands, clients | tokens, a context variable, call log | | see [limits](#what-is-not-modelled) |

They interact through the database. A request calls `service`, which calls
`clock`, and both call `audit`; the sweep writes the same deadline rows, the
outbox and the audit trail; the fan-out and representment write clocks and rows
behind `clock.py`'s back; schedules and requests queue outbox rows that the
dispatcher sends and whose outcome the schedule reads back; intake files cases
and adds messages; checkpoints read the audit trail; the back office reads cases
while they are worked.

## Modules and the code they model

`MCX` instantiates modules for TLC, `XProofs` holds theorems about the modules such an
`MCX` brings together, `Inductions` the lemmas on numbers and finite sets they share,
and `XProperties` the properties of `X` where there are proofs of more of them than
runs check. Each mutant (`...Unlocked`, `NeverAbandons` and so on) stands before the
definition it mutates and is used by no specification: it is the plausible bug under
which a property must fail.

| Module | Models | How |
|---|---|---|
| `DisputeStates` | `disputes/states.py` | the transition table as a set of records, `Find` |
| `BusinessTicks` | what deadline arithmetic means | time in ticks, a calendar as a set of open ticks, a pause as an interval |
| `DeadlineWalk` | `sla/calendar.py`, `sla/deadlines.py` as computed | the walk over local days, the merge of pauses, the loops over segments |
| `DeadlineLedger` | nothing: abstract specification of a case's clock | deadlines are pending, then fired once with a notification, or withdrawn |
| `CaseClock` | `disputes/*.py`, `sla/clock.py`, `sweeper.py`, `reconcile.py` for one case | one action per service call |
| `CaseReplay` | `sla/simulator.py` | CaseClock with the events it leaves, and their reader |
| `CaseTransactions` | the same calls when they overlap | the statements of `transition()` and of the sweep, with row locks |
| `SweepWorkers` | `sla/sweeper.py` for one tenant | several workers against requests, with every lock their statements take |
| `HashChain` | `audit/chain.py`, `verify.py` | records, injective hashing, the verification walk |
| `AppendOnlyLog` | nothing: abstract specification of a trail | a sequence that grows |
| `AuditChain` | `audit/service.py` | concurrent transactions that append, with the advisory lock and its queue |
| `AuditAttestation` | `audit/tasks.py`, `checkpoints.py`, `anchoring.py` | appends, an alteration, the nightly job, overlapping passes |
| `ReportDelivery` | `reports/schedules.py`, `delivery.py`, `notifications/dispatcher.py` | months owed, queued and mailed; passes that overlap and die |
| `WebhookDelivery` | `webhooks/delivery.py` | enqueues, one pass at a time, backoff, parking, replay |
| `Intake` | `intake/*.py`, `api/idempotency.py` | a request reads, decides, and commits all or nothing |
| `IncidentDeflection` | `intake/deflection.py`, `models/incidents.py` | browsers that are offered an incident before filing |
| `CustomerRecords` | `crypto/vault.py`, `retention/holds.py` | keys, holds, shreds and filings statement by statement |
| `AttachmentScans` | `attachments/*.py` | uploads, scans that overlap, downloads |
| `RepresentmentPack` | `disputes/representment.py`, `models/scheme.py` | advocates with stale copies of one row |
| `PolicyVersions` | `sla/policies.py`, `api/views_policies.py` | a request's two reads and its insert |
| `Casebook` | `Dispute` rows as the back office sees them | filing, moves, decisions, tracks, days |
| `Exposure`, `QualityReviews`, `RegulatoryReturns` | `finance/`, `quality/`, `reports/returns.py` | readers of the Casebook, one query per step |
| `HistoryImport` | `migration/importer.py` | two imports, one transaction each |
| `Advice` | `intelligence/triage.py` | a suggestion and who decided it |

**CaseClock.** `dispute`, `clock`, `deadlines`, `outbox`, `tracks`, `membership`
and `representment` are the rows, `last_event` the `SLAEvent` written last.
`Transition` is all of `service.transition`: the rule, the actor, the reason, the
open-track check, the clock effect, and the closing `_sync_deadlines`; `resolve`
is the same move with an outcome, which no property tells apart. Filing may be
backdated, as the importer does. `ApplyOutcome` is the fan-out on one member: it
stops the clock itself and leaves unfired rows behind, and the model keeps that.
`Sweep` fires every due row of the case at once because a run commits a tenant's
tranches together. A call that raises changes nothing and is no action.

**CaseReplay** extends it with `events`, the `SLAEvent` rows, and the columns
`resolved_at` and `closed_at`, and defines what `simulator._historical_pauses`
computes from them.

**CaseTransactions.** `memory[r]` is what `get_object()` read: the status (as the
rule it allows) and the clock, joined in one query, and the time `transition()`
took at its start. `UpdateDispute` takes the dispute row, `UpdateClock` the clock
row, `Commit` writes and ends the request; `Fail` rolls it back anywhere. Saves
name their columns, so a pause keeps committed pauses and a resume overwrites
them with those in memory. One resolution row stands for the regulatory rows.

**SweepWorkers.** The claim is `select_related("clock", ..., "tenant")` with
`select_for_update(skip_locked=True)` and no `of`, so it locks the joined clock
and tenant rows as well; an INSERT's key share on the tenant conflicts with that
(`models/anchoring.py:34-40` knows it of another table). Locks are derived from
how far each transaction is. A request is an acknowledgement or a resolution:
the shortest transaction and the one that withdraws deadlines. The lock on the
joined policy version is left out: nothing else takes it.

**AuditChain.** `pending[t]` are rows inserted and not committed, `Visible(t)`
what a statement of `t` sees. `LockTenant`, `LockGranted`, `ReadHead`, `Chain`,
`AppendReturns` are one append or batch; a transaction may append several times
and roll back anywhere. A hash is the sequence of contents it covers: injective,
as SHA-256 is taken to be.

**AuditAttestation.** AuditChain shows an append is adding the next record, so it
is one step here. A record's time is an instant and the offset it was given in: the
hash is of the record in memory, so of both, and verification hashes the row read
back, which is in UTC (`Content` in `HashChain`). Whatever the application dates with
its own clock is in UTC; only the importer passes on an offset. `VerifyTenant` and
`CreateCheckpoint` are two statements at READ COMMITTED, so appends fall between them.
A pass copies its backlog into memory and saves the columns `anchoring.py` names; an
answer of the authority is a token, a value that differs from the next one. A pass
that dies drops what it holds, tokens included, and the next pass asks again. `raced`
keeps the anchors that two passes have had in hand at once. `AlterRecord` is somebody
with access to the table, once. Signatures are trusted to be HMACs.

**DeadlineWalk.** A calendar is its rows: a window per weekday, holidays, whether it
is always open, and one change of clocks: at `ChangeHour` of a day an hour is shown
twice or skipped. A tick is finer than that hour (`ChangeSpan` ticks of it), so
opening hours may begin or end inside it. There the code takes `fold=0`: an instant
shown twice is its first showing, and a skipped one is read in the offset before the
change. That is what `WalkReachesTheExpiry` says is open: the time between the first
showings of the opening and the closing hour. It adds that where neither lies inside
the change this is simply what the wall clock shows as open
(`OpenIsWhatTheClockShows`). The change falls within a day and leaves a day its length
on either side (`ChangeHour + 2 * ChangeSpan <= DayLength`): zones that change at
midnight are not covered. `_segment_for`, `segments_from`, `_normalise`, `_subtract`,
`compute_deadline`, `business_time_between` and `elapsed_fraction` are the functions
of the same names as folds; both exceptions are the empty answer. The scale is small
and the code's proportions are kept: the walk's horizon is one day longer than the run
of closed days it puts up with.

**ReportDelivery.** `deliveries` are the outbox rows by idempotency key (month and
attempt), `memory`, `sending` and `written` what a dispatcher pass has read, is
sending, and has saved without committing. `RunDue` is a whole run for one
schedule, `Reached` the months its loop comes to. `mailed` counts what the
provider took and cannot be rolled back. `edition` is what an export of a month
would hold now, since its cases are still worked.

**WebhookDelivery.** `ReadSequence` and `CreateRows` are the two statements between
which another enqueue can take the number; `overtaken` and `raced` keep, as history,
the enqueuers this has happened to and what they then queued. `DispatchStep` is a pass,
`saved` what it has saved and not committed. A delivery that backs off is not due, and
the pass goes on to later ones of its case. Instants are left out: `ready` says whether
`next_attempt_at` has passed.

**Intake.** A call is an endpoint, a path and a body; `requests[r]` is what a request
has read and will write. A body says who sends, in which thread, which reference
it quotes, whether it is automatic or blank: what the router decides by. The
recorded answer commits with the work, so a retry finds it or finds nothing.

**CustomerRecords.** `content` records which key seals each description or message;
`writer[w]` and `eraser[e]` are transactions part of the way through. Holds are
read one case at a time, as `holds_for_customer` does. An import stores its text as it
came, and an inbound message is kept as it came beside the sealed text of the case it
is filed as: `plain` are the cases with such a text, sealing on or off.

**AttachmentScans, RepresentmentPack.** A scan reads its row, asks the scanner, and
overwrites the verdict; a task that names no tenant reads no row. An advocate's
object is a copy taken when its request loaded it, used for any number of calls.

**PolicyVersions.** A PATCH is merged with the version read on arrival; the
publishing transaction reads the number again. Terms are numbers, with 0 the
value `validate()` refuses or a POST empties, and the default a column takes when a
request names it as null: `diff` records the null, the insert leaves it out.
`Initialise` is the init command's first version, which has no record.

**Back office.** `Casebook` moves cases along the table, and files them with any date, a
future one included, as the importer and `file_dispute` let it be. `Exposure`,
`QualityReviews` and `RegulatoryReturns` run one query per step while cases move: the
finance view reads the categories, then a band at a time, the uphold rate and the open
amount, and `steady` and `ever` keep the cases open throughout and at some time. Only
`reconcile` is an operator, and what is said of it is said of tables nobody writes to.
`Advice.accuracy` counts in one state what two queries count.
`HistoryImport` knows of a row what decides its fate: reference, how the date
reads, whether a policy is found. `Advice` scores hints and records decisions.

## The runs

Bounds are the constants of each `.cfg`; the ones that exist only for TLC are
named `Max...` or `Last...` and declared as bounds. Modules that share no variable
are checked in one run: `scenario`, chosen in the initial state, says which of
them moves, so that the run is the sum of its scenarios and not their product.

| Run | Distinct states | Question, bounds and why they are enough |
|---|---|---|
| `case_replay` | 459 000 | Rows, pauses and the replay of a case over time: two pauses, a backdated filing, a sweep stalled for any number of ticks. Calendar of 14 ticks with 2 closed ones and windows of 1 and 2, so that windows straddle closed time and a warning and a breach are due at once |
| `case_attached` | 167 000 | The same case with a representment, an external track and a mass event. One of each suffices, since none interacts with another of its kind |
| `requests` | 2.9 million | *chain*: three transactions, two appends each of up to two records, rollback anywhere: one that holds the lock, one that waits, one behind it. *case*: two requests in flight on one case and the sweep, each slot used again and again; two are enough for every stale read, since one transaction holds old memory while the other slot runs any sequence. *intake*: two requests, two keys, two identities, nine calls (first email and late answer, stranger in the thread, quoted case from the phone, automatic, blank, unknown channel, no sender, widget). *deflection*: two browsers of one customer, three incidents |
| `background` | 179 000 | *sweep*: two workers, two requests, three deadlines on two clocks, tranches of two, a crash: skipped rows, a second tranche, a clock stopped under a sweep, both deadlock cycles. *chain*: three records, any of them imported, one alteration, a death of the job: ranges that start, continue and end at an alteration. *backlog*: two passes that overlap and crash, two attempts, two different tokens |
| `outbound` | 114 000 | *months*: two months, two attempts, two months per run, a recipient or the schedule deactivated, one change of a closed month. *passes*: one month, two dispatchers that overlap, one death or lost answer. *webhooks*: the creation of one dispute and a later event, two endpoints of which one wants both, two attempts, a replay or a death, two transactions that may enqueue the later event at once |
| `customer_records` | 4.2 million | *records*: two writers, filings, messages that came in and imports, one eraser, one hold of each scope, two keys: a filing on each side of every statement of a shred, and two first keys. *scans*: two attachments, two scans, a reader. *pack*: two advocates, two required elements, four attachments of evidence: each can overwrite the other's twice |
| `office` | 1.2 million | *walk*: calendars with holidays to the length of the walk and both clock changes, days of six ticks of which the change takes two, and opening hours that begin or end before, inside and after it; two pauses of several shapes in either order, five windows. *policy*: two officers, three versions, a seeded first one, nulls. *exposure, quality, returns*: two cases (one for the returns), two people, two days, a case dated the second of them on the first, a band that a case leaves between them. *import*: two imports of five files that share and repeat references. *advice*: two deciders |
| `month_skipped`, `hold_overtaken`, `message_dropped`, `shred_leaves_plain_text`, `return_restated` | | the findings below, each with one scenario of a run above; TLC prints the behaviour |

Deadlock checking is off where a system may really stop (a case at the last
instant, transactions that have all ended, bounds that are used up); `background`
keeps it on. Symmetry is used in `office`, which checks no liveness.

What the passing runs show, property by property:

* *RowsMatchArithmetic, PauseIsNeutral, ReplayRestoresTheClock*: over every
  sequence of calls, stored rows stay where the arithmetic puts them, a pause
  costs neither side time, and the simulator rebuilds the clock's pauses from its
  events alone.
* *StatusMatchesClock, FiredIsHistory, ImplementsLedger, DueRowsFire*: status and
  clock agree whatever is attached to the case; firing happens once, with its
  notification, never after the clock stopped, and in the end.
* *FiredStaysFired, RowsFollowPauses*: `resume` reads a row and saves it later
  without looking again. That a sweep between the two cannot have its firing
  moved rests on the claim locking the joined *clock* row, which a resume has
  updated first. A claim restricted with `of=("self",)` would break it, and the
  mutant shows how; that should be known to whoever acts on the throughput
  observation below.
* *ChainIntact, ImplementsLog*: the advisory lock does what ADR-0003 says.
* *ClaimsHold, SweepStepsAreLedgerSteps, DueIsFired*: the sweep with several
  workers still does what `DeadlineLedger` allows of each clock, and a crash or a
  deadlock costs no deadline its firing.
* *CheckpointCatchesAlteration, EveryRecordIsAttested, StampsChangeOnlyInRaces*: what
  an auditor can rely on. A signed head is reproduced as long as nothing it covers was
  altered *or hashed in another offset than UTC*; that the second happens to honest
  records is an observation below. An anchor that has a token keeps one, and its
  row is written again, be it with another token, only if two passes had it in hand at
  once: a token can be replaced, and a dying pass drops those it has not committed.
* *LastPeriodWasMailed, RepeatsNeedAnAccident, OwedMonthsSettle*: a schedule's
  progress is what was mailed; retries, fresh requests and promises repeat no
  mail; a month that keeps failing is given up. *NoMonthIsSkipped* fails (below).
* *FirstAttemptsInOrder, QueuedEventsSettle*: what holds of webhook order whoever
  enqueues at once, with the events named whose number was read before another event of
  the case was queued (without them it fails), and that a failing endpoint does not hold
  up the rest for ever. It is about first calls: a backoff is overtaken.
* *SealedUnderTheStoredKey, ShreddedStaysUnreadable, OlderHoldsBlockShreds*: only a
  shred makes sealed content unreadable, it does so for requests in flight too, and a
  hold placed before the check is found. Both are about what went through `seal`; of
  everything stored about a customer *ShreddedIsUnrecoverable* fails. *HoldsWin*, of
  holds placed after it, fails.
* *OnlyClearedLeaves, PacksAreWhole*: overlapping scans and stale copies let
  nothing uncleared or incomplete out.
* *OneEffectPerKey, StrangersStayOut, RowsTellWhatHappened, DeflectionsAreCounted*:
  retries and overlap at the door. *NothingIsDropped* fails.
* *WalkReachesTheExpiry, FractionIsFullAtTheDeadline*: the walk, and the measure that
  is taken when a clock is paused, agree with `BusinessTicks`, on which every module
  about clocks rests, opening hours that begin or end inside the change of clocks
  included.
* *HistoryExplainsEveryVersion, RevertsNeedAnOverlap*: a version is the one before
  with the changes of its record, a null read as the default, and only a seeded first
  version has no record; only overlapping officers undo each other.
* *FiguresAddUp*: a case open while the finance view is read is in one category and
  one band, on the day it crosses from one to the next too, unless it is dated in the
  future: then it is in a category and in no band, as the code has it.
* *NothingFiledWasOverstated*: whatever is filed, decided or revised between and after
  the queries, a return says of the sources that only grow no more than its cases, under
  its own template, do now. *FiledReturnsRegenerate* fails.
* *EveryForcedCaseIsReviewed, BatchesTellTheTruth, RowsShowTheLastDecision*: no case
  of a forced criterion slips between two supervisors, counts of a batch are those of
  its cases, and a suggestion shows the decision that was recorded last.

## Findings

Where a comment or document says one thing and TLC finds the code doing another.

1. `month_skipped`: schedules.py:153-156 "A month still in flight must not have the
   next one queued behind it". The loop ends after `queued`, `retried` and
   `no_recipients` but goes on after `pending`: the next month is queued, and when
   it is sent first, `last_period_start` jumps past one that is neither mailed nor
   recorded as failed, "the failure the whole feature exists to prevent".
2. `hold_overtaken`: vault.py:145-148 "the hold wins". `shred` reads the holds
   before its transaction and neither locks nor looks again: a hold placed, or a
   case filed under a standing category or period hold, in between does not stop
   the key from being destroyed.
3. `message_dropped`: router.py:41-47 "Recording first matters: a message that
   arrived and was silently dropped is a complaint the firm cannot prove it never
   received". The record is created inside the transaction that files or appends
   and is rolled back when that raises.
4. `shred_leaves_plain_text`: vault.py:7-8 "After a shred, the hash chain still verifies
   and the content is unrecoverable". Descriptions of imports (importer.py:145) and
   bodies and subjects of inbound messages (router.py:55-66) are stored unsealed.
5. `return_restated`: models/returns.py:66 "so a return filed last year still
   regenerates as it was filed". The template is pinned; the cases are counted as they
   are now, those imported into the closed period or decided again since included.

## Observations

Behaviours the models contain that contradict a sentence somewhere, or would
surprise a reader, and have no run of their own.

*Cases and clocks.*

* Acknowledging stops no row (README.md:119 says it does): a case acknowledged in
  time still breaches its acknowledgement deadline. `stop()` deletes every unfired
  row, so a case resolved after its deadline and before the next sweep never shows
  the breach (models/clock.py:114), and resolving a complaint deletes its scheme
  rows (representment.py:71 calls them independent).
* `transition()` looks up its rule by a status read before any lock: of two
  overlapping requests the later commit can make a move that is not in the table
  (states.py:102). A case can be escalated or resolved with a paused clock, and a
  resume that took its time before another's replaces that one's pause.
* `mark_breached` and `auto_close_window` have no caller, although service.py:452
  says the sweep calls it: no case is ever marked breached, which reviews, returns
  and the simulator's self-check count by.
* A row that falls due while the case waits for its customer fires as a breach: it
  is moved only by `resume`. A paused case is reported by reconciliation until then.
* Every `stopped` event records 0 seconds remaining: the resolution row is deleted
  before the remaining time is computed from it.
* Reopening restarts no clock, so a reopened case cannot be paused. A `resolve`
  through the plain transition endpoint leaves `resolved_at` empty.
* The fan-out leaves unfired rows on stopped clocks; they never fire.
* `open_track` does not look at the status; `close_track` can determine a closed
  track again; `assign()` audits the former agent from a stale object.
* Attaching evidence overwrites another's from a stale copy and takes an exported
  pack back to gathering or ready; submission needs no export. What was built stays
  whole.
* A PATCH of a policy merges with the version read before the publishing
  transaction, so it can undo another's change; a POST without thresholds empties
  them; the loser of two publications gets an IntegrityError.
* `disputeshield_init` creates version 1 of a policy with no record
  (disputeshield_init.py:70-78), although policies.py:1 calls publishing the only path.
* Opening hours that begin or end inside an hour shown twice mean its first showing:
  a window of 00:00 to 01:30 closes half an hour into the first of the two hours, and
  one that opens there opens at its first showing.
* `elapsed_fraction` decides nothing: only the deadlines module calls it.
* `business_time_between` stops silently at the walk's horizon, and raises for a year
  of closed days even when the span ends before them.

*Sweep and trail.*

* chain.py:8-10 chooses a canonical form because an ambiguity "would make an honest
  chain look tampered". `append` hashes the datetime it was given, `str` of it; the
  importer gives it the offset of the file (importer.py:165), and the row read back
  says `+00:00`: from such a record on, verification reports a chain nobody altered.

* The sweep's claim locks the tenant row: a second worker on the tenant finds
  nothing to claim (sweeper.py:12 says throughput scales), the sweep skips a
  tenant while any of its requests has inserted a row, and a sweep that waits for
  the audit lock can deadlock with the request that holds it. Requests that never
  leave the tenant alone can starve it; `DueIsFired` holds because requests in
  that run end and are not replaced.
* A checkpoint reads the head after the walk: records appended in between are
  signed as verified without having been walked, and `record_count` is short.
* A failed anchor is skipped, so a later checkpoint can be anchored before an
  earlier one although anchoring.py:104 says in order. Every exception counts as an
  attempt, so an unreachable authority leaves anchors `failed`, which
  models/anchoring.py:19-20 says are pending. Of two overlapping passes the later
  replaces the token the earlier has stored (anchoring.py:144).

*Outbound.*

* `ReportTooLarge` and `UnknownRecipient` leave a month owed for ever and hold up the
  months behind it (schedules.py:47-49). A person's request for a month that has not
  closed has the key of its first attempt: once sent, the schedule takes the closed
  month for delivered.
* `deliver()` does not look at the allowlist again. A pass that dies after sending
  sends again, and overlapping passes overwrite a sent row with a stale one.
* A webhook event that backs off is overtaken by a later one (delivery.py:10-12);
  with two enqueuers at once a lower number can be committed after a higher one was
  posted. A stalled case holds up its other endpoints. Nothing in src outside tests
  enqueues, dispatches or replays.

*Records.*

* An erased customer can never file again; content stored while sealing was off
  survives a shred, as does what never goes through `seal` (finding 4); the second of
  two concurrent first filings fails. `decide_erasure` never completes one. `release`
  checks a stale object. The retention sweep deletes nothing and appends its audit
  records again each run.
* The scan task reads its attachment before it names a tenant: under row level
  security it finds nothing (scanning.py:84), so nothing is scanned by it. A scan
  saves its verdict over an earlier one (scanning.py:92), which scanning.py:76 calls
  "a no-op on the record". A rolled-back upload leaves its file; `download_url`
  looks at no verdict and has no caller.

*Inbound.*

* A quoted reference that matches nothing files a new case. Two concurrent first
  messages of a thread file two. Cases of the widget have no contacts. `attribute`
  looks at no state. Providers' message ids are not compared, and a stored 4xx is
  replayed; the loser of two requests under one key gets an IntegrityError.
* Nothing notifies an incident's subscribers, and nothing sets its status.
* A reference that repeats, in one file or in two, or is cut to one that does at 24
  characters, ends an import; a date without offset raises `AttributeError` under
  Django 5. Descriptions are stored unsealed.

*Back office.*

* A field a PATCH names as null is recorded as changed to null and stored as its
  default, which may be what it was; policies.py:99 calls the record "What actually
  changed, as {field: [before, after]}".
* The pause totals of analytics.py:78, "How long clocks were stopped", add up
  `clock_remaining_seconds` of the resumed events (analytics.py:196): what the clock
  had left at each resume.

* A case that was sampled is not reviewed again after reopening; after reassignment
  its resolver can score it; an empty agent may respond for an unassigned case; a
  small pool rounds to no sample.
* The rows of a return are counted by separate queries, so two of them may count what
  never was at one moment.
* Exposure adds up amounts across currencies. A case dated in the future is in its
  category and in no age band. A decision between the two counts of `accuracy`
  (triage.py:130 and 140) can put its ratio above one.
* Triage and clustering read `dispute.description`, which filing has sealed
  (service.py:127). A suggestion can be decided again.
* `registry.fetch_context` "never raises" (registry.py:79), but building the connector
  and recording the call are outside its `try`.

## Fairness

* `CaseClock`: time passes (WF of `Tick`) and beat runs the sweep (WF of `Sweep`).
  Nobody is obliged to work a case, so no call has fairness.
* `SweepWorkers`: WF for each worker's steps, since beat schedules it for ever and
  a skipped claim is itself a step; SF for a request's next step, because
  PostgreSQL queues lock waiters and hands a released lock over; WF for choosing a
  deadlock victim (`deadlock_timeout`). Deaths are bounded by `MaxDeaths`: a system
  that crashes in every attempt promises nothing.
* `AuditAttestation`: WF for the nightly job. The authority is not assumed to answer.
* `ReportDelivery`: WF of the hourly run and of each pass's steps. A provider may
  refuse every message: a month then settles by being given up.
* `WebhookDelivery`: WF of the pass and of time (a backoff elapses). Endpoints are
  not assumed to answer.

The other modules state no fairness and no liveness. No safety property depends on
any of it.

## What is proved

Eight modules are checked by TLAPS to the last leaf, for every value of the constants:
any number of cases, transactions, workers, passes, customers, schedules, endpoints
and officers. What they assume of constants is named in the modules and holds in every
deployment: `CalendarAssumption` (open ticks lie within the horizon),
`PolicyAssumption` (windows are positive, scheme thresholds between 1 and 99),
`CasebookAssumption` (amounts are not negative), `ExposureAssumption` (age bands begin
at 0 and meet, as those of exposure.py:35 do), and otherwise types: `SweepAssumption`,
`TransactionsAssumption`, `TransactionAssumption`, `AttestationAssumption`,
`RecordsAssumption`, `PackAssumption`, `DeliveryAssumption`, `WebhookAssumption`,
`PolicyTermsAssumption`, `ImportAssumption`, `ReturnsAssumption`, `QualityAssumption`,
`AdviceAssumption`. Of the walk, `WalkAssumption` keeps two proportions of the code:
the clocks change inside a day with room on either side, and the walk's horizon is one
day longer than the closed days it puts up with (366 and 365); `WindowsAssumption` is
the check at deadlines.py:48 that a window is positive.

**CaseClockProofs.** The inductive invariant `Consistent` is type correctness with
StatusMatchesClock, RowsMatchArithmetic, ColumnsMatchRows,
OneNotificationPerFiring, SchemeWindowFixed and NoRowsBeforeFiling. None is
inductive alone: that columns follow rows needs rows of live clocks to exist,
that rows match the arithmetic needs status and clock to agree on what a
transition does, and that filing overwrites nothing needs NoRowsBeforeFiling.
The argument first classifies every step by what it does to the rows
(`RowStep`: kept, materialised, withdrawn, joined by a scheme, fired) and then
proves each conjunct over the five classes instead of over eleven actions.
Consequences: each invariant, the action properties `FiredRowsAreHistory` and
`StoppedClocksNeverFire`, `ReconcileReportsOnlyPaused`, and
`CaseClockImplementsLedger`, the refinement: each class of steps is a step of
`DeadlineLedger` or a stutter.
A second invariant is about time. A live clock's deadlines can be computed and it
started before it was paused (LiveClockOK), at most one instant expires a window
(OneExpiry), and a paused case's last event says what was left when the pause began
(RemainingKept). A pause takes its own ticks out of the calendar and no others
(UsableOutsidePause), so the deadline moves by exactly what it took
(PauseTakesNothing): `PausesAreNeutral`. `ReplayInv` adds that reading the events
so far yields the clock's pauses and the open one (EventsTell, by WalkAppends: an
event more is one more to read) and that nothing has settled a case whose clock is
not stopped (Unsettled): `ReplayAlwaysRestoresTheClock`.

**TransactionsProofs.** Of the audit chain, `AuditInv` = AuditTypeOK, LockInv (only
the lock's holder is between lock and end of transaction or has uncommitted rows),
OrderInv and ChainsInv (what any statement sees is a chain without gaps) and
HeadsInv (a head that was read is the last of what its transaction sees). LockInv
is the reason the others are inductive: without it another transaction could
extend the chain between a head and its record. Consequences: `ChainNeverForks`,
`ChainAlwaysIntact`, `HeadAlwaysCurrent`, and `AuditChainImplementsLog`.
Of a case's overlapping requests, `TxnInv`: requests that write hold the dispute's
row, so one writes at a time (OneWrites); a resume that has read the deadline holds
the clock's row, for which the sweep's claim waits, so what it read is current
(RowsReadAreCurrent); and unfired rows follow the stored pauses. Consequences:
`RowsAlwaysFollowPauses`, `FiredAlwaysStays`.

**BackgroundProofs.** `SweepInv`: the tenant row lets one worker claim (OneClaims), what
is claimed is unfired on a live clock (ClaimsAreLive), and the clock row keeps a
claim and a resolution apart (StopsExclude). A worker's commit is then `Fire` and a
request's `Halt` of `DeadlineLedger`: `ClaimsAlwaysHold`, `SweepFollowsTheLedger`.
Of attestation, `ChainInv`: records are numbered without gaps, a stored hash covers
the contents of its record and of every one before it except the altered one
(ChainHolds), and what a checkpoint signed was the head of the chain
(CheckpointsAreHeads). That the walk recomputes the contents in their order, each in
UTC, is an induction over the chain (`WalkCoversContents`); as hashing is injective, a
signed head is reproduced exactly when nothing it covers was altered or was hashed in
another offset: `CheckpointsAlwaysCatch`. `AnchorInv`: an anchor in two hands is raced
(HandsExclude), updates of one row exclude each other, what a pass has written keeps a
token the row has (UpdatesKeepTokens), and a stamped anchor that was not raced is in
nobody's hand (StampedAreLeftAlone): `StampsAlwaysStand`, for any number of overlapping
passes and any tokens.

**OutboundProofs.** `ReportInv` is in two parts. Whatever overlaps or dies, what is
recorded as sent was mailed. While nothing has overlapped and no pass has died, a
pass's copies are the stored rows (CopiesAreCurrent), a month has one row and the
mail is on record: `Quiet => Orderly`. `RepeatsNeedAnAccident` is its consequence; it
is not inductive alone, since a repeat comes from a stale copy read long before.
Consequences: `LastPeriodAlwaysMailed`, `RepeatsAlwaysNeedAnAccident`.
`WebhookInv`: a number still to be given by an enqueuer that was not overtaken is above
all that were (NumbersAreNew), an untried row is as it was enqueued (UntriedIsFresh),
and of two untried rows of an endpoint the earlier, if it was not raced, is posted first
(EarlierComesFirst). `FirstAttemptsAlwaysInOrder` has no hypothesis: any number of
transactions may enqueue at once, and passes die and rows are replayed as they will.

**RecordsProofs.** `RecordsInv`: a filed case never changes (CasesAreFixed), what a
writer is about to commit fits the stored key or is the first (KeysFit), nothing that
went through `seal` is plain while sealing was never off, and a hold that has stood
since a check began is on a case still to be read or was found (ChecksMissNothing).
Consequences: `SealedAlwaysUnderTheStoredKey`, `ShreddedAlwaysUnreadable`,
`OlderHoldsAlwaysBlock`. Of attachments and packs: what is shown as clean, or held by
a reader, was cleared once; each advocate's copy was stored once:
`OnlyClearedEverLeaves`, `PacksAlwaysWhole`.

**IntakeProofs.** `IntakeInv`: what a request has read stays true until it commits
(ReadsStayTrue), because cases keep their customer and contacts only grow
(CasesGrow): `StrangersAlwaysStayOut`, `RowsAlwaysTell`. `EffectsInv` adds that an
answer names rows and messages that were stored, and that the next number is one
no answer can have named: `KeysAlwaysHaveOneEffect`. Of deflection, that a
row and its record commit together, and a row that was there is neither inserted
nor recorded again: `DeflectionsAlwaysCounted`.

**OfficeProofs.** `PolicyInv`: versions are numbered without gaps, all but a seeded
first one have a record, and what an editor has read is either the version in force or
one that an overlap, which is noted, has replaced (ChangesExplain, RequestsFit):
`HistoryAlwaysExplains`, `RevertsAlwaysNeedAnOverlap`. `ImportInv`: what an import has
done accounts for the lines it has read: `BatchesAlwaysTellTheTruth`. `ReturnsInv`:
row for row, a return and a count under way say no more than the cases now do under
the template they began with, since casework and filing take no case from a source
that grows: `NoReturnOverstates`. `QualityInv`: a case that must be reviewed stays on
a pass's list of what is still to be read (CriteriaInOrder, DueIsKept), because
casework takes back nothing that forces a review but a reopening:
`ForcedCasesAreAlwaysReviewed`. `ExposureInv`: what each query has answered has every
case open since the first and none that was never open; an age lies in one band and in
no two (EveryAgeHasABand, NoAgeHasTwoBands), of the one `now` all bands are read
against, and a sum over parts is the sum over the whole: `FiguresAlwaysAddUp`.
`AdviceInv`: who is deciding holds the suggestion's row, and all others are up to
date: `RowsAlwaysShowTheLastDecision`.

Of the deadline arithmetic, `WalkInv` only says that there are a calendar, a start and
pauses; the argument is about the loops. Each is a fold, first written as the values it
has after each turn (SpendTrace, CutTrace, MergeTrace, VisitTrace and others, all from
`FoldExists`), over which an invariant of the loop is then carried:

* after the first pauses in order, the merged spans cover what those pauses do
  (MergedSoFar): `NormaliseCovers`;
* up to the cursor of `_subtract`, the parts of a segment are its ticks outside the
  pauses read (CutSoFar), so the parts of all segments are the open ticks outside the
  pauses: `SubtractLeaves`, `PartsLeave`;
* while `compute_deadline` has no answer, what remains is the window less the ticks of
  the parts it has read (`SpendReaches`), and `business_time_between` adds up the ticks
  of the segments clipped at the end (`ClippedAtEnd`, `LengthsAddUp`);
* local days follow each other without gap or overlap whatever the clocks do
  (`DaysInOrder`), an instant is inside a day's span exactly between the first
  showings of the opening and the closing hour (`TheHourHasCome`,
  `SegmentIsOpenTicks`), which is when the wall clock shows an open hour unless one
  lies inside the change (`WallHour`, `OpenAsShown`), and the spans of the first days
  are the open ticks of those days unless the walk has given up (VisitedSoFar):
  `SegmentsAreOpenTicks`.

Together, what the walk leaves is what `BusinessTicks` calls usable (`PartsAreUsable`,
`UsableTicks`): `DeadlineIsTheExpiry` and `FractionIsFullOnTime`, for every calendar,
horizon, start, window and list of pauses. They are theorems of `WalkSpec(calendars)`,
whose instants and pauses are any; the run bounds them.

**Inductions.** The library states induction with an operator for the formula, which
these provers cannot instantiate. `NumberInduction` and `FiniteInduction` have a set
of numbers, or a family of subsets, in its place, and rest on WFMin, that a
well-founded relation has minimal elements. The laws of sums follow (SumIsFold:
a sum is the fold the library defines, in whatever order; SumWith, SumOfUnion,
SumOfParts).

Only model-checked: liveness (DueRowsFire, DueIsFired, EveryRecordIsAttested,
OwedMonthsSettle, QueuedEventsSettle), which with ENABLED is out of TLAPS's reach. Every
other property of a passing run is a theorem. The properties of the violated runs are
false.

## What is not modelled

* Sessions and API keys: one token compared with one row and the clock.
* The tenant context as a variable that is set and reset around a call; what row
  level security shows is in `AttachmentScans`.
* Connectors, response templates: no caller in src that a property could relate.
* Signals, clustering, grounding and the copilot, whose rows or text nothing
  decides by; a review's score, answer and scorecard; assignment; correspondence of
  an external track; the retention sweep, which changes nothing; the sweep's
  heartbeat.
* Analytics, whose totals are single queries over committed rows.
* Text, serialisation, permissions, pagination, PDF and e-mail layout, parsing of
  channel payloads.
* Several mass events or representments of one case; several tenants, which share
  only `for_each_tenant`.
* Generated migrations, management commands, browser clients, deployment; the beat
  schedule, ATOMIC_REQUESTS, constraints and row level security are taken from them.
