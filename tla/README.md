# Formal model of the content assurance service

This directory holds TLA+ modules that model `src/assurance`, TLC
configurations that model-check them on small instances, and theorems about
them that TLAPS checks for every value of the constants. The code is the
reference; line numbers of every definition are in `PROJECT.json` under `map`.

## 1. The system

The service assesses content before it is released. Somebody submits a version
of an asset under a brief; a run is scheduled that freezes the sources and the
policy the brief names; the brief's owner approves the run's scope; a worker
evaluates it; reviewers judge it, which produces snapshots; the owner approves
the ready head snapshot and releases it. All state is in one SQLite database
shared by API processes, worker processes and the command line. Every mutation
is one `BEGIN IMMEDIATE` transaction (`db.py` `Database.write`), so processes
interleave between transactions and never inside one; what a process keeps in
memory between two of its transactions can be out of date.

| Component | Source | State it keeps | Operations | Model |
|---|---|---|---|---|
| Governed resources | `service.py` 50-83, 498-583 | `resources`, `resource_heads` | `put_resource`, `resource_decision` | `Assurance` |
| Versions and scheduling | `service.py` 103-216, 585-731, 1072-1077 | `assets`, `versions`, `runs`, `dependencies` | `submit`, `reassess`, `schedule`, `fresh`, `invalidate_dependents` | `Assurance` |
| Run and job queue, worker | `worker.py`, worker loop of `cli.py` | `jobs`, `machine_results`, the worker's own copies | `refresh_stale`, `claim`, `renew`, `finish`, crash | `JobQueue` (detail), `Assurance` (what it means for a run) |
| Decisions and snapshots | `service.py` 236-491, 733-921 | `decisions`, `evidence`, `snapshots` | `scope`, `add_evidence`, `review`, `specialist`, `assemble_snapshot` | `Snapshot` (how a verdict is computed), `Evidence` (what reviewers read and cite), `Assurance` (what it means for release) |
| Approval and release | `service.py` 923-1070, 1110-1165 | `approvals`, `releases`, `assets.released_id` | `approve`, `release`, `get_run` | `Assurance` |
| Principals | `auth.py`, `user-revoke` of `cli.py` | `principals` | provision, authenticate, revoke | `Assurance`, partly |
| Rubric | `rubric.py` | none | `calculate` | `Rubric`, `RubricInputs` |
| Intake | `service.py` 619-680, clients | `idempotency`, `versions` | `submit` with its retries and refusals | `Intake`, abstractly `EditHistory` |
| Audit log | `db.py` 97-138, `api.py` 297-309 | `events` | `audit`, `check_audit`, polling | `AuditLog` |
| Checkers and plan | `checkers.py` | none | `plan_examinations`, `evaluate` | `Evaluation` (errors, claims, outcomes), `Snapshot` (which examinations there can be) |
| Providers | `providers.py` | none | two requests to a model, validation of the answers | `Evaluation` |
| Settings | `settings.py` | what a process was started with | a restart | evaluator in `Assurance`, attempts in `JobQueue`, provider and consent in `Evaluation` |
| Extraction | `extraction.py` | none | parsing of documents | not modelled |
| API, schemas, demo | `api.py`, `schemas.py`, ... | none of its own | routes | the asset view, the event page, clients that repeat requests |

How they interact: there are no calls between processes. They meet in the
rows. A resource decision reschedules the runs of all dependent assets, which
cancels jobs that workers may be evaluating and withdraws release pointers; a
worker's `finish` re-judges freshness because any of that may have happened;
a client that got no answer sends its request again; the clock makes a source
expire with nothing written at all, which views, approval and release judge on
reading and a worker's refresh later turns into a new run.

What is hard, and so what the properties are about:

* a decision by one person and a governance change, edit, revocation or expiry
  by another, in every order (`ReleasedInForce`, `CurrentRunSeesHeads`,
  `VisibleReleaseGoverned`, `DeadApprovalStaysDead`, `ImplementsReleaseGate`);
* two pieces of code that must agree: the run view and `release`
  (`EligibleIffReleasable`), a replayed release request and the release pointer
  (`ReplayStillReleased`), the run row and the job row (`RunJobAgree`);
* leases: a stamp read before the write lock, late and duplicated work, crashes,
  a heartbeat that dies (`SingleHolder`, `ResultFromLastClaim`,
  `HeartbeatKeepsLease`, `ClosedJobFinal`);
* a verdict recomputed from a log of judgements that several people make in any
  order (`ReadinessIsEarned`, `ReplayIsIncremental`, `ImplementsReadiness`), and exact arithmetic
  with gaps and exclusions (`BoundsEnclose`, `ReadyIffRequirements`,
  `ImprovementNeverStepsBack`); that what a snapshot gives as its reasons agrees with its
  readiness (`ReasonsExplainSnapshot`) is a check of one calculation, in straight-line code;
* reviewers who act on what they read earlier, in runs that look alike, citing
  what others recorded (`AmendsWhatWasRead`, `FactualRatingsGoverned`,
  `RecordTraceable`);
* requests that are lost, repeated, late, or race with somebody else's edit
  (`AnswersTrue`, `ImplementsEditHistory`, `OneChainPerAsset`, `EveryEditAnswered`);
* one table of events shared by all tenants, written by transactions that roll
  back, read by clients behind cursors, and possibly tampered with from outside
  (`ChainHolds`, `KeptHashVouches`, `CopyIsPrefix`, `FollowersCatchUp`);
* two requests to a model that fail, lie or leave something out, sent by a
  process whose settings are not those the run was frozen under
  (`ConsentWhenTogether`, `MechanicalResultsKept`, `PassRestsOnQuotes`,
  `TransmissionsBounded`);
* progress: an approved scope is worked off in spite of crashes
  (`ScopedRunSettles`), a stale run is replaced (`StaleRunReplaced`), but not for
  ever (`ReschedulingSettles`).

`PROJECT.json` lists these hazards at their lines. Each names the properties that
would catch it; where what can be said is weaker than the hazard, a note says so.

## 2. The modules

| Module | What it is |
|---|---|
| `RunLifecycle` | Abstract specification: what is promised of the states of an asset's runs. |
| `ReleaseGate` | Abstract specification: what is promised of a release, whoever asks for it. |
| `Readiness` | Abstract specification: what may be relied on of the snapshots of a run. |
| `Assurance` | The release control: resources, versions, runs, snapshots, approvals, releases, revocation, expiry, restarts. |
| `JobQueue` | The lease protocol of the workers, in time. |
| `Rubric` | The scoring rule `calculate` as operators on its arguments. |
| `RubricInputs` | The rule over a set of arguments, improved one judgement at a time. |
| `Snapshot` | One run's machine results, decision log and head snapshot; extends `Rubric`. |
| `Evidence` | Reviewers who read and decide in the runs of one asset while its sources change. |
| `EditHistory` | Abstract specification: what intake promises to the authors of edits. |
| `Intake` | `submit` over an unreliable network: idempotency table, version chain, runs. |
| `AuditLog` | The event table: hash chains, transactions, followers with cursors, tampering. |
| `Evaluation` | A worker's turn with a model provider: consent, requests, validation, results. |
| `MCAssurance`, `MCJobQueue`, `MCRubric`, `MCSnapshot`, `MCEvidence`, `MCIntake`, `MCAuditLog`, `MCEvaluation` | Values of the constants for TLC. |
| `Assurance_proofs` | Theorems: types, current runs and governance, the release pointer, replays, visible releases, dead approvals, eligibility, rescheduling, the refinements of `RunLifecycle`, `ReleaseGate` and, for each run, `Readiness`. |
| `JobQueue_proofs` | Theorems: types, run and job, claims, closed jobs, leases under a beat, the refinement of `RunLifecycle`. |
| `Rubric_proofs` | Theorems: the route and its requirements, the bounds, improvements; the sums of the rule. |
| `Snapshot_proofs` | Theorems: earned readiness, complete reasons, the replay and each new decision, the refinement of `Readiness`; extends `Rubric_proofs`. |
| `Evidence_proofs` | Theorems: governed facts, the record, decisions that amend what was read. |
| `Intake_proofs` | Theorems: types, version chains, true answers, the refinement of `EditHistory`. |
| `AuditLog_proofs` | Theorems: chains, tampering, what followers hold. |
| `Evaluation_proofs` | Theorems: consent, quotes, mechanical outcomes, requests per attempt, the refinement of `RunLifecycle`. |

### Assurance

Variables are tables or columns: `heads` is `resource_heads` joined with the
version it names; `versions`, `runs`, `approvals` and `releases` are tables, with
rows numbered instead of carrying a uuid; `latest`, `current` and `released` are
the pointers of `assets`; `active` is `principals.active`; `evaluator` is the
fingerprint the API and the worker were started with; `now` is the clock. A run
holds what its configuration froze, its state, its snapshots and the head.

| Action | Code |
|---|---|
| `PutResource`, `ResourceDecision` | `put_resource`, `resource_decision`, each with `invalidate_dependents` in the same step |
| `Submit`, `Reassess` | `submit` (its effect; the request and its repetitions are module `Intake`), `reassess`, with `schedule` |
| `Scope`, `Review`, `Specialist`, `Approve` | the decisions of the same name, on any run and snapshot a request may name, with `require_current` and `_exact_snapshot` as guards |
| `ReleaseContent` | `release`, for a new release; a repeated request changes nothing |
| `RefreshStale`, `Claim`, `Exhaust`, `FinishDiscard`, `FinishRetry`, `FinishResult` | `worker.py`, one run at a time and without leases |
| `UserRevoke`, `Redeploy`, `Tick` | `user-revoke`, a restart with another evaluator, time |

Payloads are reduced to what `resource_valid` reads. A snapshot is reduced to
`ready`, and to what readiness depends on: whether a review has judged it and
whether a specialist has since. The rubric's verdict is a free choice within
that. An asset belongs to one tenant, every query filters by it, and tenants
share nothing the properties speak of, so the model is of one tenant.
`create_brief` only adds immutable rows; briefs are a constant. The keys a brief
names must exist when it is created, so they do initially.

### JobQueue

A job and its run are one record, since `jobs.run_id` is unique. `limit` is the
`CAS_JOB_ATTEMPTS` a worker process was started with, and may be another after a
crash; `born` ranks the creation times by which `claim` picks the oldest job. Time is
relative: a lease or delay is what is left of it, counted down by `Tick` and
not below `-LockWait`, past which no comparison tells values apart. `age` is how
old the stamp is that `claim` read before it waited for the write lock; no
waiting is longer than `LockWait`, after which SQLite raises and the worker dies
(`Crash`). `attempts` grows at every claim, so the attempt stands for the random
token. A worker is at `refresh`, `stamp`, `claim` or `work`; its heartbeat has its
own clock, `beat`, and its own failure (`HeartbeatDies`). Freshness is reduced to
being current, not stale, and not `lapsed` (expired or re-evaluated, with nothing
written); that every other cause of staleness schedules a new run is what
`CurrentRunSeesHeads` shows of `Assurance`. A renewal by a heartbeat thread that
outlives its turn is left out: the turn's end has cleared the token or the lease
is over, so it changes nothing.

### Rubric and RubricInputs

`calculate` is a pure function; its keyword arguments are the fields of one record.
Fractions become integers over the common denominator `Scale(x)`: a dimension has at
most four criteria (`DimensionAssumption`), so 12 is a multiple of every size. The invalid inputs
and reasons are kinds, without the criterion or gate they name; `low`, `point` and the
other intermediate values are operators of their own, and the displayed, rounded
fields are left out. A count that is not an integer stands with the negative ones,
as both are invalid. `RubricInputs` starts from a set of arguments (`Started`) and improves
them (`Improve`):
`Rate`, `PassGate`, `CloseFinding`, `Examine`, `CheckCritical`, `Obtain`, each an effect that a
decision has on the arguments `assemble_snapshot` passes.

### Snapshot

`decisions` is the table in rowid order, `machine` the stored result, `head` the payload
of the head snapshot. `Scope`, `FinishResult`, `Review` and `Specialist` are the four
transactions that write them; `AssembleSnapshot` is the whole of
`assemble_snapshot`: `Base`, the recursive function `Replay` that takes the log through `Apply`
(which overwrites what a decision names, `Updated` and `Rerated`), `Checks`, `ScoreInput`
into `Rubric`, `Verdict` and `SnapshotReasons`. The run stays current, since everything that
makes it stale is in `Assurance`. `context` is the frozen configuration: profile, tier, excluded
criteria, specialist requirements, and whether extraction, modalities, sources and
policy are in order. Evidence is always there for a pass, a fail and a rating
(`schemas.py` requires it of people, `checkers.py` and `providers.py` of the machine), so it is not a field;
what the evidence has to be is module `Evidence`.
All modality gaps share one examination, and a finding is a severity and whether it is open.

### Evidence

One asset, its runs and the sources its brief names. A run freezes which revision of
a source it saw and whether that was valid; `evidence` and `findings` are the
tables, `desk[r]` is the run and the snapshot that reviewer `r` has read, which is what a
request of theirs names in `expected_snapshot_id`. `GetRun` may read a replaced run: two
runs of an asset can read the same. `AddEvidence`, `Review` and `Specialist` are
`add_evidence`, `review` and `specialist` with `require_current`, `_exact_snapshot`, the
rules about exclusions, cited evidence, quotes of sources, related and resolved findings
and critical ones; `PutResource`, `ResourceDecision`, `Expire`, `Reassess` and `FinishResult` are
what other people and workers do to the same rows, in detail in `Assurance`. Each rating of
a review cites evidence of its own (`cites`); what its finding and its resolutions cite is
one set (`noted`), as no rule tells them apart. That a quote is in the source's text is left to `add_evidence`, which refuses it otherwise.

### Intake and EditHistory

A client looks at an asset, settles on an edit and a key, sends, and sends again
while it waits; `net` counts the copies under way, which arrive in any order, after
their author was told, gave up or was revoked. `Save`, `Replay`, `Refuse` and `Deny` are the
outcomes of `submit`, each one transaction; `Answered` delivers or loses the answer; `Fail`
loses the request or kills the transaction, of which `Rollback` leaves nothing. The
request stands for its hash. Whatever the brief, the size limit or an exclusion
refuses is one set of contents, `Unacceptable`. The code refuses some of it (size, schema) before it
looks the key up, the rest after; `Refuse` looks the key up first. That matters to nobody: a content
that is refused either way has no row under any key, and a request with another's key
is told no in either order. The set is empty in the run, so such refusals are left to the
theorems, which hold for any set. `EditHistory` knows neither keys in a table, copies
nor runs: an edit that was asked for takes effect at most once, on the newest version and
on the one its author had in hand, and never once its author was told no.

### AuditLog

`events` is the table, a set of rows that `seq` orders, and `txn` the open write transaction, of which
there is one at a time. A hash is the sequence of all it is computed from, back to the first
row of the chain, so different rows have different hashes.
`log` is history: what was committed for a tenant. `Poll` is `GET /v1/events`
with the page size clamped as in `api.py`; the client keeps page and cursor together.
`sequence` is the `AUTOINCREMENT` counter, which gives no number twice. `Alter`, `Delete` and
`Reseal` are somebody with the file and without the service, whose triggers can be dropped:
any row of any tenant, the newest too, may get another payload, disappear, or have its link
and hash computed again from what the table then holds. The service goes on appending to
whatever it finds.

What a hash chain without a key can show is limited, and `KeptHashVouches` says where the limit is.
If a chain checks and a row in it has a hash that the service committed, everything before
that row, and the row itself, is what was committed. Behind that row it shows nothing: the
last rows may be gone, and rows may be others with hashes that were computed again. Nobody
who looks at the table alone notices either; `check_audit` cannot, and no property here
claims it. It takes a hash kept elsewhere, and `docs/operations.md` says that the chain does not replace external
retention; the newest kept hash decides how much is vouched for. A row's number is
not hashed and so not vouched for at all; the chain's order is.

### Evaluation

One asset, an API and one worker with settings of their own. The worker's turn is
`RefreshStale`, `Claim`, the two requests of `evaluate` (`Extract`, `Compare`, or the fixture's), and
`finish`; somebody may submit, approve a scope or restart a process between any two.
The lists in an answer are sequences. The first answer is any of a set of extractions, among
them some that review an item twice or not at all, give two claims one identifier or an
empty one, or claim something of an item that is not there. The second is any list of up to
`MaxComparisons` comparisons, of any claims, repeated ones and ones that nobody made included, with any outcome and
quotes; `ById` takes the last of several comparisons of a claim, as `by_id` would if the
validation let them through. What is stored of valid answers is without the order of
its lists, on which nothing depends. The fixture's answers are right by construction; which
items are blank, and so get no claim, is left open. A failure is transient, permanent, or one that `request()` does not
name (`"odd"`). `sent` counts the requests of a run and `together` remembers whether API and worker
have always had one provider. Leases and several workers are in `JobQueue`.

### How they fit

`Assurance` leaves the verdict of a snapshot free but for three facts: a ready snapshot has a
governed context, a review behind it, and the specialist's word after the last
review where the brief asks for it. These, and who may take a snapshot to the next, are the
specification `Readiness`. `Snapshot`, where the verdict is computed, implements it
(`ImplementsReadiness`, which the run checks and a theorem proves); every run in `Assurance`
does too (`ServiceImplementsReadiness`, a theorem only, since TLC takes no refinement with
parameters). In `Snapshot` a specialist is demanded by the brief's requirements or its High
tier, in `Assurance` by the requirements (`SpecialistBriefs`); `create_brief` refuses a High
brief without any, so of the briefs there are the two say the same. `ReadinessIsEarned` says more of the
verdict than the interface needs. `Evidence` makes each snapshot from the one
before and the last decision; that the code's replay of the whole log amounts to
this is `ReplayIsIncremental` of `Snapshot`. All are theorems, so what these two models take for
granted holds of every log, not only of the short ones that TLC replays.

`Assurance`, `JobQueue` and `Evaluation` implement `RunLifecycle` under the obvious
mapping: a run awaits scope, is queued, processed, retried, and ends completed or failed; a
newer run makes it stale for good; one transaction does one or the other. That is the
interface by which the three agree on what a worker does to a run. For the first two a run
checks it (`ImplementsLifecycle`), for the third there is the theorem alone.

`Assurance` also implements `ReleaseGate` (`ImplementsReleaseGate`), which says in seven
actions what a release means. It knows no runs, snapshots, revisions or clocks, only three sets:
the assets whose present content is assessed to be ready (in `Assurance`: the current run is
completed and its head ready), those whose owner approves that assessment (an
approval of theirs stands), those released on it (`released_id` is set). A judgment, new
content, a reassessment and a revocation each take down the rungs above what they change, in
the same step; an asset gets back up only by a new approval and a new release. That a
snapshot is `Judge`, that every resource change, refresh and request for a new run is
`Reassess` of exactly the assets it concerns, and that expiry and restarts change none of
the three sets, is what the refinement shows; what they do to what a reader sees is
`VisibleReleaseGoverned` and `EligibleIffReleasable`.

## 3. What the runs check

| Run | Instance | Properties |
|---|---|---|
| `owner` | one asset, two briefs with different owners, one of them with specialist requirements; three snapshots, two approvals; revocation | `TypeOK`, `ReleasedInForce`, `ReplayStillReleased`, `CurrentRunSeesHeads`, `DeadApprovalStaysDead`, `ImplementsLifecycle`, `ImplementsReleaseGate` |
| `expiry` | one asset, a source that may expire at the clock's step, two evaluators and two restarts, with fairness | `VisibleReleaseGoverned`, `EligibleIffReleasable`, `ReschedulingSettles`, `StaleRunReplaced` |
| `queue` | one asset with two runs, two workers, three attempts, a lease of 4, a beat and a lock wait of 1, with fairness | `SingleHolder`, `RunJobAgree`, `ResultFromLastClaim`, `HeartbeatKeepsLease`, `ClosedJobFinal`, `ImplementsLifecycle`, `ScopedRunSettles` |
| `rubric` | three criteria in two dimensions, every mix of ratings, gaps and exclusions under two profiles and two tiers; and for one criterion every mix of nine sets of counts and set-ups, eight ratings, gates, findings, names and flags | `BoundsEnclose`, `ReadyIffRequirements`, `ImprovementNeverStepsBack` |
| `snapshot` | eight contexts (all tiers, exclusion, specialist, gaps, invalid ones), scope and two decisions of nine payloads by an owner and a specialist | `ReadinessIsEarned`, `ReasonsExplainSnapshot`, `ReplayIsIncremental`, `ImplementsReadiness` |
| `evidence` | two sources, two runs, two reviewers, a piece of evidence, two decisions that rate, raise and resolve | `FactualRatingsGoverned`, `RecordTraceable`, `AmendsWhatWasRead` |
| `intake` | two clients of two principals, two keys, three edits; one fault, one reassessment; with fairness | `AnswersTrue`, `OneChainPerAsset`, `ImplementsEditHistory`, `EveryEditAnswered` |
| `audit` | two tenants, batches of up to two while there are less than two events, a client with pages of one and two; a page lost, two statements that alter, remove or reseal a row; with fairness | `ChainHolds`, `KeptHashVouches`, `CopyIsPrefix`, `FollowersCatchUp` |
| `evaluation` | one item with up to two claims, one mechanical check, three versions, ten extractions, answers of up to two comparisons, two runs, two attempts, two restarts | `ConsentWhenTogether`, `MechanicalResultsKept`, `PassRestsOnQuotes`, `TransmissionsBounded` |
| `queue_lowered` | as `queue`, smaller, with a worker restarted with fewer attempts | `TransientFailureRetried`, violated |
| `eval_apart` | API and worker with settings of their own, no restart | `TransmittedWithConsent`, violated |
| `eval_shape` | an answer of a shape `request()` does not expect | `MechanicalResultsKept`, violated |

The first nine hold; the last three refute what the documentation says, see below.
Each property of the nine has a mutant of the code in the same module, an operator
`Definition_Variant` that breaks it as a plausible bug would; the run then finds
the violation, which shows that the instance reaches the case.

**Findings.**

* `queue_lowered`: `docs/operations.md` says that transient failures are retried and that
  exhausted jobs visibly fail. A job put back into the queue is selected only while
  `attempts < max_attempts` (`worker.py` 48), and the sweep of exhausted jobs looks at
  running ones only (`worker.py` 32). If `CAS_JOB_ATTEMPTS` is lowered to what such a job has
  used, it is neither retried nor failed. With one limit for all workers, always, it settles
  (`ScopedRunSettles`).
* `eval_apart`: `docs/models.md` asks for the brief's permission before content goes to a chat
  model. `evaluate` asks for it only if the run was frozen for a chat provider
  (`checkers.py` 324) and then uses the worker's own. While API and worker differ, a run
  that is scheduled between a worker's refresh and its claim is sent without it.
  With processes restarted together it never is (`ConsentWhenTogether`).
* `eval_shape`: `docs/operations.md` says that mechanical results remain available when the model
  fails for good. An answer whose choice or message is null raises an
  `AttributeError`, which `request()` does not name (`providers.py` 166); the worker counts
  it as transient and stores every examination as unknown. For the failures it
  names, `MechanicalResultsKept` holds.

One more remark belongs here although no document is contradicted: freshness is judged by
the evaluator a process has now, and nothing is recorded when it changes. An evaluator
that is changed and changed back before any refresh makes a run, its approval and its
release count again. `EligibleIffReleasable` and `VisibleReleaseGoverned` hold through it.

**Bounds.** `MaxRev` bounds resource revisions, `MaxRuns` the runs an API call may
schedule, `MaxSnaps`, `MaxApprovals`, `MaxDeploys` and `MaxTime` the rest. They
allow each hazard its shortest scenario and one step more: a second approval and
release of one snapshot, a second snapshot after the release, a second run after
a reassessment, a restart there and back. `RunCap` bounds the refresh's own runs;
`ReschedulingSettles` shows it is never reached, so it hides nothing. The instances have
one asset; that a decision on a source reaches every asset that rests on it, and no
other, is proved (section 4). In `JobQueue`, `Lapse` is bounded by `MaxRuns` so
that the refresh that answers it always has a run left, and `MaxDelay` is 2 for
the code's 30 s, which only shortens waiting. More workers, more assets and workers with
different limits are covered by the theorems.

The scoring inputs are the weights and floors of `rubric-1.0.json`: enough criteria for a
dimension that is excluded whole, one rated in part and one exactly at its floor, and each kind
of invalid input, both sides of each count comparison, and a gate that is waived, failed or
without evidence. In `snapshot`, `MaxDecisions` bounds the log; readiness is reached in every
tier, with and without a specialist, with a failed machine check that was re-judged and
closed, with a waived gate, and after a critical finding was raised and closed.

In `evidence` the two reviewers are both specialists (who may close a critical finding is
in `snapshot` and in the theorems); two runs are what it takes to mistake one for
another, two sources to quote the wrong one. In `intake` three edits are the least with a creation, an
edit on it and a rival; a client that restarts and takes a used key stands for
another program of its principal. In `audit` up to three events suffice for a batch beside another
tenant's row and for a page that ends inside it, and two statements for a row that is altered
and then sealed again. In `evaluation` two claims make an item
whose answers disagree, two comparisons of a single claim an answer that contradicts itself, and two restarts take a setting there and back.

Counters exhausted by a bound leave no step, so only `queue` checks deadlock: there every
state has a step.

**Symmetry.** Only `evidence` uses it: its reviewers have the same roles, and no
constant and no `CHOOSE` tells them apart.

**Fairness.** `expiry` assumes weak fairness of `RefreshStale` alone: every turn
of the worker's loop begins with it. `queue` assumes that time passes, that a
supervised worker keeps turning and that an evaluation that is not interrupted
ends and renews its lease when the beat is due (weak fairness), and strong
fairness of reading the stamp and of claiming: a worker may crash without end but
not always just before or at its claim. `intake` assumes that a client that waits keeps sending and
that the service handles what arrives; `audit` that a client keeps polling and its pages arrive,
for losses are bounded. Nothing is assumed of people: no fairness for scopes, reviews,
approvals, releases or edits; and none in the other runs.

**A timing condition.** `HeartbeatKeepsLease` holds when
`LockWait + Beat + LockWait < Lease` (a late grant, a beat, a late renewal); with a
lease of 4, a beat of 2 and a wait of 1 TLC refutes it. The beat is a third of
the lease and the busy timeout 15 s, so it takes a lease of more than 45 s to
make it certain that a slow evaluation is never repeated under lock contention;
`Settings.validate` asks only for a lease of at least a second. Losing the lease
costs a repeated evaluation, never a wrong result: `SingleHolder` and
`ResultFromLastClaim` do not depend on the condition, as their theorems show.

## 4. What is proved

Every safety invariant, every action property and every refinement that a passing
run checks is also a theorem: for any sets of assets, briefs, resources, workers,
reviewers, clients, tenants and so on, any rubric, and any values of the bounds. The theorems
assume what the modules declare about their constants:

* `Assurance`: `OwnerAssumption`, `NeedsAssumption`, `AdminsAssumption`, `PayloadsAssumption` (types) and
  `BoundsAssumption` (three of the bounds are numbers);
* `JobQueue`: `TimingAssumption` (attempts and times are numbers of the right sign, no
  relation between them), `BoundAssumption` (finitely many assets, a number of runs);
* `Rubric`: `DimensionAssumption` (finitely many criteria, at most four in a dimension),
  `ProfilesAssumption` (positive weights, and the profile that is the default),
  `TiersAssumption` (floors are percentages, and the tier that is the default), `GatesAssumption` (the two
  gates the code names, and at least one other), `NoneAssumption` (no rating is not a number);
  `InputsAssumption` of `RubricInputs` says that what the system starts from has the type of the arguments;
* `Snapshot`: `ReviewsAssumption` (types; no review judges R1 or R7, which `schemas.py` refuses),
  `PlanAssumption` (no criterion has the name of the specialist's examination),
  `NoResultAssumption` (no result is not a result);
* `Evidence`, `Intake`, `AuditLog`: `ConstantsAssumption` (types and number bounds) and the
  `NoneAssumption` of the last two, that `None` is not a row, transaction or page;
* `Evaluation`: `VersionsAssumption`, `FailuresAssumption`, `AttemptsAssumption` (types),
  `ExaminationsAssumption` (an examination is either mechanical or the model's),
  `ItemsAssumption` and `ExtractionsAssumption` (finitely many items; claims come in a list).

TLC evaluates all of them on the instances. Two theorems have a hypothesis more:
`BeatingWorkerHolds` the timing condition of section 3, without which TLC refutes it,
and `MechanicalOutcomesKept` that no answer has the shape of the finding `eval_shape`
(`"odd" \notin Failures`), which is the only thing that refutes it.

| Module | Theorem | States |
|---|---|---|
| `Assurance_proofs` | `TypeCorrect` | `[]TypeOK` |
| | `GovernanceReachesRuns` | `[]CurrentRunSeesHeads` |
| | `ReleaseStaysInForce` | `[]ReleasedInForce` |
| | `ReplayIsTruthful` | `[]ReplayStillReleased` |
| | `VisibleReleaseIsGoverned` | `[]VisibleReleaseGoverned` |
| | `ApprovalDiesOnce` | `DeadApprovalStaysDead` |
| | `EligibleMeansReleasable` | `[]EligibleIffReleasable` |
| | `RefreshSettles` | `[]ReschedulingSettles` |
| | `ServiceImplementsLifecycle` | `ImplementsLifecycle` |
| | `ServiceImplementsReleaseGate` | `ImplementsReleaseGate` |
| | `LadderHolds` | `[]Gate!Ladder`: no rung of `ReleaseGate` without the one below |
| | `ServiceImplementsReadiness` | `Judged(a, n)!Spec` for every run, the refinement of `Readiness` |
| `JobQueue_proofs` | `TypeCorrect` | `[]TypeOK` |
| | `RunsAgree` | `[]RunJobAgree` |
| | `OneHolder` | `[]SingleHolder` |
| | `ResultsFromLastClaim` | `[]ResultFromLastClaim` |
| | `BeatingWorkerHolds` | `[]HeartbeatKeepsLease`, under the timing condition |
| | `ClosedJobsStay` | `ClosedJobFinal` |
| | `QueueImplementsLifecycle` | `ImplementsLifecycle` |
| `Rubric_proofs` | `ReadyOnlyWhenRequired` | `[]ReadyIffRequirements` |
| | `BoundsAreTight` | `[]BoundsEnclose` |
| | `ImprovementMovesForward` | `ImprovementNeverStepsBack` |
| `Snapshot_proofs` | `ReadyIsEarned` | `[]ReadinessIsEarned` |
| | `ReasonsAreComplete` | `[]ReasonsExplainSnapshot` |
| | `DecisionsAmend` | `ReplayIsIncremental` |
| | `SnapshotImplementsReadiness` | `ImplementsReadiness` |
| `Evidence_proofs` | `FactsStayGoverned` | `[]FactualRatingsGoverned` |
| | `RecordStaysTraceable` | `[]RecordTraceable` |
| | `NobodyOverruledUnseen` | `[]AmendsWhatWasRead` |
| `Intake_proofs` | `IntakeTyped` | `[]TypeOK` |
| | `OneChainAlways` | `[]OneChainPerAsset` |
| | `ToldTheTruth` | `[]AnswersTrue` |
| | `IntakeImplementsEditHistory` | `ImplementsEditHistory` |
| `AuditLog_proofs` | `ChainAlwaysHolds` | `[]ChainHolds` |
| | `CommittedHashVouches` | `[]KeptHashVouches` |
| | `FollowersHavePrefix` | `[]CopyIsPrefix` |
| `Evaluation_proofs` | `Consent` | `[]ConsentWhenTogether` |
| | `PassedOnQuotes` | `[]PassRestsOnQuotes` |
| | `MechanicalOutcomesKept` | `[]MechanicalResultsKept`, without odd failures |
| | `SentAtMostTwicePerAttempt` | `[]TransmissionsBounded` |
| | `EvaluationImplementsLifecycle` | `Lifecycle!Spec`, the refinement of `RunLifecycle` |

**Assurance.** `Steps` reduces the actions to seven kinds: a `ScheduleStep`
moves heads or versions and reschedules what they affect; a `StateStep` moves a
current run between states that are not completed; a `SnapshotStep` gives a current
run its next snapshot and takes its asset's release; `ApproveStep`, `ReleaseAction`,
`RevokeStep`; and an `IdleStep` moves only the clock or a configuration. That resource
actions are of the first kind needs `CurrentRunSeesHeads`: an asset that does not
depend on a key is not touched by it. Each kind then keeps each part of the
invariant.

The first invariant is `Indexed /\ CurrentRunSeesHeads`: `TypeOK`, and
that `latest` and `current` point to the last version and run. `IInv` adds

* `ApprovalsFounded`, `ReleasesFounded`: an approval names a snapshot of a run of its
  asset and was given by that brief's owner; a release cites an approval of its
  actor. Without them a revocation could not be shown to reach the releases of
  the revoked owner, which the code finds through the approval;
* `PointersFounded`: `ReleasedInForce` with the ranges of the pointers it follows;
* `ReadyGoverned`: a ready snapshot has a governed run, needed for what is visible;
* `UsedStandingReleased`: an approval that stands and was used has its asset released.

`StepSurvives` is the heart of `ReplayIsTruthful` and `ApprovalDiesOnce`: an approval that
stands after a step stood before it, and the step has not withdrawn its asset's release.

`EligibleMeansReleasable` adds `RunsPhased` (a run that is not done has no snapshot, and a run with a
ready one is completed or superseded) and `ApprovalsAccurate` (an approval names the version of its
run and somebody who may approve): `get_run` looks at the run, `release` at the approval,
and these are what each leaves out. `RefreshSettles` counts: an asset has at most
`MaxRuns + now + deploys` runs, and one `Spare` while the run is one that the worker would
keep. A refresh that schedules a run finds no spare and leaves one; whatever takes the
spare away adds to the bound. `ServiceImplementsLifecycle` maps each kind of step.

`ServiceImplementsReleaseGate` maps them once more, to the actions of `ReleaseGate`: a
`ScheduleStep` to `Reassess` of the assets that get a run, or to `Submit` if there is a new version
(`SubmitSchedules`), a `StateStep` and an `IdleStep` to a stutter, a `SnapshotStep` to `Judge`, the
other three to their namesakes. `IInv` is enough for it: an approval that stands is of the owner
of the current run's brief (`StandingIsOwners`), so a revocation takes down the assets of the
revoked owner and no others, and that the current run is of the latest version gives the owner
that `Approve` asks for. That an asset with a standing approval is ready is no part of `IInv`. It
is `Ladder`, which is inductive in `ReleaseGate` by itself; `LadderHolds` carries it back along
the refinement.

`ServiceImplementsReadiness` is about run `n` of asset `a`, for any `n` and `a`, also before there is such a
run: a `ScheduleStep` that adds it is `Freeze`, a `SnapshotStep` on it `Evaluate`, `Review` or `Specialist`, and
anything else leaves it as judged. That the worker's snapshot is the first is what `RunsPhased` says.

**JobQueue.** `IInv` is `JobsOK /\ WorkersTyped /\ ClaimsOK`. `JobsOK` says of each job on its
own that it agrees with its run, that a running job's token is the number of its
attempts and a result that of its last, and that every job but the last of an asset
is out of play. `ClaimsOK` ties workers to jobs: a worker at work has a claim no newer than the
job's last, and no two workers have the same one. That is what makes the fence of `renew()` and
`finish()` exclusive although workers go on believing in leases that are over, and
it is not implied by what the jobs alone look like. Every action is a `RewriteStep` (each job is
replaced by one that `Persists`), a `ScheduleStep` (assets get a new job and retire the last) or
a `NewClaim`; each kind keeps the invariant, touches no job that ended, and is a step or
a stutter of `RunLifecycle`.

`BeatingWorkerHolds` adds `LeasesOK`: while a worker's heartbeat is alive, its job is closed or is
leased to it for more than what is left until the beat and the longest wait of the renewal. A
claim starts so because its stamp is at most `LockWait` old, a renewal likewise, time takes from
both sides alike, and nobody else's step touches a job whose lease is not over.

**Rubric.** The rule's sums are folds over sets. What they come to (that a sum is linear, does not
depend on the order, and grows with its terms) is proved by taking a smallest set
for which it would fail, from the least-number
principle. `BoundsAreTight` then writes the index
of any completion as what was recorded and what the missing ratings bring; all zeros and
all fours are the two ends. `ReadyOnlyWhenRequired` compares the tests of the route one by one
with the requirements: that a `low` dimension is excluded by both, with every rating known, is the
step that needs the sums. For `ImprovementMovesForward` an assessment that `NoWorse` than
another has passed at least the tests that the other has; each improvement is shown to
make it `Better`, that is, ratings go up, findings and gaps become fewer, counts stay
consistent, and `Better` implies `NoWorse`. The `input` of a run is any assessment, so this is no
matter of reachable states but for the types (`IsInput`).

**Snapshot.** The replay reads a log of any length, so the properties, which speak of the
log, need to know what it computes. `BoardIs` is its closed form: a gate, a rating or
an examination is as the last review that names it says, or as the machine and the scope left it;
a finding is there when a failed check or a review made it, and is open until
a review closes it. It is kept when a decision is appended to a log (`IsLog`, what `review` and `specialist` let
in), since a replay of the longer log is one more `Apply`. The invariant is `Waiting \/ Answered`: there is
no head yet, or the head is what `AssembleSnapshot` makes of a log that has its closed form.
`ReadyIsEarned` is then `ReadyOnlyWhenRequired` of `Rubric_proofs` read through the closed form:
the requirements speak of the board, the property of who decided what and in which order.
`ReasonsAreComplete` shows that what is appended to the reasons after scoring is empty exactly when no
override of the route applies. `DecisionsAmend` compares the closed forms of two logs.
`SnapshotImplementsReadiness` reads the interface off `ReadyIsEarned`, with one fact more: the first snapshot is
never ready, since no gate but the owner's two is judged before a review (`GatesNeedReview`), and there is one.

**Evidence.** `IInv` adds to the types that evidence names a run and quotes only what the run froze as valid
(`EvidenceFounded`), that what is cited is of the same run (`CitesFounded`), that each snapshot, not only
the head, rests its passing factual ratings on quotes of its run and leaves open only findings of
its run (`SnapshotsFounded`), and that findings are related to earlier ones of their run. Every step is
a `FoundedStep`: nothing recorded changes, and what it adds is founded. A quote's source
was valid when the run was scheduled; if the run's sources are unchanged, it is in force now.
`NobodyOverruledUnseen` has an invariant of its own, `History`: each decision of a run made one more snapshot,
which amends the one its author named; replaced runs keep theirs.

**Intake.** `IInv` ties four things together: versions to assets (`ChainsOK`, `Referenced`), edits in
hand to versions (`EditsGrounded`, `ViewsGrounded`), rows of the idempotency table to the version that is what
somebody asked for under that key (`RowsTrue`), exactly one row to each version
(`RowsUnique`); and what a client was told to the row of its key (`AllToldTrue`). The last includes
that who was told no will never be told otherwise (`Doomed`): an edit that was refused stays
inadmissible, because the latest version of an asset never becomes an earlier one again.
`RowsUnique` is what the refinement needs: an edit takes effect at most
once, because the version it would be is already what some row answers with.

**AuditLog.** `log` is what was committed while the file was untouched, the table what is there now. `Good` says of a table,
whoever wrote to it, that its rows have different numbers, none above the last one given; `Logged` that
the committed rows of each tenant are a chain (`Recorded`: each row has the hash of what it holds and
names the newest before it); an open transaction is both on top of that (`InTransaction`), so
that it may commit or roll back. `CommittedHashVouches` compares two chains, the committed one and one that
checks (`CheckedRows`): a hash tells the row it is of and the hash before it
(`DigestTells`), so of two rows with one hash, before which the chains differ, those before them also have
one hash and differ, and it is shorter (`HashTellsAll`).
`AllFollowed` says what a follower has and what its page on the way has.

**Evaluation.** `TurnFounded` says that a turn that compares was permitted to send and has a valid extraction,
`OneProvider` that while API and worker agree, what is about to be claimed was
scheduled for their provider (between the refresh and the claim somebody may
schedule a run, which the API does for the same one), `AttemptsCounted` what is left to send in an
attempt, `ResultsQuoted` that each result, and the one in the worker's hands, rests on quotes. For the last, a valid
answer has one comparison of each claim (`SaidOnce`), and that is the one `by_id` finds.
`EvaluationImplementsLifecycle` adds `OlderRetired`, that every run but the last is stale: a result
that comes for a run in processing therefore comes for the last one.

TLC checked the parts of the invariants of `Assurance`, `JobQueue` and `Evidence`, and `OlderRetired` with the
refinement it serves, on the instances before they were proved; the others were found in the
proofs, from the properties that TLC checks. Inductions over numbers and finite sets are made from `WFMin` of the library, a smallest counterexample,
since the provers take no induction theorem that has an operator for a parameter.

**Only model-checked.** The four liveness properties, `ScopedRunSettles`, `StaleRunReplaced`,
`EveryEditAnswered` and `FollowersCatchUp`: TLAPS has no `ENABLED` and so no fairness. And the three
violations, which a run shows and nothing needs to prove.

## 5. What is not modelled, and what could come next

Left out, and why:

* document extraction (`extraction.py`) and the text checks of `checkers.py`, the unit equivalences
  included: pure functions of text, without state and without anything to interleave;
* prompts, response formats, hashing and canonical JSON, the schemas of requests: data that
  no property tells apart. Two different requests are taken to have different hashes;
* rendering and the routes of `api.py` that only pass a request on;
* `migrate()`, which runs once, before any other process, and the triggers that make tables
  append-only: no action of the service tries what they forbid, and `AuditLog` lets
  somebody without them at the file;
* provisioning of principals, which only adds rows nobody refers to yet;
* the demo, a script of API calls, and the commands that only print;
* several tenants, outside `AuditLog`: every query filters by tenant, and tenants share
  no row.

What could come next: a single statement from which the composition of `Snapshot` and `Assurance`
follows, with the verdict computed instead of free. The interfaces `RunLifecycle`, `Readiness` and
`ReleaseGate` relate the models pairwise; that they suffice together is said in section 2 in words.
