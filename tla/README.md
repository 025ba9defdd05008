# SIEMBIOT: the verification project

TLA+ modules that model the core of the SIEMBIOT Cyber Health Portal, the TLC
configurations that check them on small instances, and theorems about them that
TLAPS proves for every value of the constants. Paths below are relative to the
repository; `worker/` stands for `services/worker/src/siembiot_worker/`, `api/`
for `services/api/src/siembiot/`, `migrations/` for
`services/api/migrations/versions/`.

Contents: 1 the system, 2 the modules, 3 what TLC checks, 4 what is proved,
5 where the code does not keep a promise, 6 what is not modelled, 7 the plan.

    tlc -workers 2 -config engine_race.cfg MCWorkflowEngine.tla
    tlapm WorkflowEngineProofs.tla


## 1. The system

An organization registers domains and proves that it controls them. A *run* (an
assessment) looks at one domain: it collects observations over the network,
normalizes and evaluates them against the published methodology, computes a
score, derives findings, and stores everything as evidence. Runs are requested
by a user over the API or started by the cadence of a schedule; a sweep hands
them to workers through a queue that may lose, duplicate and delay messages.
What a run found is read in reports, and published if the organization and a
reviewer agree. PostgreSQL is the only authority.

    members, roles, audit trail -- Access
    challenges, proof, controls -- DomainControl
        |
    user --PUT schedule--> assessment_schedules --start_due_schedules (600 s)--+
    user --POST assessments----------------------------------------------------+
                                                                               v
    sweep (30 s) --app_due_assessments--> Celery --run_assessment--> assessments
                                                      |
                    WorkflowEngine.run: ready, lease, handler, key, row, release
                                                      |
           collect* -> normalize -> evaluate -> score -> assets -> findings -> report
              |                                                                |
            broker --> the network        observations, snapshot, findings <--persist
                                                      |
                              reports (grant, download), observatory, retention

| Component | State it keeps | Operations | What is hard | What makes it correct |
|---|---|---|---|---|
| Lifecycle (`worker/workflows/lifecycle.py`) | none: a table of legal moves | `assert_transition`, `forward_path` | runs that reopen, phases that were never entered | a walk forward arrives and is legal at every move |
| Step graph (`worker/workflows/graph.py`) | none: dependencies, attempts, optional steps | `ready`, `blocked`, `outcome` | optional steps that fail, dead letters, cancelled steps | never jams; the outcome of a run follows from its steps |
| Workflow engine (`worker/workflows/engine.py`, `postgres_repository.py`) | `assessments.state`, `assessment_steps`, `workflow_idempotency_keys`; per delivery: the ready list, the payload | `run`, `_execute`, `_settle_run`, `_handle_failure`, `_cancel`, `replay` | every statement commits on its own; deliveries race; leases lapse; workers die between two statements | work is done once, by one worker, on top of the work it needs; every run settles |
| Assessment handlers (`worker/workflows/handlers.py`, `tasks.py`) | the `AssessmentContext` of one delivery, in memory; evidence rows written by `persist` | one handler per step, `_recover_lost_collections`, `persist` | the rows survive a delivery, the context does not | a completed run has its evidence, and the evidence agrees with itself |
| Schedules and the pass (`worker/scheduling.py`, `tasks.py`, `api/schedules.py`, `migrations/0011`) | `assessment_schedules`, `domains.ownership_state` | PUT schedule, `start_due_schedules`, `advance_from`, `expire_stale_verifications` | reads and updates in different transactions, a pass that dies, quiet hours over midnight | no slot lost, none replayed, a backlog drains, a lapsed proof expires |
| Requests (`api/assessments.py`) | `assessments` | create, cancel | a check, then an insert | runs do not pile up on a domain |
| Collectors (`worker/collectors/`) | none | one function per source: questions out, a result back | some questions stay without an answer | silence is no answer |
| Normalization and evaluation (`worker/policy/`) | none | observations from results, verdicts from observations | first matching rule wins; missing is not absent | missing data judges nothing; what was seen to be wrong is never passed |
| Network gate (`worker/network_safety/`, `worker/observation/`, `api/domains/network_adapter.py`) | permits, mode, kill switch; controls in the database | `fetch`, `inspect_tls`, `probe_ports`, `probe_mail_transport` | the target is checked, then used; redirects; a stop in between | connects to public addresses of the authorized host only; keeps a key to its host; notices a stop |
| Scoring (`worker/policy/scoring.py`, `catalog.py`) | none | `compute_score`, `band_for` | rounding at three levels, caps, pillars without evidence, coverage | a score for all evidence, a band that was earned, no penalty for a repair |
| Evidence and findings (`worker/policy/findings.py`, `worker/workflows/evidence_repository.py`) | `findings`, `finding_history`, `score_snapshots` | derive, `reconcile`, `save_findings` | a finding comes and goes over many runs; runs of several domains share a table | the list is what the newest run found; histories are unbroken; other domains are untouched |
| Domain control (`api/domains/`) | `domain_challenges`, `domains`, `emergency_controls`, `authorizations` | create, verify, revoke; activate, deactivate; draft, accept, revoke | a count, then an insert; a verification that holds its rows over a network fetch | guesses and challenges are bounded; a stopped verification verifies nothing; what is revoked stays so |
| Publication (`api/publication/`, `worker` projector) | consents, takedowns, reviews, public profiles | grant, withdraw, decide, record a takedown, publish, read | permission is read before the page is written; two organizations, one name | what is withdrawn is gone; only what was permitted appears |
| Reports, retention (`api/reports.py`, `worker/reports/`, `worker/retention/`) | grants, `evidence_erased_at`, rows past their period | mint, claim, download, sweep | a document put together from several statements beside a sweep | one document per grant; a page agrees with itself; a missing piece is said to be missing |
| Organizations and audit trail (`api/organizations.py`, `api/db.py`, `migrations/0019`) | memberships, invitations, `audit_events` | invite, accept, change, revoke, refuse | a number drawn before the lock; a refusal over a second connection | the trail explains the memberships; owners come from owners; every request ends |
| Adapter resilience, shared quota (`worker/adapters/`) | token bucket, breaker, day counters, cache | acquire, consume, refund, guard | threads, half-open probes, midnight | not modelled: no collector calls the guard or the ledgers yet |
| Agent gateway (`services/agent-gateway/`) | the budget of a run, in memory | `run_analysis` | checked before, charged after | not modelled: one request at a time |
| Read models, asset register, API shell, web application, backups, telemetry, infrastructure | - | - | - | not modelled: I/O, layout, wording or reads |

`PROJECT.json` lists every component with its files, and under `hazards` the
places where this code is hardest to test, each with the property that watches
it or the reason why none does.


## 2. The modules

| Module | Models | Builds on |
|---|---|---|
| `Lifecycle` | the states of a run, the table of moves, `forward_path` | - |
| `StepGraph` | `ready`, `blocked`, `outcome` over any acyclic graph | `Lifecycle` |
| `DurableRun` | **abstract**: what the engine promises about one run, without deliveries, leases and keys | `StepGraph` |
| `WorkflowEngine` | the engine and its repository, any number of workers; refines `DurableRun` | `StepGraph`, `INSTANCE DurableRun` |
| `AssessmentGraph` | the graph of an assessment over a subset of its collectors | `StepGraph` |
| `AssessmentRun` | **composition**: the handlers and `persist` on the engine | `WorkflowEngine`, `AssessmentGraph` |
| `Scheduling` | schedules, passes, requests, expiry of proofs | - |
| `Collectors` | what each collector makes of the answers it was given | - |
| `Normalization` | observations from collection results | `Collectors` |
| `Evidence` | **composition**: assessments of a domain over a lossy network, down to the verdicts of methodology 1.3.0 | `Normalization` |
| `Scoring` | pillar scores, mean, coverage, caps, bands | - |
| `Findings` | **composition**: evidence to score and findings, over several runs and domains | `Scoring` |
| `CollectionBroker` | the network gate, one step per checkpoint, under both its policies | - |
| `DomainControl` | challenges, verification, emergency controls, authorizations | - |
| `Publication` | consent, review, takedown, the projector, a visitor | - |
| `Reports` | stored runs, the retention sweep, grants and downloads | - |
| `Access` | memberships, invitations, the audit chain, the connection pool | - |
| `WorkflowEngineProofs` | theorems and proofs about lifecycle, graph and engine, the refinement of `DurableRun`, and an assessment on the engine | `AssessmentRun` |
| `PolicyProofs` | theorems and proofs about findings, about their scores, and about what is judged over which answers | `Findings`, `Evidence` |
| `SchedulingProofs`, `CollectionBrokerProofs`, `DomainControlProofs`, `PublicationProofs`, `ReportsProofs`, `AccessProofs` | theorems and proofs | the modules they are named for |
| `MC*` | small values for TLC | the module they are named for |

Definitions commented "Mutant of X" are wrong versions of X as a plausible bug
would make them; no specification uses them. `mutants` in `PROJECT.json` names,
for each property of a passing run, one that makes TLC find it violated.

**WorkflowEngine.** The connection is in autocommit mode, so one repository call
is one atomic action, and a delivery is a program counter with its local
variables (`wk`): between two actions anything may happen, and what a delivery
has read may be stale. One action per statement:

| Action | Code |
|---|---|
| `Deliver` | `app_due_assessments`, the sweep, a redelivered message |
| `CheckCancellation`, `LoadSteps`, `SkipBlocked` | the loop of `run` |
| `SettleRun`, `ReadState`, `WriteState` | `_settle_run`, `_advance_to` and the two statements of `set_state` |
| `Claim`, `AcquireLease`, `AdvanceTo`, `CheckKey`, `Deduplicate`, `StartStep` | `_execute` up to the handler |
| `BeginHandler`, `EndHandler` | the handler: its first look at the cancellation, its outcome |
| `RecordKey`, `SettleStep`, `ReleaseLease` | `complete_idempotency`, `_settle`/`_handle_failure`, the `finally` |
| `CancelLoad`, `CancelStep` | `_cancel` |
| `Raise` | a `LifecycleError` that leaves `run` |
| `RequestCancellation`, `Replay` | the user and the operator |
| `BackoffElapses`, `LeaseLapses`, `Crash`, `Restart` | time and processes |

Time appears only as the two facts the code derives from it: whether a lease is
live, whether a step still waits out its backoff. A payload is the set of steps
merged into it; an idempotency key is a step with its payload.

**AssessmentRun** replaces the outcome of a handler by the handler: each ends
together with its effect on `memory` (the `AssessmentContext`) or on `stored`
(the evidence rows). Of each collector it matters whether there is a result and
whether it is usable. Every result is kept (`Collect`, `handlers.py:395-397`), a
failed or inapplicable one too: it is normalized into observations of a gap and
counts as collected when a delivery looks for what was lost (`Lost`). A run fails
in normalization only where a delivery holds nothing at all. A retried
normalization may have recovered some of what was lost (`Recovered`, in the order
of `COLLECTOR_OPERATIONS`). `collect.asn` and `collect.mail_tls` read another
collector's result in the same context (`Sees`). `Deliver` builds a fresh context.
`PersistAssessment` writes the three tables the way their `ON CONFLICT DO
NOTHING` does: observations are added to, evaluations and snapshot are kept.

**Scheduling** takes one action per statement where another process can come in
between and one per transaction where it cannot: the pass expires proofs, reads
its batch, and then for each schedule computes the next date (`StartRun`) and
commits run and date (`CommitRun`). A request is a look (`FindNoRun`) and an
insert (`QueueRun`). Hours are the unit; a day has `Day` of them.

**Collectors, Normalization, Evidence.** A question is a pair of collector and
subject; the answers of an assessment map every question to a value or to
nothing, the latter for a timeout, an error or a refusal of the platform's own
policy. Each collector is an operator from answers to a result with its status,
its reason and its payload; `Normalization` turns results into observations, and
`Evidence` holds the catalogue, the evaluation and the withholding of checks
that need an authorization. The state is one domain, which may change between
two assessments (`DomainChanges`), and the last assessment of it, whose network
lost any few questions (`AssessOverALossyNetwork`) or whose run was halted so
that every later question got no answer (`AssessUntilHalted`).

**CollectionBroker.** An operation is a program counter that moves from one
checkpoint of its policy to the next: denied, resolved, pinned, connected,
headers, chunks, and back to the start for each redirect. Addresses are public or
not; a name may resolve to any set of them, a different one at every hop. The
operations of a run share one broker with its permits, its mode and its kill
switch; an ownership check of the API (`https_verification`) has a broker of its
own per call and asks the database: its challenge and the emergency controls.
`Abandon` is the exception that leaves `inspect_tls` and `probe_ports` without
giving the permit back.

**Findings** gives each run three steps: derive (evaluate, score, derive), load
the findings of its domain, and write; a failure at any point leaves nothing. A
finding is identified by domain, check and result, since each rule of the
catalog has its own reason code. **Scoring** below it is exact arithmetic:
factors in halves, scores in tenths, `RoundTenths` rounding a fraction as
`round(x, 1)` does, ties to even.

**DomainControl.** A request is one transaction; what it reads and what it
writes are two steps wherever another request can come in between (`BeginCreate`
counts, `FinishCreate` inserts; `BeginAccept` reads the ownership, `FinishAccept`
writes). A verification holds the rows of its challenge and domain from
`BeginVerify` over every `Checkpoint` of its fetch to `Matched` or `NotMatched`;
who needs these rows waits. An emergency control whose row references the domain
waits for them as well.

**Publication.** The projector reads the permission (`BeginPublishing`), the
latest assessment (`ReadAssessment`) and the review (`Project`) and then writes
(`Write`), each seeing what was committed by then. Two registered domains may
stand under one registrable name, which is what a profile and a takedown are
keyed by. A visitor reads the row and then its checks.

**Reports.** A stored run is what every check came to for every subject, the
rows that are left of its observations and those of them past their period. A
download takes one step per statement: it claims its grant in a transaction of
its own, authorizes, and reads the run, the observations, the findings and the
insights; a sweep or a later run may come in between. The page is a set of
operators over what a download read: which column a check stands in, what is
listed, what is cited, what carries an evidence box.

**Access.** An event draws its number when its INSERT begins and reads its
predecessor once the lock of the organization is its own (`Commit`); both
commit with the change they record. A refusal is recorded over a second
connection while the first is held (`RecordDenial`), so the pool is part of the
state of the system: `Room` counts the connections in use, `DropDenial` is the
time limit of a request for one. Row-level security appears as who sees the
trail (`Sees`).


## 3. What TLC checks

| Run | Question | Instance |
|---|---|---|
| `engine_serial` | Does the engine keep the promise of `DurableRun` when deliveries follow one another, whatever crashes? Does every run settle? | four steps in a chain, one optional; 1 to 3 attempts; cancellation; two crashes |
| `engine_race` | Do leases and keys exclude double work when deliveries race, and is the inductive invariant true? | three steps in a chain, the first of them optional; two workers, duplicate messages, a crash, a cancellation, a replay |
| `assessment_run` | Does the stored evidence say of every collector how its step ended, however many deliveries it took? | the real graph with `collect.dns` and the dependent, skippable `collect.asn`, each with no, an unusable or a usable result; two attempts; a crash, duplicates, a cancellation |
| `schedule_runs` | Are slots neither lost nor replayed, and does a backlog drain? | two domains, one with two cadences, batch of one, a day of three hours, quiet hours that wrap, a pass that may die, a request |
| `findings_reconciled` | Do findings, history and score agree with the evidence over several runs? | three runs of one domain and one of another, in any overlap; five checks of methodology 1.3.0 with their weights, bands and one cap |
| `evidence` | What does a missing answer do to a verdict? | every check of the catalogue; a poor and a good domain and each domain that differs from one of them in one answer; any two questions lost, or a run halted at any question |
| `broker` | Where may a request go, and what does a stop still let through? | a fetch and a probe of any kind at once; site, subdomain, parent and provider; public and private addresses; one permit, two redirects, one chunk |
| `publication` | What may be seen of whom? | one name registered by two organizations, two runs, a public and a private check, a reviewer, a takedown, erasure, a visitor |
| `reports` | Is a document what it says it is? | two checks, the domain and an accepted host, two runs of three kinds, one row per sweep, one link, two downloads |
| `domain_control` | Do limits, stops and revocations hold between two requests? | two requests, three names for challenges, two attempts, a limit of one in the hour, fetches with two checkpoints, one control |
| `access` | Does the trail account for the memberships, and can refusals starve one another? | a founder, an invited person, a holder of a support grant; two requests; a pool of two; five events |
| `access_trail` | expects a violation: section 5 | the instance of `access` |

**Properties, by hazard.**

- *Racing deliveries*: `WorkExclusion` (never two workers inside one handler),
  `WorkDoneOnce` (recorded work is not done again), `RequiredWorkRecorded` (a
  handler runs on recorded work only). The first two hold while the operator does
  not replay a step and no handler outlasts its lease, of the steps that rest on
  no required one (`Sheltered`): of the others `LeasesExclude` is false, see
  section 5. The third always holds.
- *Crashes*: `ImplementsDurableRun` for deliveries that follow one another;
  `SettlesUnlessStranded`, which says exactly which state keeps a run from
  settling. *Retries*: `AttemptBudget`. *Cancellation*: `CancellationSettles`.
- *The context of a delivery*: `ReportRestsOnScore`, `NoEvidenceIsDropped`,
  `StoredEvidenceTellsTheRun` (what is stored was earned, belongs together and has
  a usable result of exactly the collectors that succeeded).
- *Schedules*: `RunsAreBounded`, `BacklogIsNotReplayed`, `SlotsAreNotLost`,
  `ObservationBacklogDrains`.
- *Missing answers*: `MissingAnswersJudgeNothing` (a judged check is judged as if
  every answer had come), `SeenIsNeverPassed`, `SilenceIsRetried`.
- *Findings*: `FailingChecksAreListed`, `HistoryTellsTheState`,
  `RegressionIsMarked`, `ForeignDomainsUntouched`. Those about a domain's own
  findings are stated for runs of it that follow one another, which the due query
  and the request see to; `overlapped` remembers the domains where they did not.
  *Scores*: `ScoreFollowsTheChecks` (what turns out to pass never costs a point,
  what turns out to fail never earns one).
- *Checked, then used*: `PinnedToItsOwnHost`, `RedirectsStayInScope`,
  `KeyStaysWithItsHost`. *Stops*: `StoppedOperationsEnd`.
- *Published while permission changes*: `WithdrawnIsGone`,
  `OnlyThePermittedAppears`, `PageShowsOneRun`. The first two except a projector
  that had read the permission before it was taken back (`overtaken`).
- *Read while it is swept or stored*: `MarkTellsTheTruth`, `OneDocumentPerGrant`,
  `PageAgreesWithItself`.
- *Counted, then inserted*: `GuessesAreBounded`, `ChallengesAreLimited` (by the
  limit and the requests under way). *Verification and a stop*:
  `StoppedVerificationNeverVerifies`. *Accepted while revoked*: `RevokedStaysRevoked`.
- *Memberships*: `TrailExplainsMemberships`, `OwnersComeFromOwners`. *The pool*:
  `EveryRequestEnds`.

The modules state further properties that hold on these instances and follow the
same lines; adding one to the configuration checks it: `TypeOK` (in `WorkflowEngine`,
`Scheduling`, `Findings`, `DomainControl`, `Access`), `SettledStepsStay` and
`CompletedRunDidItsWork` (`engine_serial`), `CompletedRunHasItsReport`,
`NormalizationComesLast`, `OptionalNeverFailsARun`, `StoredEvidenceWasEarned`, `StoredEvidenceIsCoherent`
(`assessment_run`), `NextFollowsCadence` (`schedule_runs`), `ListedFindingsWereFound`,
`ScoreIsExplained`, `BandIsEarned`, `SnapshotsFitTheirTable` (`findings_reconciled`), `PassiveJudgesNothingActive`,
`TransportOfObservedHostsOnly` (`evidence`), `SocketsAreBounded`, `NeverDowngraded`,
`PassiveConnectsToNothingActive`, `EveryStepCounts`, `EveryOperationEnds` (`broker`), `ErasureIsSaid`,
`ExpiredGoes` (`reports`).

**Bounds and why they are enough.**

- Two workers show every race between a statement and the one after it; all
  races found need two. The proofs cover any number.
- The three steps of `Race*` are an optional step that is skipped, one that rests
  on it and may be retried, and one that rests on that. With two attempts each
  the racing runs become too many; the last step has one, so that a retry of it
  is also its dead letter. The four of `Chain*` have a required first step, an
  optional one and two required ones behind it, so that a dead letter can skip
  what follows in one case and not in the other. Attempts of 1, 2 and 3 show the
  last attempt, the first retry, and a retry that is neither.
- `MaxCrashes`, `MaxReplays` count environment actions; they appear in the
  guards of `Crash` and `Replay` only.
- The assessment graph keeps one collector that succeeds, is retried or fails and
  one that reads from it and may be skipped; the others have the shape of one of
  them. Two attempts of each step and a crash give a run several deliveries, enough
  for a result to be lost, collected again, and lost once more before it is normalized.
  A run in which neither collector succeeds is normalized, scored and stored with
  its gaps.
- `MaxTime = 4` with cadences of 2 and 3 and a day of 3 has the clock pass
  midnight once, lets a slot be missed, and leaves room for the next one. The
  clock stops at its bound, outside all quiet hours, and what is due by then has
  to drain. The quiet hours of d1 wrap past midnight; d1 has the authorized mode,
  d2 the choice of cadences.
- The evidence of d1 varies a check that passes or fails and one that fails, is
  a warning or unknown, so that a finding can vanish, return, and be replaced by
  another of the same check; d2 varies what decides band, coverage and cap. Three
  runs of one domain are what a return takes: found, gone, found again.
- `MaxLost = 2` questions without an answer, over domains at most `MaxDrift = 1`
  answer away from a baseline, reach every pair of a value and a silence that a
  rule relates; `AssessUntilHalted` adds the long tails of silence. Every value
  the rules tell apart occurs in `MCContents`.
- One permit makes the two operations of the broker wait for one another; two
  redirects reach the limit and exceed it; a body of one chunk is read and
  exceeded.
- `MaxRuns = 2` has a newest run and one before it, which is what a projector, a
  pinned grant and an erasure mark can get wrong. One row per sweep makes a run
  with two rows take two sweeps, and two downloads race for one link.
- `HourlyLimit = 1` and `MaxAttempts = 2` are reached and would be exceeded by
  two requests; three names for challenges are the two that may be open beside
  one that is over.
- `PoolSize = 2` is taken up by two requests, of which each may want another
  connection. `MaxEvents = 5` is the founding, an invitation, its acceptance and
  two changes; it appears in `Ask` alone, so that every request under way can
  finish.

**Fairness and what justifies it.** `FairSpec` of the engine assumes that a run
that stays due is delivered (the sweep enqueues it every 30 s, `tasks.py`), that
a live delivery goes on (nothing suspends a worker process for ever), that a
dead process is replaced (`task_acks_late` and `task_reject_on_worker_lost`
redeliver; the supervisor restarts), and that leases and backoffs run out.
Nothing is assumed of users, operators, or duplicate messages. `FairSpec` of the
scheduler assumes that beat keeps starting passes (every 600 s;
`docs/architecture/queue-boundary.md` runs exactly one), that runs end, that a
methodology is published and that the clock moves. `Calm`, in the liveness
properties, adds that passes do not die and users do not edit for ever. `Spec` of
the broker has every operation go on, since each of its waits has a time limit;
`FairSpec` of the reports has the beat send the daily sweep; `FairSpec` of
`Access` has every request go on, PostgreSQL's queue for a row and the pool's
`POOL_TIMEOUT_SECONDS` included. All of it is weak fairness.

**Deadlock** is not checked in the engine's serial run, the assessment runs and
the findings, where a run that has settled, or all runs that are planned, leave
nothing to do, nor in the runs of `Access`, which stop at `MaxEvents`.


## 4. What is proved

Every theorem holds for every value of the constants: any graph the constructor
accepts, any number of workers, people, domains, runs, checks, hosts, requests
and messages. The condition is what it needs beside the assumptions the module
itself makes.

| Theorem | Condition | States |
|---|---|---|
| `Invariance` | - | `Spec => []IndInv`, the first invariant of the engine |
| `TypeCorrect` | - | `Spec => []TypeOK` |
| `WorkRestsOnWork` | - | `RequiredWorkRecorded`: a handler runs on recorded work only |
| `Exclusion`, `DoneOnce` | no lease lapses | `WorkExclusion`, `WorkDoneOnce` |
| `AttemptsBounded` | one delivery at a time | `AttemptBudget` |
| `OrderHolds`, `SettledStepsAreFinal` | one delivery at a time, no replay | no step starts before those it depends on have settled; `SettledStepsStay` |
| `VerdictHolds`, `CompletedRunsDidTheirWork` | the same | `VerdictInv`; `CompletedRunDidItsWork` |
| `Implements` | the same, nothing delivered that is not due | `ImplementsDurableRun` |
| `ReadyIsNotBlocked`, `GraphNeverJams`, `OutcomeLeavesNothingReady` | an acyclic graph | no step is offered and put aside at once; without a running step something is ready or blocked until all have settled; a run with an outcome has nothing left to execute |
| `ForwardPathArrives` | a state on the happy path, a phase ahead of it | `forward_path` ends at that phase, and every move on it passes `assert_transition` |
| `RunsOnTheEngine` | - | an assessment is a run of the engine |
| `ReportsRestOnScores` | `OnAssessmentGraph`, one delivery at a time, no replay | `ReportRestsOnScore` |
| `FreshHolds` | one delivery at a time, no replay | no step that is pending, or about to be executed, has its work on record |
| `NothingIsDropped`, `EvidenceTellsTheRun` | as for `ReportsRestOnScores`, a lost collection can be made again | `NoEvidenceIsDropped`, `StoredEvidenceTellsTheRun` |
| `EvidenceWasEarned`, `StoredEvidenceCoheres` | as for `ReportsRestOnScores` | `StoredEvidenceWasEarned`, `StoredEvidenceIsCoherent` |
| `CompletedRunsHaveTheirReport`, `OptionalFailsNoRun`, `NormalizesLast` | as for `ReportsRestOnScores` | `CompletedRunHasItsReport`, `OptionalNeverFailsARun`, `NormalizationComesLast` |
| `SchedulesHold` | - | the rows of the tables and of the passes are well formed; runs in flight and runs that may still come stay within passes and requests |
| `RunsBounded`, `BacklogNotReplayed` | - | `RunsAreBounded`, `BacklogIsNotReplayed`, for any number of passes |
| `SlotsNotLost`, `NextIsNear` | one pass at a time | `SlotsAreNotLost`, `NextFollowsCadence` |
| `FailuresAreListed`, `HistoriesTell`, `RegressionsAreMarked` | - | `FailingChecksAreListed` and `ListedFindingsWereFound`, `HistoryTellsTheState`, `RegressionIsMarked` |
| `ForeignUntouched` | - | `ForeignDomainsUntouched` |
| `ScoresFollowTheChecks` | - | `ScoreFollowsTheChecks`, for any weights, pillars and caps |
| `SnapshotsFit`, `BandsAreEarned` | - | `SnapshotsFitTheirTable`, `BandIsEarned` |
| `ScoresAreExplained` | every finding counts | `ScoreIsExplained` |
| `SilenceRetried`, `SeenNeverPassed`, `MissingJudgesNothing` | - | `SilenceIsRetried`, `SeenIsNeverPassed`, `MissingAnswersJudgeNothing`, for every domain and every set of lost answers |
| `NothingUnaskedIsJudged` | - | `PassiveJudgesNothingActive`, `TransportOfObservedHostsOnly` |
| `PinnedToOwnHost`, `RedirectsInScope`, `KeyWithItsHost`, `StoppedEnd` | - | `PinnedToItsOwnHost`, `RedirectsStayInScope`, `KeyStaysWithItsHost`, `StoppedOperationsEnd` |
| `PassiveStaysPassive`, `SocketsBounded`, `StaysOnTls` | - | `PassiveConnectsToNothingActive`, `SocketsAreBounded`, `NeverDowngraded` |
| `OperationsRunOut` | - | `EveryStepCounts`: each step of an operation takes one from the steps it has left |
| `GuessesBounded`, `ChallengesLimited` | - | `GuessesAreBounded`, `ChallengesAreLimited` |
| `StoppedNeverVerifies`, `RevokedStays` | - | `StoppedVerificationNeverVerifies`, `RevokedStaysRevoked` |
| `WithdrawalsHold`, `PagesShowOneRun`, `PermittedAppears` | - | `WithdrawnIsGone`, `PageShowsOneRun`, `OnlyThePermittedAppears` |
| `MarksTellTheTruth`, `GrantsServeOnce` | - | `MarkTellsTheTruth`, `OneDocumentPerGrant` |
| `ReportsSayWhatIsErased` | - | `ErasureIsSaid`, for any number of sweeps and downloads |
| `PagesAgree` | the domain is its own registrable name | `PageAgreesWithItself` |
| `TrailExplains`, `OwnersFromOwners` | - | `TrailExplainsMemberships`, `OwnersComeFromOwners` |

Each proof has the same shape: an inductive invariant, a lemma per action that
keeps it over lemmas about moving one row or one process, and a theorem that
draws the property from it. What the invariants have to carry, and why:

- **`IndInv`, the engine.** That a dependency succeeded when a step became ready
  is no invariant of the rows: a racing delivery, a replay or a skip may rewrite
  them while a worker still holds its list. What stays is the keys, which only
  grow: a row says `succeeded` only for work that has a key (`RowInv`), every
  step on a list has keys for its required dependencies (`Rests`), and a worker
  about to settle a success has recorded its own (`Earned`). TLC checks it in
  `engine_race`.
- **`LeaseInv`.** A delivery between `AcquireLease` and `SettleStep` owns a live
  lease of its step, as long as the step is one that `_skip_blocked` never
  writes (`Sheltered`) and nobody cancels or replays. After a request to cancel,
  `_cancel` clears leases too; but from then on nobody enters a handler, so who
  is inside entered before, alone. `NewWork` adds that its key is still missing.
- **`BudgetInv`.** The attempt a claim computes from a row is spent much later;
  that it is one the step still has rests on the rest of the list being pending,
  which is so only while no other delivery executes from an older list.
- **`OrderInv`.** What one delivery has read of the steps on its list still
  holds when it acts on it. It makes `InOrder` inductive, from which a settled
  step stays settled.
- **`PromiseInv`, the refinement.** Shows to `DurableRun` a running step as
  pending and a run's state as its verdict once it is final. A write of the
  state is a stutter unless it is the last of its walk; then the outcome that
  was computed before the walk must still be that of the rows, and only a
  requested cancellation may say something else (`Concludes`, `Cancels`).
- **`VerdictInv`, what a completed run did.** The outcome is computed of one read
  and written many steps later. That it counts no failure is not enough: a
  required step may also be put aside. So the invariant says why that happens
  (`Explained`): behind a required failure or a cancellation, and the cause of one
  step is that of the next, which needs no induction over the graph. Every state
  on the walk is true of the steps (`Reads`), and steps that have all settled
  stay so.
- **`FreshInv`, work on record.** A step whose key is recorded is not pending, and
  the step a delivery has in hand is not on record before its handler has ended:
  no collector that is about to be called is passed over as done.
- **`EvidenceInv`, the assessment.** A result that is held is usable if the work
  of its collector is done, its row saying so or about to, and unusable if it is
  not (`Holds`). A collector that reads another one succeeds only after it
  (`SourcesFirst`), so whatever is collected again finds what it reads, in memory
  or earlier in the order of recovery. Observations are made when every collector
  has settled, and by `OrderInv` these stay as they are: what the observations
  tell of them stays true (`Tells`), in memory and in the tables.
- **`CoherenceInv`.** The report step may run more than once, the inserts of each
  time keep what is there, and observations only accumulate: rows of two
  deliveries could mix. They do not, since a delivery that normalizes finds
  nothing evaluated on record (`Judging`: the key, or a handler about to record
  it), hence nothing scored or stored; what it then evaluates, scores and stores
  is what it normalized, and a later delivery holds no observations.
- **`SchedulesInv`, `CountInv`, schedules.** A pass comes to each schedule of its
  batch once. It, and a request that found nothing, looked when no run of the
  domain was in flight, and each adds one at most: what is in flight together with
  those who may still add to it is bounded, and who adds one leaves their number.
- **`TurnInv`, `DueInv`.** The date a pass has computed is later than the one in
  the row, whatever users change before it commits: an edit puts the date to now
  or leaves it. What is left of a batch is due still, so that a date is advanced
  from the past and by one cadence.
- **`FindingsInv`.** While the runs of a domain follow one another, what a run
  has loaded is still so when it writes, the newest run is the last that wrote,
  and each history is one line from `absent` to the state of its row.
- **Scores.** That a stored run carries evidence of its domain is `FindingsInv`; the
  work is in the arithmetic. A sum over a finite set is a fold that picks its
  elements in no order. That it does not depend on the order (`SumTakes`), that
  parts make up the whole (`SumOfParts`) and that a sum follows its terms
  (`SumGrows`) rest on an induction over the size of a set, which argues from the
  least size for which they fail and so needs no operator for a parameter.
  Rounding follows the fraction (`RoundingFollows`) and stays within half a tenth
  of it (`RoundingIsClose`). With those, a score is compared before and after one
  check comes out another way, which moves one pillar: where it had a score, its fraction
  grows term by term; where the check was unknown, a term of factor 1 or 0 joins a
  mean of what lies between them, at the pillar and again at the mean of the pillars.
- **`AssessedInv`, the evidence.** Here the steps are simple, for a verdict is
  always that of the answers of the last assessment, and the work is in the
  operators. A collector, a normalizer and a rule are each applied to the answers
  of a run beside those of a run that lost nothing (`Within`): what is observed of
  a type is the same or inconclusive (`Rests`), and no rule of the catalogue
  matches what is inconclusive (`SilenceJudgesNothing`). Three types do not rest
  on answers that way, and each has an argument of its own: an unknown state of
  DNSSEC is observed but no rule names it, a lost MX lookup makes TLS reporting
  inapplicable, an index that is down has nothing to judge. What was seen is
  counted at least once, and the rule that passes asks for a count of none.
- **`GateInv`, `PermitInv`, the broker.** An operation is at a place of its kind;
  past the lookup its address is one of an answer that was public throughout; a
  connection is one to that host; and what was sent since the stop is bounded
  by the place (`SpentInv`). All of it is about one row; only the permits need
  counting over the operations. What an operation has left (`StepsLeft`) falls with
  every step, since a redirect takes more than a whole hop gives back.
- **`LockInv`, `CountInv`, domain control.** What the row locks keep: nobody
  else touches the challenge a verification fetches for, the rows a creation has
  retired or the draft an acceptance has read. A creation under way may add one
  challenge to those of the hour.
- **`ObservatoryInv`.** What the projector or a visitor has read still holds, or
  the event that changed it has marked the publication `outdated`, the profile
  `overtaken` or the page `disturbed`.
- **`ReportsInv`.** A link that was not claimed has served nothing, a download
  alone carries the link it claimed, and what it has read of the last run is
  right while that is the last.
- **`SaidInv`, on top of it.** A download that carries the mark of an erased run
  has read nothing of it, and one that read nothing of a run that observed
  something carries the mark or was passed by the sweep that took the last row.
- **`AccessInv`.** Numbers are drawn in one order and committed in another. Who
  writes about a person holds the row before drawing, so events about one
  person are numbered in the order they commit; an accepted invitation meets no
  membership; whoever is let in as an owner was made one by an earlier number.

`EvidenceInv`, `CoherenceInv`, `VerdictInv`, `FindingsInv` and the invariants of
`SchedulingProofs` were checked by TLC on the instances of `assessment_run`
(with `FreshInv`; `CoherenceInv` with `RecollectionFails = TRUE` too), `findings_reconciled` and
`schedule_runs` (there with batches of two) before they were proved, and hold in
every state there; `VerdictInv` also on `engine_serial` with duplicates and lapses.

**Conditions.** *No lease lapses* (`LeaseMayLapse = FALSE`): a handler that
outlasts its lease has it taken, and then two are inside. *One delivery at a
time* (`\A v, w \in Workers : v = w`): racing deliveries work from old lists; one
that claims a step another has settled spends an attempt beyond the budget and
executes it again. *A lost collection can be made again*
(`RecollectionFails = FALSE`): the collector that is asked again answers usably if
it finds what it reads. Where it does not, its row says "succeeded" and the
evidence holds a gap: what is stored is coherent and earned all the same
(`StoredEvidenceCoheres`, `EvidenceWasEarned`). *No replay*: an operator's replay reopens a settled step.
*Nothing delivered that is not due* (`Duplicates = FALSE`): a duplicate message
for a partially completed run reopens it, walks it forward and settles it once
more, which `DurableRun` does not; `engine_serial` with `Duplicates = TRUE` shows
it. *One pass at a time* (`OnePass`): celery beat starts a pass every ten minutes.
Should one outlast that and a second begin, both may list a domain; with
`Passes = {p1, p2}` TLC finds that the one that computed its date from a shorter
cadence, before a user chose a longer one, commits last and moves the schedule
back (`SlotsAreNotLost` fails), while the two theorems without the condition hold.
*Collections can be made again* (`RecollectionFails = FALSE`):
`_recover_lost_collections` goes on without a collection that fails again.
*Every finding counts* (`EveryFindingCounts`): half the weight of any check, less
the half tenth that rounding may take from its pillar, must move the mean by more
than half a tenth; a lighter warning might leave 100.0 beside a finding. The loader
of the catalogue does not ask for it, but the weights of methodologies 1.0.0 to
1.3.0 satisfy it, the closest being `evidence_freshness`; TLC evaluates it as
`CatalogCounts` in `MCFindings`.

**Assumptions.** `GraphAssumption` and `AcyclicAssumption` are what
`StepGraph.__post_init__` validates; the latter says that no set of steps waits
for itself, which saves the induction a topological order. `OnAssessmentGraph`, a
hypothesis of the assessment's theorems, says that the graph is
`ASSESSMENT_GRAPH`; TLC evaluates it as `RunAssumption` in `MCAssessmentRun`.
`CatalogAssumption` has finitely many checks and pillars, weights above zero and caps
that are no negative number; `SchedulingAssumption` has finitely many domains, passes and requests, cadences
of at least an hour, and a `None` that is no date and no domain;
`EvidenceAssumption` says that a domain has a
value for every question an assessment asks and names no mail host outside
`MailHosts`; `BrokerAssumption` says that a key is
only sent over https (`provider_destination` makes no other),
`PublicationAssumption` and `ReportsAssumption` that `None` is no row. TLC
evaluates them on every run of a module that extends theirs.

**Only model-checked.** *Liveness*, which rests on fairness and is out of the
prover's reach: `SettlesUnlessStranded`, `CancellationSettles`,
`ObservationBacklogDrains`, `EveryRequestEnds`, and of the properties that a
configuration may add (section 3) `EveryOperationEnds`, of which `OperationsRunOut`
proves all but that a step is possible and taken, and `ExpiredGoes`. Every
safety property that a passing run checks is a theorem. `BandIsEarned` allows for
the tenth to which `compute_coverage` rounds before it compares.


## 5. Where the code does not keep a promise

`access_trail` shows one in a run of its own. The number of an event is drawn
when its INSERT begins, before the trigger takes the lock that orders the chain
(`migrations/0019_audit_chain.py:85-94`): the event with the higher number may be
linked first, and `audit_chain_breaks`, which walks by number, reports a break
although nothing was altered.

The others are stated in the modules, each as a property that TLC finds violated
when it replaces the properties of the configuration named here. `LeasesExclude`
was met in the proof of `WorkExclusion`: the induction would not close for a step
that `_skip_blocked` may settle, and TLC then found the way there.

| Property | Take | Changed constants | What it shows |
|---|---|---|---|
| `RunSettles` | `engine_serial` | `MaxCrashes = 1`, `MayCancel = FALSE` | A worker that dies inside a handler leaves its step RUNNING. `ready` offers only pending steps, so no later delivery takes it up, though its lease lapses. `engine.py:12-13` says it does not strand the step. `SettlesUnlessStranded` shows that nothing else strands a run. |
| `LeasesExclude` | `engine_race` | `Workers = {w1, w2, w3}`, `Optional <- StrictOptional`, `MaxAttempts <- StrictMaxAttempts`, `Outcomes <- StrictOutcomes`, `MaxCrashes = 0`, `MaxReplays = 0`, `MayCancel = FALSE` | `_skip_blocked` writes the row of a step without its lease (`engine.py:240`). The payload of a delivery holds what this delivery has executed, so a step has another key in another one: a delivery with an older list executes a step again that had succeeded, fails it, and puts aside the step that a second delivery is in. A third, which has that step on its list, finds no lease and enters beside it. `engine.py:12` says leases stop two workers running one step at once. |
| `FinalStatesImmutable` | `engine_race`, without symmetry | `MaxCrashes = 0`, `MaxReplays = 0` | `set_state` validates one reading of the state and updates whatever is there: with two deliveries a final state can be overwritten (`postgres_repository.py:57`). |
| `CompletedRunHasEvidence` | `assessment_run` | `MaxCrashes = 0`, `MayCancel = FALSE` | A delivery that takes over after normalization (a retry of `evaluate`, say) has an empty context; it evaluates nothing, scores that, and `persist` returns without writing. The run is completed without evidence, which `tasks.py:251-252` rules out. |
| `DependentsAreNotBlind` | `assessment_run` | - | `collect.asn` and `collect.mail_tls` look for the addresses and mail hosts in the memory of their own delivery (`handlers.py:224`, `350`). Where DNS or mail succeeded in an earlier one (the run was retried, or its worker died) they find none and report `not_applicable`; `graph.py:83` says that attribution describes the addresses this run saw. |
| `NoEvidenceIsDropped` | `assessment_run` | `Workers = {w1, w2}`, `MaxCrashes = 0`, `MayCancel = FALSE` | Two deliveries call a collector. One skips it as inapplicable and records the key; the other finds the key, settles the row as succeeded and has nothing (a skip is recorded like a success, `engine.py:344`), and the first normalizes its unusable result under a row that says "succeeded". |
| `BacklogDrains` | `schedule_runs` | `Requests = {}`, `Interval <- OneCadence`, `Offer <- DailyOffer` | An authorized schedule of a verified domain is inserted without `authorization_id`, against the CHECK of migration 0010. The exception ends the pass before `next_run_at` moves; the schedule comes first again, and those behind it wait for ever (`scheduling.py:39-40`). |
| `LapsedProofExpires` | `schedule_runs` | the same | `expire_stale_verifications` runs on a connection that names no organization, and row-level security shows it no domain (`scheduling.py:14-15`). |
| `ResolvedWasExamined` | `findings_reconciled` | `Aim <- TwoRuns` | A check that came out unknown resolves the finding of an earlier run; `docs/methodology/v1/README.md:49-52` says missing data becomes neither good nor bad news. |
| `EveryScoreHasABand` | `findings_reconciled` | `Aim <- OneRun` | Scores have a decimal and bands whole bounds, so 89.1 to 89.9 and their like have no band: `band_for` raises and the run fails. With methodology 1.3.0: dnssec, spf and https pass, name servers and MTA-STS warn, 89.8. |
| `ControlBlocksTheDomain` | `broker` | - | The runtime of a worker (`tasks.py:224`) has its own kill switch and mode; only an ownership check asks for `emergency_controls` (`network_adapter.py:69`). `docs/operations/emergency-controls.md:8` says a control blocks one exact domain. |
| `AbandonedChallengeDoesNotDemote` | `domain_control` | `Scopes = {"domain", "https_verification"}` | Trying a challenge that has lapsed sets the domain to expired, verified or not (`router.py:456-460`); the comment at `router.py:274-277` says that a verified domain should not be demoted for having ignored a later challenge. |
| `PageDescribesTheDomain` | `publication` | - | The projector reads the evaluations of a run for every subject (`store.py:58`) and keys them by check alone (`store.py:69`), so the result of an accepted host may stand on the page; `projection.py:35` says "Results that describe the domain". |
| `ExpiredEvidenceIsRemoved` | `reports` | - | Manifests are in the retention schedule, and their table refuses every DELETE (`migrations/0004`, trigger `scope_manifests_immutable`): a sweep that meets an expired one raises and rolls back, every day. `docs/operations/jobs.md:33` names the result. |
| `PageAgreesWithItself` | `reports` | `RegistrableName = above` | The columns of a report ask for the evaluations of the registrable name (`reports.py:819`), the run evaluated the canonical one (`migrations/0009:118`): a registered subdomain has empty columns beside its findings. |
| `OrganizationRetainsAnOwner` | `access` | - | `revoke_membership` counts owners before it lets one go, "The organization must retain an owner." (`organizations.py:396`); a change of role counts none, so the founder can demote himself, and two owners can revoke one another at once. |

Properties with `[]`, `~>` or `<>` stand under PROPERTIES, the others under
INVARIANTS.

Met on the way, by module:

- **Engine.** With duplicate messages a settled step can be executed again by a
  delivery that read the rows before it settled (the row is read again, its state
  is not): `SettledStepsStay` fails with two workers, and so does `AttemptBudget`
  with the constants of `LeasesExclude`. The key makes it harmless only where both
  deliveries have the same payload. A step that fails (not: is retried) is settled for good;
  the comment at `handlers.py:709-711` expects the sweep to pick up a write that
  failed. `persist` repeated adds the sightings of asset candidates again.
- **Schedules.** A pass may move a schedule by the cadence it had a moment
  before: after a change from weekly to daily the next run can be a week away;
  `NextFollowsCadence` therefore promises only the longest cadence.
- **Evidence.** The checks of `JudgedOverWhatAnswered` are judged over the answers
  that came: a lost plaintext answer beside a good HTTPS one passes the redirect
  check; HTTPS that the platform itself refused counts as unavailable; when every
  probe of a TLS version times out, none is deprecated; a lost MTA-STS policy
  counts as none; a port scan halted midway is judged over the ports it reached.
  Failed attributions come out absent, an index that is down as one without
  entries, a lost MX lookup as a domain without mail.
- **Broker.** The permit that `inspect_tls` and `probe_ports` keep when the run is
  halted in them stays lost; the run is over by then. Version probes are
  authorized as a whole, so a stop between two of them is noticed after the last.
- **Domain control.** Activating a control for one domain waits for the
  verification that holds the domain's row, so it cannot stop that one, which
  `emergency-controls.md` promises. A DNS verification asks no control. The row
  that records a running operation is uncommitted while it runs, and
  `_cancel_matching_operations` never sees it. Acceptance reads the domains of its
  targets without locking them. Two revocations overwrite each other's reason. A
  failure of the network costs an attempt. Concurrent creations exceed the hourly
  limit by their number less one.
- **Publication.** A withdrawal that commits between the projector's reads and its
  write leaves the profile up until the next projection (`overtaken`). A takedown
  keeps a name from being published again and does not remove what is. A page
  read while it is rewritten mixes two assessments. Any organization that
  registered a name removes what another published under it.
- **Reports.** Findings are read when the document is downloaded and include those
  of later runs and of accepted hosts. The claim commits before the document is
  rendered, so a renderer that is missing spends the grant. A sweep that passes
  between two reads leaves a torn document, a run swept in part carries no mark.
- **Access.** A member who revokes himself is rolled back by the policy of the
  audit table. A member revoked while his INSERT waits for the lock still commits
  and links to nothing, one demoted while a request of his is under way still has
  it done. A revoked member cannot return (his row is there, the acceptance
  fails). An invitation that lapsed keeps its address from being invited again,
  as nothing marks it expired. A refusal met by a full pool leaves no record.
  The chain of platform events (no organization) forks whenever two
  administrators act, as each sees only his own rows.


## 6. What is not modelled, and why

- *Inside the modelled parts.* The parsing of records, certificates and pages
  beyond what the checks tell apart; addresses and URLs beyond the predicates
  the broker asks; confidence and freshness of evidence. Suppressions, overrides
  and the review of asset candidates: library code that no operation of the
  services calls. Authorized runs beyond their refusal: `authorization_id` is
  never filled in, so none can be inserted. Lock timeouts: a refused `persist` is
  a failed one. The wait of the rate limiter and for a permit: an operation that
  waits has not begun. The period of an authorization and the signature of a
  manifest. The aggregates over many organizations. Two sweeps at once, which
  beat does not start. The platform's own chain of events. Sign-in, which is
  external.
- *Adapter resilience and shared quota.* No collector calls the guard, the cache
  or the ledgers: a model of them would have no use in the program to be
  faithful to. What is used, the rate limiter and `read_all`, is an outcome.
- *Agent gateway.* One request at a time over a budget in memory.
- *The rest.* The table in section 1 and `PROJECT.json` name it. Parsers,
  renderers, read models and wiring hold no state whose order matters.


## 7. Plan

Order: the most consequential state first.

1. **Done.** Lifecycle, graph, engine, `DurableRun`; assessment run; schedules;
   findings and scores; the proof of the engine's safety.
2. **Done.** From answers to verdicts (`Collectors`, `Normalization`,
   `Evidence`); the network gate; domain control; publication; reports and
   retention; memberships, the audit chain and the pool.
3. **Done.** The safety of the engine, exclusion and budget, and the refinement
   of `DurableRun`; the assessment; schedules; findings and their scores; what is judged
   over which answers; the network gate; domain control; publication; reports; memberships
   and trail.
4. **Left to TLC.** Liveness (section 4).
