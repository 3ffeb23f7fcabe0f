# Asmodeus: TLA+ models, checks and proofs

Asmodeus is an orchestrator for *simulated* security exercises: a control plane (HTTP API,
scheduler, campaigns, audit) dispatches signed scenarios to runners over gRPC, and keeps signed
evidence of what ran, what was detected and whether it was cleaned up.  This directory models
the control plane, the runner and the scenario language in TLA+, checks them with TLC on small instances, and
proves with TLAPS, for all instances, what the registry, the campaigns, the scheduler, the runner service, the runner's host,
the procedure suites, the scenario language and catalog, the audit, the access control and the snapshots promise.

Paths below are relative to `src/crates/asmodeus-control-plane/src/` unless they start with `crates/`.

## 1. The system

| Component | State | Operations | Hard part |
|---|---|---|---|
| Runner registry (`registry.rs`, `registry_store.rs`) | live records with status, heartbeat and probe token; sticky `require_runner`; snapshot file | register, drain/resume, deregister, begin a probe, apply its answer, route | a request persists without the data lock; late answers; restarts |
| Watchdog (`watchdog.rs`) | position in its round | probe every runner in turn, tell the scheduler when the first round is over | its probes race callers' pings and reconfiguration |
| Campaign run store (`campaign_run.rs`, `persistent.rs`) | durable runs: status, results, superseded attempts | insert, update, recover, resume, prune, validate | startup refuses an invalid snapshot |
| Campaign workers (`campaign_execution.rs`, `run_control.rs`) | a task and a control handle per run | launch, execute stage by stage, cancel, resume | cancel against admission; crash between audit and snapshot; failing writes |
| Scenario execution (`execution.rs`) | audit record, live run with a cancel flag | route, admit, run, record the end | the end may not be recordable |
| Scheduler (`scheduler.rs`, `schedules_http.rs`) | jobs with generation, history, drift state, alerts; pending outcomes | claim, dispatch, store the outcome, feedback | two stores, failing writes, jobs replaced in flight |
| Persistent snapshots (`persistent.rs`) | value, JSON file, temporary file | load, update | failure, crash and power loss between write, sync, rename and publication |
| Audit store (`audit_store.rs`, `crates/asmodeus-telemetry/src/audit.rs`) | append-only signed log, latest revisions, aggregate | append, update, recover | file, trail and aggregate must agree; torn writes |
| Reports (`reporting.rs`, `crates/asmodeus-telemetry/src/{lib,reporting,compliance}.rs`) | none: computed from totals or records | metrics, resilience, compliance, campaign and run reports | the same figures counted in several places |
| Runner service (`crates/asmodeus-runner/src/service.rs`, `dispatch.rs`) | one execution slot, health, lease | execute, heartbeat, cancel, cleanup | lease expiry against renewals and cancels; supervisor against the next run |
| Runner host (`crates/asmodeus-runner/src/{sandbox,injectors,canary,netchaos,aya_backend}.rs`, `crates/asmodeus-netchaos-ebpf`) | files below the canary root, the program on an interface | create, inject, attach, revert, remove | every step may fail, in any order; a crash leaves things behind |
| Procedure suites (`crates/asmodeus-runner/src/procedure_{local,suite}.rs`) | attempt directories, ownership records | run a suite of fixtures under a kill switch | reuse of an id after a crash; a partial suite |
| Scenario language (`crates/asmodeus-dsl`) | none | parse, validate, compile to a plan | limits and scopes at their edge; fidelity that is claimed, not earned |
| Scenario catalog (`catalog.rs`, `scenario_profile.rs`, `scenario_http.rs`) | signed entries of this process | load, list, matrix | order of files, replaced entries |
| Access control (`api.rs`, `crates/asmodeus-common/src/rbac.rs`, every handler) | roles kept by schedules and workers | authenticate, authorize | permissions that outlive the request |
| Webhooks, transport, CLI, ClickHouse export, safety primitives | none that others depend on | I/O | out of scope |

Interaction.  `main.rs` restores every store, runs the recovery functions, then starts the
watchdog and the scheduler; the scheduler waits for the watchdog's first round.  The scheduler,
campaign workers and the API all start scenarios through `execution.rs`, which asks the registry
for a runner, appends to the audit, publishes a cancel handle in `state.runs`, and dispatches.
Campaign workers talk to cancel requests through `CampaignControl`.  Feedback of operators
enters the audit first and the schedule catalog second.  A scenario is text, then a manifest, then a signed catalog entry,
then an execution plan, which both the control plane and the runner compile from the same manifest; on the
runner the plan becomes files and network rules, and what the audit keeps of them feeds the reports.

What makes each part correct is stated by the properties in section 4; `PROJECT.json` lists the
hazards of the code by line, each with the property that would catch it.

## 2. Modules

`RunnerConfig` is the abstract specification: the runner configuration as one atomic variable.

`RunnerRegistry` is the code.  `runners`, `requireRunner` are `RegistryData`; `disk` the snapshot
file; `writer` the request that holds the writer lock.  `RunnerRegistry::update` is three actions
(`UpdateBegin`, `UpdatePersist` or `UpdateFail`, `UpdatePublish`), since only the clone and the
publication hold the data lock.  A probe is two (`PingBegin` or `WatchdogProbe`, then `Answer`).
A probe token is `Arc<()>` compared by address; `Epochs` are the addresses, and `FreshEpochs`
allows an address again as soon as no live token has it.  `vouched` and `probe[p].valid` are history
variables: from which address the last answer that counts came.  `Crash` is possible in every
state and restores from `disk`.  Configuration from the environment appears in `RunnerConfig!Init`.

`CampaignRunStore` has the transactions of the campaign snapshot as operators on values;
`CampaignExecution` extends it with the workers (`worker[w].pc` is the await or lock a task is at), the
control handles (`cancelled`, `current`), the scenario task (`phase`, `live`, `cancelling`), the cancel
requests, and `Crash`.  A `Persistent::update` or an audit write is one step: a blocking task owns it
under the writer lock, and what it publishes is what it made durable.  Scenario outcomes are every
combination of status, mode and cleanup that `execution.rs` can record.  Not in the model: the role
check `authorize`, dates, detection figures copied into a result, and the statuses TIMED_OUT,
CLEANUP_FAILED and CONTROL_LOST, which campaign code treats as FAILED.

`Scheduler` is the poll loop of `spawn_scheduler` with one `pc` value per await, the catalog, the
scenario task by its end, and feedback by its two transactions.  Time is the set `waiting`: an
interval that is over is removed by `IntervalPasses` at any moment.  A job's `health` is
`drift_detected`/`detection_missed`; the threshold 1.5 is `2 * mttd >= 3 * baseline`.  `Failures` names
what may go wrong in a run: restarts and failing writes.

`RunnerService` is one runner and the control plane's end of its executions.  On the runner, `worker[r]`
is `run_worker` and its supervisor by where they are, `slot` is `active`, `cancelled` and `expired` are the two
things `check()` reads beside the stream (`receiver`), `residue` what is left on the host.  On the control
plane `client[r]` is the task of `dispatch_controlled`, `aborting` the flag in `ActiveRun`, `sent` its
`cancel_sent`, and `audit` what `execution.rs` records.  `net` holds the calls under way: they may be handled late,
after their caller gave up, or never.  Either process may die at any moment (`ControlPlaneCrash`,
`RunnerCrash`).  Time is not counted: a lease or a deadline may be over whenever it is looked at.
Progress events, the figures of a report and the `simulated` flag are left out; a run is dispatched
once, as `execution.rs` does.  Two things are visible in the model and judged by no property, since
no document says what they should be: a supervisor may store the runner's health after a newer run began
(`StoreHealth`), and a rejected run leaves the runner unhealthy, so the watchdog takes it out
of rotation until it restarts (or executes a run that was dispatched before).
`CampaignExecution!Outcomes` takes its restriction on runner outcomes from `OutcomeIsEarned`.

`AuditLog` is the abstract audit: one record per run, admitted once, ended once, feedback afterwards.
`RunAggregate` is the running totals with their arithmetic, `AuditStore` the code: `file` is the log on disk (`readable`
is "no" once a line is damaged, `leftover` the lines whose writer was told they failed), `trail` and `aggregate` the
snapshot, `writer` the writer lock between `persist` and the publication, `task` the scenario workers, `request` the feedback
handlers, which look at a record before they enter the transaction.  A write may fail, its rollback too, a crash may tear
it, and the process may come back with another key.  `AuditReports` computes every report from `AuditLog`'s records,
and the metrics from the totals that `update_run` keeps.

`ScenarioLanguage` has the manifest, its scopes, limits, techniques and fidelity, and the compiled plan, as
operators; `IsManifest` is what serde's types leave of any input.  `ScenarioManifest` lets an author change fields of a good
manifest; `ManifestText` is the YAML subset as lines
with an indent, a key and perhaps a value.  `ScenarioCatalog` is the start of the control plane over a directory that lists
its files in any order, and what the runner makes of the requests built from its entries.

`RunnerHost`, over the plans of `ScenarioLanguage`, is `run_worker`'s closure over a file system and a kernel: `tree` is the canary root, `rule` the programs on
interfaces, `worker` the steps of the run.  `ProcedureSuite` is `run_suite` over `run_in_root` with its receivers.

`PersistentStore` is `Persistent<T>` file operation by file operation; `former` holds what the directory may still show after
a power loss, since the rename is not synced.  The campaign and scheduler modules rely on it: to them `update` is one step.

`AccessControl` is `caller_role`, `Role::can` and the authorization of each handler, over the campaigns, campaign runs and
the schedule that outlive a request, with restarts that load another catalog.  A request is answered before anything else
moves, since its authentication reads only the request, the clock and the environment.

`MCLiveness` and `MCParts` put modules that share no state side by side for one run each: a variable `part` says which
one moves, and the others stay as they started.  `MCParts` extends the modules whose theorems are listed in section 6, so that
TLC evaluates the very definitions and assumptions the proofs use; their definitions therefore have names of their own
(`AuditNext`, `HostNext`, `CatalogSpec`), and their properties hold in every part.  `AuditReports` and `ManifestText` are
instances in it, and `NothingLostOrInvented` states their properties for their parts.  The other `MC*` modules hold symmetry
sets and small constants only.  Definitions that a comment marks "Mutant" are the deliberately wrong variants listed in `PROJECT.json`.

## 3. Runs

| Run | Instance | Shows |
|---|---|---|
| `registry_routing` | 2 runners, 2 tag lists, all targets, 1 pinger and the watchdog | `NoSimulationFallback`, `MaintenanceIsSticky` |
| `registry_fencing` | 1 runner, 2 addresses, 2 pingers and the watchdog, 5 token addresses | token fencing, file and live data, refinement of `RunnerConfig` |
| `campaign_resume` | 1 run, 2 stages, 3 attempts, 2 workers, 1 canceller, both modes | all safety properties of campaigns |
| `campaign_liveness` | 2 runs, 2 stages, 2 attempts, 1 worker, 1 canceller, 1 finished run kept, simulated mode, fairness | `CancelStops`, `ResumableIsKept` |
| `scheduler_history` | 1 job, 2 runs, 2 detection times, 1 operator, restarts and failing writes | `LatestRunDecides`, `RunningIsTracked` |
| `scheduler_liveness` | 2 jobs, 2 generations, 1 run, failing writes, fairness | `AttemptHasHistory`, `HistoryIsOwn`, `RunningEnds` |
| `runner_slot` | 1 runner, 2 runs, lost and late calls, crashes of both sides | `SlotHeld`, `EvidenceIsTrue`, `OutcomeIsEarned` |
| `progress` | registry: 1 runner, 1 pinger; runner: 1 run with lost calls and crashes; fairness | `HealthyRunnerIsRouted`, `OrphanStops`, `CancelEnds` |
| `records_and_rules` | see below | the properties of audit, reports, language, catalog, host, procedures, access and snapshots |
| `scheduler_feedback` | 1 job, 1 run, 1 operator, nothing fails | **violated** `FeedbackReachesHistory` |
| `scheduler_attempts` | 1 job, 1 run, restarts | **violated** `AttemptHasHistory` |
| `campaign_cleanup` | 1 run, 1 stage, 2 attempts, runner mode | **violated** `RetryNeedsCleanup` |

Bounds.  Two addresses and two pingers beside the watchdog give every overtaking of one probe by
another, by a reconfiguration and by both; five tokens are one more than can be live at once (one
per prober and one at the runner), so that a freed one can be taken again.  Two stages and three attempts
let a stage complete, the next fail, and its retry be cancelled or crash again; a second worker is
what a double resume needs.  Two runs with room for one are the least at which prune has a choice; they take turns on one worker in
`campaign_liveness`, since two workers at once are what `campaign_resume` is for.
Two generations and two jobs allow a job to be replaced while another waits in the same round.
`MaxSids` and `MaxGens` bound ids that are unbounded in the code; a worker without an id left
may only fail.  Two runs on a runner give the supervisor of one and the calls of one against the
other; a third would only repeat it, since at most one worker holds the slot and finished ones differ in
nothing.  The liveness of a run on the runner does not depend on other runs except through the slot,
which `runner_slot` covers, so that run has one; with two it exceeds what TLC does in minutes.

`records_and_rules` has nine parts.  Audit: 2 runs, 1 operator, either 5 lines and no failure or 4 lines and every
failure, 2 keys; two runs of which one is corrected is what lets a subtraction go wrong, and a line more than that only
repeats it.  Reports: 3 runs, one of a technique that is protected, one that is not, one without a technique, so that each
function, tactic and control has a run inside and one outside of it.  Text: 4 lines at 3 depths with 2 keys; a line can
be misplaced only with respect to its parent, its sibling and what both stand under.  Manifests: every built-in action
and 3 of the new version, any 2 fields changed to values on both sides of every limit; the checks relate at most 2 fields.
Catalog: 2 files that may carry one id, their own or a built-in one.  Host: 2 run ids, 2 executions, a canary run with 2 files, an injector,
and 3 network rules.  Procedures: a slot with an adapter and one without, one id used twice.  Access: 2
scenarios of different categories, one of which changes category and one is gone after a restart, 1 campaign run, 1 schedule,
1 exercise at a time, a token that is good for each of four roles, eight that are wrong in one respect, and the header.
Snapshots: two updates that change the value, so that a failed one meets an earlier success, and one that does not.

Fairness.  Tokio runs every task that can run, so each task's steps are weakly fair.  A ping has a
deadline in `dispatch.rs`, so `Answer` is fair, its outcome free.  `CancelStops` assumes of scenarios only that a
cancelled one ends.  `RunningEnds` assumes that scenarios end (their deadline is in the signed plan) and
that a store does not fail for ever (`SF` of `FlushWrite`).
For the runner: `check()` is called again and again while an injection runs, so one that finds a reason to stop ends;
a lease that nobody can renew runs out; a call that is not lost is handled.  `tokio::select!` picks its
ready branches at random, so `SendCancel`, `Receive` and the timeout of a call that cannot be answered (`CutOff`) are
strongly fair.  An injection need not end by itself, and no deadline is assumed to pass.  Operators, callers and crashes are never assumed to act.

## 4. Properties

*Registry.*  `RouteIsVouched`: a routed runner last answered healthy, from its present address, to a
ping sent since it was created, restored or returned from maintenance.  `LiveMatchesDisk`: outside
a commit the live configuration is the file's.  `OneLiveProbe`, `StaleStaysStale`: at most one ping in
flight can still count, and an overtaken one never counts again, address reuse included.
`MaintenanceIsSticky`, `NoSimulationFallback`: only operators end maintenance; removing the last
runner does not bring the simulation back, also after a restart.  `ConfigurationIsAtomic`: refinement of
`RunnerConfig`.  `HealthyRunnerIsRouted`: liveness.

The properties of `records_and_rules` are conjunctions of those of one component, defined at the end of its module:
`AuditIsDurable` (`TypeOK`, `TrailIsReplay`, `TrailIsTrusted`), `MetricsAreRecords` (and `CountedOnce`), `ManifestsAreConfined`,
`CatalogIsExecutable`, `EvidenceMatchesHost` and `InjectionIsConfined` (host), `SuitesAreHonest`, `ExercisesArePermitted` (access),
`SnapshotKeepsPromises`, and in `MCParts` `NothingLostOrInvented` (reports and text); the conjuncts are described below.  The
`TypeOK` of campaigns, scheduler, runner service, host and suites is not a property of a run: it is proved, as the first part of
each inductive invariant.

*Campaigns.*  `SnapshotLoads`: what any crash leaves passes `validate()`.  `SoleExecutor`: one worker
per run, the registered one, with an up-to-date copy.  `NoUnsafeRetry`: no stage twice after it
completed, and no retry before the effects of the last attempt are known to be gone.
`AttemptsAccounted`: no scenario run is lost from its campaign run, and (`CompletionEvidenced`) a completed stage
has a completed audit record of its own.  `CancelNotMissed`, `CancelStops`:
cancellation against admission.  `OrphanOnlyAfterFailure`: a run that is stored as under way has a
worker unless a write failed: after such a failure the run stays `RUNNING` until a
restart, which the code accepts ("no further stages admitted").  `FinishedIsFinal`, `ResumableIsKept`.

*Runner.*  `SlotHeld`: one run executes at a time and the slot names it until its cleanup is over, so
calls reach it although an older supervisor may still be about to clear the slot.  `EvidenceIsTrue`: a recorded
SUCCESS of the cleanup means that nothing of the run is left or executing.  `OutcomeIsEarned`: no
cancellation without a request for it, no completion without confirmed cleanup.  `OrphanStops`: a run whose
control plane is gone stops.  `CancelEnds`: a cancellation comes to an end.

*Scheduler.*  `RunningIsTracked`, `RunningEnds`: a job stored as RUNNING is answered for and ends.
`HistoryIsOwn`: no sample of another job, generation, or twice.  `LatestRunDecides`: late feedback
does not move the drift state.  `AttemptHasHistory`, `FeedbackReachesHistory`: see the findings.

*Audit.*  `TrailIsReplay`: what is served is what a restart would read, so a failure between file and snapshot shows;
`MetricsAreRecords`, `CountedOnce`: the totals never drift, however often feedback is corrected.  `OpenIsExecuting`: an open record has
a worker, or its end could not be saved.  `TrailIsTrusted`: no record of another key is served.  `FileIsAuditLog`: the file is at every
moment, torn writes included, a history of `AuditLog`.

*Snapshots.*  `SnapshotIsWhole`: no failure leaves a file the next start cannot load.  `ServedIsStored`: readers see what a restart would load.
`AnswersAreTrue`: an update that was confirmed is in force and a refused one is not, over crashes; a power loss may take
back the last confirmed ones, since the directory is not synced (`registry_store.rs:141` says so of the registry's file).

*Reports* (`NothingLostOrInvented`).  `ReportsAgree`: totals, records, tactics, campaigns and single runs tell the same figures.  `MeritIsEarned`: no score and no
met control without a detection an operator confirmed on a real run.  `OnlyEvidenceCounts`: simulated, open and
unanswered runs move no figure of merit.

*Language and catalog.*  `EveryLineIsASetting` (also in `NothingLostOrInvented`): a text is refused or nothing of it is lost, against a
definition by indentation.  `AdmittedIsConfined`: paths are resolved as a kernel would, networks compared as intervals.  `NeverPromoted`: fidelity is
never more than declared, implemented and listed.  `CatalogIsDirectory`, `ListedIsAccepted`, `ClaimsAreExecuted`: what is listed can
be launched and is accepted by a runner with the key, and what is claimed of it is executed.

*Host and procedures.*  `CleanedMeansClean`, `LeftoversAreReported`, `CompletedDidAll`: evidence against the state of the host.
`ForeignUntouched`: nothing of anybody else is entered or removed.  `StopsInjecting`, `KillSwitchHolds`: how much still
happens after a reason to stop.  `DropsAreConfined`: the classifier's arithmetic against the block the manifest names.
`AttemptsRunOnce`, `GateIsHonest`: no attempt twice over crashes and cleanups; the gate passes only for what ran.

*Access.*  `IdentityIsAuthentic`: no refused bearer falls back to the header.  `LaunchIsPermitted`, `CampaignAllOrNothing`,
`EnabledByPermission`, `CancelIsAuthorized`: permissions of what outlives its request, under replaced
campaigns, other resumers and other catalogs.

## 5. Findings

1. *Feedback can be lost to the schedule history* (`scheduler.rs:341`).  `flush_outcomes` reads the audit
   before its catalog transaction.  Feedback handled entirely in between finds no sample, and the
   flush then stores the sample with the older reading.  Reading the audit inside the transaction
   would close the window.
2. *An interrupted attempt has no history entry* (`scheduler.rs:488`), although the documentation
   says that every attempt has one.
3. *A retry with cleanup unconfirmed* (`campaign_execution.rs:93`).  `execution.rs:263` marks a real
   runner's run as "simulated" when its network backend was; resume then treats it like the in-process
   simulation and does not look at its cleanup, which may have failed.  The documentation blocks resume there.

## 6. Proofs

Eight modules `<component>Proofs` extend their components: `AccessControlProofs` has `PersistentStore` too, `ScenarioProofs` is
about `ScenarioLanguage`, `ScenarioManifest` and `ScenarioCatalog`, and `RunnerHostProofs` extends it with `RunnerHost` and
`ProcedureSuite`.  A theorem holds for all values of the constants that satisfy the
named assumptions of the component; TLC evaluates these on the runs of the component.

| Component, assumptions | Theorem | States |
|---|---|---|
| `RunnerRegistry`: `Ids \subseteq Nat` | `TypeCorrect` | `[]TypeOK` |
| | `DiskCorrect` | `[]LiveMatchesDisk` |
| | `ConfigurationRefinement` | `ConfigurationIsAtomic` |
| | `NoFallback` | `NoSimulationFallback` |
| | `MaintenanceSticks` | `MaintenanceIsSticky` |
| | `RoutingCorrect` | `[]RouteIsVouched` |
| | `OneProbeCorrect` | `[]OneLiveProbe` |
| | `StaleCorrect` | `StaleStaysStale` |
| `RunnerService`: `NoRun` is no run | `SlotCorrect` | `[]SlotHeld` |
| | `EvidenceCorrect` | `[]EvidenceIsTrue` |
| | `OutcomeCorrect` | `[]OutcomeIsEarned` |
| `CampaignExecution`: `NoWorker` is no worker, `Modes` are the two of the code, at least one step | `SoleCorrect` | `[]SoleExecutor` |
| | `SnapshotCorrect` | `[]SnapshotLoads` |
| | `OrphanCorrect` | `[]OrphanOnlyAfterFailure` |
| | `AttemptsCorrect` | `[]AttemptsAccounted` |
| | `RetryCorrect` | `[]NoUnsafeRetry` |
| | `CancelCorrect` | `[]CancelNotMissed` |
| | `FinishedCorrect` | `FinishedIsFinal` |
| | `KeptCorrect` | `ResumableIsKept` |
| `Scheduler`: jobs, times and bounds are numbers | `HistoryCorrect` | `[]HistoryIsOwn` |
| | `RunningCorrect` | `[]RunningIsTracked` |
| | `LatestCorrect` | `[]LatestRunDecides` |
| | `AttemptCorrect` | `"crash" \notin Failures`: `[]AttemptHasHistory` |
| `AuditStore`: `NoRecord` is no record, no operator is called like another writer | `DurableCorrect` | `[]AuditIsDurable` |
| | `MetricsCorrect` | `[]MetricsAreRecords` |
| | `OpenCorrect` | `[]OpenIsExecuting` |
| | `FileCorrect` | `FileIsAuditLog` |
| `AccessControl`: stages come in sequences, a bearer is well formed, malformed or missing, no campaign run is called `api` or `scheduler` | `AccessCorrect` | `[]ExercisesArePermitted` |
| `PersistentStore`: none | `PromisesCorrect` | `[]SnapshotKeepsPromises` |
| `RunnerHost`: a plan has an action of the language, counts that are not negative and an IPv4 block; packets have IPv4 addresses | `HostEvidenceCorrect` | `[]EvidenceMatchesHost` |
| | `InjectionCorrect` | `[]InjectionIsConfined` |
| | `ForeignStays` | no step touches what is foreign |
| `ProcedureSuite`: the corpus is a sequence of slots | `SuitesCorrect` | `[]SuitesAreHonest` |
| `ScenarioManifest`: what an author starts from or writes is what the parser lets through (`IsManifest`, `Parsed`) | `ManifestsCorrect` | `[]ManifestsAreConfined` |
| `ScenarioCatalog`: so is what a file holds, if it can be parsed at all | `CatalogCorrect` | `[]CatalogIsExecutable` |

The one theorem with a hypothesis of its own is `AttemptCorrect`: with restarts `AttemptHasHistory` is false, which is finding 2,
and without them it holds whatever writes fail.

Hardly any of these invariants is inductive.  What each needs, and why:

*Registry.*  `CommitInv` adds to `LiveMatchesDisk` what a request in progress has promised: applying its mutation to the
present live data gives the configuration `writer.after`, although probes have changed health and tokens since the
clone.  It needs that the configuration a mutation yields depends only on the configuration it starts from (`Mutate` and
`ToEntry` commute with the atomic request), which is the code's comment "must be deterministic for configuration".
`FenceInv` says that an active runner is vouched for by its present address, that a probe whose token is the runner's is
valid and has its address, and that two probes never share a token; `FreshEpochs` keeps this when addresses are reused.
`StaleStaysStale` is about one step: whoever gives a runner a token takes one that no probe of it holds (`MutateEpoch`).

*Runner service.*  `OnceInv`: a run is admitted at most once, since its call is under way only before the runner knows anything
of it.  `CleanInv` follows a confirmed cleanup from the worker over the wire into the audit, `CancelInv` a cancellation from
the request to the outcome, or to a stream that nobody reads any more.

*Campaigns.*  `Core` is `Registered` (a worker is registered for its run from launch until it leaves), `SoleExecutor`,
`SnapshotLoads` and `StageInv` (where a worker is determines the status and the last result of its stored run): no part
holds without the others, since a resume relies on the registration and the registration on the stored status.  `OrphanInv` is
`OrphanOnlyAfterFailure` with the worker that is behind a run.  `SidInv` says that every scenario run is issued once, stored
before it is in the audit, and of one stage.  `RetryInv`: of the scenario runs of a campaign run only the last attempt
may stand in the way of the next.  `CancelInv`: a scenario that runs can be found, and a waiting worker has it in its control.

*Scheduler.*  `TaskInv` says what the loop has in hand at each await, `IssuedInv` that generations and runs are handed out
in order.  `PlaceInv` puts every run in at most one place: the history of its job (`StoredInv`), the queue (`QueueInv`) or
execution (`ClaimInv`); this gives `HistoryIsOwn`.  `DecidesInv` is `LatestRunDecides` by the place of the sample.
`AttemptInv` turns `PlaceInv` round: every run is in one of these places, or its history is full.

*Audit.*  `AuditInv` is `TrailInv` (trail and aggregate are what the file would give), `WriterInv` (what the writer has in hand
follows from the record it found, which nobody else changes while it has the lock), `RequestInv`, `RestInv`, `OpenIsExecuting` and
`AgreeInv`: but for the record that is being published, the log on disk and the trail agree on what has ended.  `Replay` and `FromRecords`
are functions of whole sequences; what they become when a line is added or replaced is proved first, for `FromRecords` by
induction in the form of a set of numbers that has no least element outside (`NumbersByInduction`).  `FileCorrect` maps every
line to a step of `AuditLog`, torn and failed writes included.

*Access.*  `AccessInv` adds to the promises that the exercise of a campaign run is the stage its worker is at (`AtStage`):
this is what relates a permission for a campaign to what is launched.

*Snapshots.*  `FileInv`: the file, and every file that a power loss may bring back, is whole.  `WriterInv`: the transaction extends the
value that is served by its own update.  `AnswerInv`: an update is in the files according to its answer.

*Host.*  `HostInv` follows one run through its steps.  `PlaceInv` says what the step a worker is at means for its plan and
counts.  `TreeInv` and `RuleInv` give the directory and the rule an owner: a rule that can drop anything has the run's directory
beside it, so a run that finds its directory free finds its interface free too, which is why `CleanedMeansClean` survives a crash
and a second run under the same name.  `LeftInv` is `LeftoversAreReported` with the run that is still at work, `LateInv`
counts what may be written after the reason to stop, `DoneInv` what a run that ends well has behind it.
`DropsAreConfined` needs arithmetic: `MatchesDst` compares masked addresses octet by octet, the property compares the ends of an
interval.  `InBlock` and `BlockIsInterval` show that the two agree for every address and every prefix up to 32.

*Suites.*  The attempts of a suite come in a fixed order (`At`); `EntriesInv` says of each place behind the worker that its entry
is true of the receivers and the directory, and stays true, since an attempt that has a ledger is never owned again (`ServedInv`).
`CutInv`: behind a cancelled entry there are only entries of variants that were not run.

*Manifests.*  Nothing about a manifest is assumed but the types of its fields.  Paths: `PathInScope` looks at the text, `Compiles` at
`Path`'s names, the property at the walk of a kernel.  `OneWalk` shows that a walk is determined by its steps, by induction over the
length of the path (`InductionUpTo`, again as a set of numbers); `ResolvedIsNames` that without `..` kernel and `Path` arrive at the same place;
`RootIsKept` that a walk which begins with a root stays below it.  Networks: `TargetsAreReserved`, by the intervals above.
Numbers: `NumbersAreBounded`, with the defaults of the parameters that are not given.  Fidelity: `FidelityIsEarned`,
`TechniqueIsEarned`, `RefsAreEarned`, `PrimaryIsFirst`, over a list of references of any length.

*Catalog.*  `CatalogInv`: whatever part of the directory has been read, an entry is a built-in one that no file read so far
replaces, or the last loaded of the files with its id.  `SeededIsValid` shows that every built-in scenario passes the validation
that files have to pass, so that one argument (`ListedAreEntries`) covers both; the runner's acceptance then rests on the same
`Valid` and `Plan`.

Only model-checked.  Liveness under fairness is out of the prover's reach: `HealthyRunnerIsRouted`, `CancelStops`,
`RunningEnds`, `OrphanStops`, `CancelEnds`.  `NothingLostOrInvented` is about what recursive definitions compute: `ParseMap`
descends over the lines of a text, and the reports count and add up with folds over sets of records that are given by a predicate.  Both
would need induction with an operator as parameter.  The arithmetic that the totals rest on is proved, in `MetricsCorrect`.
The three violated properties are refuted on their runs; `AttemptCorrect` says what is left of the second one.

## 7. Not modelled

Webhooks (tasks of their own whose result nothing reads), ClickHouse rows, the layout of reports, transport and TLS,
the HTTP routing tables and the API description, the parsing of environment variables, the reading of a procedure corpus, CLI
and test kit; the circuit breaker and dead man's switch, which nothing calls, and the lifecycle table, which only the
engine for tests uses.  `components` of `PROJECT.json` names each with its reason.

Assumptions.  Signatures cannot be forged: a record carries its signer.  A write that is synced stays; a rename that is not may be undone by a power loss (`PersistentStore` alone loses power).  Of the two ways
out of a network rule, disarming it and detaching its program, one works; `aya_backend.rs` looks at the result of neither, so the
evidence could not tell.  A runner's interfaces are loopback, one in scope and one out of it.

Observations no property judges, since no document says how they should be:

- a `DEFENSE_IMPAIRMENT_CANARY` run is recorded under T1562, while the compliance controls list T1562.001 only;
- the matrix and the compliance report compare technique ids by case, validation does not;
- the YAML subset has no lists, so `technique_refs` can be given in JSON only;
- manifests of the directory are signed by the control plane itself: the signature shows that the runner got what the
  catalog has, not who wrote it;
- a role that may manage scenarios may delete or replace campaigns and delete schedules of the other category, and may end a
  mixed campaign by cancelling the stage of its own category;
- `state.rs` says that any fault forces the cleanup, while the table takes the breaker's event only while injecting;
- `webhook.rs` lists events that nothing sends;
- the runner's supervisor may store a health that is older than the run that is under way.

## 8. State of the work

Every component that keeps state or applies a rule is modelled, checked and, but for the properties named under "Only
model-checked", proved.  What could follow:

1. Recursion in `ManifestText` as a function over line numbers, in the form of `Resolved`, which `OneWalk` shows to be within
   reach of a proof; `EveryLineIsASetting` then needs an invariant of the descent.
2. A refinement from `CampaignExecution` to `PersistentStore`: today the campaign and scheduler modules take a transaction as one
   step because of what `PromisesCorrect` says, by argument and not by a theorem.
3. The two hazards without a property (order of two feedback requests; health stored by an older supervisor) need a decision
   about what the code should do before a property can say it.
