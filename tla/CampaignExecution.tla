------------------------- MODULE CampaignExecution -------------------------
(***************************************************************************)
(* Campaign workers (campaign_execution.rs), their control handles         *)
(* (run_control.rs), the scenario task a stage starts (execution.rs) and   *)
(* the requests that cancel either (campaign_http.rs, runs_http.rs,        *)
(* scenario_http.rs abort_all).                                            *)
(*                                                                         *)
(* A transaction of the snapshot or of the audit commits or fails as one   *)
(* step: a blocking task owns it under a writer lock, and what it          *)
(* publishes is what it made durable.  Everything between two awaits or    *)
(* two locks of the code is a step of its own.                             *)
(***************************************************************************)
EXTENDS CampaignRunStore

CONSTANTS
    Workers,    \* tasks spawned by launch, each with a CampaignControl
    Cancellers, \* cancellation requests that are handled at the same time
    Modes       \* how a stage may execute: "runner", "simulated"

NoWorker == "none"
ASSUME WorkersAssumption == NoWorker \notin Workers
ASSUME ModesAssumption == Modes \subseteq {"runner", "simulated"}

VARIABLES
    store,       \* campaign_runs: the snapshot, in memory and on disk
    audit,       \* the latest audit revision of every scenario run
    controls,    \* campaign_controls: the worker registered for a run
    worker,      \* worker[w]: where the task is, and its locals
    cancelled,   \* workers whose control has the cancelled flag
    current,     \* current[w]: the stage its control names, or NoSid
    phase,       \* phase[s]: the task of a scenario run
    live,        \* state.runs: the scenario runs that can be cancelled
    cancelling,  \* scenario runs whose cancel flag is set
    canceller,   \* canceller[c]: a cancellation request
    nextSid,     \* next_run_id
    launched,    \* campaign run ids handed out
    faulted      \* history: runs whose worker a failed write stopped

ctlVars  == <<controls, cancelled, current>>
scenVars == <<audit, phase, live, cancelling>>
idVars   == <<nextSid, launched>>
vars     == <<store, audit, controls, worker, cancelled, current, phase, live,
              cancelling, canceller, nextSid, launched, faulted>>

-----------------------------------------------------------------------------
(* State *)

Idle == [pc |-> "idle"]
Busy(w) == worker[w].pc # "idle"

\* launch: the control is registered and the admission transaction pending.
Launching == [pc: {"new", "resume"}, run: Runs]

\* execute: len is next_step() of the worker's copy of the run, sid the
\* scenario run of its stage.
Looping == [pc: {"loop"}, run: Runs, len: Nat, sid: {NoSid}]

Executing ==
    [pc: {"recheck", "start", "admitted", "stop", "await"}, run: Runs, len: Nat, sid: Sids]

\* outcome: whether the scenario task returned Ok.
Settling ==
    [pc: {"settle"}, run: Runs, len: Nat, sid: Sids, outcome: {"ok", "error"}]

\* result and verdict: the outcome of the stage, read but not yet stored.
Committing ==
    [pc: {"commit"}, run: Runs, len: Nat, sid: Sids, result: Statuses,
     verdict: Statuses \ {"QUEUED"}]

Leaving == [pc: {"leaving"}, run: Runs]

Task ==
    {Idle} \cup Launching \cup Looping \cup Executing \cup Settling \cup Committing
      \cup Leaving

InExecute(w) == worker[w].pc \notin {"idle", "new", "resume", "leaving"}

Phases == {"none", "queued", "running", "ok", "error"}

NoCancel == [state |-> "idle"]

Cancel ==
    {NoCancel}
      \cup [state: {"snapshot"}]
      \cup [state: {"lookup"}, todo: SUBSET Runs]
      \cup [state: {"control"}, todo: SUBSET Runs, worker: Workers]
      \cup [state: {"stage"}, todo: SUBSET Runs, sid: Sids]

Holds(c, w) == canceller[c].state = "control" /\ canceller[c].worker = w

Init ==
    /\ store = [r \in Runs |-> NoRun]
    /\ audit = [s \in Sids |-> NoAudit]
    /\ controls = [r \in Runs |-> NoWorker]
    /\ worker = [w \in Workers |-> Idle]
    /\ cancelled = {}
    /\ current = [w \in Workers |-> NoSid]
    /\ phase = [s \in Sids |-> "none"]
    /\ live = {}
    /\ cancelling = {}
    /\ canceller = [c \in Cancellers |-> NoCancel]
    /\ nextSid = 1
    /\ launched = {}
    /\ faulted = {}

-----------------------------------------------------------------------------
(* Restart: with_storage and main *)

\* AuditStore::recover_incomplete, for one record
RecoverIncomplete(a) ==
    IF a = NoAudit \/ IsTerminal(a) THEN a
    ELSE [a EXCEPT !.status = "INTERRUPTED", !.cleanup = "UNCONFIRMED"]

Crash ==
    /\ store' = RecoverInterrupted(store)
    /\ audit' = [s \in Sids |-> RecoverIncomplete(audit[s])]
    /\ controls' = [r \in Runs |-> NoWorker]
    /\ worker' = [w \in Workers |-> Idle]
    /\ cancelled' = {}
    /\ current' = [w \in Workers |-> NoSid]
    /\ phase' = [s \in Sids |-> "none"]
    /\ live' = {}
    /\ cancelling' = {}
    /\ canceller' = [c \in Cancellers |-> NoCancel]
    /\ faulted' = {}
    /\ UNCHANGED idVars

-----------------------------------------------------------------------------
(* launch *)

\* A new task takes a slot whose control no request still holds.
Spawn(w, r, kind) ==
    /\ ~Busy(w)
    /\ \A c \in Cancellers : ~Holds(c, w)
    /\ controls' = [controls EXCEPT ![r] = w]
    /\ worker' = [worker EXCEPT ![w] = [pc |-> kind, run |-> r]]
    /\ cancelled' = cancelled \ {w}
    /\ current' = [current EXCEPT ![w] = NoSid]

\* run_campaign: a fresh id, so no worker can be registered under it.
RunCampaign(w, r) ==
    /\ r \notin launched
    /\ launched' = launched \cup {r}
    /\ Spawn(w, r, "new")
    /\ UNCHANGED <<store, scenVars, canceller, nextSid, faulted>>

\* Mutant: a second resume is not refused.
ResumeCampaignRunTwice(w, r) ==
    /\ Present(store[r])
    /\ Spawn(w, r, "resume")
    /\ UNCHANGED <<store, scenVars, canceller, idVars, faulted>>

\* resume_campaign_run: 409 while a worker is registered.
ResumeCampaignRun(w, r) ==
    /\ Present(store[r])
    /\ controls[r] = NoWorker
    /\ Spawn(w, r, "resume")
    /\ UNCHANGED <<store, scenVars, canceller, idVars, faulted>>

Leave(w) == [pc |-> "leaving", run |-> worker[w].run]

\* The admission transaction commits, and execute begins.
Admit(w) ==
    LET r == worker[w].run
    IN  /\ \/ /\ worker[w].pc = "new"
              /\ store' = Insert(store, r)
           \/ /\ worker[w].pc = "resume"
              /\ Present(store[r])
              /\ Resumable(store[r], audit)
              /\ store' = Resume(store, r, audit)
        /\ worker' = [worker EXCEPT ![w] =
                        [pc |-> "loop", run |-> r, len |-> Len(store'[r].results),
                         sid |-> NoSid]]
        /\ UNCHANGED <<ctlVars, scenVars, canceller, idVars, faulted>>

\* It is refused, or its write fails: nothing is stored.
AdmitFails(w) ==
    /\ worker[w].pc \in {"new", "resume"}
    /\ worker' = [worker EXCEPT ![w] = Leave(w)]
    /\ UNCHANGED <<store, ctlVars, scenVars, canceller, idVars, faulted>>

\* The task removes what is registered for its run, and ends.
Unregister(w) ==
    /\ worker[w].pc = "leaving"
    /\ controls' = [controls EXCEPT ![worker[w].run] = NoWorker]
    /\ worker' = [worker EXCEPT ![w] = Idle]
    /\ cancelled' = cancelled \ {w}
    /\ UNCHANGED <<store, current, scenVars, canceller, idVars, faulted>>

-----------------------------------------------------------------------------
(* execute *)

Locals == <<ctlVars, scenVars, canceller>>

\* update(): change one run and prune, if the run is there.
StoreRun(r, run) ==
    /\ Present(store[r])
    /\ store' = Update(store, r, run)

\* A write of update() fails: execute returns and admits nothing more.
UpdateFails(w) ==
    /\ \/ worker[w].pc = "loop"
       \/ worker[w].pc = "recheck" /\ w \in cancelled
       \/ worker[w].pc = "commit"
    /\ worker' = [worker EXCEPT ![w] = Leave(w)]
    /\ faulted' = faulted \cup {worker[w].run}
    /\ UNCHANGED <<store, Locals, idVars>>

HasNext(w) == worker[w].len < Steps

\* A cancellation was seen between two stages.
StopBeforeStage(w) ==
    LET r == worker[w].run
    IN  /\ worker[w].pc = "loop"
        /\ HasNext(w)
        /\ w \in cancelled
        /\ StoreRun(r, [store[r] EXCEPT !.status = "CANCELLED"])
        /\ worker' = [worker EXCEPT ![w] = Leave(w)]
        /\ UNCHANGED <<Locals, idVars, faulted>>

\* The intent to run the next stage, with its scenario run id, is stored.
BeginStage(w) ==
    LET r       == worker[w].run
        pending == [stage |-> worker[w].len + 1, sid |-> nextSid, status |-> "RUNNING"]
    IN  /\ worker[w].pc = "loop"
        /\ HasNext(w)
        /\ w \notin cancelled
        /\ nextSid \in Sids
        /\ nextSid' = nextSid + 1
        /\ StoreRun(r, [store[r] EXCEPT !.status = "RUNNING",
                                        !.results = Append(@, pending)])
        /\ worker' = [worker EXCEPT ![w] =
                        [pc |-> "recheck", run |-> r, len |-> Len(store'[r].results),
                         sid |-> nextSid]]
        /\ UNCHANGED <<Locals, launched, faulted>>

\* A cancellation came while the intent was written: no scenario is started.
StopAtIntent(w) ==
    LET r    == worker[w].run
        last == [Last(store[r]) EXCEPT !.status = "CANCELLED", !.sid = NoSid]
    IN  /\ worker[w].pc = "recheck"
        /\ w \in cancelled
        /\ StoreRun(r, [store[r] EXCEPT !.status = "CANCELLED",
                                        !.results = SetLast(store[r], last)])
        /\ worker' = [worker EXCEPT ![w] = Leave(w)]
        /\ UNCHANGED <<Locals, idVars, faulted>>

Recheck(w) ==
    /\ worker[w].pc = "recheck"
    /\ w \notin cancelled
    /\ worker' = [worker EXCEPT ![w].pc = "start"]
    /\ UNCHANGED <<store, Locals, idVars, faulted>>

Settled(w, outcome) ==
    [pc |-> "settle", run |-> worker[w].run, len |-> worker[w].len,
     sid |-> worker[w].sid, outcome |-> outcome]

\* start_scenario_identified: refused by a check, or by the audit's write.
StageRefused(w) ==
    /\ worker[w].pc = "start"
    /\ worker' = [worker EXCEPT ![w] = Settled(w, "error")]
    /\ UNCHANGED <<store, Locals, idVars, faulted>>

\* start_scenario_identified: the scenario task appends its audit record.
StageStarts(w) ==
    LET s == worker[w].sid
    IN  /\ worker[w].pc = "start"
        /\ \E mode \in Modes :
              audit' = [audit EXCEPT ![s] =
                          [status |-> "QUEUED", mode |-> mode, cleanup |-> "PENDING",
                           run |-> worker[w].run, stage |-> worker[w].len]]
        /\ phase' = [phase EXCEPT ![s] = "queued"]
        /\ worker' = [worker EXCEPT ![w].pc = "admitted"]
        /\ UNCHANGED <<store, ctlVars, live, cancelling, canceller, idVars, faulted>>

\* Mutant: a cancellation that came first is not noticed.
SetCurrentBlind(w) ==
    /\ worker[w].pc = "admitted"
    /\ phase[worker[w].sid] # "queued"
    /\ current' = [current EXCEPT ![w] = worker[w].sid]
    /\ worker' = [worker EXCEPT ![w].pc = "await"]
    /\ UNCHANGED <<store, controls, cancelled, scenVars, canceller, idVars, faulted>>

\* The scenario is in state.runs; CampaignControl::set_current(Some)
SetCurrent(w) ==
    /\ worker[w].pc = "admitted"
    /\ phase[worker[w].sid] # "queued"
    /\ current' = [current EXCEPT ![w] = worker[w].sid]
    /\ worker' = [worker EXCEPT ![w].pc = IF w \in cancelled THEN "stop" ELSE "await"]
    /\ UNCHANGED <<store, controls, cancelled, scenVars, canceller, idVars, faulted>>

\* cancel_scenario: a scenario that has ended is not found.
CancelScenario(s) == cancelling' = cancelling \cup ({s} \cap live)

StopStage(w) ==
    /\ worker[w].pc = "stop"
    /\ CancelScenario(worker[w].sid)
    /\ worker' = [worker EXCEPT ![w].pc = "await"]
    /\ UNCHANGED <<store, ctlVars, audit, phase, live, canceller, idVars, faulted>>

\* completion.await returns; set_current(None)
StageEnds(w) ==
    /\ worker[w].pc = "await"
    /\ phase[worker[w].sid] \in {"ok", "error"}
    /\ current' = [current EXCEPT ![w] = NoSid]
    /\ worker' = [worker EXCEPT ![w] = Settled(w, phase[worker[w].sid])]
    /\ phase' = [phase EXCEPT ![worker[w].sid] = "none"]
    /\ UNCHANGED <<store, controls, cancelled, audit, live, cancelling, canceller,
                   idVars, faulted>>

ResultStatus(a) == IF a = NoAudit THEN "FAILED" ELSE a.status

\* Mutant: a scenario whose end could not be recorded counts as done.
VerdictOptimistic(w, status) ==
    IF status \in {"CANCELLED", "FAILED"} THEN status
    ELSE IF w \in cancelled THEN "CANCELLED"
    ELSE IF worker[w].len = Steps THEN "COMPLETED"
    ELSE "RUNNING"

\* The status of the run after the stage.
Verdict(w, status) ==
    LET outcome == worker[w].outcome = "ok"
    IN  IF ~outcome /\ status \in Pending THEN "INTERRUPTED"
        ELSE IF status = "CANCELLED" THEN "CANCELLED"
        ELSE IF status # "COMPLETED" \/ ~outcome THEN "FAILED"
        ELSE IF w \in cancelled THEN "CANCELLED"
        ELSE IF worker[w].len = Steps THEN "COMPLETED"
        ELSE "RUNNING"

\* Read the audit of the stage and the control.
Settle(w) ==
    LET status == ResultStatus(audit[worker[w].sid])
    IN  /\ worker[w].pc = "settle"
        /\ worker' = [worker EXCEPT ![w] =
                        [pc |-> "commit", run |-> worker[w].run, len |-> worker[w].len,
                         sid |-> worker[w].sid, result |-> status,
                         verdict |-> Verdict(w, status)]]
        /\ UNCHANGED <<store, Locals, idVars, faulted>>

\* Store the result of the stage and the new status of the run.
CommitStage(w) ==
    LET r      == worker[w].run
        result == [stage |-> worker[w].len, sid |-> worker[w].sid, status |-> worker[w].result]
    IN  /\ worker[w].pc = "commit"
        /\ StoreRun(r, [store[r] EXCEPT !.status = worker[w].verdict,
                                        !.results = SetLast(store[r], result)])
        /\ worker' = [worker EXCEPT ![w] =
                        IF worker[w].verdict = "RUNNING"
                        THEN [pc |-> "loop", run |-> r, len |-> Len(store[r].results), sid |-> NoSid]
                        ELSE Leave(w)]
        /\ UNCHANGED <<Locals, idVars, faulted>>

\* A resumed run had no stage left.
NothingLeft(w) ==
    LET r == worker[w].run
    IN  /\ worker[w].pc = "loop"
        /\ ~HasNext(w)
        /\ StoreRun(r, [store[r] EXCEPT !.status = "COMPLETED"])
        /\ worker' = [worker EXCEPT ![w] = Leave(w)]
        /\ UNCHANGED <<Locals, idVars, faulted>>

WorkerStep(w) ==
    \/ Admit(w) \/ AdmitFails(w) \/ Unregister(w) \/ UpdateFails(w)
    \/ StopBeforeStage(w) \/ BeginStage(w) \/ StopAtIntent(w) \/ Recheck(w)
    \/ StageRefused(w) \/ StageStarts(w) \/ SetCurrent(w) \/ StopStage(w)
    \/ StageEnds(w) \/ Settle(w) \/ CommitStage(w) \/ NothingLeft(w)

-----------------------------------------------------------------------------
(* The scenario task of start_scenario_identified, after the append *)

Quiet == <<store, ctlVars, worker, canceller, idVars, faulted>>

\* The run enters state.runs, and the caller is told that it is admitted.
ScenarioAdmitted(s) ==
    /\ phase[s] = "queued"
    /\ phase' = [phase EXCEPT ![s] = "running"]
    /\ live' = live \cup {s}
    /\ UNCHANGED <<audit, cancelling, Quiet>>

\* What the audit may record.  A simulated run needs no cleanup.  A runner's
\* may be confirmed or not, and the network backend may turn out to have been
\* simulated.  A runner that completes or obeys has cleaned up (RunnerService,
\* OutcomeIsEarned).
Outcomes(s) ==
    {a \in [status: {"COMPLETED", "FAILED", "CANCELLED"}, mode: {audit[s].mode, "simulated"},
            cleanup: {"SUCCESS", "NOT_APPLICABLE", "UNCONFIRMED"},
            run: {audit[s].run}, stage: {audit[s].stage}] :
        /\ a.status = "CANCELLED" => s \in cancelling
        /\ audit[s].mode = "simulated" <=> a.cleanup = "NOT_APPLICABLE"
        /\ audit[s].mode = "runner" /\ a.status \in {"COMPLETED", "CANCELLED"}
              => a.cleanup = "SUCCESS"}

\* The scenario ends, its audit record is signed and written.
ScenarioEnds(s) ==
    /\ phase[s] = "running"
    /\ \E a \in Outcomes(s) :
          /\ audit' = [audit EXCEPT ![s] = a]
          /\ \/ phase' = [phase EXCEPT ![s] = "ok"]
             \/ a.status = "FAILED" /\ phase' = [phase EXCEPT ![s] = "error"]
    /\ live' = live \ {s}
    /\ cancelling' = cancelling \ {s}
    /\ UNCHANGED Quiet

\* The write of the terminal revision fails: the run stays in state.runs.
ScenarioUnrecorded(s) ==
    /\ phase[s] = "running"
    /\ phase' = [phase EXCEPT ![s] = "error"]
    /\ UNCHANGED <<audit, live, cancelling, Quiet>>

-----------------------------------------------------------------------------
(* Cancellation requests *)

Others == <<store, controls, worker, audit, phase, live, idVars, faulted>>

Goto(c, next) == canceller' = [canceller EXCEPT ![c] = next]
Continue(todo) ==
    IF todo = {} THEN NoCancel ELSE [state |-> "lookup", todo |-> todo]

\* cancel_run: one scenario run
CancelRun(s) ==
    /\ audit[s] # NoAudit
    /\ ~IsTerminal(audit[s])
    /\ s \in live
    /\ s \notin cancelling
    /\ CancelScenario(s)
    /\ UNCHANGED <<Others, cancelled, current, canceller>>

\* cancel_campaign_run
CancelCampaignRun(c, r) ==
    /\ canceller[c] = NoCancel
    /\ Present(store[r])
    /\ Goto(c, [state |-> "lookup", todo |-> {r}])
    /\ UNCHANGED <<Others, cancelled, current, cancelling>>

\* abort_all: the scenario runs first, then the campaigns.
AbortAll(c) ==
    /\ canceller[c] = NoCancel
    /\ cancelling' = cancelling \cup live
    /\ Goto(c, [state |-> "snapshot"])
    /\ UNCHANGED <<Others, cancelled, current>>

AbortCampaigns(c) ==
    /\ canceller[c].state = "snapshot"
    /\ Goto(c, Continue({r \in Runs : controls[r] # NoWorker}))
    /\ UNCHANGED <<Others, cancelled, current, cancelling>>

\* request_cancel takes the control that is registered, if any.
\* A campaign that is not stored yet is passed over.
CancelLookup(c) ==
    /\ canceller[c].state = "lookup"
    /\ \E r \in canceller[c].todo :
          LET rest == canceller[c].todo \ {r}
          IN  Goto(c, IF Present(store[r]) /\ controls[r] # NoWorker
                      THEN [state |-> "control", todo |-> rest, worker |-> controls[r]]
                      ELSE Continue(rest))
    /\ UNCHANGED <<Others, cancelled, current, cancelling>>

\* CampaignControl::cancel sets the flag and reads the stage, under one lock.
CancelControl(c) ==
    LET w == canceller[c].worker
    IN  /\ canceller[c].state = "control"
        /\ cancelled' = cancelled \cup {w}
        /\ Goto(c, IF current[w] = NoSid
                   THEN Continue(canceller[c].todo)
                   ELSE [state |-> "stage", todo |-> canceller[c].todo, sid |-> current[w]])
        /\ UNCHANGED <<Others, current, cancelling>>

CancelStage(c) ==
    /\ canceller[c].state = "stage"
    /\ CancelScenario(canceller[c].sid)
    /\ Goto(c, Continue(canceller[c].todo))
    /\ UNCHANGED <<Others, cancelled, current>>

CancelStep(c) ==
    AbortCampaigns(c) \/ CancelLookup(c) \/ CancelControl(c) \/ CancelStage(c)

-----------------------------------------------------------------------------
Next ==
    \/ Crash
    \/ \E w \in Workers, r \in Runs : RunCampaign(w, r) \/ ResumeCampaignRun(w, r)
    \/ \E w \in Workers : WorkerStep(w)
    \/ \E s \in Sids : ScenarioAdmitted(s) \/ ScenarioEnds(s) \/ ScenarioUnrecorded(s)
                         \/ CancelRun(s)
    \/ \E c \in Cancellers : AbortAll(c) \/ CancelStep(c)
                               \/ \E r \in Runs : CancelCampaignRun(c, r)

Spec == Init /\ [][Next]_vars

\* The tokio tasks run.  Of a scenario only this is assumed: once cancelled it
\* ends.  That every scenario ends at its deadline is not needed.
Fairness ==
    /\ \A w \in Workers : WF_vars(WorkerStep(w))
    /\ \A c \in Cancellers : WF_vars(CancelStep(c))
    /\ \A s \in Sids :
          /\ WF_vars(ScenarioAdmitted(s))
          /\ WF_vars(s \in cancelling /\ (ScenarioEnds(s) \/ ScenarioUnrecorded(s)))

FairSpec == Spec /\ Fairness

-----------------------------------------------------------------------------
(* Properties *)

TypeOK ==
    /\ store \in [Runs -> CampaignRun \cup {NoRun}]
    /\ audit \in [Sids -> AuditRecord \cup {NoAudit}]
    /\ controls \in [Runs -> Workers \cup {NoWorker}]
    /\ worker \in [Workers -> Task]
    /\ current \in [Workers -> Sids \cup {NoSid}]
    /\ phase \in [Sids -> Phases]
    /\ canceller \in [Cancellers -> Cancel]
    /\ cancelled \subseteq Workers
    /\ live \subseteq Sids /\ cancelling \subseteq Sids
    /\ nextSid \in 1..(MaxSids + 1)
    /\ launched \subseteq Runs /\ faulted \subseteq Runs

\* Whenever the process dies, the snapshot it leaves passes validate(), which
\* with_storage runs before anything else: no history of stages, cancellations,
\* resumes and failed writes makes the control plane refuse to start.
SnapshotLoads == \A r \in Runs : Present(store[r]) => Validate(store[r])

\* One worker executes a run at a time, the registered one, so that a cancel
\* request reaches it; and its copy of the run, taken at its last transaction,
\* has the stages of the stored run (launch and execute, campaign_execution.rs).
SoleExecutor ==
    \A w \in Workers : InExecute(w) =>
        LET r == worker[w].run
        IN  /\ controls[r] = w
            /\ store[r].status \in Pending
            /\ worker[w].len = Len(store[r].results)

ConfirmedClean(a) == a.mode = "simulated" \/ a.cleanup \in {"SUCCESS", "NOT_APPLICABLE"}

\* A scenario is started for a run only when every earlier one of the run has
\* ended; a stage that completed never runs again, across restarts too; and
\* one that did not is retried only once its effects are known to be gone
\* (prepare_resume).
NoUnsafeRetry ==
    \A s, t \in Sids :
        (s < t /\ audit[s] # NoAudit /\ audit[t] # NoAudit /\ audit[s].run = audit[t].run) =>
            IF audit[s].status = "COMPLETED"
            THEN audit[s].stage < audit[t].stage
            ELSE /\ audit[s].stage <= audit[t].stage
                 /\ IsTerminal(audit[s])
                 /\ ConfirmedClean(audit[s])

\* "While the cleanup of the last stage is unconfirmed, resume is blocked"
\* (durable-campaign-runs.ru.md:59); the one exception it names is an
\* interrupted run of the in-process simulation.
RetryNeedsCleanup ==
    \A s, t \in Sids :
        (/\ s < t /\ audit[s] # NoAudit /\ audit[t] # NoAudit
         /\ audit[s].run = audit[t].run /\ audit[s].stage = audit[t].stage) =>
            \/ audit[s].cleanup # "UNCONFIRMED"
            \/ audit[s].mode = "simulated" /\ audit[s].status = "INTERRUPTED"

\* A stage is stored as completed only if the signed audit has its scenario
\* run as completed, for that run and that stage; so a completed campaign has
\* evidence for every stage (execute, prepare_resume).
CompletionEvidenced ==
    \A r \in Runs : Present(store[r]) =>
        \A k \in DOMAIN store[r].results :
            LET result == store[r].results[k]
            IN  result.status = "COMPLETED" =>
                    /\ result.sid # NoSid
                    /\ audit[result.sid].status = "COMPLETED"
                    /\ audit[result.sid].run = r
                    /\ audit[result.sid].stage = k

\* The campaign and the audit account for each other: every scenario run that
\* was ever started for a stored run is found in it, as a result or as a
\* superseded attempt (the id is durable before the scenario is admitted, and
\* resume keeps the attempt it replaces), and completion is evidenced.
AttemptsAccounted ==
    /\ CompletionEvidenced
    /\ \A s \in Sids : (audit[s] # NoAudit /\ Present(store[audit[s].run])) =>
          LET run == store[audit[s].run]
          IN  \/ \E k \in DOMAIN run.results : run.results[k].sid = s
              \/ \E result \in run.superseded : result.sid = s

\* A cancel request and the admission of a stage cannot miss each other
\* (CampaignControl): when the worker waits for a running stage and its control
\* is cancelled, the stage is being cancelled or a request is about to do it.
CancelNotMissed ==
    \A w \in Workers :
        (w \in cancelled /\ worker[w].pc = "await" /\ phase[worker[w].sid] = "running") =>
            \/ worker[w].sid \in cancelling
            \/ \E c \in Cancellers : /\ canceller[c].state = "stage"
                                     /\ canceller[c].sid = worker[w].sid

\* A run whose status says that it is under way has a registered worker, unless
\* a write of its progress failed since the process started.
OrphanOnlyAfterFailure ==
    \A r \in Runs : store[r].status \in Pending =>
        controls[r] # NoWorker \/ r \in faulted

\* A completed or failed run never changes again, it can only be pruned: no
\* worker that lags behind and no resume rewrites it.
FinishedIsFinal ==
    [][\A r \in Runs : store[r].status \in Finished => store'[r] \in {store[r], NoRun}]_vars

Finishing(r) ==
    \E w \in Workers : /\ worker[w].pc \in {"commit", "loop"}
                       /\ worker[w].run = r
                       /\ worker[w].len = Steps \/ worker[w].pc = "commit"

\* prune never takes a run that is under way or may be resumed; a run may go
\* in the transaction that finishes it.
ResumableIsKept ==
    [][\A r \in Runs : (Present(store[r]) /\ store[r].status \notin Finished
                          /\ ~Present(store'[r])) => Finishing(r)]_vars

\* A cancelled campaign ends, whichever step its worker is at when the request
\* comes, without waiting for a stage to run to its end.
CancelStops ==
    \A w \in Workers : (w \in cancelled /\ InExecute(w)) ~> ~Busy(w)
=============================================================================
