----------------------------- MODULE Scheduler -----------------------------
(***************************************************************************)
(* The scheduler of recurring runs (scheduler.rs), the requests on its     *)
(* catalog (schedules_http.rs) and the operators' feedback on a run        *)
(* (runs_http.rs run_feedback), which ends up in the history of a job.     *)
(*                                                                         *)
(* The catalog and the audit are two stores with a writer lock each: a     *)
(* transaction on one is a step, that commits or fails; a handler that     *)
(* needs both takes two.                                                   *)
(***************************************************************************)
EXTENDS Naturals, Sequences, FiniteSets

CONSTANTS
    Jobs,        \* job ids; claimed jobs are dispatched in their order
    Mttds,       \* detection times that feedback may report
    MaxSids,     \* bound: scenario runs that are ever started
    MaxGens,     \* bound: jobs that are ever created
    MaxHistory,  \* MAX_HISTORY_PER_JOB
    MaxAlerts,   \* MAX_ALERTS
    Operators,   \* feedback requests that are handled at the same time
    Failures     \* what may go wrong: "crash", "write"

ASSUME JobsAssumption == Jobs \subseteq Nat
ASSUME MttdsAssumption == Mttds \subseteq Nat
ASSUME BoundsAssumption == {MaxSids, MaxGens, MaxHistory, MaxAlerts} \subseteq Nat

VARIABLES
    jobs,      \* ScheduleCatalog.jobs
    alerts,    \* ScheduleCatalog.alerts, oldest first
    waiting,   \* jobs whose interval since their last claim is not over
    audit,     \* the latest audit revision of every run
    running,   \* runs whose scenario task has not returned
    pc,        \* where the scheduler task is
    context,   \* what flush_outcomes returns to: "poll" or "loop"
    todo,      \* claims of this round that are still to be dispatched
    claim,     \* the claim in execution, with its run
    seen,      \* the audit record that flush_outcomes has read
    pending,   \* outcomes that are not stored yet
    feedback,  \* feedback[o]: a request between its two transactions
    nextSid,
    nextGen,
    origin     \* history: origin[s], the job and generation run s was for

catVars   == <<jobs, alerts, waiting>>
schedVars == <<pc, context, todo, claim, seen, pending>>
runVars   == <<audit, running, nextSid, origin>>
vars      == <<jobs, alerts, waiting, audit, running, pc, context, todo, claim, seen,
               pending, feedback, nextSid, nextGen, origin>>

-----------------------------------------------------------------------------
(* Data *)

Sids  == 1..MaxSids
Gens  == 1..MaxGens
NoSid == 0

\* What feedback says of a run; a missed detection has no time.
Verdict   == [detected: {"yes"}, mttd: Mttds] \cup [detected: {"no"}, mttd: {0}]
NoVerdict == [detected |-> "unknown", mttd |-> 0]

\* ENDED is every terminal status: no code of the scheduler tells them apart.
AuditRecord ==
    [status: {"QUEUED", "ENDED"},
     mode: {"runner", "simulated"}, verdict: Verdict \cup {NoVerdict}]

NoAudit == [status |-> "NONE"]
IsTerminal(a) == a.status = "ENDED"

\* AuditRecord::has_confirmed_feedback, of a terminal record
Confirmed(a) == IsTerminal(a) /\ a.mode = "runner" /\ a.verdict # NoVerdict

Sample == [sid: Sids \cup {NoSid}, verdict: Verdict \cup {NoVerdict}]

\* ScheduledJob.  baseline and mttd are empty or hold one value.  health is
\* drift_detected and detection_missed: the second implies the first.  ENDED is
\* every last_status but RUNNING, SKIPPED and INTERRUPTED included.
ScheduledJob ==
    [gen: Gens, state: {"enabled", "disabled"},
     status: {"NONE", "RUNNING", "ENDED"},
     lastRun: Sids \cup {NoSid}, mttd: SUBSET Mttds, baseline: SUBSET Mttds,
     health: {"ok", "slow", "missed"}, history: Seq(Sample)]

NoJob == [state |-> "absent"]
Exists(j) == jobs[j].state # "absent"

Claim   == [job: Jobs, gen: Gens]
NoClaim == [job |-> "none"]

Outcome ==
    [job: Jobs, gen: Gens, sid: Sids \cup {NoSid}, kind: {"run", "skipped"}]

DriftAlert == [job: Jobs, health: {"slow", "missed"}]

NoFeedback == [sid |-> NoSid]

\* The bounded queues keep their newest entries.
Truncated(seq, n) == IF Len(seq) > n THEN SubSeq(seq, Len(seq) - n + 1, Len(seq)) ELSE seq

-----------------------------------------------------------------------------
(* ScheduleCatalog *)

\* Mutant: an outcome is matched to its job by id alone.
AppliesById(o) == Exists(o.job)

\* PendingOutcome::apply: a job that was deleted or replaced is left alone.
Applies(o) == Exists(o.job) /\ jobs[o.job].gen = o.gen

\* Mutant: a claim that was skipped leaves the job as it is.
AppliedUnlessSkipped(job, o) ==
    IF o.kind = "skipped"
    THEN job
    ELSE [job EXCEPT !.status = "ENDED",
                     !.lastRun = o.sid,
                     !.mttd = {},
                     !.history = Truncated(Append(@, [sid |-> o.sid, verdict |-> NoVerdict]),
                                           MaxHistory)]

\* PendingOutcome::apply, on the job
Applied(job, o) ==
    IF o.kind = "skipped"
    THEN [job EXCEPT !.status = "ENDED"]
    ELSE [job EXCEPT !.status = "ENDED",
                     !.lastRun = o.sid,
                     !.mttd = {},
                     !.history = Truncated(Append(@, [sid |-> o.sid, verdict |-> NoVerdict]),
                                           MaxHistory)]

WithOutcome(o) ==
    IF Applies(o) THEN [jobs EXCEPT ![o.job] = Applied(@, o)] ELSE jobs

\* DRIFT_THRESHOLD is 1.5.
Health(baseline, v) ==
    CASE v.detected = "no" -> "missed"
      [] v.detected = "yes" /\ \E b \in baseline : b > 0 /\ 2 * v.mttd >= 3 * b -> "slow"
      [] OTHER -> "ok"

\* Mutant: feedback on any run of the history moves the state of the job.
IsLatestEver(job, s) == TRUE

\* Feedback on an older run stays with its sample.
IsLatest(job, s) == job.lastRun = s

\* The first sample of run s that differs from verdict v, if any.
Outdated(job, s, v) ==
    {k \in DOMAIN job.history :
        /\ job.history[k].sid = s
        /\ \A i \in 1..(k - 1) : job.history[i].sid # s
        /\ job.history[k].verdict # v}

\* record_feedback, on one job
Observed(job, s, v) ==
    LET found    == Outdated(job, s, v)
        baseline == IF job.baseline = {} /\ v.mttd > 0 THEN {v.mttd} ELSE job.baseline
        noted    == [k \in DOMAIN job.history |->
                        IF k \in found THEN [job.history[k] EXCEPT !.verdict = v]
                        ELSE job.history[k]]
    IN  IF found = {} THEN job
        ELSE IF ~IsLatest(job, s) THEN [job EXCEPT !.history = noted]
        ELSE [job EXCEPT !.history  = noted,
                         !.mttd     = IF v.detected = "yes" THEN {v.mttd} ELSE {},
                         !.baseline = baseline,
                         !.health   = Health(baseline, v)]

\* The job enters a degraded state, or a worse one.
Raises(old, new) ==
    \/ old.health = "ok" /\ new.health # "ok"
    \/ old.health = "slow" /\ new.health = "missed"

\* record_feedback on catalog c: a run is in the history of one job at most.
RecordFeedback(c, s, a) ==
    LET new    == [j \in Jobs |-> IF c[j].state = "absent" THEN c[j]
                                  ELSE Observed(c[j], s, a.verdict)]
        raised == {j \in Jobs : c[j].state # "absent" /\ Raises(c[j], new[j])}
    IN  IF Confirmed(a)
        THEN /\ jobs' = new
             /\ IF raised = {} THEN UNCHANGED alerts
                ELSE \E j \in raised :
                        alerts' = Truncated(Append(alerts, [job |-> j, health |-> new[j].health]),
                                            MaxAlerts)
        ELSE jobs' = c /\ UNCHANGED alerts

\* claim_due
Due(j) == /\ Exists(j)
          /\ jobs[j].state = "enabled"
          /\ jobs[j].status # "RUNNING"
          /\ j \notin waiting

-----------------------------------------------------------------------------
NewJob(gen, baseline) ==
    [gen |-> gen, state |-> "enabled", status |-> "NONE", lastRun |-> NoSid, mttd |-> {},
     baseline |-> baseline, health |-> "ok", history |-> <<>>]

Init ==
    /\ jobs = [j \in Jobs |-> NoJob]
    /\ alerts = <<>>
    /\ waiting = {}
    /\ audit = [s \in Sids |-> NoAudit]
    /\ running = {}
    /\ pc = "boot"
    /\ context = "poll"
    /\ todo = {}
    /\ claim = NoClaim
    /\ seen = NoAudit
    /\ pending = <<>>
    /\ feedback = [o \in Operators |-> NoFeedback]
    /\ nextSid = 1
    /\ nextGen = 1
    /\ origin = [s \in Sids |-> NoClaim]

\* Mutant: a paused job is left alone.
InterruptedEnabled(job) ==
    IF job.state = "enabled" /\ job.status = "RUNNING"
    THEN [job EXCEPT !.status = "ENDED"] ELSE job

\* recover_interrupted: last_status becomes INTERRUPTED.
Interrupted(job) ==
    IF job.state # "absent" /\ job.status = "RUNNING"
    THEN [job EXCEPT !.status = "ENDED"] ELSE job

\* recover_interrupted and recover_incomplete at the restart
Crash ==
    /\ "crash" \in Failures
    /\ jobs' = [j \in Jobs |-> Interrupted(jobs[j])]
    /\ audit' = [s \in Sids |-> IF audit[s].status = "QUEUED"
                                THEN [audit[s] EXCEPT !.status = "ENDED"]
                                ELSE audit[s]]
    /\ running' = {}
    /\ pc' = "boot"
    /\ context' = "poll"
    /\ todo' = {}
    /\ claim' = NoClaim
    /\ seen' = NoAudit
    /\ pending' = <<>>
    /\ feedback' = [o \in Operators |-> NoFeedback]
    /\ UNCHANGED <<alerts, waiting, nextSid, nextGen, origin>>

-----------------------------------------------------------------------------
(* Requests on the catalog *)

Elsewhere == <<schedVars, runVars, feedback>>

\* create_schedule: an id in use is refused.
CreateSchedule(j, baseline) ==
    /\ ~Exists(j)
    /\ nextGen \in Gens
    /\ jobs' = [jobs EXCEPT ![j] = NewJob(nextGen, baseline)]
    /\ waiting' = waiting \ {j}
    /\ nextGen' = nextGen + 1
    /\ UNCHANGED <<alerts, Elsewhere>>

DeleteSchedule(j) ==
    /\ Exists(j)
    /\ jobs' = [jobs EXCEPT ![j] = NoJob]
    /\ UNCHANGED <<alerts, waiting, nextGen, Elsewhere>>

ToggleSchedule(j) ==
    /\ Exists(j)
    /\ jobs' = [jobs EXCEPT ![j].state = IF @ = "enabled" THEN "disabled" ELSE "enabled"]
    /\ UNCHANGED <<alerts, waiting, nextGen, Elsewhere>>

\* The interval since the last claim of job j is over.
IntervalPasses(j) ==
    /\ j \in waiting
    /\ waiting' = waiting \ {j}
    /\ UNCHANGED <<jobs, alerts, nextGen, Elsewhere>>

-----------------------------------------------------------------------------
(* spawn_scheduler *)

Rest == <<runVars, feedback, nextGen>>

\* The first round of the watchdog is over.
InitialProbes ==
    /\ pc = "boot"
    /\ pc' = "tick"
    /\ UNCHANGED <<catVars, context, todo, claim, seen, pending, Rest>>

Tick ==
    /\ pc = "tick"
    /\ pc' = "flush"
    /\ context' = "poll"
    /\ UNCHANGED <<catVars, todo, claim, seen, pending, Rest>>

\* flush_outcomes reads the audit of the oldest outcome, before its
\* transaction.
FlushRead ==
    /\ pc = "flush"
    /\ pending # <<>>
    /\ seen' = IF Head(pending).sid = NoSid THEN NoAudit ELSE audit[Head(pending).sid]
    /\ pc' = "write"
    /\ UNCHANGED <<catVars, context, todo, claim, pending, Rest>>

\* The transaction: the outcome, then the feedback that was read.
FlushWrite ==
    /\ pc = "write"
    /\ RecordFeedback(WithOutcome(Head(pending)), Head(pending).sid, seen)
    /\ pending' = Tail(pending)
    /\ seen' = NoAudit
    /\ pc' = "flush"
    /\ UNCHANGED <<waiting, context, todo, claim, Rest>>

\* Mutant: an outcome is dropped when its write fails.
FlushFailsDrops ==
    /\ "write" \in Failures
    /\ pc = "write"
    /\ seen' = NoAudit
    /\ pending' = Tail(pending)
    /\ pc' = IF context = "poll" THEN "tick" ELSE "dispatch"
    /\ UNCHANGED <<catVars, context, todo, claim, Rest>>

\* The write fails: poll again later, or go on with the claims of the round.
FlushFails ==
    /\ "write" \in Failures
    /\ pc = "write"
    /\ seen' = NoAudit
    /\ pc' = IF context = "poll" THEN "tick" ELSE "dispatch"
    /\ UNCHANGED <<catVars, context, todo, claim, pending, Rest>>

FlushDone ==
    /\ pc = "flush"
    /\ pending = <<>>
    /\ pc' = IF context = "poll" THEN "claim" ELSE "dispatch"
    /\ UNCHANGED <<catVars, context, todo, claim, seen, pending, Rest>>

\* The admission of every due job is stored before any is dispatched.
ClaimDue ==
    LET due == {j \in Jobs : Due(j)}
    IN  /\ pc = "claim"
        /\ jobs' = [j \in Jobs |-> IF j \in due THEN [jobs[j] EXCEPT !.status = "RUNNING"]
                                   ELSE jobs[j]]
        /\ waiting' = waiting \cup due
        /\ todo' = {[job |-> j, gen |-> jobs[j].gen] : j \in due}
        /\ pc' = "dispatch"
        /\ UNCHANGED <<alerts, context, claim, seen, pending, Rest>>

ClaimFails ==
    /\ "write" \in Failures
    /\ pc = "claim"
    /\ pc' = "tick"
    /\ UNCHANGED <<catVars, context, todo, claim, seen, pending, Rest>>

RoundEnds ==
    /\ pc = "dispatch"
    /\ todo = {}
    /\ pc' = "tick"
    /\ UNCHANGED <<catVars, context, todo, claim, seen, pending, Rest>>

IsNext(c) == c \in todo /\ \A d \in todo : c.job <= d.job
Current(c) == Exists(c.job) /\ jobs[c.job].state = "enabled" /\ jobs[c.job].gen = c.gen

Finish(c, sid, kind) ==
    /\ pending' = Append(pending, [job |-> c.job, gen |-> c.gen, sid |-> sid, kind |-> kind])
    /\ context' = "loop"
    /\ pc' = "flush"

\* Paused, deleted or replaced since the claim.
Skip(c) ==
    /\ pc = "dispatch"
    /\ IsNext(c)
    /\ ~Current(c)
    /\ todo' = todo \ {c}
    /\ Finish(c, NoSid, "skipped")
    /\ UNCHANGED <<catVars, claim, seen, Rest>>

\* start_scenario refuses, or the scenario is gone.
StartFails(c) ==
    /\ pc = "dispatch"
    /\ IsNext(c)
    /\ Current(c)
    /\ todo' = todo \ {c}
    /\ Finish(c, NoSid, "run")
    /\ UNCHANGED <<catVars, claim, seen, Rest>>

\* start_scenario: the run is in the audit, its task runs.
Start(c) ==
    /\ pc = "dispatch"
    /\ IsNext(c)
    /\ Current(c)
    /\ nextSid \in Sids
    /\ nextSid' = nextSid + 1
    /\ \E mode \in {"runner", "simulated"} :
          audit' = [audit EXCEPT ![nextSid] =
                      [status |-> "QUEUED", mode |-> mode, verdict |-> NoVerdict]]
    /\ running' = running \cup {nextSid}
    /\ origin' = [origin EXCEPT ![nextSid] = c]
    /\ todo' = todo \ {c}
    /\ claim' = [job |-> c.job, gen |-> c.gen, sid |-> nextSid]
    /\ pc' = "await"
    /\ UNCHANGED <<catVars, context, seen, pending, feedback, nextGen>>

\* completion.await returns.
Completed ==
    /\ pc = "await"
    /\ claim.sid \notin running
    /\ Finish(claim, claim.sid, "run")
    /\ claim' = NoClaim
    /\ UNCHANGED <<catVars, todo, seen, Rest>>

Poll ==
    \/ InitialProbes \/ Tick \/ FlushRead \/ FlushWrite \/ FlushFails \/ FlushDone
    \/ ClaimDue \/ ClaimFails \/ RoundEnds \/ Completed
    \/ \E c \in todo : Skip(c) \/ StartFails(c) \/ Start(c)

\* The scenario task (execution.rs): its end is recorded, or cannot be.
ScenarioEnds(s) ==
    /\ s \in running
    /\ running' = running \ {s}
    /\ \/ audit' = [audit EXCEPT ![s].status = "ENDED"]
       \/ "write" \in Failures /\ UNCHANGED audit
    /\ UNCHANGED <<catVars, schedVars, feedback, nextSid, nextGen, origin>>

-----------------------------------------------------------------------------
(* run_feedback *)

\* The first transaction: the audit.  Only of a run that has ended.
FeedbackAudit(o, s, v) ==
    /\ feedback[o] = NoFeedback
    /\ IsTerminal(audit[s])
    /\ audit' = [audit EXCEPT ![s].verdict = v]
    /\ feedback' = [feedback EXCEPT ![o] = [sid |-> s, record |-> audit'[s]]]
    /\ UNCHANGED <<catVars, schedVars, running, nextSid, nextGen, origin>>

\* The second: the history of the job, with the revision this request wrote.
FeedbackSchedule(o) ==
    /\ feedback[o] # NoFeedback
    /\ RecordFeedback(jobs, feedback[o].sid, feedback[o].record)
    /\ feedback' = [feedback EXCEPT ![o] = NoFeedback]
    /\ UNCHANGED <<waiting, schedVars, runVars, nextGen>>

\* It fails: the caller is told that only the audit has the feedback.
FeedbackScheduleFails(o) ==
    /\ feedback[o] # NoFeedback
    /\ "write" \in Failures
    /\ feedback' = [feedback EXCEPT ![o] = NoFeedback]
    /\ UNCHANGED <<catVars, schedVars, runVars, nextGen>>

-----------------------------------------------------------------------------
Next ==
    \/ Crash
    \/ Poll
    \/ \E j \in Jobs :
          \/ \E baseline \in {{}} \cup {{m} : m \in Mttds \ {0}} : CreateSchedule(j, baseline)
          \/ DeleteSchedule(j) \/ ToggleSchedule(j) \/ IntervalPasses(j)
    \/ \E s \in Sids : ScenarioEnds(s)
    \/ \E o \in Operators :
          \/ \E s \in Sids, v \in Verdict : FeedbackAudit(o, s, v)
          \/ FeedbackSchedule(o) \/ FeedbackScheduleFails(o)

Spec == Init /\ [][Next]_vars

\* The scheduler task runs, a scenario ends at its deadline, and a store that
\* fails does not fail for ever.
Fairness ==
    /\ WF_vars(Poll)
    /\ SF_vars(FlushWrite)
    /\ \A s \in Sids : WF_vars(ScenarioEnds(s))

FairSpec == Spec /\ Fairness

-----------------------------------------------------------------------------
(* Properties *)

TypeOK ==
    /\ jobs \in [Jobs -> ScheduledJob \cup {NoJob}]
    /\ \A j \in Jobs : Exists(j) => Len(jobs[j].history) <= MaxHistory
    /\ alerts \in Seq(DriftAlert) /\ Len(alerts) <= MaxAlerts
    /\ waiting \subseteq Jobs
    /\ audit \in [Sids -> AuditRecord \cup {NoAudit}]
    /\ running \subseteq Sids
    /\ pc \in {"boot", "tick", "flush", "write", "claim", "dispatch", "await"}
    /\ context \in {"poll", "loop"}
    /\ todo \subseteq Claim
    /\ claim \in {NoClaim} \cup [job: Jobs, gen: Gens, sid: Sids]
    /\ seen \in AuditRecord \cup {NoAudit}
    /\ pending \in Seq(Outcome)
    /\ feedback \in [Operators -> {NoFeedback} \cup [sid: Sids, record: AuditRecord]]
    /\ nextSid \in 1..(MaxSids + 1) /\ nextGen \in 1..(MaxGens + 1)
    /\ origin \in [Sids -> Claim \cup {NoClaim}]

Open(j, gen) ==
    \/ [job |-> j, gen |-> gen] \in todo
    \/ pc = "await" /\ claim.job = j /\ claim.gen = gen
    \/ \E k \in DOMAIN pending : pending[k].job = j /\ pending[k].gen = gen

\* A job that is stored as RUNNING is one the scheduler still answers for: its
\* claim is to be dispatched, is being executed, or its outcome waits to be
\* stored.  So no failed write loses the end of a run (PendingOutcome), and
\* claim_due never takes a job twice.
RunningIsTracked ==
    \A j \in Jobs : (Exists(j) /\ jobs[j].status = "RUNNING") => Open(j, jobs[j].gen)

\* The history of a job holds only runs of that job, of its generation, and
\* each of them once: a late outcome never reaches a job that was deleted and
\* created again under the same id, and a retried write adds no second sample.
HistoryIsOwn ==
    \A j \in Jobs : Exists(j) =>
        \A k \in DOMAIN jobs[j].history :
            LET s == jobs[j].history[k].sid
            IN  s # NoSid =>
                    /\ origin[s] = [job |-> j, gen |-> jobs[j].gen]
                    /\ \A i \in DOMAIN jobs[j].history \ {k} : jobs[j].history[i].sid # s

\* The detection time of a job is that of its latest run, and once feedback on
\* that run is in, so is its health: feedback on an older run, however late,
\* changes neither (record_feedback).
LatestRunDecides ==
    \A j \in Jobs : Exists(j) =>
        LET job    == jobs[j]
            latest == {k \in DOMAIN job.history : job.history[k].sid = job.lastRun
                                                  /\ job.lastRun # NoSid
                                                  /\ job.history[k].verdict # NoVerdict}
        IN  /\ latest = {} => job.mttd = {}
            /\ \A k \in latest :
                  LET v == job.history[k].verdict
                  IN  /\ job.mttd = IF v.detected = "yes" THEN {v.mttd} ELSE {}
                      /\ job.health = Health(job.baseline, v)

\* A job does not stay RUNNING for ever: its outcome is stored once the store
\* can be written again.
RunningEnds ==
    \A j \in Jobs : (Exists(j) /\ jobs[j].status = "RUNNING")
                       ~> (~Exists(j) \/ jobs[j].status # "RUNNING")

\* What the comment in flush_outcomes and the documentation of late feedback
\* say: when no request and no write is under way, and none has failed, the
\* history shows the feedback that the audit has.
FeedbackReachesHistory ==
    (pc = "tick" /\ pending = <<>> /\ \A o \in Operators : feedback[o] = NoFeedback) =>
        \A j \in Jobs : Exists(j) =>
            \A k \in DOMAIN jobs[j].history :
                LET s == jobs[j].history[k].sid
                IN  (s # NoSid /\ Confirmed(audit[s]))
                        => jobs[j].history[k].verdict = audit[s].verdict

\* Every attempt has an entry in the history of its job: a run whose claim is
\* no longer open is there, unless the history is full.
AttemptHasHistory ==
    \A s \in 1..(nextSid - 1) :
        LET j == origin[s].job
        IN  (Exists(j) /\ jobs[j].gen = origin[s].gen /\ ~Open(j, jobs[j].gen))
                => \/ \E k \in DOMAIN jobs[j].history : jobs[j].history[k].sid = s
                   \/ Len(jobs[j].history) = MaxHistory
=============================================================================
