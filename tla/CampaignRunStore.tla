-------------------------- MODULE CampaignRunStore --------------------------
(***************************************************************************)
(* The durable campaign runs (campaign_run.rs) as values: what each        *)
(* transaction of the snapshot makes of it.                                *)
(*                                                                         *)
(* A store maps every campaign run id to its record.  The vector of the    *)
(* code is ordered by insertion, which only prune looks at: older holds    *)
(* what stood before a run.  Every run has the same number of steps, and a *)
(* result names its step by its index in the plan.                         *)
(***************************************************************************)
EXTENDS Naturals, Sequences, FiniteSets

CONSTANTS
    Runs,            \* campaign run ids (crun_...)
    Steps,           \* the steps of a plan
    MaxSids,         \* bound: scenario runs that are ever started
    MaxTerminalRuns  \* MAX_TERMINAL_RUNS

ASSUME StepsAssumption == Steps \in Nat \ {0}
ASSUME MaxSidsAssumption == MaxSids \in Nat

Sids  == 1..MaxSids
NoSid == 0           \* the empty run_id

\* The scenario audit.  TIMED_OUT, CLEANUP_FAILED and CONTROL_LOST are read
\* as FAILED: no code of a campaign tells them apart.
\* run and stage are history: what the scenario was started for.
AuditRecord ==
    [status: {"QUEUED", "COMPLETED", "FAILED", "CANCELLED", "INTERRUPTED"},
     mode: {"runner", "simulated"},
     cleanup: {"PENDING", "SUCCESS", "NOT_APPLICABLE", "UNCONFIRMED"},
     run: Runs, stage: Nat]

NoAudit == [status |-> "NONE"]

\* AuditRecord::is_terminal, of a record that exists
IsTerminal(a) == a.status # "QUEUED"

Statuses == {"QUEUED", "RUNNING", "COMPLETED", "FAILED", "CANCELLED", "INTERRUPTED"}
Pending  == {"QUEUED", "RUNNING"}
Finished == {"COMPLETED", "FAILED"}
Retained == {"CANCELLED", "INTERRUPTED"}

NoRun == [status |-> "ABSENT"]
Present(run) == run.status # "ABSENT"

StepResult == [stage: Nat, sid: Sids \cup {NoSid}, status: Statuses]

CampaignRun ==
    [status: Statuses, results: Seq(StepResult), superseded: SUBSET StepResult,
     older: SUBSET Runs]

Last(run) == run.results[Len(run.results)]
SetLast(run, result) == [run.results EXCEPT ![Len(run.results)] = result]
HasUnfinished(run) == Len(run.results) > 0 /\ Last(run).status # "COMPLETED"

-----------------------------------------------------------------------------
(* CampaignRunStore::validate: a snapshot that fails it stops the startup. *)

Validate(run) ==
    /\ run.status \in Statuses
    /\ Len(run.results) <= Steps
    /\ \A k \in DOMAIN run.results :
          /\ run.results[k].stage = k
          /\ k < Len(run.results) => run.results[k].status = "COMPLETED"
    /\ run.status = "COMPLETED" =>
          /\ Len(run.results) = Steps
          /\ \A k \in DOMAIN run.results : run.results[k].status = "COMPLETED"

-----------------------------------------------------------------------------
(* Transactions *)

Newer(s, r) == {q \in Runs : s[q].status \in Finished /\ r \in s[q].older}

\* Mutant: every run that has ended counts, resumable ones too.
PruneEnded(s) ==
    [r \in Runs |->
        IF /\ s[r].status \in Finished \cup Retained
           /\ Cardinality({q \in Runs : /\ s[q].status \in Finished \cup Retained
                                        /\ r \in s[q].older}) >= MaxTerminalRuns
        THEN NoRun
        ELSE s[r]]

\* prune drops the oldest finished runs above the limit.
Prune(s) ==
    [r \in Runs |->
        IF s[r].status \in Finished /\ Cardinality(Newer(s, r)) >= MaxTerminalRuns
        THEN NoRun
        ELSE s[r]]

\* The run comes to the end of the vector.
NewRun(s) ==
    [status |-> "QUEUED", results |-> <<>>, superseded |-> {},
     older |-> {r \in Runs : Present(s[r])}]

Insert(s, r) == Prune([s EXCEPT ![r] = NewRun(s)])

\* Mutant: a run that was admitted but never started is left alone.
InterruptedOnlyRunning(run) ==
    IF run.status # "RUNNING" THEN run
    ELSE [run EXCEPT !.status = "INTERRUPTED",
                     !.results = IF run.results # <<>> /\ Last(run).status = "RUNNING"
                                 THEN SetLast(run, [Last(run) EXCEPT !.status = "INTERRUPTED"])
                                 ELSE @]

\* recover_interrupted, for one run
Interrupted(run) ==
    IF run.status \notin Pending THEN run
    ELSE [run EXCEPT !.status = "INTERRUPTED",
                     !.results = IF run.results # <<>> /\ Last(run).status = "RUNNING"
                                 THEN SetLast(run, [Last(run) EXCEPT !.status = "INTERRUPTED"])
                                 ELSE @]

RecoverInterrupted(s) == [r \in Runs |-> Interrupted(s[r])]

\* Mutant: cleanup is not asked for.
StageSettledAnyCleanup(run, audit) ==
    HasUnfinished(run) =>
        LET sid == Last(run).sid
        IN  IF sid = NoSid \/ audit[sid] = NoAudit
            THEN Last(run).status = "CANCELLED" /\ sid = NoSid
            ELSE IsTerminal(audit[sid])

\* prepare_resume: the last attempt cannot still be running anywhere.
StageSettled(run, audit) ==
    HasUnfinished(run) =>
        LET sid == Last(run).sid
        IN  IF sid = NoSid \/ audit[sid] = NoAudit
            THEN Last(run).status = "CANCELLED" /\ sid = NoSid
            ELSE /\ IsTerminal(audit[sid])
                 /\ \/ audit[sid].mode = "simulated"
                    \/ audit[sid].cleanup \in {"SUCCESS", "NOT_APPLICABLE"}

\* Mutant: a failed run may be resumed.
ResumableFailed(run, audit) ==
    run.status \in Retained \cup {"FAILED"} /\ StageSettled(run, audit)

Resumable(run, audit) == run.status \in Retained /\ StageSettled(run, audit)

\* Mutant: any terminal audit record counts as the stage's completion.
ReconciledTerminal(run, audit) ==
    IF HasUnfinished(run) /\ Last(run).sid # NoSid /\ IsTerminal(audit[Last(run).sid])
    THEN [run EXCEPT !.results = SetLast(run, [Last(run) EXCEPT !.status = "COMPLETED"])]
    ELSE run

\* prepare_resume: the stage committed before the process died.
Reconciled(run, audit) ==
    IF /\ HasUnfinished(run)
       /\ Last(run).sid # NoSid
       /\ audit[Last(run).sid].status = "COMPLETED"
    THEN [run EXCEPT !.results = SetLast(run, [Last(run) EXCEPT !.status = "COMPLETED"])]
    ELSE run

\* Mutant: the unfinished attempt is dropped.
BeginResumeDrops(run) ==
    [run EXCEPT !.status = "QUEUED",
                !.results = IF HasUnfinished(run) THEN SubSeq(@, 1, Len(@) - 1) ELSE @]

\* begin_resume archives the unfinished attempt.
BeginResume(run) ==
    IF HasUnfinished(run)
    THEN [run EXCEPT !.status = "QUEUED",
                     !.results = SubSeq(@, 1, Len(@) - 1),
                     !.superseded = @ \cup {Last(run)}]
    ELSE [run EXCEPT !.status = "QUEUED"]

Resume(s, r, audit) == [s EXCEPT ![r] = BeginResume(Reconciled(@, audit))]

\* campaign_execution.rs update: change one run, then prune.
Update(s, r, run) == Prune([s EXCEPT ![r] = run])
=============================================================================
