---------------------- MODULE CampaignExecutionProofs ----------------------
(***************************************************************************)
(* Theorems about CampaignExecution, for every set of campaign runs,       *)
(* workers and requests, and every number of steps and of scenario runs.   *)
(***************************************************************************)
EXTENDS CampaignExecution, SequenceTheorems, TLAPS

-----------------------------------------------------------------------------
(* What the transactions do to the results of a run *)

\* The last result is replaced (SetLast) or dropped (begin_resume), or one is
\* added (BeginStage).
LEMMA ResultsReplaced ==
    ASSUME NEW run \in CampaignRun, Len(run.results) > 0, NEW x \in StepResult
    PROVE  /\ SetLast(run, x) \in Seq(StepResult)
           /\ Len(SetLast(run, x)) = Len(run.results)
           /\ \A k \in 1..Len(run.results) :
                 SetLast(run, x)[k] = IF k = Len(run.results) THEN x ELSE run.results[k]
<1>1. run.results \in Seq(StepResult) /\ Len(run.results) \in 1..Len(run.results)
  BY LenProperties DEF CampaignRun
<1> QED BY <1>1, ExceptSeq DEF SetLast

\* What is left when the last result is dropped.
LEMMA ResultsDropped ==
    ASSUME NEW run \in CampaignRun, Len(run.results) > 0
    PROVE  LET front == SubSeq(run.results, 1, Len(run.results) - 1)
           IN  /\ front \in Seq(StepResult)
               /\ Len(front) = Len(run.results) - 1
               /\ \A k \in 1..(Len(run.results) - 1) : front[k] = run.results[k]
<1>1. run.results \in Seq(StepResult) /\ Len(run.results) \in Nat
  BY LenProperties DEF CampaignRun
<1>2. \A k \in 1..(Len(run.results) - 1) : run.results[k] \in StepResult
  BY <1>1, ElementOfSeq
<1> QED BY <1>1, <1>2, SubSeqProperties

\* The results of a run are results, the last one too.
LEMMA ResultsTyped ==
    ASSUME NEW run \in CampaignRun
    PROVE  /\ run.results \in Seq(StepResult)
           /\ Len(run.results) \in Nat
           /\ DOMAIN run.results = 1..Len(run.results)
           /\ \A k \in 1..Len(run.results) : run.results[k] \in StepResult
           /\ Len(run.results) > 0 => Last(run) \in StepResult
BY LenProperties, ElementOfSeq DEF CampaignRun, Last

\* set_last keeps the type, without a result as well.
LEMMA SetLastTyped ==
    ASSUME NEW run \in CampaignRun, NEW x, Len(run.results) > 0 => x \in StepResult
    PROVE  SetLast(run, x) \in Seq(StepResult)
<1>1. CASE Len(run.results) > 0
  BY <1>1, ResultsReplaced
<1>2. CASE ~(Len(run.results) > 0)
  <2>1. Len(run.results) = 0 /\ DOMAIN run.results = {}
    BY <1>2, ResultsTyped
  <2>2. SetLast(run, x) = run.results
    BY <2>1, ResultsTyped, LenProperties DEF SetLast
  <2> QED BY <2>2, ResultsTyped
<1> QED BY <1>1, <1>2

\* prune takes finished runs and changes nothing else.
LEMMA PruneKeeps ==
    ASSUME NEW s, NEW r \in Runs
    PROVE  /\ Prune(s)[r] = s[r] \/ (Prune(s)[r] = NoRun /\ s[r].status \in Finished)
           /\ s[r].status \notin Finished => Prune(s)[r] = s[r]
BY DEF Prune

\* recover_interrupted, prepare_resume and begin_resume, for a run with results.
LEMMA InterruptedRun ==
    ASSUME NEW run \in CampaignRun
    PROVE  /\ Interrupted(run) \in CampaignRun
           /\ Interrupted(run).superseded = run.superseded
           /\ Interrupted(run).status =
                 IF run.status \in Pending THEN "INTERRUPTED" ELSE run.status
           /\ Len(Interrupted(run).results) = Len(run.results)
           /\ \A k \in 1..Len(run.results) :
                 /\ k < Len(run.results) => Interrupted(run).results[k] = run.results[k]
                 /\ Interrupted(run).results[k].sid = run.results[k].sid
                 /\ Interrupted(run).results[k].stage = run.results[k].stage
                 /\ Interrupted(run).results[k].status \in
                       {run.results[k].status}
                         \cup IF run.results[k].status = "RUNNING" THEN {"INTERRUPTED"} ELSE {}
<1> USE ResultsTyped
<1>1. CASE run.status \notin Pending
  BY <1>1 DEF Interrupted
<1>2. CASE run.status \in Pending /\ ~(run.results # <<>> /\ Last(run).status = "RUNNING")
  BY <1>2 DEF Interrupted, CampaignRun, Statuses
<1>3. CASE run.status \in Pending /\ run.results # <<>> /\ Last(run).status = "RUNNING"
  <2> DEFINE x == [Last(run) EXCEPT !.status = "INTERRUPTED"]
  <2>1. Len(run.results) > 0
    BY <1>3, EmptySeq
  <2>2. /\ x \in StepResult
        /\ x.sid = Last(run).sid /\ x.stage = Last(run).stage /\ x.status = "INTERRUPTED"
    BY <2>1 DEF StepResult, Statuses
  <2>3. Interrupted(run) = [run EXCEPT !.status = "INTERRUPTED", !.results = SetLast(run, x)]
    BY <1>3 DEF Interrupted
  <2> HIDE DEF x
  <2>4. /\ SetLast(run, x) \in Seq(StepResult)
        /\ Len(SetLast(run, x)) = Len(run.results)
        /\ \A k \in 1..Len(run.results) :
              SetLast(run, x)[k] = IF k = Len(run.results) THEN x ELSE run.results[k]
    BY <2>1, <2>2, ResultsReplaced
  <2>5. /\ Interrupted(run) \in CampaignRun
        /\ Interrupted(run).superseded = run.superseded
        /\ Interrupted(run).status = "INTERRUPTED"
        /\ Interrupted(run).results = SetLast(run, x)
    BY <2>3, <2>4 DEF CampaignRun, Statuses
  <2> QED BY <1>3, <2>1, <2>2, <2>4, <2>5 DEF Last
<1> QED BY <1>1, <1>2, <1>3

\* A resume keeps the completed results, completes the one that the audit has as
\* completed, and archives an attempt that it does not.
LEMMA ResumedRun ==
    ASSUME NEW run \in CampaignRun, NEW a,
           \A k \in 1..(Len(run.results) - 1) : run.results[k].status = "COMPLETED"
    PROVE  LET new == BeginResume(Reconciled(run, a))
               n   == Len(new.results)
           IN  /\ new \in CampaignRun
               /\ new.status = "QUEUED"
               /\ n <= Len(run.results)
               /\ \A k \in 1..n :
                     /\ new.results[k].sid = run.results[k].sid
                     /\ new.results[k].stage = run.results[k].stage
                     /\ new.results[k].status = "COMPLETED"
                     /\ \/ run.results[k].status = "COMPLETED"
                        \/ /\ run.results[k].sid # NoSid
                           /\ a[run.results[k].sid].status = "COMPLETED"
               /\ \/ n = Len(run.results) /\ new.superseded = run.superseded
                  \/ /\ HasUnfinished(run)
                     /\ n = Len(run.results) - 1
                     /\ new.superseded = run.superseded \cup {Last(run)}
                     /\ Last(run).sid = NoSid \/ a[Last(run).sid].status # "COMPLETED"
<1> DEFINE done == Reconciled(run, a)
           new  == BeginResume(done)
<1> USE ResultsTyped
<1>1. CASE ~HasUnfinished(run)
  <2>1. done = run /\ new = [run EXCEPT !.status = "QUEUED"]
    BY <1>1 DEF Reconciled, BeginResume
  <2>2. /\ new \in CampaignRun /\ new.status = "QUEUED"
        /\ new.results = run.results /\ new.superseded = run.superseded
    BY <2>1 DEF CampaignRun, Statuses
  <2>3. \A k \in 1..Len(run.results) : run.results[k].status = "COMPLETED"
    BY <1>1 DEF HasUnfinished, Last
  <2> HIDE DEF new, done
  <2> QED BY <2>2, <2>3 DEF new, done
<1>2. CASE HasUnfinished(run) /\ done = run
  <2> DEFINE front == SubSeq(run.results, 1, Len(run.results) - 1)
  <2>1. Len(run.results) > 0 /\ Last(run).status # "COMPLETED"
    BY <1>2 DEF HasUnfinished
  <2>2. /\ front \in Seq(StepResult) /\ Len(front) = Len(run.results) - 1
        /\ \A k \in 1..(Len(run.results) - 1) : front[k] = run.results[k]
    BY <2>1, ResultsDropped
  <2>3. new = [run EXCEPT !.status = "QUEUED", !.results = front,
                          !.superseded = run.superseded \cup {Last(run)}]
    BY <1>2 DEF BeginResume
  <2>4. Last(run).sid = NoSid \/ a[Last(run).sid].status # "COMPLETED"
    <3>1. SUFFICES ASSUME Last(run).sid # NoSid, a[Last(run).sid].status = "COMPLETED"
                   PROVE  FALSE
      OBVIOUS
    <3> DEFINE x == [Last(run) EXCEPT !.status = "COMPLETED"]
    <3>2. x \in StepResult /\ x.status = "COMPLETED"
      BY <2>1 DEF StepResult, Statuses
    <3>3. done = [run EXCEPT !.results = SetLast(run, x)]
      BY <1>2, <3>1 DEF Reconciled
    <3> HIDE DEF x
    <3>4. SetLast(run, x)[Len(run.results)] = x
      BY <2>1, <3>2, ResultsReplaced
    <3>5. done.results = SetLast(run, x)
      BY <3>3 DEF CampaignRun
    <3>6. run.results[Len(run.results)].status = "COMPLETED"
      BY <1>2, <3>2, <3>4, <3>5
    <3> QED BY <2>1, <3>6 DEF Last
  <2> HIDE DEF new, done, front
  <2>5. /\ new \in CampaignRun /\ new.status = "QUEUED" /\ new.results = front
        /\ new.superseded = run.superseded \cup {Last(run)}
    BY <2>1, <2>2, <2>3 DEF CampaignRun, Statuses
  <2> QED BY <1>2, <2>1, <2>2, <2>4, <2>5 DEF new, done
<1>3. CASE HasUnfinished(run) /\ done # run
  <2> DEFINE x == [Last(run) EXCEPT !.status = "COMPLETED"]
  <2>1. Len(run.results) > 0 /\ Last(run).status # "COMPLETED"
    BY <1>3 DEF HasUnfinished
  <2>2. /\ x \in StepResult /\ x.status = "COMPLETED"
        /\ x.sid = Last(run).sid /\ x.stage = Last(run).stage
    BY <2>1 DEF StepResult, Statuses
  <2>3. /\ done = [run EXCEPT !.results = SetLast(run, x)]
        /\ Last(run).sid # NoSid /\ a[Last(run).sid].status = "COMPLETED"
    BY <1>3 DEF Reconciled
  <2> HIDE DEF x
  <2>4. /\ SetLast(run, x) \in Seq(StepResult)
        /\ Len(SetLast(run, x)) = Len(run.results)
        /\ \A k \in 1..Len(run.results) :
              SetLast(run, x)[k] = IF k = Len(run.results) THEN x ELSE run.results[k]
    BY <2>1, <2>2, ResultsReplaced
  <2>5. /\ done \in CampaignRun /\ done.results = SetLast(run, x)
        /\ done.superseded = run.superseded
    BY <2>3, <2>4 DEF CampaignRun
  <2>6. ~HasUnfinished(done)
    BY <2>1, <2>2, <2>4, <2>5 DEF HasUnfinished, Last
  <2>7. new = [done EXCEPT !.status = "QUEUED"]
    BY <2>6 DEF BeginResume
  <2> HIDE DEF new, done
  <2>8. /\ new \in CampaignRun /\ new.status = "QUEUED" /\ new.results = SetLast(run, x)
        /\ new.superseded = run.superseded
    BY <2>5, <2>7 DEF CampaignRun, Statuses
  <2> QED BY <2>1, <2>2, <2>3, <2>4, <2>8 DEF Last, new, done
<1> QED BY <1>1, <1>2, <1>3

\* What the transactions make of a store is a store.
Store == [Runs -> CampaignRun \cup {NoRun}]

\* A transaction on a run keeps the type of the store.
LEMMA UpdateTyped ==
    ASSUME NEW s \in Store, NEW r \in Runs, NEW run \in CampaignRun
    PROVE  /\ Update(s, r, run) \in Store
           /\ [s EXCEPT ![r] = run] \in Store
<1>1. [s EXCEPT ![r] = run] \in Store
  BY DEF Store
<1>2. \A t \in Store : Prune(t) \in Store
  BY DEF Store, Prune
<1> QED BY <1>1, <1>2 DEF Update

\* A run begins queued and empty.
LEMMA NewRunTyped ==
    ASSUME NEW s
    PROVE  /\ NewRun(s) \in CampaignRun
           /\ NewRun(s).status = "QUEUED" /\ NewRun(s).superseded = {}
           /\ NewRun(s).results = <<>> /\ Len(NewRun(s).results) = 0
<1>1. <<>> \in Seq(StepResult) /\ Len(<<>>) = 0
  BY EmptySeq
<1> QED BY <1>1 DEF NewRun, CampaignRun, Statuses

\* A run in the store that is not absent is a record.
LEMMA PresentTyped ==
    ASSUME NEW s \in Store, NEW r \in Runs, s[r].status # "ABSENT"
    PROVE  s[r] \in CampaignRun
BY DEF Store, NoRun

-----------------------------------------------------------------------------
(* The tasks *)

\* A task by where it is.
LEMMA TaskKinds ==
    ASSUME NEW task \in Task
    PROVE  /\ task.pc = "loop" => task \in Looping
           /\ task.pc \in {"recheck", "start", "admitted", "stop", "await"} => task \in Executing
           /\ task.pc = "settle" => task \in Settling
           /\ task.pc = "commit" => task \in Committing
           /\ task.pc # "idle" => task.run \in Runs
           /\ task.pc \in {"idle", "new", "resume", "loop", "recheck", "start", "admitted",
                           "stop", "await", "settle", "commit", "leaving"}
BY DEF Task, Idle, Launching, Looping, Executing, Settling, Committing, Leaving

\* Moving on changes nothing else of a task.
LEMMA PcChange ==
    ASSUME NEW task \in Executing, NEW pc \in {"start", "stop", "await", "admitted"}
    PROVE  /\ [task EXCEPT !.pc = pc] \in Executing
           /\ [task EXCEPT !.pc = pc].pc = pc
           /\ [task EXCEPT !.pc = pc].run = task.run
           /\ [task EXCEPT !.pc = pc].len = task.len
           /\ [task EXCEPT !.pc = pc].sid = task.sid
BY DEF Executing

-----------------------------------------------------------------------------
(* The inductive invariant *)

\* A scenario task that has not ended has an open audit record (append, then
\* the task).
PhaseInv ==
    \A s \in Sids :
        phase[s] \in {"queued", "running"} => audit[s] # NoAudit /\ audit[s].status = "QUEUED"

\* An id is launched before anything is known under it, and a worker is
\* registered for its run until it leaves.
Registered ==
    /\ \A r \in Runs : r \notin launched => store[r] = NoRun /\ controls[r] = NoWorker
    /\ \A w \in Workers : Busy(w) =>
          /\ worker[w].run \in launched
          /\ controls[worker[w].run] = w
          /\ worker[w].pc = "new" => store[worker[w].run] = NoRun

\* Between two stages all results are completed; in a stage the last one is its
\* intent.  Only a completed result lets a campaign go on or complete.
StageOf(run, task) ==
    /\ task.pc = "loop" =>
          \A k \in 1..Len(run.results) : run.results[k].status = "COMPLETED"
    /\ task.pc # "loop" =>
          /\ Len(run.results) > 0
          /\ Last(run).status = "RUNNING"
          /\ Last(run).sid = task.sid
    /\ task.pc = "commit" =>
          /\ task.verdict \in {"RUNNING", "COMPLETED"} => task.result = "COMPLETED"
          /\ task.verdict = "COMPLETED" => task.len = Steps

StageInv == \A w \in Workers : InExecute(w) => StageOf(store[worker[w].run], worker[w])

\* Who is behind a run that is under way.
OrphanInv ==
    \A r \in Runs : store[r].status \in Pending =>
        \/ r \in faulted
        \/ \E w \in Workers : InExecute(w) /\ worker[w].run = r

\* The ids of scenario runs: every one is handed out once, stored in one result
\* before the audit has it, and for one stage of one run.
AuditKnown == \A s \in Sids : audit[s] # NoAudit => s < nextSid /\ audit[s].run \in launched

SidsLinked ==
    \A r \in Runs : Present(store[r]) =>
        \A k \in 1..Len(store[r].results) :
            LET sid == store[r].results[k].sid
            IN  /\ sid < nextSid
                /\ sid # NoSid /\ audit[sid] # NoAudit =>
                      audit[sid].run = r /\ audit[sid].stage = k

IntentFresh ==
    \A w \in Workers : worker[w].pc \in {"recheck", "start"} =>
        /\ audit[worker[w].sid] = NoAudit
        /\ \A r \in Runs : Present(store[r]) =>
              \A k \in 1..Len(store[r].results) :
                 store[r].results[k].sid = worker[w].sid => r = worker[w].run /\ k = worker[w].len
        /\ \A s \in Sids : audit[s] # NoAudit /\ audit[s].run = worker[w].run => s < worker[w].sid

NewUnaudited ==
    \A w \in Workers, s \in Sids :
        worker[w].pc = "new" /\ audit[s] # NoAudit => audit[s].run # worker[w].run

ResultEvidenced ==
    \A w \in Workers : worker[w].pc = "commit" /\ worker[w].result = "COMPLETED" =>
        audit[worker[w].sid].status = "COMPLETED"

SidInv == AuditKnown /\ SidsLinked /\ IntentFresh /\ NewUnaudited /\ ResultEvidenced

\* The stage that a run tries next, or is trying.
Reach(run) == IF HasUnfinished(run) THEN Len(run.results) ELSE Len(run.results) + 1

\* A scenario run that ended does not stand in the way of stage n.
Settles(a, n) ==
    IF a.status = "COMPLETED" THEN a.stage < n
    ELSE a.stage <= n /\ IsTerminal(a) /\ ConfirmedClean(a)

\* Nothing but the last attempt stands in the way of the next one.
RetryInv ==
    \A r \in Runs, s \in Sids :
        Present(store[r]) /\ audit[s] # NoAudit /\ audit[s].run = r =>
            \/ HasUnfinished(store[r]) /\ Last(store[r]).sid = s
            \/ Settles(audit[s], Reach(store[r]))

-----------------------------------------------------------------------------
(* Types *)

\* Every variable keeps to its range, and an open scenario task to its open
\* audit record.
LEMMA TypeCorrect == Spec => [](TypeOK /\ PhaseInv)
<1>1. Init => TypeOK /\ PhaseInv
  BY MaxSidsAssumption DEF Init, TypeOK, PhaseInv, Sids, Task, Phases, Cancel, NoCancel
<1>2. TypeOK /\ PhaseInv /\ [Next]_vars => TypeOK' /\ PhaseInv'
  <2> SUFFICES ASSUME TypeOK, PhaseInv, [Next]_vars PROVE TypeOK' /\ PhaseInv'
    OBVIOUS
  <2> USE DEF TypeOK, PhaseInv
  <2>0. /\ store \in Store
        /\ Idle \in Task /\ NoCancel \in Cancel
        /\ \A w \in Workers : /\ worker[w] \in Task
                              /\ worker[w].pc # "idle" => worker[w].run \in Runs
    BY TaskKinds DEF Store, Task, Cancel
  <2>1. CASE Crash
    <3>1. RecoverInterrupted(store) \in Store
      <4>1. Interrupted(NoRun) = NoRun
        BY DEF Interrupted, NoRun, Pending
      <4>2. \A run \in CampaignRun : Interrupted(run) \in CampaignRun
        BY InterruptedRun
      <4>3. \A r \in Runs : Interrupted(store[r]) \in CampaignRun \cup {NoRun}
        BY <2>0, <4>1, <4>2 DEF Store
      <4> QED BY <4>3 DEF RecoverInterrupted, Store
    <3>2. \A s \in Sids : RecoverIncomplete(audit[s]) \in AuditRecord \cup {NoAudit}
      <4>1. \A a \in AuditRecord :
               [a EXCEPT !.status = "INTERRUPTED", !.cleanup = "UNCONFIRMED"] \in AuditRecord
        BY DEF AuditRecord
      <4>2. \A a \in AuditRecord \cup {NoAudit} :
               RecoverIncomplete(a) \in AuditRecord \cup {NoAudit}
        BY <4>1 DEF RecoverIncomplete
      <4> QED BY <4>2
    <3> QED BY <2>0, <2>1, <3>1, <3>2 DEF Crash, Store, Phases, idVars
  <2>2. ASSUME NEW w \in Workers, NEW r \in Runs, RunCampaign(w, r) \/ ResumeCampaignRun(w, r)
        PROVE  TypeOK' /\ PhaseInv'
    <3>1. \A kind \in {"new", "resume"} : [pc |-> kind, run |-> r] \in Task
      BY DEF Task, Launching
    <3> QED BY <2>2, <3>1 DEF RunCampaign, ResumeCampaignRun, Spawn, scenVars, idVars
  <2>3. ASSUME NEW w \in Workers, Admit(w) PROVE TypeOK' /\ PhaseInv'
    <3> DEFINE r == worker[w].run
    <3>1. r \in Runs /\ store' \in Store /\ Len(store'[r].results) \in Nat
      <4>1. r \in Runs
        BY <2>0, <2>3 DEF Admit
      <4>2. CASE worker[w].pc = "new"
        <5>1. [store EXCEPT ![r] = NewRun(store)] \in Store
          BY <2>0, <4>1, NewRunTyped, UpdateTyped
        <5>2. Insert(store, r) \in Store
          BY <5>1 DEF Insert, Prune, Store
        <5>3. /\ [store EXCEPT ![r] = NewRun(store)][r] = NewRun(store)
              /\ NewRun(store).status \notin Finished
          BY <2>0, <4>1, NewRunTyped DEF Store, Finished
        <5>4. Insert(store, r)[r] = NewRun(store)
          BY <4>1, <5>3, PruneKeeps DEF Insert
        <5> QED BY <2>3, <4>1, <4>2, <5>2, <5>4, NewRunTyped DEF Admit
      <4>3. CASE worker[w].pc = "resume"
        <5>1. store[r] \in CampaignRun
          BY <2>0, <2>3, <4>1, <4>3, PresentTyped DEF Admit, Present
        <5>2. BeginResume(Reconciled(store[r], audit)) \in CampaignRun
          <6>1. Reconciled(store[r], audit) \in CampaignRun
            <7> DEFINE x == [Last(store[r]) EXCEPT !.status = "COMPLETED"]
            <7>1. CASE HasUnfinished(store[r])
              <8>1. Len(store[r].results) > 0 /\ x \in StepResult
                BY <5>1, <7>1, ResultsTyped DEF HasUnfinished, StepResult, Statuses
              <8> HIDE DEF x
              <8>2. SetLast(store[r], x) \in Seq(StepResult)
                BY <5>1, <8>1, ResultsReplaced
              <8>3. [store[r] EXCEPT !.results = SetLast(store[r], x)] \in CampaignRun
                BY <5>1, <8>2 DEF CampaignRun
              <8> QED BY <5>1, <8>3 DEF Reconciled, x
            <7>2. CASE ~HasUnfinished(store[r])
              BY <5>1, <7>2 DEF Reconciled
            <7> QED BY <7>1, <7>2
          <6> DEFINE done == Reconciled(store[r], audit)
          <6> HIDE DEF done
          <6>2. done \in CampaignRun
            BY <6>1 DEF done
          <6>3. CASE HasUnfinished(done)
            <7>1. /\ SubSeq(done.results, 1, Len(done.results) - 1) \in Seq(StepResult)
                  /\ Last(done) \in StepResult
              BY <6>2, <6>3, ResultsDropped, ResultsTyped DEF HasUnfinished
            <7>2. BeginResume(done) \in CampaignRun
              BY <6>2, <6>3, <7>1 DEF BeginResume, CampaignRun, Statuses
            <7> QED BY <7>2 DEF done
          <6>4. CASE ~HasUnfinished(done)
            <7>1. BeginResume(done) \in CampaignRun
              BY <6>2, <6>4 DEF BeginResume, CampaignRun, Statuses
            <7> QED BY <7>1 DEF done
          <6> QED BY <6>3, <6>4
        <5>3. Resume(store, r, audit) \in Store
                /\ Resume(store, r, audit)[r] = BeginResume(Reconciled(store[r], audit))
          BY <2>0, <4>1, <5>2, UpdateTyped DEF Resume, Store
        <5> QED BY <2>3, <4>1, <4>3, <5>2, <5>3, ResultsTyped DEF Admit
      <4> QED BY <2>3, <4>2, <4>3 DEF Admit
    <3>2. [pc |-> "loop", run |-> r, len |-> Len(store'[r].results), sid |-> NoSid] \in Task
      BY <3>1 DEF Task, Looping
    <3>3. worker' \in [Workers -> Task]
      BY <2>3, <3>2 DEF Admit
    <3> QED BY <2>3, <3>1, <3>3 DEF Admit, ctlVars, scenVars, idVars, Store
  <2>4. ASSUME NEW w \in Workers, AdmitFails(w) \/ Unregister(w) \/ UpdateFails(w)
        PROVE  TypeOK' /\ PhaseInv'
    <3>1. worker[w].run \in Runs
      BY <2>0, <2>4 DEF AdmitFails, Unregister, UpdateFails
    <3>2. Leave(w) \in Task
      BY <3>1 DEF Leave, Task, Leaving
    <3> QED BY <2>0, <2>4, <3>1, <3>2
            DEF AdmitFails, Unregister, UpdateFails, Locals, ctlVars, scenVars, idVars
  <2>5. ASSUME NEW w \in Workers, NEW run \in CampaignRun, NEW task \in Task,
               StoreRun(worker[w].run, run), worker' = [worker EXCEPT ![w] = task],
               worker[w].pc # "idle", nextSid' \in 1..(MaxSids + 1),
               UNCHANGED <<Locals, launched, faulted>>
        PROVE  TypeOK' /\ PhaseInv'
    <3>1. store' \in Store
      BY <2>0, <2>5, UpdateTyped DEF StoreRun
    <3> QED BY <2>5, <3>1 DEF Locals, ctlVars, scenVars, Store
  <2>6. ASSUME NEW w \in Workers, StopBeforeStage(w) \/ NothingLeft(w)
        PROVE  TypeOK' /\ PhaseInv'
    <3> DEFINE r == worker[w].run
    <3>1. r \in Runs /\ store[r] \in CampaignRun /\ worker[w].pc # "idle"
      BY <2>0, <2>6, PresentTyped DEF StopBeforeStage, NothingLeft, StoreRun, Present
    <3>2. Leave(w) \in Task
      BY <3>1 DEF Leave, Task, Leaving
    <3>3. \A status \in Statuses : [store[r] EXCEPT !.status = status] \in CampaignRun
      BY <3>1 DEF CampaignRun
    <3>4. \E status \in Statuses :
            StoreRun(r, [store[r] EXCEPT !.status = status])
      BY <2>6 DEF StopBeforeStage, NothingLeft, Statuses
    <3>5. /\ worker' = [worker EXCEPT ![w] = Leave(w)] /\ nextSid' \in 1..(MaxSids + 1)
          /\ UNCHANGED <<Locals, launched, faulted>>
      BY <2>6 DEF StopBeforeStage, NothingLeft, idVars
    <3> QED BY <2>5, <3>1, <3>2, <3>3, <3>4, <3>5
  <2>7. ASSUME NEW w \in Workers, BeginStage(w) PROVE TypeOK' /\ PhaseInv'
    <3> DEFINE r       == worker[w].run
               pending == [stage |-> worker[w].len + 1, sid |-> nextSid, status |-> "RUNNING"]
               run     == [store[r] EXCEPT !.status = "RUNNING", !.results = Append(@, pending)]
    <3>1. r \in Runs /\ store[r] \in CampaignRun /\ worker[w] \in Looping
      BY <2>0, <2>7, PresentTyped, TaskKinds DEF BeginStage, StoreRun, Present
    <3>2. pending \in StepResult
      BY <2>7, <3>1 DEF BeginStage, StepResult, Statuses, Looping
    <3> HIDE DEF pending
    <3>3. /\ Append(store[r].results, pending) \in Seq(StepResult)
          /\ Len(Append(store[r].results, pending)) \in Nat
      BY <3>1, <3>2, ResultsTyped, AppendProperties, LenProperties
    <3>4. /\ run \in CampaignRun /\ run.status = "RUNNING"
          /\ run.results = Append(store[r].results, pending)
      BY <3>1, <3>3 DEF CampaignRun, Statuses
    <3> HIDE DEF run
    <3>5. StoreRun(r, run) /\ nextSid \in Sids /\ nextSid' = nextSid + 1
      BY <2>7 DEF BeginStage, run, pending
    <3>6. store'[r] = run
      <4>1. [store EXCEPT ![r] = run][r] = run /\ run.status \notin Finished
        BY <2>0, <3>1, <3>4 DEF Store, Finished
      <4> QED BY <3>1, <3>5, <4>1, PruneKeeps DEF StoreRun, Update
    <3> DEFINE task == [pc |-> "recheck", run |-> r, len |-> Len(store'[r].results),
                        sid |-> nextSid]
    <3>7. task \in Task
      BY <3>1, <3>3, <3>4, <3>5, <3>6 DEF Task, Executing
    <3>8. worker' = [worker EXCEPT ![w] = task] /\ worker[w].pc # "idle"
      BY <2>7 DEF BeginStage
    <3>9. nextSid' \in 1..(MaxSids + 1) /\ UNCHANGED <<Locals, launched, faulted>>
      BY <2>7, <3>5, MaxSidsAssumption DEF BeginStage, Sids
    <3> QED BY <2>5, <3>4, <3>5, <3>7, <3>8, <3>9
  <2>8. ASSUME NEW w \in Workers, StopAtIntent(w) PROVE TypeOK' /\ PhaseInv'
    <3> DEFINE r    == worker[w].run
               last == [Last(store[r]) EXCEPT !.status = "CANCELLED", !.sid = NoSid]
               run  == [store[r] EXCEPT !.status = "CANCELLED", !.results = SetLast(store[r], last)]
    <3>1. r \in Runs /\ store[r] \in CampaignRun
      BY <2>0, <2>8, PresentTyped DEF StopAtIntent, StoreRun, Present
    <3>2. Len(store[r].results) > 0 => last \in StepResult
      BY <3>1, ResultsTyped DEF StepResult, Statuses
    <3> HIDE DEF last
    <3>3. SetLast(store[r], last) \in Seq(StepResult)
      BY <3>1, <3>2, SetLastTyped
    <3>4. run \in CampaignRun
      BY <3>1, <3>3 DEF CampaignRun, Statuses
    <3>5. Leave(w) \in Task
      BY <3>1 DEF Leave, Task, Leaving
    <3>6. StoreRun(r, run) /\ worker' = [worker EXCEPT ![w] = Leave(w)] /\ worker[w].pc # "idle"
      BY <2>8 DEF StopAtIntent, last
    <3>7. nextSid' \in 1..(MaxSids + 1) /\ UNCHANGED <<Locals, launched, faulted>>
      BY <2>8 DEF StopAtIntent, idVars
    <3> HIDE DEF run
    <3> QED BY <2>5, <3>4, <3>5, <3>6, <3>7
  <2>9. ASSUME NEW w \in Workers, Recheck(w) PROVE TypeOK' /\ PhaseInv'
    <3>1. [worker[w] EXCEPT !.pc = "start"] \in Task
      BY <2>0, <2>9, TaskKinds, PcChange DEF Recheck, Task
    <3> QED BY <2>9, <3>1 DEF Recheck, Locals, ctlVars, scenVars, idVars
  <2>10. ASSUME NEW w \in Workers, SetCurrent(w) \/ StopStage(w) PROVE TypeOK' /\ PhaseInv'
    <3>1. /\ worker[w] \in Executing
          /\ [worker[w] EXCEPT !.pc = "stop"] \in Task /\ [worker[w] EXCEPT !.pc = "await"] \in Task
      BY <2>0, <2>10, TaskKinds, PcChange DEF SetCurrent, StopStage, Task
    <3>2. worker[w].sid \in Sids
      BY <3>1 DEF Executing
    <3> QED BY <2>10, <3>1, <3>2
            DEF SetCurrent, StopStage, CancelScenario, ctlVars, scenVars, idVars
  <2>11. ASSUME NEW w \in Workers, StageRefused(w) \/ StageEnds(w) PROVE TypeOK' /\ PhaseInv'
    <3>1. worker[w] \in Executing
      BY <2>0, <2>11, TaskKinds DEF StageRefused, StageEnds
    <3>2. \A outcome \in {"ok", "error"} : Settled(w, outcome) \in Task
      BY <3>1 DEF Settled, Executing, Settling, Task
    <3>3. worker' \in [Workers -> Task]
      BY <2>11, <3>2 DEF StageRefused, StageEnds
    <3> QED BY <2>11, <3>1, <3>3
            DEF StageRefused, StageEnds, Locals, ctlVars, scenVars, idVars, Phases, Executing
  <2>12. ASSUME NEW w \in Workers, StageStarts(w) PROVE TypeOK' /\ PhaseInv'
    <3>1. worker[w] \in Executing
      BY <2>0, <2>12, TaskKinds DEF StageStarts
    <3>2. [worker[w] EXCEPT !.pc = "admitted"] \in Task
      BY <3>1, PcChange DEF Task
    <3>3. \A mode \in Modes :
            [status |-> "QUEUED", mode |-> mode, cleanup |-> "PENDING",
             run |-> worker[w].run, stage |-> worker[w].len] \in AuditRecord
      BY <3>1, ModesAssumption DEF AuditRecord, Executing
    <3>4. worker[w].sid \in Sids
      BY <3>1 DEF Executing
    <3> QED BY <2>12, <3>2, <3>3, <3>4
            DEF StageStarts, ctlVars, idVars, Phases, AuditRecord, NoAudit
  <2>13. ASSUME NEW w \in Workers, Settle(w) PROVE TypeOK' /\ PhaseInv'
    <3> DEFINE status == ResultStatus(audit[worker[w].sid])
    <3>1. worker[w] \in Settling
      BY <2>0, <2>13, TaskKinds DEF Settle
    <3>2. status \in Statuses
      BY <3>1 DEF ResultStatus, Settling, AuditRecord, Statuses
    <3>3. Verdict(w, status) \in Statuses \ {"QUEUED"}
      BY DEF Verdict, Statuses
    <3>4. [pc |-> "commit", run |-> worker[w].run, len |-> worker[w].len,
           sid |-> worker[w].sid, result |-> status, verdict |-> Verdict(w, status)] \in Task
      BY <3>1, <3>2, <3>3 DEF Settling, Committing, Task
    <3> QED BY <2>13, <3>4 DEF Settle, Locals, ctlVars, scenVars, idVars
  <2>14. ASSUME NEW w \in Workers, CommitStage(w) PROVE TypeOK' /\ PhaseInv'
    <3> DEFINE r      == worker[w].run
               result == [stage |-> worker[w].len, sid |-> worker[w].sid,
                          status |-> worker[w].result]
               run    == [store[r] EXCEPT !.status = worker[w].verdict,
                                          !.results = SetLast(store[r], result)]
               next   == [pc |-> "loop", run |-> r, len |-> Len(store[r].results), sid |-> NoSid]
    <3>1. r \in Runs /\ store[r] \in CampaignRun /\ worker[w] \in Committing
      BY <2>0, <2>14, TaskKinds, PresentTyped DEF CommitStage, StoreRun, Present
    <3>2. result \in StepResult /\ worker[w].verdict \in Statuses
      BY <3>1 DEF StepResult, Committing
    <3> HIDE DEF result
    <3>3. SetLast(store[r], result) \in Seq(StepResult)
      BY <3>1, <3>2, SetLastTyped
    <3>4. run \in CampaignRun
      BY <3>1, <3>2, <3>3 DEF CampaignRun
    <3>5. Leave(w) \in Task /\ next \in Task
      BY <3>1, ResultsTyped DEF Leave, Task, Leaving, Looping
    <3>6. StoreRun(r, run) /\ worker[w].pc # "idle"
      BY <2>14 DEF CommitStage, result
    <3>7. \/ worker' = [worker EXCEPT ![w] = Leave(w)]
          \/ worker' = [worker EXCEPT ![w] = next]
      BY <2>14 DEF CommitStage
    <3>8. nextSid' \in 1..(MaxSids + 1) /\ UNCHANGED <<Locals, launched, faulted>>
      BY <2>14 DEF CommitStage, idVars
    <3> HIDE DEF run, next
    <3> QED BY <2>5, <3>4, <3>5, <3>6, <3>7, <3>8
  <2>15. ASSUME NEW s \in Sids, ScenarioAdmitted(s) \/ ScenarioUnrecorded(s) \/ CancelRun(s)
         PROVE  TypeOK' /\ PhaseInv'
    BY <2>15 DEF ScenarioAdmitted, ScenarioUnrecorded, CancelRun, CancelScenario, Quiet, Others,
                 ctlVars, idVars, Phases
  <2>16. ASSUME NEW s \in Sids, ScenarioEnds(s) PROVE TypeOK' /\ PhaseInv'
    <3>1. audit[s] \in AuditRecord
      BY <2>16 DEF ScenarioEnds
    <3>2. Outcomes(s) \subseteq AuditRecord
      BY <3>1 DEF Outcomes, AuditRecord
    <3> QED BY <2>16, <3>2 DEF ScenarioEnds, Quiet, ctlVars, idVars, Phases
  <2>17. ASSUME NEW c \in Cancellers, NEW next \in Cancel, Goto(c, next),
                cancelled' \subseteq Workers, cancelling' \subseteq Sids,
                UNCHANGED <<Others, current>>
         PROVE  TypeOK' /\ PhaseInv'
    BY <2>17 DEF Goto, Others, idVars
  <2>18. ASSUME NEW c \in Cancellers, NEW r \in Runs, CancelCampaignRun(c, r)
         PROVE  TypeOK' /\ PhaseInv'
    BY <2>18, <2>17 DEF CancelCampaignRun, Cancel
  <2>19. ASSUME NEW c \in Cancellers, AbortAll(c) \/ CancelStep(c) PROVE TypeOK' /\ PhaseInv'
    <3>1. \A todo \in SUBSET Runs : Continue(todo) \in Cancel
      BY DEF Continue, Cancel
    <3>2. CASE AbortAll(c)
      BY <3>2, <2>17 DEF AbortAll, Cancel
    <3>3. CASE AbortCampaigns(c)
      BY <3>1, <3>3, <2>17 DEF AbortCampaigns
    <3>4. canceller[c] \in Cancel
      OBVIOUS
    <3>5. CASE CancelLookup(c)
      <4>1. canceller[c].todo \subseteq Runs
        BY <3>4, <3>5 DEF CancelLookup, Cancel, NoCancel
      <4>2. PICK r \in canceller[c].todo :
              Goto(c, IF Present(store[r]) /\ controls[r] # NoWorker
                      THEN [state |-> "control", todo |-> canceller[c].todo \ {r},
                            worker |-> controls[r]]
                      ELSE Continue(canceller[c].todo \ {r}))
        BY <3>5 DEF CancelLookup
      <4>3. controls[r] # NoWorker =>
              [state |-> "control", todo |-> canceller[c].todo \ {r}, worker |-> controls[r]]
                 \in Cancel
        BY <4>1, <4>2 DEF Cancel
      <4> QED BY <3>1, <3>5, <4>1, <4>2, <4>3, <2>17 DEF CancelLookup
    <3>6. CASE CancelControl(c)
      <4>1. canceller[c].todo \subseteq Runs /\ canceller[c].worker \in Workers
        BY <3>4, <3>6 DEF CancelControl, Cancel, NoCancel
      <4>2. current[canceller[c].worker] # NoSid =>
              [state |-> "stage", todo |-> canceller[c].todo, sid |-> current[canceller[c].worker]]
                 \in Cancel
        BY <4>1 DEF Cancel
      <4> QED BY <3>1, <3>6, <4>1, <4>2, <2>17 DEF CancelControl
    <3>7. CASE CancelStage(c)
      <4>1. canceller[c].todo \subseteq Runs
        BY <3>4, <3>7 DEF CancelStage, Cancel, NoCancel
      <4> QED BY <3>1, <3>7, <4>1, <2>17 DEF CancelStage, CancelScenario
    <3> QED BY <2>19, <3>2, <3>3, <3>5, <3>6, <3>7 DEF CancelStep
  <2>20. CASE UNCHANGED vars
    BY <2>20 DEF vars
  <2> QED BY <2>1, <2>2, <2>3, <2>4, <2>6, <2>7, <2>8, <2>9, <2>10, <2>11, <2>12, <2>13, <2>14,
             <2>15, <2>16, <2>18, <2>19, <2>20 DEF Next, WorkerStep
<1> QED BY <1>1, <1>2, PTL DEF Spec

-----------------------------------------------------------------------------
(* What the steps of the tasks change *)

\* Only task w moves; a run other than r may be pruned, if it is finished.
OnlyTask(w) == \A v \in Workers \ {w} : worker'[v] = worker[v]

Kept(q) == store'[q] = store[q] \/ (store'[q] = NoRun /\ store[q].status \in Finished)

OnlyRun(r) == \A q \in Runs \ {r} : Kept(q)

\* A transaction leaves its own run and may prune finished ones.
LEMMA StoreStep ==
    ASSUME TypeOK, NEW r \in Runs, NEW run \in CampaignRun, StoreRun(r, run)
    PROVE  /\ OnlyRun(r)
           /\ store[r] \in CampaignRun
           /\ store'[r] = run \/ (store'[r] = NoRun /\ run.status \in Finished)
           /\ run.status \notin Finished => store'[r] = run
<1> DEFINE s == [store EXCEPT ![r] = run]
<1>1. store \in Store /\ Present(store[r]) /\ store' = Prune(s)
  BY DEF TypeOK, Store, StoreRun, Update
<1>2. s[r] = run /\ \A q \in Runs \ {r} : s[q] = store[q]
  BY <1>1 DEF Store
<1> HIDE DEF s
<1> QED BY <1>1, <1>2, PruneKeeps, PresentTyped DEF OnlyRun, Kept, Present

\* A new run is stored empty.
LEMMA AdmitNewStep ==
    ASSUME TypeOK, NEW w \in Workers, Admit(w), worker[w].pc = "new"
    PROVE  LET r == worker[w].run
           IN  /\ r \in Runs /\ OnlyRun(r) /\ OnlyTask(w)
               /\ store'[r] \in CampaignRun /\ store'[r].status = "QUEUED"
               /\ Len(store'[r].results) = 0 /\ store'[r].superseded = {}
               /\ worker'[w] = [pc |-> "loop", run |-> r, len |-> 0, sid |-> NoSid]
               /\ UNCHANGED <<ctlVars, scenVars, canceller, idVars, faulted>>
<1> DEFINE r == worker[w].run
           new == NewRun(store)
           s == [store EXCEPT ![r] = new]
<1>1. r \in Runs /\ store \in Store
  BY TaskKinds DEF TypeOK, Store
<1>2. /\ new \in CampaignRun /\ new.status = "QUEUED" /\ new.superseded = {}
      /\ Len(new.results) = 0
  BY NewRunTyped
<1>3. store' = Prune(s)
  BY DEF Admit, Insert
<1> HIDE DEF new
<1>4. s[r] = new /\ \A q \in Runs \ {r} : s[q] = store[q]
  BY <1>1 DEF Store
<1> HIDE DEF s
<1>5. OnlyRun(r) /\ store'[r] = new
  BY <1>1, <1>2, <1>3, <1>4, PruneKeeps DEF OnlyRun, Kept, Finished
<1>6. worker' = [worker EXCEPT ![w] =
                    [pc |-> "loop", run |-> r, len |-> Len(store'[r].results), sid |-> NoSid]]
  BY DEF Admit
<1>7. /\ worker'[w] = [pc |-> "loop", run |-> r, len |-> 0, sid |-> NoSid]
      /\ OnlyTask(w)
  BY <1>2, <1>5, <1>6 DEF TypeOK, OnlyTask
<1> QED BY <1>1, <1>2, <1>5, <1>7 DEF Admit

\* A resumed run goes on after its completed results.
LEMMA AdmitResumeStep ==
    ASSUME TypeOK, NEW w \in Workers, Admit(w), worker[w].pc = "resume",
           \A k \in 1..(Len(store[worker[w].run].results) - 1) :
              store[worker[w].run].results[k].status = "COMPLETED"
    PROVE  LET r   == worker[w].run
               old == store[r]
               new == store'[r]
               n   == Len(new.results)
           IN  /\ r \in Runs /\ OnlyRun(r) /\ OnlyTask(w)
               /\ old \in CampaignRun /\ Resumable(old, audit)
               /\ new \in CampaignRun /\ new.status = "QUEUED"
               /\ n <= Len(old.results)
               /\ \A k \in 1..n :
                     /\ new.results[k].sid = old.results[k].sid
                     /\ new.results[k].stage = old.results[k].stage
                     /\ new.results[k].status = "COMPLETED"
                     /\ \/ old.results[k].status = "COMPLETED"
                        \/ /\ old.results[k].sid # NoSid
                           /\ audit[old.results[k].sid].status = "COMPLETED"
               /\ \/ n = Len(old.results) /\ new.superseded = old.superseded
                  \/ /\ HasUnfinished(old)
                     /\ n = Len(old.results) - 1
                     /\ new.superseded = old.superseded \cup {Last(old)}
                     /\ Last(old).sid = NoSid \/ audit[Last(old).sid].status # "COMPLETED"
               /\ worker'[w] = [pc |-> "loop", run |-> r, len |-> n, sid |-> NoSid]
               /\ UNCHANGED <<ctlVars, scenVars, canceller, idVars, faulted>>
<1> DEFINE r == worker[w].run
<1>1. r \in Runs /\ store \in Store
  BY TaskKinds DEF TypeOK, Store
<1>2. store[r] \in CampaignRun
  BY <1>1, PresentTyped DEF Admit, Present
<1>3. store' = [store EXCEPT ![r] = BeginResume(Reconciled(store[r], audit))]
  BY <1>1 DEF Admit, Resume, Store
<1>4. OnlyRun(r) /\ store'[r] = BeginResume(Reconciled(store[r], audit))
  BY <1>1, <1>3 DEF Store, OnlyRun, Kept
<1>5. worker' = [worker EXCEPT ![w] =
                    [pc |-> "loop", run |-> r, len |-> Len(store'[r].results), sid |-> NoSid]]
  BY DEF Admit
<1>6. /\ worker'[w] = [pc |-> "loop", run |-> r, len |-> Len(store'[r].results), sid |-> NoSid]
      /\ OnlyTask(w)
  BY <1>5 DEF TypeOK, OnlyTask
<1>7. Resumable(store[r], audit) /\ UNCHANGED <<ctlVars, scenVars, canceller, idVars, faulted>>
  BY DEF Admit
<1> DEFINE old == store[r]
           new == BeginResume(Reconciled(store[r], audit))
<1>8. /\ new \in CampaignRun
      /\ new.status = "QUEUED"
      /\ Len(new.results) <= Len(old.results)
      /\ \A k \in 1..Len(new.results) :
            /\ new.results[k].sid = old.results[k].sid
            /\ new.results[k].stage = old.results[k].stage
            /\ new.results[k].status = "COMPLETED"
            /\ \/ old.results[k].status = "COMPLETED"
               \/ /\ old.results[k].sid # NoSid
                  /\ audit[old.results[k].sid].status = "COMPLETED"
      /\ \/ Len(new.results) = Len(old.results) /\ new.superseded = old.superseded
         \/ /\ HasUnfinished(old)
            /\ Len(new.results) = Len(old.results) - 1
            /\ new.superseded = old.superseded \cup {Last(old)}
            /\ Last(old).sid = NoSid \/ audit[Last(old).sid].status # "COMPLETED"
  BY <1>2, ResumedRun
<1>9. store'[r] = new
  BY <1>4
<1> HIDE DEF r, new
<1> QED BY <1>1, <1>2, <1>4, <1>6, <1>7, <1>8, <1>9 DEF r

\* The intent of a stage is the last result.
LEMMA BeginStageStep ==
    ASSUME TypeOK, NEW w \in Workers, BeginStage(w)
    PROVE  LET r   == worker[w].run
               old == store[r]
               new == store'[r]
               n   == Len(old.results)
           IN  /\ r \in Runs /\ OnlyRun(r) /\ OnlyTask(w)
               /\ old \in CampaignRun /\ new \in CampaignRun
               /\ new.status = "RUNNING" /\ new.superseded = old.superseded
               /\ Len(new.results) = n + 1
               /\ \A k \in 1..n : new.results[k] = old.results[k]
               /\ new.results[n + 1] =
                     [stage |-> worker[w].len + 1, sid |-> nextSid, status |-> "RUNNING"]
               /\ nextSid \in Sids /\ nextSid' = nextSid + 1
               /\ worker[w].pc = "loop" /\ worker[w].len < Steps
               /\ worker'[w] = [pc |-> "recheck", run |-> r, len |-> n + 1, sid |-> nextSid]
               /\ UNCHANGED <<Locals, launched, faulted>>
<1> DEFINE r       == worker[w].run
           pending == [stage |-> worker[w].len + 1, sid |-> nextSid, status |-> "RUNNING"]
           run     == [store[r] EXCEPT !.status = "RUNNING", !.results = Append(@, pending)]
<1>1. r \in Runs /\ store \in Store /\ worker[w] \in Looping
  BY TaskKinds DEF TypeOK, Store, BeginStage
<1>2. store[r] \in CampaignRun
  BY <1>1, PresentTyped DEF BeginStage, StoreRun, Present
<1>3. pending \in StepResult
  BY <1>1 DEF BeginStage, StepResult, Statuses, Looping
<1> HIDE DEF pending
<1>4. /\ Append(store[r].results, pending) \in Seq(StepResult)
      /\ Len(Append(store[r].results, pending)) = Len(store[r].results) + 1
      /\ \A k \in 1..Len(store[r].results) :
            Append(store[r].results, pending)[k] = store[r].results[k]
      /\ Append(store[r].results, pending)[Len(store[r].results) + 1] = pending
  <2> DEFINE results == store[r].results
  <2>1. results \in Seq(StepResult)
    BY <1>2, ResultsTyped
  <2> HIDE DEF results
  <2>2. /\ Append(results, pending) \in Seq(StepResult)
        /\ Len(Append(results, pending)) = Len(results) + 1
        /\ \A k \in 1..Len(results) : Append(results, pending)[k] = results[k]
        /\ Append(results, pending)[Len(results) + 1] = pending
    BY <1>3, <2>1, AppendProperties
  <2> QED BY <2>2 DEF results
<1>5. /\ run \in CampaignRun /\ run.status = "RUNNING" /\ run.superseded = store[r].superseded
      /\ run.results = Append(store[r].results, pending)
  BY <1>2, <1>4 DEF CampaignRun, Statuses
<1> HIDE DEF run
<1>6. StoreRun(r, run)
  BY DEF BeginStage, run, pending
<1>7. OnlyRun(r) /\ store'[r] = run
  BY <1>1, <1>5, <1>6, StoreStep DEF Finished
<1>8. worker' = [worker EXCEPT ![w] =
                    [pc |-> "recheck", run |-> r, len |-> Len(store'[r].results), sid |-> nextSid]]
  BY DEF BeginStage
<1>9. /\ worker'[w] = [pc |-> "recheck", run |-> r, len |-> Len(store[r].results) + 1,
                       sid |-> nextSid]
      /\ OnlyTask(w)
  BY <1>4, <1>5, <1>7, <1>8 DEF TypeOK, OnlyTask
<1>10. /\ nextSid \in Sids /\ nextSid' = nextSid + 1
       /\ worker[w].pc = "loop" /\ worker[w].len < Steps
       /\ UNCHANGED <<Locals, launched, faulted>>
  BY DEF BeginStage, HasNext
<1> HIDE DEF r
<1> QED BY <1>1, <1>2, <1>4, <1>5, <1>7, <1>9, <1>10 DEF r, pending

\* Between two stages only the status is stored.
LEMMA StatusStep ==
    ASSUME TypeOK, NEW w \in Workers, StopBeforeStage(w) \/ NothingLeft(w)
    PROVE  LET r   == worker[w].run
               old == store[r]
               new == store'[r]
           IN  /\ r \in Runs /\ OnlyRun(r) /\ OnlyTask(w)
               /\ old \in CampaignRun
               /\ \/ /\ new \in CampaignRun /\ new.results = old.results
                     /\ new.superseded = old.superseded
                     /\ \/ new.status = "CANCELLED"
                        \/ new.status = "COMPLETED" /\ ~(worker[w].len < Steps)
                  \/ new = NoRun /\ ~(worker[w].len < Steps)
               /\ worker[w].pc = "loop"
               /\ worker'[w] = Leave(w)
               /\ UNCHANGED <<Locals, idVars, faulted>>
<1> DEFINE r   == worker[w].run
           run(status) == [store[r] EXCEPT !.status = status]
<1>1. r \in Runs /\ store \in Store
  BY TaskKinds DEF TypeOK, Store, StopBeforeStage, NothingLeft
<1>2. store[r] \in CampaignRun
  BY <1>1, PresentTyped DEF StopBeforeStage, NothingLeft, StoreRun, Present
<1>3. \A status \in Statuses :
         /\ run(status) \in CampaignRun /\ run(status).status = status
         /\ run(status).results = store[r].results
         /\ run(status).superseded = store[r].superseded
  BY <1>2 DEF CampaignRun
<1>4. \/ StoreRun(r, run("CANCELLED"))
      \/ StoreRun(r, run("COMPLETED")) /\ ~(worker[w].len < Steps)
  BY DEF StopBeforeStage, NothingLeft, HasNext
<1>5. /\ worker[w].pc = "loop" /\ worker' = [worker EXCEPT ![w] = Leave(w)]
      /\ UNCHANGED <<Locals, idVars, faulted>>
  BY DEF StopBeforeStage, NothingLeft
<1>6. worker'[w] = Leave(w) /\ OnlyTask(w)
  BY <1>5 DEF TypeOK, OnlyTask
<1> HIDE DEF run, r
<1>7. CASE StoreRun(r, run("CANCELLED"))
  <2>1. OnlyRun(r) /\ store'[r] = run("CANCELLED")
    BY <1>1, <1>3, <1>7, StoreStep DEF Statuses, Finished
  <2> QED BY <1>1, <1>2, <1>3, <1>5, <1>6, <2>1 DEF Statuses, r
<1>8. CASE StoreRun(r, run("COMPLETED")) /\ ~(worker[w].len < Steps)
  <2>1. OnlyRun(r) /\ store'[r] \in {run("COMPLETED"), NoRun}
    BY <1>1, <1>3, <1>8, StoreStep DEF Statuses
  <2> QED BY <1>1, <1>2, <1>3, <1>5, <1>6, <1>8, <2>1 DEF Statuses, r
<1> QED BY <1>4, <1>7, <1>8

\* The last result is replaced: the intent is withdrawn, or the stage settled.
LEMMA LastStep ==
    ASSUME TypeOK, NEW w \in Workers, StopAtIntent(w) \/ CommitStage(w),
           Len(store[worker[w].run].results) > 0
    PROVE  LET r   == worker[w].run
               old == store[r]
               new == store'[r]
               n   == Len(old.results)
           IN  /\ r \in Runs /\ OnlyRun(r) /\ OnlyTask(w)
               /\ old \in CampaignRun
               /\ \/ /\ new \in CampaignRun
                     /\ new.superseded = old.superseded
                     /\ Len(new.results) = n
                     /\ \A k \in 1..(n - 1) : new.results[k] = old.results[k]
                     /\ \/ /\ StopAtIntent(w)
                           /\ worker[w].pc = "recheck"
                           /\ new.status = "CANCELLED"
                           /\ new.results[n].stage = old.results[n].stage
                           /\ new.results[n].sid = NoSid
                           /\ new.results[n].status = "CANCELLED"
                        \/ /\ CommitStage(w)
                           /\ new.status = worker[w].verdict
                           /\ new.results[n].stage = worker[w].len
                           /\ new.results[n].sid = worker[w].sid
                           /\ new.results[n].status = worker[w].result
                  \/ CommitStage(w) /\ new = NoRun /\ worker[w].verdict \in Finished
               /\ CommitStage(w) =>
                     /\ worker[w].pc = "commit"
                     /\ worker'[w] = IF worker[w].verdict = "RUNNING"
                                     THEN [pc |-> "loop", run |-> r, len |-> n, sid |-> NoSid]
                                     ELSE Leave(w)
               /\ StopAtIntent(w) => worker'[w] = Leave(w)
               /\ UNCHANGED <<Locals, idVars, faulted>>
<1> DEFINE r    == worker[w].run
           last == [Last(store[r]) EXCEPT !.status = "CANCELLED", !.sid = NoSid]
           result == [stage |-> worker[w].len, sid |-> worker[w].sid,
                      status |-> worker[w].result]
           run(status, x) == [store[r] EXCEPT !.status = status, !.results = SetLast(store[r], x)]
<1>1. r \in Runs /\ store \in Store
  BY TaskKinds DEF TypeOK, Store, StopAtIntent, CommitStage
<1>2. store[r] \in CampaignRun
  BY <1>1, PresentTyped DEF StopAtIntent, CommitStage, StoreRun, Present
<1>3. /\ last \in StepResult
      /\ last.stage = store[r].results[Len(store[r].results)].stage
      /\ last.sid = NoSid /\ last.status = "CANCELLED"
  <2>1. Last(store[r]) \in StepResult
    BY <1>2, ResultsTyped
  <2>2. last \in StepResult /\ last.stage = Last(store[r]).stage
        /\ last.sid = NoSid /\ last.status = "CANCELLED"
    BY <2>1 DEF StepResult, Statuses
  <2> HIDE DEF last
  <2> QED BY <2>2 DEF Last
<1>4. \A status \in Statuses, x \in StepResult :
         /\ run(status, x) \in CampaignRun /\ run(status, x).status = status
         /\ run(status, x).superseded = store[r].superseded
         /\ Len(run(status, x).results) = Len(store[r].results)
         /\ \A k \in 1..(Len(store[r].results) - 1) :
               run(status, x).results[k] = store[r].results[k]
         /\ run(status, x).results[Len(store[r].results)] = x
  <2> SUFFICES ASSUME NEW status \in Statuses, NEW x \in StepResult
               PROVE  /\ run(status, x) \in CampaignRun /\ run(status, x).status = status
                      /\ run(status, x).superseded = store[r].superseded
                      /\ Len(run(status, x).results) = Len(store[r].results)
                      /\ \A k \in 1..(Len(store[r].results) - 1) :
                            run(status, x).results[k] = store[r].results[k]
                      /\ run(status, x).results[Len(store[r].results)] = x
    OBVIOUS
  <2>1. /\ SetLast(store[r], x) \in Seq(StepResult)
        /\ Len(SetLast(store[r], x)) = Len(store[r].results)
        /\ \A k \in 1..Len(store[r].results) :
              SetLast(store[r], x)[k] =
                  IF k = Len(store[r].results) THEN x ELSE store[r].results[k]
    BY <1>2, ResultsReplaced
  <2>2. /\ run(status, x) \in CampaignRun /\ run(status, x).status = status
        /\ run(status, x).superseded = store[r].superseded
        /\ run(status, x).results = SetLast(store[r], x)
    BY <1>2, <2>1 DEF CampaignRun
  <2>3. Len(store[r].results) \in Nat /\ Len(store[r].results) > 0
    BY <1>2, ResultsTyped
  <2>4. \A k \in 1..(Len(store[r].results) - 1) :
           k \in 1..Len(store[r].results) /\ k # Len(store[r].results)
    BY <2>3
  <2>5. Len(store[r].results) \in 1..Len(store[r].results)
    BY <2>3
  <2> HIDE DEF run, r
  <2> QED BY <2>1, <2>2, <2>4, <2>5
<1>5. UNCHANGED <<Locals, idVars, faulted>>
  BY DEF StopAtIntent, CommitStage
<1>6. OnlyTask(w)
  BY DEF StopAtIntent, CommitStage, TypeOK, OnlyTask
<1>7. CASE StopAtIntent(w)
  <2>1. /\ StoreRun(r, run("CANCELLED", last)) /\ worker[w].pc = "recheck"
        /\ worker'[w] = Leave(w) /\ ~CommitStage(w)
    BY <1>7 DEF StopAtIntent, CommitStage, TypeOK
  <2> HIDE DEF run, last, r
  <2>2. OnlyRun(r) /\ store'[r] = run("CANCELLED", last)
    BY <1>1, <1>3, <1>4, <2>1, StoreStep DEF Statuses, Finished
  <2> DEFINE new == run("CANCELLED", last)
  <2>3. /\ new \in CampaignRun /\ new.status = "CANCELLED"
        /\ new.superseded = store[r].superseded
        /\ Len(new.results) = Len(store[r].results)
        /\ \A k \in 1..(Len(store[r].results) - 1) : new.results[k] = store[r].results[k]
        /\ new.results[Len(store[r].results)] = last
    BY <1>3, <1>4 DEF Statuses
  <2> HIDE DEF new
  <2>4. store'[r] = new
    BY <2>2 DEF new
  <2> QED BY <1>1, <1>2, <1>3, <1>5, <1>6, <1>7, <2>1, <2>2, <2>3, <2>4 DEF r
<1>8. CASE CommitStage(w)
  <2>1. /\ StoreRun(r, run(worker[w].verdict, result)) /\ worker[w].pc = "commit"
        /\ worker'[w] = IF worker[w].verdict = "RUNNING"
                        THEN [pc |-> "loop", run |-> r, len |-> Len(store[r].results), sid |-> NoSid]
                        ELSE Leave(w)
        /\ ~StopAtIntent(w)
    BY <1>8 DEF StopAtIntent, CommitStage, TypeOK
  <2>2. worker[w] \in Committing
    BY <2>1, TaskKinds DEF TypeOK
  <2>3. result \in StepResult /\ worker[w].verdict \in Statuses
    BY <2>2 DEF Committing, StepResult
  <2> HIDE DEF run, r
  <2>4. /\ OnlyRun(r)
        /\ \/ store'[r] = run(worker[w].verdict, result)
           \/ store'[r] = NoRun /\ worker[w].verdict \in Finished
    BY <1>1, <1>4, <2>1, <2>3, StoreStep
  <2> DEFINE new == run(worker[w].verdict, result)
  <2>5. /\ new \in CampaignRun /\ new.status = worker[w].verdict
        /\ new.superseded = store[r].superseded
        /\ Len(new.results) = Len(store[r].results)
        /\ \A k \in 1..(Len(store[r].results) - 1) : new.results[k] = store[r].results[k]
        /\ new.results[Len(store[r].results)] = result
    BY <1>4, <2>3
  <2>6. /\ result.stage = worker[w].len /\ result.sid = worker[w].sid
        /\ result.status = worker[w].result
    OBVIOUS
  <2>7. store'[r] = new \/ (store'[r] = NoRun /\ worker[w].verdict \in Finished)
    BY <2>4
  <2> HIDE DEF new, result
  <2> QED BY <1>1, <1>2, <1>5, <1>6, <1>8, <2>1, <2>4, <2>5, <2>6, <2>7 DEF r
<1> QED BY <1>7, <1>8

\* Inside a stage the task keeps its run, its step and its scenario run.
LEMMA MoveStep ==
    ASSUME TypeOK, NEW w \in Workers,
           \/ Recheck(w) \/ StageRefused(w) \/ StageStarts(w) \/ SetCurrent(w)
           \/ StopStage(w) \/ StageEnds(w) \/ Settle(w)
    PROVE  /\ OnlyTask(w)
           /\ worker[w].run \in Runs
           /\ worker[w].pc \in {"recheck", "start", "admitted", "stop", "await", "settle"}
           /\ worker'[w].pc \in {"start", "admitted", "stop", "await", "settle", "commit"}
           /\ worker'[w].run = worker[w].run
           /\ worker'[w].len = worker[w].len
           /\ worker'[w].sid = worker[w].sid
           /\ worker[w].sid \in Sids
           /\ worker'[w].pc = "start" => worker[w].pc = "recheck"
           /\ worker'[w].pc = "commit" => Settle(w)
           /\ UNCHANGED audit \/ StageStarts(w)
           /\ UNCHANGED <<store, controls, canceller, idVars, faulted>>
<1>1. worker \in [Workers -> Task] /\ worker[w].run \in Runs
  BY TaskKinds DEF TypeOK, Recheck, StageRefused, StageStarts, SetCurrent, StopStage, StageEnds,
                   Settle
<1>2. CASE Recheck(w) \/ StageStarts(w) \/ SetCurrent(w) \/ StopStage(w)
  <2>1. worker[w] \in Executing
    BY <1>1, <1>2, TaskKinds DEF Recheck, StageStarts, SetCurrent, StopStage
  <2>2. PICK pc \in {"start", "admitted", "stop", "await"} :
           /\ worker' = [worker EXCEPT ![w] = [@ EXCEPT !.pc = pc]]
           /\ pc = "start" => worker[w].pc = "recheck"
    BY <1>2 DEF Recheck, StageStarts, SetCurrent, StopStage
  <2>3. OnlyTask(w) /\ worker'[w] = [worker[w] EXCEPT !.pc = pc]
    BY <1>1, <2>2 DEF OnlyTask
  <2>4. /\ worker'[w].pc = pc /\ worker'[w].run = worker[w].run
        /\ worker'[w].len = worker[w].len /\ worker'[w].sid = worker[w].sid
        /\ worker[w].sid \in Sids
    BY <2>1, <2>3, PcChange DEF Executing
  <2>5. /\ worker[w].pc \in {"recheck", "start", "admitted", "stop"}
        /\ UNCHANGED audit \/ StageStarts(w)
        /\ UNCHANGED <<store, controls, canceller, idVars, faulted>>
    BY <1>2 DEF Recheck, StageStarts, SetCurrent, StopStage, Locals, ctlVars, scenVars, idVars
  <2> QED BY <1>1, <2>2, <2>3, <2>4, <2>5
<1>3. CASE StageRefused(w) \/ StageEnds(w) \/ Settle(w)
  <2>1. worker[w] \in Executing \cup Settling
    BY <1>1, <1>3, TaskKinds DEF StageRefused, StageEnds, Settle
  <2>2. OnlyTask(w)
    BY <1>1, <1>3 DEF StageRefused, StageEnds, Settle, OnlyTask
  <2>3. /\ worker'[w].run = worker[w].run /\ worker'[w].len = worker[w].len
        /\ worker'[w].sid = worker[w].sid /\ worker[w].sid \in Sids
        /\ worker'[w].pc \in {"settle", "commit"}
        /\ worker'[w].pc = "commit" => Settle(w)
        /\ worker[w].pc \in {"start", "await", "settle"}
    BY <1>1, <1>3, <2>1 DEF StageRefused, StageEnds, Settle, Settled, Executing, Settling
  <2>4. UNCHANGED <<audit, store, controls, canceller, idVars, faulted>>
    BY <1>3 DEF StageRefused, StageEnds, Settle, Locals, ctlVars, scenVars, idVars
  <2> QED BY <1>1, <2>2, <2>3, <2>4
<1> QED BY <1>2, <1>3

\* A task that gives up leaves everything as it is.
LEMMA LeaveStep ==
    ASSUME TypeOK, NEW w \in Workers, AdmitFails(w) \/ UpdateFails(w)
    PROVE  /\ OnlyTask(w)
           /\ worker[w].run \in Runs /\ worker[w].pc # "idle"
           /\ worker'[w] = [pc |-> "leaving", run |-> worker[w].run]
           /\ InExecute(w) => worker[w].run \in faulted'
           /\ faulted \subseteq faulted'
           /\ UNCHANGED <<store, ctlVars, scenVars, canceller, idVars>>
BY TaskKinds DEF TypeOK, AdmitFails, UpdateFails, OnlyTask, Leave, InExecute, Locals

\* A crash interrupts what was under way and ends every task.
LEMMA CrashStep ==
    ASSUME TypeOK, Crash
    PROVE  /\ \A r \in Runs : store'[r] = Interrupted(store[r])
           /\ \A r \in Runs : Present(store[r]) =>
                 store[r] \in CampaignRun /\ store'[r] \in CampaignRun
           /\ \A r \in Runs : ~Present(store[r]) => store[r] = NoRun /\ store'[r] = NoRun
           /\ \A r \in Runs : store'[r].status \notin Pending
           /\ \A w \in Workers : worker'[w] = Idle
           /\ \A s \in Sids : audit'[s] = RecoverIncomplete(audit[s])
           /\ \A r \in Runs : controls'[r] = NoWorker
           /\ UNCHANGED idVars
<1>1. \A r \in Runs : store'[r] = Interrupted(store[r])
  BY DEF Crash, RecoverInterrupted
<1>2. Interrupted(NoRun) = NoRun /\ NoRun.status \notin Pending /\ ~Present(NoRun)
  BY DEF Interrupted, NoRun, Pending, Present
<1>3. \A run \in CampaignRun : Interrupted(run) \in CampaignRun
                                 /\ Interrupted(run).status \notin Pending
  BY InterruptedRun DEF Pending
<1>4. \A run \in CampaignRun : Present(run)
  BY DEF CampaignRun, Statuses, Present
<1>5. \A r \in Runs : store[r] \in CampaignRun \/ store[r] = NoRun
  BY DEF TypeOK
<1> QED BY <1>1, <1>2, <1>3, <1>4, <1>5 DEF Crash

\* The steps that touch neither the store nor the tasks.
Outside ==
    \/ \E s \in Sids : ScenarioAdmitted(s) \/ ScenarioEnds(s) \/ ScenarioUnrecorded(s)
                         \/ CancelRun(s)
    \/ \E c \in Cancellers : AbortAll(c) \/ CancelStep(c)
                               \/ \E r \in Runs : CancelCampaignRun(c, r)
    \/ UNCHANGED vars

\* The scenario task and the cancellers write no campaign run.
LEMMA OutsideStep ==
    ASSUME Outside
    PROVE  UNCHANGED <<store, worker, controls, idVars, faulted>>
BY DEF Outside, ScenarioAdmitted, ScenarioEnds, ScenarioUnrecorded, CancelRun, AbortAll,
       CancelStep, CancelCampaignRun, AbortCampaigns, CancelLookup, CancelControl, CancelStage,
       Quiet, Others, ctlVars, vars, idVars

\* The steps, by what they change.
Moves(w) ==
    \/ Recheck(w) \/ StageRefused(w) \/ StageStarts(w) \/ SetCurrent(w)
    \/ StopStage(w) \/ StageEnds(w) \/ Settle(w)

\* The steps by what they do to the store.
LEMMA NextSteps ==
    ASSUME [Next]_vars
    PROVE  \/ Crash \/ Outside
           \/ \E w \in Workers, r \in Runs : RunCampaign(w, r) \/ ResumeCampaignRun(w, r)
           \/ \E w \in Workers :
                 \/ (Admit(w) /\ worker[w].pc = "new") \/ (Admit(w) /\ worker[w].pc = "resume")
                 \/ AdmitFails(w) \/ UpdateFails(w) \/ Unregister(w) \/ BeginStage(w)
                 \/ StopBeforeStage(w) \/ NothingLeft(w) \/ StopAtIntent(w) \/ CommitStage(w)
                 \/ Moves(w)
<1>1. \A w \in Workers : Admit(w) => worker[w].pc \in {"new", "resume"}
  BY DEF Admit
<1> QED BY <1>1 DEF Next, WorkerStep, Outside, Moves

-----------------------------------------------------------------------------
(* One worker per run *)

Core == Registered /\ SoleExecutor /\ SnapshotLoads /\ StageInv

\* A worker is registered for its run from its launch until it leaves, and its
\* copy of the run is the one that is stored.
LEMMA RegisteredStep ==
    ASSUME TypeOK, Core, [Next]_vars
    PROVE  Registered' /\ SoleExecutor'
<1> USE DEF Core, Registered, SoleExecutor, Busy, InExecute
<1>0. /\ \A w \in Workers : worker[w] \in Task
                            /\ (worker[w].pc # "idle" => worker[w].run \in Runs)
      /\ NoWorker \notin Workers
  BY TaskKinds, WorkersAssumption DEF TypeOK
<1>1. CASE Crash
  BY <1>1, CrashStep DEF Crash, Idle, idVars, NoRun, Present
<1>2. CASE Outside
  BY <1>2, OutsideStep DEF idVars
<1>3. ASSUME NEW w \in Workers, NEW r \in Runs, RunCampaign(w, r)
      PROVE  Registered' /\ SoleExecutor'
  <2>1. /\ OnlyTask(w) /\ worker'[w] = [pc |-> "new", run |-> r]
        /\ controls' = [controls EXCEPT ![r] = w]
        /\ launched' = launched \cup {r} /\ store' = store /\ store[r] = NoRun
        /\ r \notin launched
    BY <1>3 DEF RunCampaign, Spawn, OnlyTask, TypeOK
  <2> QED BY <1>0, <2>1 DEF OnlyTask, TypeOK
<1>4. ASSUME NEW w \in Workers, NEW r \in Runs, ResumeCampaignRun(w, r)
      PROVE  Registered' /\ SoleExecutor'
  <2>1. /\ OnlyTask(w) /\ worker'[w] = [pc |-> "resume", run |-> r]
        /\ controls' = [controls EXCEPT ![r] = w]
        /\ launched' = launched /\ store' = store /\ controls[r] = NoWorker
        /\ r \in launched
    BY <1>4 DEF ResumeCampaignRun, Spawn, OnlyTask, TypeOK, idVars, Present, NoRun
  <2> QED BY <1>0, <2>1 DEF OnlyTask, TypeOK
<1>5. ASSUME NEW w \in Workers, Admit(w), worker[w].pc = "new"
      PROVE  Registered' /\ SoleExecutor'
  <2> DEFINE r == worker[w].run
  <2>1. /\ r \in Runs /\ OnlyRun(r) /\ OnlyTask(w)
        /\ store'[r].status = "QUEUED" /\ Len(store'[r].results) = 0
        /\ worker'[w] = [pc |-> "loop", run |-> r, len |-> 0, sid |-> NoSid]
        /\ controls' = controls /\ launched' = launched
    BY <1>5, AdmitNewStep DEF ctlVars, idVars
  <2>2. r \in launched /\ controls[r] = w
    BY <1>5
  <2> QED BY <1>0, <2>1, <2>2 DEF OnlyTask, OnlyRun, Kept, Pending, Finished, NoRun
<1>6. ASSUME NEW w \in Workers, NEW r \in Runs, r = worker[w].run, controls[r] = w,
             OnlyRun(r), OnlyTask(w), worker[w].pc # "idle", store[r] # NoRun,
             worker'[w].run = r,
             \/ worker'[w].pc = "leaving"
             \/ /\ worker'[w].pc \notin {"idle", "new", "resume"}
                /\ store'[r].status \in Pending
                /\ worker'[w].len = Len(store'[r].results),
             UNCHANGED <<controls, launched>>
      PROVE  Registered' /\ SoleExecutor'
  <2>1. \A v \in Workers \ {w} : Busy(v) => worker[v].run # r
    BY <1>6
  <2>2. \A v \in Workers \ {w} : worker'[v] = worker[v]
    BY <1>6 DEF OnlyTask
  <2>3. \A v \in Workers \ {w} : Busy(v) =>
           \/ store'[worker[v].run] = store[worker[v].run]
           \/ /\ store'[worker[v].run] = NoRun
              /\ store[worker[v].run].status \in Finished
    BY <1>0, <1>6, <2>1 DEF OnlyRun, Kept
  <2>4. Registered'
    <3>1. ASSUME NEW q \in Runs, q \notin launched'
          PROVE  store'[q] = NoRun /\ controls'[q] = NoWorker
      BY <1>6, <3>1 DEF OnlyRun, Kept
    <3>2. ASSUME NEW v \in Workers, Busy(v)'
          PROVE  /\ worker'[v].run \in launched'
                 /\ controls'[worker'[v].run] = v
                 /\ worker'[v].pc = "new" => store'[worker'[v].run] = NoRun
      BY <1>6, <2>2, <2>3, <3>2 DEF NoRun, Finished
    <3> QED BY <3>1, <3>2
  <2>5. SoleExecutor'
    BY <1>6, <2>2, <2>3 DEF Pending, Finished
  <2> QED BY <2>4, <2>5
<1>7. ASSUME NEW w \in Workers, Admit(w), worker[w].pc = "resume"
      PROVE  Registered' /\ SoleExecutor'
  <2> DEFINE r == worker[w].run
  <2>1. r \in Runs /\ Present(store[r])
    BY <1>0, <1>7 DEF Admit
  <2>2. \A k \in 1..(Len(store[r].results) - 1) : store[r].results[k].status = "COMPLETED"
    BY <2>1, PresentTyped, ResultsTyped DEF SnapshotLoads, Validate, Present, TypeOK, Store
  <2>3. /\ OnlyRun(r) /\ OnlyTask(w) /\ store'[r].status = "QUEUED"
        /\ worker'[w] = [pc |-> "loop", run |-> r, len |-> Len(store'[r].results), sid |-> NoSid]
        /\ UNCHANGED <<controls, launched>>
    BY <1>7, <2>2, AdmitResumeStep DEF ctlVars, idVars
  <2>4. controls[r] = w /\ store[r] # NoRun
    BY <1>7, <2>1 DEF Present, NoRun
  <2> QED BY <1>6, <1>7, <2>1, <2>3, <2>4 DEF Pending
<1>8. ASSUME NEW w \in Workers, AdmitFails(w) \/ UpdateFails(w)
      PROVE  Registered' /\ SoleExecutor'
  <2>1. /\ OnlyTask(w) /\ worker[w].run \in Runs /\ worker[w].pc # "idle"
        /\ worker'[w] = [pc |-> "leaving", run |-> worker[w].run]
        /\ UNCHANGED <<store, controls, launched>>
    BY <1>8, LeaveStep DEF ctlVars, idVars
  <2> QED BY <1>0, <2>1 DEF OnlyTask
<1>9. ASSUME NEW w \in Workers, Unregister(w) PROVE Registered' /\ SoleExecutor'
  <2>1. /\ OnlyTask(w) /\ worker'[w] = Idle /\ worker[w].run \in Runs
        /\ controls' = [controls EXCEPT ![worker[w].run] = NoWorker]
        /\ launched' = launched /\ store' = store /\ worker[w].pc = "leaving"
    BY <1>0, <1>9 DEF Unregister, OnlyTask, TypeOK, idVars
  <2> QED BY <1>0, <2>1 DEF OnlyTask, TypeOK, Idle
<1>10. ASSUME NEW w \in Workers, BeginStage(w) PROVE Registered' /\ SoleExecutor'
  <2>1. store[worker[w].run] # NoRun /\ controls[worker[w].run] = w
    BY <1>10 DEF BeginStage, StoreRun, Present, NoRun
  <2> DEFINE r == worker[w].run
             n == Len(store[r].results)
  <2>2. /\ r \in Runs /\ OnlyRun(r) /\ OnlyTask(w) /\ worker[w].pc = "loop"
        /\ store'[r].status = "RUNNING" /\ Len(store'[r].results) = n + 1
        /\ worker'[w] = [pc |-> "recheck", run |-> r, len |-> n + 1, sid |-> nextSid]
        /\ UNCHANGED <<controls, launched>>
    BY <1>10, BeginStageStep DEF Locals, ctlVars
  <2> QED BY <1>6, <2>1, <2>2 DEF Pending
<1>11. ASSUME NEW w \in Workers, StopBeforeStage(w) \/ NothingLeft(w)
       PROVE  Registered' /\ SoleExecutor'
  <2>1. store[worker[w].run] # NoRun /\ controls[worker[w].run] = w
    BY <1>11 DEF StopBeforeStage, NothingLeft, StoreRun, Present, NoRun
  <2> DEFINE r == worker[w].run
  <2>2. /\ r \in Runs /\ OnlyRun(r) /\ OnlyTask(w) /\ worker[w].pc = "loop"
        /\ worker'[w] = [pc |-> "leaving", run |-> r]
        /\ UNCHANGED <<controls, launched>>
    BY <1>11, StatusStep DEF Locals, ctlVars, idVars, Leave
  <2> QED BY <1>6, <2>1, <2>2
<1>12. ASSUME NEW w \in Workers, StopAtIntent(w) \/ CommitStage(w)
       PROVE  Registered' /\ SoleExecutor'
  <2>1. /\ store[worker[w].run] # NoRun /\ controls[worker[w].run] = w
        /\ Len(store[worker[w].run].results) > 0
    <3>1. worker[w].pc \in {"recheck", "commit"}
      BY <1>12 DEF StopAtIntent, CommitStage
    <3>2. Len(store[worker[w].run].results) > 0
      BY <3>1 DEF StageInv, StageOf
    <3> QED BY <1>12, <3>2 DEF StopAtIntent, CommitStage, StoreRun, Present, NoRun
  <2> DEFINE r == worker[w].run
             n == Len(store[r].results)
  <2>2. /\ r \in Runs /\ OnlyRun(r) /\ OnlyTask(w) /\ worker[w].pc \in {"recheck", "commit"}
        /\ \/ worker'[w] = [pc |-> "leaving", run |-> r]
           \/ /\ worker'[w] = [pc |-> "loop", run |-> r, len |-> n, sid |-> NoSid]
              /\ store'[r].status = "RUNNING" /\ Len(store'[r].results) = n
        /\ UNCHANGED <<controls, launched>>
    <3>1. CASE CommitStage(w) /\ worker[w].verdict = "RUNNING"
      <4>1. worker[w].verdict \notin Finished /\ ~StopAtIntent(w)
        BY <3>1 DEF Finished, StopAtIntent, CommitStage
      <4> QED BY <2>1, <3>1, <4>1, LastStep DEF Locals, ctlVars, idVars
    <3>2. CASE ~(CommitStage(w) /\ worker[w].verdict = "RUNNING")
      BY <1>12, <2>1, <3>2, LastStep DEF Locals, ctlVars, idVars, Leave, StopAtIntent, CommitStage
    <3> QED BY <3>1, <3>2
  <2> QED BY <1>6, <2>1, <2>2 DEF Pending
<1>13. ASSUME NEW w \in Workers, Moves(w) PROVE Registered' /\ SoleExecutor'
  <2>1. /\ OnlyTask(w) /\ worker[w].run \in Runs
        /\ worker[w].pc \in {"recheck", "start", "admitted", "stop", "await", "settle"}
        /\ worker'[w].pc \in {"start", "admitted", "stop", "await", "settle", "commit"}
        /\ worker'[w].run = worker[w].run /\ worker'[w].len = worker[w].len
        /\ UNCHANGED <<store, controls, launched>>
    BY <1>13, MoveStep DEF Moves, idVars
  <2> QED BY <1>0, <2>1 DEF OnlyTask
<1> QED BY <1>1, <1>2, <1>3, <1>4, <1>5, <1>7, <1>8, <1>9, <1>10, <1>11, <1>12, <1>13, NextSteps

\* validate(), for a typed run.
LEMMA ValidRun ==
    ASSUME NEW run \in CampaignRun
    PROVE  Validate(run) <=>
              /\ Len(run.results) <= Steps
              /\ \A k \in 1..Len(run.results) : run.results[k].stage = k
              /\ \A k \in 1..(Len(run.results) - 1) : run.results[k].status = "COMPLETED"
              /\ run.status = "COMPLETED" =>
                    /\ Len(run.results) = Steps
                    /\ run.results[Len(run.results)].status = "COMPLETED"
<1>1. Len(run.results) \in Nat /\ DOMAIN run.results = 1..Len(run.results)
  BY ResultsTyped
<1>2. run.status \in Statuses
  BY DEF CampaignRun
<1> QED BY <1>1, <1>2, StepsAssumption DEF Validate

\* The results of a valid run stay valid: its last one is replaced, an intent is
\* added, or only a prefix of completed ones is kept.
LEMMA ValidReplaced ==
    ASSUME NEW old \in CampaignRun, NEW new \in CampaignRun, NEW n \in Nat, Validate(old),
           Len(old.results) = n, n > 0, Len(new.results) = n,
           \A k \in 1..(n - 1) : new.results[k] = old.results[k],
           new.results[n].stage = n,
           new.status = "COMPLETED" => n = Steps /\ new.results[n].status = "COMPLETED"
    PROVE  /\ Validate(new)
           /\ new.results[n].status = "COMPLETED" =>
                 \A k \in 1..n : new.results[k].status = "COMPLETED"
<1>1. /\ \A k \in 1..n : old.results[k].stage = k
      /\ \A k \in 1..(n - 1) : old.results[k].status = "COMPLETED"
      /\ n <= Steps
  BY ValidRun
<1>2. \A k \in 1..n : k = n \/ k \in 1..(n - 1)
  OBVIOUS
<1>3. \A k \in 1..n : new.results[k].stage = k
  BY <1>1, <1>2
<1>4. \A k \in 1..(n - 1) : new.results[k].status = "COMPLETED"
  BY <1>1
<1>5. Validate(new)
  BY <1>1, <1>3, <1>4, ValidRun
<1> QED BY <1>2, <1>4, <1>5

\* A run is valid with one more stage under way,
LEMMA ValidExtended ==
    ASSUME NEW old \in CampaignRun, NEW new \in CampaignRun, NEW n \in Nat, Validate(old),
           Len(old.results) = n, n < Steps, Len(new.results) = n + 1,
           \A k \in 1..n : old.results[k].status = "COMPLETED",
           \A k \in 1..n : new.results[k] = old.results[k],
           new.results[n + 1].stage = n + 1, new.status # "COMPLETED"
    PROVE  Validate(new)
<1>1. \A k \in 1..n : old.results[k].stage = k
  BY ValidRun
<1>2. \A k \in 1..(n + 1) : k = n + 1 \/ k \in 1..n
  OBVIOUS
<1>3. \A k \in 1..(n + 1) : new.results[k].stage = k
  BY <1>1, <1>2
<1>4. (n + 1) - 1 = n /\ n + 1 <= Steps
  BY StepsAssumption
<1>5. \A k \in 1..((n + 1) - 1) : new.results[k].status = "COMPLETED"
  BY <1>4
<1> QED BY <1>3, <1>4, <1>5, ValidRun

\* and without its last.
LEMMA ValidPrefix ==
    ASSUME NEW old \in CampaignRun, NEW new \in CampaignRun, NEW n \in Nat, Validate(old),
           n <= Len(old.results), Len(new.results) = n,
           \A k \in 1..n : new.results[k].stage = old.results[k].stage,
           \A k \in 1..n : new.results[k].status = "COMPLETED",
           new.status = "COMPLETED" => n = Steps
    PROVE  Validate(new)
<1>1. /\ \A k \in 1..Len(old.results) : old.results[k].stage = k
      /\ Len(old.results) <= Steps /\ Len(old.results) \in Nat
  BY ValidRun, ResultsTyped
<1>2. /\ \A k \in 1..n : k \in 1..Len(old.results)
      /\ \A k \in 1..(n - 1) : k \in 1..n
      /\ n <= Steps
  BY <1>1, StepsAssumption
<1>3. \A k \in 1..n : new.results[k].stage = k
  BY <1>1, <1>2
<1>4. \A k \in 1..(n - 1) : new.results[k].status = "COMPLETED"
  BY <1>2
<1>5. n = Steps => n \in 1..n
  BY StepsAssumption
<1> QED BY <1>2, <1>3, <1>4, <1>5, ValidRun

\* The stages of every run stay in order: intents at the end, completed before.
LEMMA StageStep ==
    ASSUME TypeOK, Core, [Next]_vars
    PROVE  SnapshotLoads' /\ StageInv'
<1>0. /\ \A w \in Workers : worker[w] \in Task
                            /\ (worker[w].pc # "idle" => worker[w].run \in Runs)
      /\ \A r \in Runs : Present(store[r]) =>
            store[r] \in CampaignRun /\ Validate(store[r]) /\ Len(store[r].results) \in Nat
      /\ \A w \in Workers : InExecute(w) => StageOf(store[worker[w].run], worker[w])
      /\ \A w \in Workers : InExecute(w) => worker[w].len = Len(store[worker[w].run].results)
  BY TaskKinds, PresentTyped, ResultsTyped
     DEF TypeOK, Store, Present, Core, SnapshotLoads, StageInv, SoleExecutor
<1>1. ASSUME NEW w \in Workers, NEW r \in Runs, r = worker[w].run, worker[w].pc # "idle",
             OnlyRun(r), OnlyTask(w), worker'[w].run = r,
             Present(store'[r]) => Validate(store'[r]),
             worker'[w].pc # "leaving" => StageOf(store'[r], worker'[w])
      PROVE  SnapshotLoads' /\ StageInv'
  <2>1. \A v \in Workers \ {w} : worker'[v] = worker[v]
    BY <1>1 DEF OnlyTask
  <2>2. ASSUME NEW v \in Workers \ {w}, InExecute(v)
        PROVE  store'[worker[v].run] = store[worker[v].run]
    <3>1. Busy(v) /\ Busy(w) /\ store[worker[v].run].status \in Pending
      BY <1>1, <2>2 DEF Core, SoleExecutor, Busy, InExecute
    <3>2. worker[v].run \in Runs \ {r}
      BY <1>0, <1>1, <3>1 DEF Core, Registered, Busy
    <3> QED BY <1>1, <3>1, <3>2 DEF OnlyRun, Kept, Pending, Finished
  <2>3. SnapshotLoads'
    <3>1. ASSUME NEW q \in Runs \ {r}, Present(store'[q]) PROVE Validate(store'[q])
      BY <1>0, <1>1, <3>1 DEF OnlyRun, Kept, Present, NoRun
    <3> QED BY <1>1, <3>1 DEF SnapshotLoads
  <2>4. ASSUME NEW v \in Workers, worker'[v].pc \notin {"idle", "new", "resume", "leaving"}
        PROVE  StageOf(store'[worker'[v].run], worker'[v])
    <3>1. CASE v = w
      BY <1>1, <2>4, <3>1
    <3>2. CASE v # w
      <4>1. worker'[v] = worker[v] /\ InExecute(v)
        BY <2>1, <2>4, <3>2 DEF InExecute
      <4>2. store'[worker[v].run] = store[worker[v].run]
        BY <2>2, <3>2, <4>1
      <4> QED BY <1>0, <4>1, <4>2
    <3> QED BY <3>1, <3>2
  <2> QED BY <2>3, <2>4 DEF StageInv, InExecute
<1>2. ASSUME UNCHANGED store,
             \A w \in Workers : \/ worker'[w] = worker[w]
                                \/ worker'[w].pc \in {"idle", "new", "resume", "leaving"}
      PROVE  SnapshotLoads' /\ StageInv'
  <2>1. SnapshotLoads'
    BY <1>0, <1>2 DEF SnapshotLoads
  <2>2. StageInv'
    BY <1>0, <1>2 DEF StageInv, InExecute
  <2> QED BY <2>1, <2>2
<1>3. CASE Crash
  <2>1. ASSUME NEW r \in Runs, Present(store'[r]) PROVE Validate(store'[r])
    <3>1. /\ store[r] \in CampaignRun /\ store'[r] = Interrupted(store[r])
          /\ store'[r] \in CampaignRun /\ Validate(store[r])
      BY <1>0, <1>3, <2>1, CrashStep DEF Present, NoRun
    <3>2. /\ Len(store'[r].results) = Len(store[r].results)
          /\ store'[r].status = IF store[r].status \in Pending THEN "INTERRUPTED" ELSE store[r].status
          /\ \A k \in 1..Len(store[r].results) :
                /\ k < Len(store[r].results) => store'[r].results[k] = store[r].results[k]
                /\ store'[r].results[k].stage = store[r].results[k].stage
                /\ store[r].results[k].status # "RUNNING"
                      => store'[r].results[k].status = store[r].results[k].status
      BY <3>1, InterruptedRun
    <3>3. Len(store[r].results) \in Nat
      BY <3>1, ResultsTyped
    <3>4. /\ \A k \in 1..Len(store[r].results) : store[r].results[k].stage = k
          /\ \A k \in 1..(Len(store[r].results) - 1) : store[r].results[k].status = "COMPLETED"
          /\ Len(store[r].results) <= Steps
          /\ store[r].status = "COMPLETED" =>
                /\ Len(store[r].results) = Steps
                /\ store[r].results[Len(store[r].results)].status = "COMPLETED"
      BY <3>1, ValidRun
    <3> DEFINE n == Len(store[r].results)
    <3>5. n \in Nat /\ Len(store[r].results) = n /\ Len(store'[r].results) = n
      BY <3>2, <3>3
    <3> HIDE DEF n
    <3>6. CASE n > 0
      <4>1. /\ \A k \in 1..(n - 1) : store'[r].results[k] = store[r].results[k]
            /\ n \in 1..n
        BY <3>2, <3>5, <3>6
      <4>2. store'[r].results[n].stage = n
        BY <3>2, <3>4, <3>5, <4>1
      <4>3. store'[r].status = "COMPLETED" => n = Steps /\ store'[r].results[n].status = "COMPLETED"
        BY <3>2, <3>4, <3>5, <4>1
      <4> QED BY <3>1, <3>5, <3>6, <4>1, <4>2, <4>3, ValidReplaced
    <3>7. CASE n = 0
      BY <3>1, <3>2, <3>4, <3>5, <3>7, ValidPrefix, StepsAssumption
    <3> QED BY <3>5, <3>6, <3>7
  <2>2. \A w \in Workers : worker'[w].pc = "idle"
    BY <1>3, CrashStep DEF Idle
  <2> QED BY <2>1, <2>2 DEF SnapshotLoads, StageInv, InExecute
<1>4. CASE Outside
  <2>1. UNCHANGED <<store, worker>>
    BY <1>4, OutsideStep
  <2> QED BY <1>2, <2>1
<1>5. ASSUME NEW w \in Workers, NEW r \in Runs, RunCampaign(w, r) \/ ResumeCampaignRun(w, r)
      PROVE  SnapshotLoads' /\ StageInv'
  <2>1. OnlyTask(w) /\ worker'[w].pc \in {"new", "resume"} /\ store' = store
    BY <1>5 DEF RunCampaign, ResumeCampaignRun, Spawn, OnlyTask, TypeOK
  <2> QED BY <1>2, <2>1 DEF OnlyTask
<1>6. ASSUME NEW w \in Workers, Admit(w), worker[w].pc = "new" PROVE SnapshotLoads' /\ StageInv'
  <2> DEFINE r == worker[w].run
  <2>1. /\ r \in Runs /\ OnlyRun(r) /\ OnlyTask(w)
        /\ store'[r] \in CampaignRun /\ store'[r].status = "QUEUED"
        /\ Len(store'[r].results) = 0
        /\ worker'[w] = [pc |-> "loop", run |-> r, len |-> 0, sid |-> NoSid]
    BY <1>6, AdmitNewStep
  <2>2. Validate(store'[r])
    BY <2>1, ValidRun, StepsAssumption
  <2>3. StageOf(store'[r], worker'[w])
    BY <2>1 DEF StageOf
  <2> QED BY <1>1, <1>6, <2>1, <2>2, <2>3
<1>7. ASSUME NEW w \in Workers, Admit(w), worker[w].pc = "resume"
      PROVE  SnapshotLoads' /\ StageInv'
  <2> DEFINE r == worker[w].run
  <2>1. r \in Runs /\ Present(store[r])
    BY <1>0, <1>7 DEF Admit
  <2>2. /\ \A k \in 1..(Len(store[r].results) - 1) : store[r].results[k].status = "COMPLETED"
        /\ \A k \in 1..Len(store[r].results) : store[r].results[k].stage = k
        /\ Len(store[r].results) <= Steps /\ Len(store[r].results) \in Nat
    BY <1>0, <2>1, ValidRun
  <2>3. /\ OnlyRun(r) /\ OnlyTask(w)
        /\ store'[r] \in CampaignRun /\ store'[r].status = "QUEUED"
        /\ Len(store'[r].results) <= Len(store[r].results)
        /\ \A k \in 1..Len(store'[r].results) :
              /\ store'[r].results[k].stage = store[r].results[k].stage
              /\ store'[r].results[k].status = "COMPLETED"
        /\ worker'[w] = [pc |-> "loop", run |-> r, len |-> Len(store'[r].results), sid |-> NoSid]
    BY <1>7, <2>2, AdmitResumeStep
  <2>4. Len(store'[r].results) \in Nat
    BY <2>3, ResultsTyped
  <2>5. Validate(store'[r])
    <3>1. /\ \A k \in 1..Len(store'[r].results) : store'[r].results[k].stage = store[r].results[k].stage
          /\ \A k \in 1..Len(store'[r].results) : store'[r].results[k].status = "COMPLETED"
          /\ store'[r].status # "COMPLETED"
      BY <2>3
    <3> DEFINE old == store[r]
               new == store'[r]
               n   == Len(new.results)
    <3>2. /\ old \in CampaignRun /\ new \in CampaignRun /\ n \in Nat /\ Validate(old)
          /\ n <= Len(old.results) /\ Len(new.results) = n
          /\ \A k \in 1..n : new.results[k].stage = old.results[k].stage
          /\ \A k \in 1..n : new.results[k].status = "COMPLETED"
          /\ new.status # "COMPLETED"
      BY <1>0, <2>1, <2>3, <2>4, <3>1
    <3> HIDE DEF old, new, n
    <3>3. Validate(new)
      BY <3>2, ValidPrefix
    <3> QED BY <3>3 DEF new
  <2>6. StageOf(store'[r], worker'[w])
    BY <2>3 DEF StageOf
  <2> QED BY <1>1, <1>7, <2>1, <2>3, <2>5, <2>6
<1>8. ASSUME NEW w \in Workers, AdmitFails(w) \/ UpdateFails(w) PROVE SnapshotLoads' /\ StageInv'
  <2>1. /\ OnlyTask(w) /\ worker'[w] = [pc |-> "leaving", run |-> worker[w].run]
        /\ store' = store
    BY <1>8, LeaveStep
  <2> QED BY <1>2, <2>1 DEF OnlyTask
<1>9. ASSUME NEW w \in Workers, Unregister(w) PROVE SnapshotLoads' /\ StageInv'
  <2>1. OnlyTask(w) /\ worker'[w].pc = "idle" /\ store' = store
    BY <1>9 DEF Unregister, OnlyTask, TypeOK, Idle
  <2> QED BY <1>2, <2>1 DEF OnlyTask
<1>10. ASSUME NEW w \in Workers, BeginStage(w) PROVE SnapshotLoads' /\ StageInv'
  <2> DEFINE r == worker[w].run
             n == Len(store[r].results)
  <2>1. /\ r \in Runs /\ OnlyRun(r) /\ OnlyTask(w)
        /\ store[r] \in CampaignRun /\ store'[r] \in CampaignRun
        /\ store'[r].status = "RUNNING"
        /\ Len(store'[r].results) = n + 1
        /\ \A k \in 1..n : store'[r].results[k] = store[r].results[k]
        /\ store'[r].results[n + 1] =
              [stage |-> worker[w].len + 1, sid |-> nextSid, status |-> "RUNNING"]
        /\ worker[w].pc = "loop" /\ worker[w].len < Steps
        /\ worker'[w] = [pc |-> "recheck", run |-> r, len |-> n + 1, sid |-> nextSid]
    BY <1>10, BeginStageStep
  <2>2. n \in Nat /\ Present(store[r])
    BY <1>10, <2>1, ResultsTyped DEF BeginStage, StoreRun
  <2>3. worker[w].len = n /\ StageOf(store[r], worker[w])
    BY <1>0, <2>1 DEF InExecute
  <2>4. \A k \in 1..n : store[r].results[k].status = "COMPLETED"
    BY <2>1, <2>3 DEF StageOf
  <2>5. store'[r].results[n + 1].stage = n + 1 /\ n < Steps /\ store'[r].status # "COMPLETED"
    BY <2>1, <2>3
  <2>6. Validate(store'[r])
    <3>1. Validate(store[r])
      BY <1>0, <2>1, <2>2
    <3> DEFINE old == store[r]
               new == store'[r]
    <3>2. /\ old \in CampaignRun /\ new \in CampaignRun /\ n \in Nat /\ Validate(old)
          /\ Len(old.results) = n /\ n < Steps /\ Len(new.results) = n + 1
          /\ \A k \in 1..n : old.results[k].status = "COMPLETED"
          /\ \A k \in 1..n : new.results[k] = old.results[k]
          /\ new.results[n + 1].stage = n + 1 /\ new.status # "COMPLETED"
      BY <2>1, <2>2, <2>4, <2>5, <3>1
    <3> HIDE DEF old, new, n
    <3>3. Validate(new)
      BY <3>2, ValidExtended
    <3> QED BY <3>3 DEF new
  <2>7. StageOf(store'[r], worker'[w])
    <3>1. /\ worker'[w].pc = "recheck" /\ worker'[w].sid = nextSid
          /\ Len(store'[r].results) = n + 1 /\ n + 1 > 0
          /\ store'[r].results[n + 1].sid = nextSid
          /\ store'[r].results[n + 1].status = "RUNNING"
      BY <2>1, <2>2
    <3> HIDE DEF r, n
    <3>2. Last(store'[r]) = store'[r].results[n + 1]
      BY <3>1 DEF Last
    <3> QED BY <3>1, <3>2 DEF StageOf
  <2> QED BY <1>1, <2>1, <2>6, <2>7
<1>11. ASSUME NEW w \in Workers, StopBeforeStage(w) \/ NothingLeft(w)
       PROVE  SnapshotLoads' /\ StageInv'
  <2> DEFINE r == worker[w].run
             n == Len(store[r].results)
  <2>1. /\ r \in Runs /\ OnlyRun(r) /\ OnlyTask(w) /\ worker[w].pc = "loop"
        /\ store[r] \in CampaignRun
        /\ \/ /\ store'[r] \in CampaignRun /\ store'[r].results = store[r].results
              /\ \/ store'[r].status = "CANCELLED"
                 \/ store'[r].status = "COMPLETED" /\ ~(worker[w].len < Steps)
           \/ store'[r] = NoRun
        /\ worker'[w] = [pc |-> "leaving", run |-> r]
    BY <1>11, StatusStep DEF Leave
  <2>2. n \in Nat /\ Present(store[r])
    BY <1>11, <2>1, ResultsTyped DEF StopBeforeStage, NothingLeft, StoreRun
  <2>3. worker[w].len = n /\ StageOf(store[r], worker[w])
    BY <1>0, <2>1 DEF InExecute
  <2>4. (\A k \in 1..n : store[r].results[k].status = "COMPLETED") /\ Validate(store[r]) /\ n <= Steps
    BY <1>0, <2>1, <2>2, <2>3, ValidRun DEF StageOf
  <2>5. ASSUME Present(store'[r]) PROVE Validate(store'[r])
    <3>1. store'[r] \in CampaignRun /\ store'[r].results = store[r].results
      BY <2>1, <2>5 DEF Present, NoRun
    <3>2. store'[r].status = "COMPLETED" => n = Steps
      BY <2>1, <2>2, <2>3, <2>4, <2>5, StepsAssumption DEF Present, NoRun
    <3> DEFINE old == store[r]
               new == store'[r]
    <3>3. /\ old \in CampaignRun /\ new \in CampaignRun /\ n \in Nat /\ Validate(old)
          /\ n <= Len(old.results) /\ Len(new.results) = n
          /\ \A k \in 1..n : new.results[k].stage = old.results[k].stage
          /\ \A k \in 1..n : new.results[k].status = "COMPLETED"
          /\ new.status = "COMPLETED" => n = Steps
      <4>1. old \in CampaignRun /\ n \in Nat /\ Validate(old) /\ Len(old.results) = n
        BY <2>1, <2>2, <2>4
      <4> HIDE DEF r, n
      <4> QED BY <2>4, <3>1, <3>2, <4>1
    <3> HIDE DEF old, new, n
    <3>4. Validate(new)
      BY <3>3, ValidPrefix
    <3> QED BY <3>4 DEF new
  <2> QED BY <1>1, <2>1, <2>5
<1>12. ASSUME NEW w \in Workers, StopAtIntent(w) \/ CommitStage(w)
       PROVE  SnapshotLoads' /\ StageInv'
  <2> DEFINE r == worker[w].run
             n == Len(store[r].results)
  <2>1. worker[w].pc \in {"recheck", "commit"} /\ Present(store[r])
    BY <1>12 DEF StopAtIntent, CommitStage, StoreRun
  <2>2. r \in Runs /\ store[r] \in CampaignRun /\ n \in Nat /\ Validate(store[r])
    BY <1>0, <2>1
  <2>3. worker[w].len = n /\ StageOf(store[r], worker[w]) /\ n > 0
    BY <1>0, <2>1 DEF InExecute, StageOf
  <2>4. n \in 1..n /\ store[r].results[n].stage = n
    BY <2>2, <2>3, ValidRun
  <2>0. ASSUME OnlyRun(r), OnlyTask(w), worker'[w].run = r,
               Present(store'[r]) => Validate(store'[r]),
               worker'[w].pc # "leaving" => StageOf(store'[r], worker'[w])
        PROVE  SnapshotLoads' /\ StageInv'
    BY <1>1, <2>0, <2>1, <2>2
  <2> HIDE DEF r
  <2>5. CASE StopAtIntent(w)
    <3>1. /\ OnlyRun(r) /\ OnlyTask(w) /\ worker'[w] = [pc |-> "leaving", run |-> r]
          /\ store'[r] \in CampaignRun /\ Len(store'[r].results) = n
          /\ \A k \in 1..(n - 1) : store'[r].results[k] = store[r].results[k]
          /\ store'[r].status = "CANCELLED"
          /\ store'[r].results[n].stage = store[r].results[n].stage
      BY <2>3, <2>5, LastStep DEF r, Leave, StopAtIntent, CommitStage
    <3>2. store'[r].results[n].stage = n /\ store'[r].status # "COMPLETED"
      BY <2>4, <3>1
    <3>3. Validate(store'[r])
      <4> DEFINE old == store[r]
                 new == store'[r]
      <4>1. /\ old \in CampaignRun /\ new \in CampaignRun /\ n \in Nat /\ Validate(old)
            /\ Len(old.results) = n /\ n > 0 /\ Len(new.results) = n
            /\ \A k \in 1..(n - 1) : new.results[k] = old.results[k]
            /\ new.results[n].stage = n /\ new.status # "COMPLETED"
        BY <2>2, <2>3, <3>1, <3>2
      <4> HIDE DEF old, new, n
      <4>2. Validate(new)
        BY <4>1, ValidReplaced
      <4> QED BY <4>2 DEF new
    <3> QED BY <2>0, <3>1, <3>3
  <2>6. CASE CommitStage(w)
    <3>1. /\ OnlyRun(r) /\ OnlyTask(w) /\ worker[w].pc = "commit"
          /\ worker'[w] = IF worker[w].verdict = "RUNNING"
                          THEN [pc |-> "loop", run |-> r, len |-> n, sid |-> NoSid]
                          ELSE [pc |-> "leaving", run |-> r]
          /\ \/ /\ store'[r] \in CampaignRun /\ Len(store'[r].results) = n
                /\ \A k \in 1..(n - 1) : store'[r].results[k] = store[r].results[k]
                /\ store'[r].status = worker[w].verdict
                /\ store'[r].results[n].stage = worker[w].len
                /\ store'[r].results[n].status = worker[w].result
             \/ store'[r] = NoRun /\ worker[w].verdict \in Finished
      BY <2>3, <2>6, LastStep DEF r, Leave, StopAtIntent, CommitStage
    <3>0. /\ worker[w].verdict = "RUNNING" =>
                worker'[w] = [pc |-> "loop", run |-> r, len |-> n, sid |-> NoSid]
          /\ worker[w].verdict # "RUNNING" => worker'[w] = [pc |-> "leaving", run |-> r]
      BY <3>1
    <3>2. CASE store'[r] = NoRun
      <4>1. ~Present(store'[r]) /\ worker[w].verdict # "RUNNING"
        BY <3>1, <3>2 DEF Present, NoRun, Finished, CampaignRun, Statuses
      <4>2. worker'[w] = [pc |-> "leaving", run |-> r]
        BY <3>0, <4>1
      <4> QED BY <2>0, <3>1, <4>1, <4>2
    <3>3. CASE store'[r] # NoRun
      <4>1. /\ store'[r] \in CampaignRun /\ Len(store'[r].results) = n
            /\ \A k \in 1..(n - 1) : store'[r].results[k] = store[r].results[k]
            /\ store'[r].status = worker[w].verdict
            /\ store'[r].results[n].stage = n
            /\ store'[r].results[n].status = worker[w].result
        BY <2>3, <3>1, <3>3
      <4>2. /\ worker[w].verdict \in {"RUNNING", "COMPLETED"} => worker[w].result = "COMPLETED"
            /\ worker[w].verdict = "COMPLETED" => n = Steps
        BY <2>3, <3>1 DEF StageOf
      <4>3. /\ Validate(store'[r])
            /\ store'[r].results[n].status = "COMPLETED" =>
                  \A k \in 1..n : store'[r].results[k].status = "COMPLETED"
        <5>1. store'[r].status = "COMPLETED" => n = Steps /\ store'[r].results[n].status = "COMPLETED"
          BY <4>1, <4>2
        <5> QED BY <2>2, <2>3, <4>1, <5>1, ValidReplaced
      <4>4. worker'[w].run = r
        BY <3>0
      <4>5. CASE worker[w].verdict = "RUNNING"
        <5>1. worker'[w] = [pc |-> "loop", run |-> r, len |-> n, sid |-> NoSid]
          BY <3>0, <4>5
        <5>2. \A k \in 1..n : store'[r].results[k].status = "COMPLETED"
          BY <4>1, <4>2, <4>3, <4>5
        <5>3. StageOf(store'[r], worker'[w])
          <6>1. worker'[w].pc = "loop" /\ Len(store'[r].results) = n
            <7>1. worker'[w].pc = "loop"
              BY <5>1
            <7> QED BY <4>1, <7>1
          <6> QED BY <5>2, <6>1 DEF StageOf
        <5> QED BY <2>0, <3>1, <4>3, <4>4, <5>3
      <4>6. CASE worker[w].verdict # "RUNNING"
        <5>1. worker'[w].pc = "leaving"
          BY <3>0, <4>6
        <5> QED BY <2>0, <3>1, <4>3, <4>4, <5>1
      <4> QED BY <4>5, <4>6
    <3> QED BY <3>2, <3>3
  <2> QED BY <1>12, <2>5, <2>6
<1>13. ASSUME NEW w \in Workers, Moves(w) PROVE SnapshotLoads' /\ StageInv'
  <2> DEFINE r == worker[w].run
  <2>1. /\ OnlyTask(w) /\ r \in Runs
        /\ worker[w].pc \in {"recheck", "start", "admitted", "stop", "await", "settle"}
        /\ worker'[w].pc \in {"start", "admitted", "stop", "await", "settle", "commit"}
        /\ worker'[w].run = r /\ worker'[w].len = worker[w].len
        /\ worker'[w].sid = worker[w].sid
        /\ store' = store
        /\ worker'[w].pc = "commit" => Settle(w)
    BY <1>13, MoveStep DEF Moves
  <2>2. Settle(w) => /\ worker'[w].verdict \in {"RUNNING", "COMPLETED"}
                            => worker'[w].result = "COMPLETED"
                     /\ worker'[w].verdict = "COMPLETED" => worker'[w].len = Steps
    BY DEF Settle, Verdict, TypeOK, Pending
  <2>3. OnlyRun(r) /\ (Present(store'[r]) => Validate(store'[r]))
    BY <1>0, <2>1 DEF OnlyRun, Kept
  <2>4. StageOf(store[r], worker[w])
    BY <1>0, <2>1 DEF InExecute
  <2>5. StageOf(store'[r], worker'[w])
    BY <2>1, <2>2, <2>4 DEF StageOf
  <2> QED BY <1>1, <2>1, <2>3, <2>5
<1> QED BY <1>3, <1>4, <1>5, <1>6, <1>7, <1>8, <1>9, <1>10, <1>11, <1>12, <1>13, NextSteps

\* The core of the invariant holds in every reachable state.
LEMMA CoreCorrect == Spec => [](TypeOK /\ PhaseInv /\ Core)
<1>1. Init => Core
  BY DEF Init, Core, Registered, SoleExecutor, SnapshotLoads, StageInv, Busy, InExecute, Idle,
         Present, NoRun
<1>2. TypeOK /\ Core /\ [Next]_vars => Core'
  BY RegisteredStep, StageStep DEF Core
<1> QED BY <1>1, <1>2, TypeCorrect, PTL DEF Spec

\* One worker executes a run, the one that a cancel request finds; a second
\* resume and a worker that lags behind never share it (launch, execute).
THEOREM SoleCorrect == Spec => []SoleExecutor
<1>1. Core => SoleExecutor
  BY DEF Core
<1> QED BY <1>1, CoreCorrect, PTL

\* Whenever the process dies, what it leaves passes validate(), and the control
\* plane starts again.
THEOREM SnapshotCorrect == Spec => []SnapshotLoads
<1>1. Core => SnapshotLoads
  BY DEF Core
<1> QED BY <1>1, CoreCorrect, PTL

-----------------------------------------------------------------------------
(* A run that is under way has a worker *)

\* A run stays under way only while its worker executes it, or after a failed
\* write.
LEMMA OrphanStep ==
    ASSUME TypeOK, Core, OrphanInv, [Next]_vars
    PROVE  OrphanInv'
<1>1. ASSUME NEW w \in Workers, NEW r \in Runs, r = worker[w].run, OnlyRun(r), OnlyTask(w),
             faulted \subseteq faulted',
             store'[r].status \in Pending =>
                r \in faulted' \/ (InExecute(w)' /\ worker'[w].run = r)
      PROVE  OrphanInv'
  <2>1. SUFFICES ASSUME NEW q \in Runs, store'[q].status \in Pending
                 PROVE  q \in faulted' \/ \E v \in Workers : InExecute(v)' /\ worker'[v].run = q
    BY DEF OrphanInv
  <2>2. CASE q = r
    BY <1>1, <2>1, <2>2
  <2>3. CASE q # r
    <3>1. store'[q] = store[q]
      BY <1>1, <2>1, <2>3 DEF OnlyRun, Kept, NoRun, Pending
    <3>2. q \in faulted \/ \E v \in Workers : InExecute(v) /\ worker[v].run = q
      BY <2>1, <3>1 DEF OrphanInv
    <3>3. \A v \in Workers : worker[v].run = q => worker'[v] = worker[v]
      BY <1>1, <2>3 DEF OnlyTask
    <3> QED BY <1>1, <3>2, <3>3 DEF InExecute
  <2> QED BY <2>2, <2>3
<1>2. ASSUME UNCHANGED <<store, faulted>>,
             \A w \in Workers : InExecute(w) => worker'[w] = worker[w]
      PROVE  OrphanInv'
  BY <1>2 DEF OrphanInv, InExecute
<1>3. CASE Crash
  BY <1>3, CrashStep DEF OrphanInv
<1>4. CASE Outside
  BY <1>2, <1>4, OutsideStep
<1>5. ASSUME NEW w \in Workers, NEW r \in Runs, RunCampaign(w, r) \/ ResumeCampaignRun(w, r)
      PROVE  OrphanInv'
  <2>1. UNCHANGED <<store, faulted>> /\ OnlyTask(w) /\ ~InExecute(w)
    BY <1>5 DEF RunCampaign, ResumeCampaignRun, Spawn, Busy, InExecute, OnlyTask, TypeOK
  <2> QED BY <1>2, <2>1 DEF OnlyTask
<1>6. ASSUME NEW w \in Workers, Admit(w), worker[w].pc = "new" PROVE OrphanInv'
  <2> DEFINE r == worker[w].run
  <2>1. /\ r \in Runs /\ OnlyRun(r) /\ OnlyTask(w)
        /\ worker'[w] = [pc |-> "loop", run |-> r, len |-> 0, sid |-> NoSid]
        /\ UNCHANGED faulted
    BY <1>6, AdmitNewStep
  <2> QED BY <1>1, <2>1 DEF InExecute
<1>7. ASSUME NEW w \in Workers, Admit(w), worker[w].pc = "resume" PROVE OrphanInv'
  <2> DEFINE r == worker[w].run
  <2>1. r \in Runs /\ Present(store[r])
    BY <1>7, TaskKinds DEF Admit, TypeOK
  <2>2. \A k \in 1..(Len(store[r].results) - 1) : store[r].results[k].status = "COMPLETED"
    BY <2>1, PresentTyped, ValidRun DEF Core, SnapshotLoads, Present, TypeOK, Store
  <2>3. /\ OnlyRun(r) /\ OnlyTask(w)
        /\ worker'[w] = [pc |-> "loop", run |-> r, len |-> Len(store'[r].results), sid |-> NoSid]
        /\ UNCHANGED faulted
    BY <1>7, <2>2, AdmitResumeStep
  <2> QED BY <1>1, <2>1, <2>3 DEF InExecute
<1>8. ASSUME NEW w \in Workers, AdmitFails(w) \/ UpdateFails(w) PROVE OrphanInv'
  <2>1. /\ OnlyTask(w) /\ worker[w].run \in Runs /\ UNCHANGED store
        /\ InExecute(w) => worker[w].run \in faulted'
        /\ faulted \subseteq faulted'
    BY <1>8, LeaveStep
  <2>2. CASE InExecute(w)
    BY <1>1, <2>1, <2>2 DEF OnlyRun, Kept
  <2>3. CASE ~InExecute(w)
    BY <2>1, <2>3 DEF OrphanInv, OnlyTask, InExecute
  <2> QED BY <2>2, <2>3
<1>9. ASSUME NEW w \in Workers, Unregister(w) PROVE OrphanInv'
  <2>1. UNCHANGED <<store, faulted>> /\ OnlyTask(w) /\ ~InExecute(w)
    BY <1>9 DEF Unregister, InExecute, OnlyTask, TypeOK
  <2> QED BY <1>2, <2>1 DEF OnlyTask
<1>10. ASSUME NEW w \in Workers, BeginStage(w) PROVE OrphanInv'
  <2> DEFINE r == worker[w].run
  <2>1. /\ r \in Runs /\ OnlyRun(r) /\ OnlyTask(w)
        /\ worker'[w] = [pc |-> "recheck", run |-> r, len |-> Len(store[r].results) + 1,
                         sid |-> nextSid]
        /\ UNCHANGED faulted
    BY <1>10, BeginStageStep
  <2> QED BY <1>1, <2>1 DEF InExecute
<1>11. ASSUME NEW w \in Workers, StopBeforeStage(w) \/ NothingLeft(w) PROVE OrphanInv'
  <2> DEFINE r == worker[w].run
  <2>1. /\ r \in Runs /\ OnlyRun(r) /\ OnlyTask(w) /\ UNCHANGED faulted
        /\ store'[r].status \in {"CANCELLED", "COMPLETED"} \/ store'[r] = NoRun
    BY <1>11, StatusStep
  <2> QED BY <1>1, <2>1 DEF Pending, NoRun
<1>12. ASSUME NEW w \in Workers, StopAtIntent(w) PROVE OrphanInv'
  <2> DEFINE r == worker[w].run
  <2>1. Len(store[r].results) > 0
    BY <1>12 DEF Core, StageInv, StageOf, InExecute, StopAtIntent
  <2>2. /\ r \in Runs /\ OnlyRun(r) /\ OnlyTask(w) /\ UNCHANGED faulted
        /\ store'[r].status = "CANCELLED"
    BY <1>12, <2>1, LastStep DEF StopAtIntent, CommitStage
  <2> QED BY <1>1, <2>2 DEF Pending
<1>13. ASSUME NEW w \in Workers, CommitStage(w) PROVE OrphanInv'
  <2> DEFINE r == worker[w].run
             n == Len(store[r].results)
  <2>1. n > 0 /\ worker[w].pc = "commit"
    BY <1>13 DEF Core, StageInv, StageOf, InExecute, CommitStage
  <2>2. /\ r \in Runs /\ OnlyRun(r) /\ OnlyTask(w) /\ UNCHANGED faulted
        /\ store'[r].status = worker[w].verdict \/ store'[r] = NoRun
        /\ worker'[w] = IF worker[w].verdict = "RUNNING"
                        THEN [pc |-> "loop", run |-> r, len |-> n, sid |-> NoSid]
                        ELSE Leave(w)
    BY <1>13, <2>1, LastStep DEF StopAtIntent, CommitStage
  <2>3. worker[w].verdict # "QUEUED"
    BY <2>1, TaskKinds DEF TypeOK, Committing
  <2> QED BY <1>1, <2>2, <2>3 DEF Pending, NoRun, InExecute
<1>14. ASSUME NEW w \in Workers, Moves(w) PROVE OrphanInv'
  <2>1. /\ OnlyTask(w) /\ UNCHANGED <<store, faulted>> /\ worker[w].run \in Runs
        /\ worker'[w].pc \in {"start", "admitted", "stop", "await", "settle", "commit"}
        /\ worker'[w].run = worker[w].run
    BY <1>14, MoveStep DEF Moves
  <2> QED BY <1>1, <2>1 DEF InExecute, OnlyRun, Kept
<1> QED BY <1>3, <1>4, <1>5, <1>6, <1>7, <1>8, <1>9, <1>10, <1>11, <1>12, <1>13, <1>14, NextSteps

\* A run whose status says that it is under way has a registered worker, unless
\* a write of its progress failed since the process started (update, execute).
THEOREM OrphanCorrect == Spec => []OrphanOnlyAfterFailure
<1>1. Init => OrphanInv
  BY DEF Init, OrphanInv, NoRun, Pending
<1>2. TypeOK /\ Core /\ OrphanInv /\ [Next]_vars => OrphanInv'
  BY OrphanStep
<1>3. Core /\ OrphanInv => OrphanOnlyAfterFailure
  BY WorkersAssumption DEF OrphanInv, Core, SoleExecutor, OrphanOnlyAfterFailure
<1> QED BY <1>1, <1>2, <1>3, CoreCorrect, PTL DEF Spec

-----------------------------------------------------------------------------
(* The campaign and the audit account for each other *)

\* A record of the audit stays, and stays as it is once it is terminal.
AuditGrows ==
    \A s \in Sids : audit[s] # NoAudit =>
        /\ audit'[s] # NoAudit
        /\ audit'[s].run = audit[s].run /\ audit'[s].stage = audit[s].stage
        /\ IsTerminal(audit[s]) => audit'[s] = audit[s]

\* Starting a stage admits its own scenario run and touches no other record.
LEMMA StageStartsStep ==
    ASSUME TypeOK, NEW w \in Workers, StageStarts(w)
    PROVE  LET s == worker[w].sid
           IN  /\ s \in Sids /\ worker[w].pc = "start" /\ worker[w].run \in Runs
               /\ audit'[s] # NoAudit /\ audit'[s].status = "QUEUED"
               /\ audit'[s].run = worker[w].run /\ audit'[s].stage = worker[w].len
               /\ \A t \in Sids \ {s} : audit'[t] = audit[t]
               /\ OnlyTask(w) /\ worker'[w].pc = "admitted"
               /\ UNCHANGED <<store, idVars>>
<1>1. worker[w] \in Executing
  BY TaskKinds DEF TypeOK, StageStarts
<1>2. worker[w].sid \in Sids /\ worker[w].run \in Runs
  BY <1>1 DEF Executing
<1>3. PICK mode \in Modes :
         audit' = [audit EXCEPT ![worker[w].sid] =
                     [status |-> "QUEUED", mode |-> mode, cleanup |-> "PENDING",
                      run |-> worker[w].run, stage |-> worker[w].len]]
  BY DEF StageStarts
<1>4. OnlyTask(w) /\ worker'[w] = [worker[w] EXCEPT !.pc = "admitted"]
  BY DEF StageStarts, TypeOK, OnlyTask
<1>5. worker'[w].pc = "admitted"
  BY <1>1, <1>4, PcChange
<1> QED BY <1>2, <1>3, <1>4, <1>5 DEF StageStarts, TypeOK, NoAudit

\* What a step may do to an audit record.
LEMMA AuditStep ==
    ASSUME TypeOK, PhaseInv, [Next]_vars
    PROVE  \/ AuditGrows /\ \A s \in Sids : audit[s] = NoAudit => audit'[s] = NoAudit
           \/ \E w \in Workers : StageStarts(w)
<1>1. CASE Crash
  BY <1>1 DEF Crash, RecoverIncomplete, AuditGrows, IsTerminal, NoAudit, TypeOK, AuditRecord
<1>2. ASSUME NEW s \in Sids, ScenarioEnds(s)
      PROVE  AuditGrows /\ \A t \in Sids : audit[t] = NoAudit => audit'[t] = NoAudit
  <2>1. PICK a \in Outcomes(s) : audit' = [audit EXCEPT ![s] = a]
    BY <1>2 DEF ScenarioEnds
  <2>2. audit[s] # NoAudit /\ audit[s].status = "QUEUED"
    BY <1>2 DEF PhaseInv, ScenarioEnds
  <2>3. a # NoAudit /\ a.run = audit[s].run /\ a.stage = audit[s].stage
    BY <2>1 DEF Outcomes, NoAudit
  <2>4. audit'[s] = a /\ \A t \in Sids \ {s} : audit'[t] = audit[t]
    BY <2>1 DEF TypeOK
  <2> QED BY <2>2, <2>3, <2>4 DEF AuditGrows, IsTerminal
<1>3. CASE UNCHANGED audit
  BY <1>3 DEF AuditGrows
<1>4. \/ Crash \/ (\E s \in Sids : ScenarioEnds(s)) \/ UNCHANGED audit
      \/ \E w \in Workers : StageStarts(w)
  BY DEF Next, vars, RunCampaign, ResumeCampaignRun, WorkerStep, Admit, AdmitFails, Unregister,
         UpdateFails, StopBeforeStage, BeginStage, StopAtIntent, Recheck, StageRefused, SetCurrent,
         StopStage, StageEnds, Settle, CommitStage, NothingLeft, ScenarioAdmitted,
         ScenarioUnrecorded, CancelRun, AbortAll, CancelStep, CancelCampaignRun, AbortCampaigns,
         CancelLookup, CancelControl, CancelStage, scenVars, Locals, Others, Quiet
<1> QED BY <1>1, <1>2, <1>3, <1>4

\* How a task comes where the ids matter.
LEMMA TaskStep ==
    ASSUME TypeOK, [Next]_vars, NEW w \in Workers
    PROVE  /\ worker'[w].pc \in {"recheck", "start"} =>
                 \/ BeginStage(w)
                 \/ /\ worker[w].pc \in {"recheck", "start"}
                    /\ worker'[w].run = worker[w].run /\ worker'[w].len = worker[w].len
                    /\ worker'[w].sid = worker[w].sid
           /\ worker'[w].pc = "commit" => worker'[w] = worker[w] \/ Settle(w)
           /\ worker'[w].pc = "new" =>
                 worker'[w] = worker[w] \/ \E r \in Runs : RunCampaign(w, r)
<1>1. CASE worker'[w] = worker[w]
  BY <1>1
<1>2. CASE worker'[w] # worker[w]
  <2>0. \A v \in Workers : OnlyTask(v) => v = w
    BY <1>2 DEF OnlyTask
  <2>1. CASE Crash
    BY <2>1, CrashStep DEF Idle
  <2>2. CASE Outside
    BY <1>2, <2>2, OutsideStep
  <2>3. ASSUME NEW v \in Workers, NEW r \in Runs, RunCampaign(v, r) \/ ResumeCampaignRun(v, r)
        PROVE  v = w /\ (worker'[w].pc = "resume" \/ (RunCampaign(w, r) /\ worker'[w].pc = "new"))
    <3>1. /\ OnlyTask(v)
          /\ worker'[v].pc = "resume" \/ (RunCampaign(v, r) /\ worker'[v].pc = "new")
      BY <2>3 DEF RunCampaign, ResumeCampaignRun, Spawn, OnlyTask, TypeOK
    <3> QED BY <2>0, <3>1
  <2>4. ASSUME NEW v \in Workers, Admit(v) PROVE v = w /\ worker'[w].pc = "loop"
    BY <2>0, <2>4 DEF Admit, OnlyTask, TypeOK
  <2>5. ASSUME NEW v \in Workers, \/ AdmitFails(v) \/ UpdateFails(v) \/ Unregister(v)
                                  \/ StopBeforeStage(v) \/ NothingLeft(v) \/ StopAtIntent(v)
        PROVE  v = w /\ worker'[w].pc \in {"leaving", "idle"}
    BY <2>0, <2>5 DEF AdmitFails, UpdateFails, Unregister, StopBeforeStage, NothingLeft, StopAtIntent,
                      OnlyTask, TypeOK, Leave, Idle
  <2>6. ASSUME NEW v \in Workers, CommitStage(v) PROVE v = w /\ worker'[w].pc \in {"loop", "leaving"}
    BY <2>0, <2>6 DEF CommitStage, OnlyTask, TypeOK, Leave
  <2>7. ASSUME NEW v \in Workers, BeginStage(v) PROVE v = w /\ worker'[w].pc = "recheck"
    BY <2>0, <2>7 DEF BeginStage, OnlyTask, TypeOK
  <2>8. ASSUME NEW v \in Workers, Moves(v)
        PROVE  /\ v = w
               /\ worker'[w].pc \in {"start", "admitted", "stop", "await", "settle", "commit"}
               /\ worker'[w].run = worker[w].run /\ worker'[w].len = worker[w].len
               /\ worker'[w].sid = worker[w].sid
               /\ worker'[w].pc = "start" => worker[w].pc = "recheck"
               /\ worker'[w].pc = "commit" => Settle(w)
    BY <2>0, <2>8, MoveStep DEF Moves
  <2> QED BY <2>1, <2>2, <2>3, <2>4, <2>5, <2>6, <2>7, <2>8, NextSteps
<1> QED BY <1>1, <1>2

\* What a stored run knows of scenario runs: Held(run, s) if s is one of its
\* results or superseded attempts.
Held(run, s) ==
    \/ \E k \in 1..Len(run.results) : run.results[k].sid = s
    \/ \E result \in run.superseded : result.sid = s

\* No result gets another id, no audited attempt is forgotten, and a result
\* becomes completed only with evidence.
SidsKept(old, new) ==
    \A k \in 1..Len(new.results) :
        \/ new.results[k].sid = NoSid
        \/ k \in 1..Len(old.results) /\ new.results[k].sid = old.results[k].sid

DoneFrom(old, new) ==
    \A k \in 1..Len(new.results) : new.results[k].status = "COMPLETED" =>
        /\ k \in 1..Len(old.results)
        /\ new.results[k].sid = old.results[k].sid
        /\ \/ old.results[k].status = "COMPLETED"
           \/ old.results[k].sid # NoSid /\ audit[old.results[k].sid].status = "COMPLETED"

HeldFrom(old, new) == \A s \in Sids : audit[s] # NoAudit /\ Held(old, s) => Held(new, s)

Evolves(old, new) == SidsKept(old, new) /\ DoneFrom(old, new) /\ HeldFrom(old, new)

\* How the results of a run may change: not at all,
LEMMA EvolvesSame ==
    ASSUME NEW old \in CampaignRun, NEW new,
           new.results = old.results, new.superseded = old.superseded
    PROVE  Evolves(old, new)
BY DEF Evolves, SidsKept, DoneFrom, HeldFrom, Held

\* by the recovery of a restart,
LEMMA EvolvesInterrupted ==
    ASSUME NEW old \in CampaignRun
    PROVE  Evolves(old, Interrupted(old))
<1> DEFINE new == Interrupted(old)
<1>1. /\ new.superseded = old.superseded
      /\ Len(new.results) = Len(old.results)
      /\ \A k \in 1..Len(old.results) :
            /\ new.results[k].sid = old.results[k].sid
            /\ new.results[k].status = "COMPLETED" => old.results[k].status = "COMPLETED"
  BY InterruptedRun
<1> HIDE DEF new
<1>2. Evolves(old, new)
  BY <1>1 DEF Evolves, SidsKept, DoneFrom, HeldFrom, Held
<1> QED BY <1>2 DEF new

\* A step of a worker that stores its run, with the intent it stores last.
LEMMA EvolvesLast ==
    ASSUME NEW old \in CampaignRun, NEW new, NEW n \in Nat, n > 0,
           Len(old.results) = n, Len(new.results) = n, new.superseded = old.superseded,
           \A k \in 1..(n - 1) : new.results[k] = old.results[k],
           \/ /\ new.results[n].sid = NoSid /\ new.results[n].status # "COMPLETED"
              /\ old.results[n].sid \in Sids => audit[old.results[n].sid] = NoAudit
           \/ /\ new.results[n].sid = old.results[n].sid /\ old.results[n].sid # NoSid
              /\ new.results[n].status = "COMPLETED" =>
                    audit[old.results[n].sid].status = "COMPLETED"
    PROVE  Evolves(old, new)
<1>1. (\A k \in 1..n : k = n \/ k \in 1..(n - 1)) /\ n \in 1..n
  OBVIOUS
<1>2. SidsKept(old, new)
  BY <1>1 DEF SidsKept
<1>3. DoneFrom(old, new)
  BY <1>1 DEF DoneFrom
<1>4. ASSUME NEW s \in Sids, audit[s] # NoAudit, Held(old, s) PROVE Held(new, s)
  <2>1. CASE \E result \in old.superseded : result.sid = s
    BY <2>1 DEF Held
  <2>2. ASSUME NEW k \in 1..n, old.results[k].sid = s PROVE Held(new, s)
    <3>1. new.results[k].sid = s
      BY <1>1, <1>4, <2>2
    <3> QED BY <2>2, <3>1 DEF Held
  <2> QED BY <1>4, <2>1, <2>2 DEF Held
<1> QED BY <1>2, <1>3, <1>4 DEF Evolves, HeldFrom

\* or by a resume, which keeps the attempt it replaces.
LEMMA EvolvesResumed ==
    ASSUME NEW old \in CampaignRun, NEW new \in CampaignRun, NEW n \in Nat,
           Len(new.results) = n, n <= Len(old.results),
           \A k \in 1..n :
              /\ new.results[k].sid = old.results[k].sid
              /\ \/ old.results[k].status = "COMPLETED"
                 \/ /\ old.results[k].sid # NoSid
                    /\ audit[old.results[k].sid].status = "COMPLETED",
           \/ n = Len(old.results) /\ new.superseded = old.superseded
           \/ /\ n = Len(old.results) - 1
              /\ new.superseded = old.superseded \cup {Last(old)}
    PROVE  Evolves(old, new)
<1>1. Len(old.results) \in Nat /\ \A k \in 1..n : k \in 1..Len(old.results)
  BY ResultsTyped
<1>2. SidsKept(old, new) /\ DoneFrom(old, new)
  BY <1>1 DEF SidsKept, DoneFrom
<1>3. ASSUME NEW s \in Sids, Held(old, s) PROVE Held(new, s)
  <2>1. CASE \E result \in old.superseded : result.sid = s
    BY <2>1 DEF Held
  <2>2. ASSUME NEW k \in 1..Len(old.results), old.results[k].sid = s PROVE Held(new, s)
    <3>1. CASE k \in 1..n
      BY <2>2, <3>1 DEF Held
    <3>2. CASE k \notin 1..n
      <4>1. k = Len(old.results) /\ Last(old) \in new.superseded
        BY <1>1, <2>2, <3>2
      <4> QED BY <2>2, <4>1 DEF Held, Last
    <3> QED BY <3>1, <3>2
  <2> QED BY <1>3, <2>1, <2>2 DEF Held
<1> QED BY <1>2, <1>3 DEF Evolves, HeldFrom

\* A stored run evolves in every step, unless it is new or begins a stage.
LEMMA EvolveStep ==
    ASSUME TypeOK, Core, SidInv, [Next]_vars, NEW q \in Runs, Present(store'[q])
    PROVE  \/ Present(store[q]) /\ Evolves(store[q], store'[q])
           \/ \E w \in Workers : Admit(w) /\ worker[w].pc = "new" /\ worker[w].run = q
           \/ \E w \in Workers : BeginStage(w) /\ worker[w].run = q
<1> DEFINE Goal == Present(store[q]) /\ Evolves(store[q], store'[q])
<1>0. Present(store[q]) => store[q] \in CampaignRun
  BY PresentTyped DEF Present, TypeOK, Store
<1>1. store'[q] = store[q] => Goal
  BY <1>0, EvolvesSame
<1>2. ASSUME NEW r \in Runs, r # q, OnlyRun(r) PROVE Goal
  <2>1. store'[q] = store[q]
    BY <1>2 DEF OnlyRun, Kept, Present, NoRun
  <2> QED BY <1>1, <2>1
<1>3. CASE Crash
  <2>1. Present(store[q]) /\ store[q] \in CampaignRun /\ store'[q] = Interrupted(store[q])
    BY <1>0, <1>3, CrashStep DEF Present, NoRun
  <2> QED BY <2>1, EvolvesInterrupted
<1>4. CASE UNCHANGED store
  BY <1>1, <1>4
<1>5. \A w \in Workers, r \in Runs : RunCampaign(w, r) \/ ResumeCampaignRun(w, r) => UNCHANGED store
  BY DEF RunCampaign, ResumeCampaignRun
<1>6. \A w \in Workers : AdmitFails(w) \/ UpdateFails(w) \/ Unregister(w) \/ Moves(w)
                            => UNCHANGED store
  BY LeaveStep, MoveStep DEF Moves, Unregister
<1>7. ASSUME NEW w \in Workers, Admit(w), worker[w].pc = "new", worker[w].run # q PROVE Goal
  <2>1. worker[w].run \in Runs /\ OnlyRun(worker[w].run)
    BY <1>7, AdmitNewStep
  <2> QED BY <1>2, <1>7, <2>1
<1>8. ASSUME NEW w \in Workers, BeginStage(w), worker[w].run # q PROVE Goal
  <2>1. worker[w].run \in Runs /\ OnlyRun(worker[w].run)
    BY <1>8, BeginStageStep
  <2> QED BY <1>2, <1>8, <2>1
<1>9. ASSUME NEW w \in Workers, Admit(w), worker[w].pc = "resume" PROVE Goal
  <2> DEFINE r == worker[w].run
             n == Len(store'[r].results)
  <2>1. r \in Runs /\ Present(store[r])
    BY <1>9, TaskKinds DEF Admit, TypeOK
  <2>2. \A k \in 1..(Len(store[r].results) - 1) : store[r].results[k].status = "COMPLETED"
    BY <2>1, PresentTyped, ValidRun DEF Core, SnapshotLoads, Present, TypeOK, Store
  <2>3. /\ OnlyRun(r) /\ store[r] \in CampaignRun /\ store'[r] \in CampaignRun
        /\ n <= Len(store[r].results)
        /\ \A k \in 1..n :
              /\ store'[r].results[k].sid = store[r].results[k].sid
              /\ \/ store[r].results[k].status = "COMPLETED"
                 \/ /\ store[r].results[k].sid # NoSid
                    /\ audit[store[r].results[k].sid].status = "COMPLETED"
        /\ \/ n = Len(store[r].results) /\ store'[r].superseded = store[r].superseded
           \/ /\ n = Len(store[r].results) - 1
              /\ store'[r].superseded = store[r].superseded \cup {Last(store[r])}
    BY <1>9, <2>2, AdmitResumeStep
  <2>4. n \in Nat
    BY <2>3, ResultsTyped
  <2>5. Evolves(store[r], store'[r])
    <3> HIDE DEF r
    <3> QED BY <2>3, <2>4, EvolvesResumed
  <2> QED BY <1>2, <2>1, <2>3, <2>5
<1>10. ASSUME NEW w \in Workers, StopBeforeStage(w) \/ NothingLeft(w) PROVE Goal
  <2> DEFINE r == worker[w].run
  <2>1. /\ r \in Runs /\ OnlyRun(r) /\ store[r] \in CampaignRun
        /\ \/ /\ store'[r].results = store[r].results
              /\ store'[r].superseded = store[r].superseded
           \/ store'[r] = NoRun
    BY <1>10, StatusStep
  <2>2. Present(store[r])
    BY <2>1 DEF CampaignRun, Statuses, Present
  <2>3. CASE r = q
    BY <2>1, <2>2, <2>3, EvolvesSame DEF Present, NoRun
  <2> QED BY <1>2, <2>1, <2>3
<1>11. ASSUME NEW w \in Workers, StopAtIntent(w) \/ CommitStage(w) PROVE Goal
  <2> DEFINE r == worker[w].run
             n == Len(store[r].results)
  <2>1. InExecute(w) /\ worker[w].pc \in {"recheck", "commit"}
    BY <1>11 DEF InExecute, StopAtIntent, CommitStage
  <2>2. n > 0 /\ Last(store[r]).sid = worker[w].sid
    BY <2>1 DEF Core, StageInv, StageOf
  <2>3. /\ r \in Runs /\ OnlyRun(r) /\ store[r] \in CampaignRun
        /\ Present(store'[r]) =>
              /\ store'[r].superseded = store[r].superseded
              /\ Len(store'[r].results) = n
              /\ \A k \in 1..(n - 1) : store'[r].results[k] = store[r].results[k]
              /\ \/ /\ worker[w].pc = "recheck"
                    /\ store'[r].results[n].sid = NoSid
                    /\ store'[r].results[n].status = "CANCELLED"
                 \/ /\ worker[w].pc = "commit"
                    /\ store'[r].results[n].sid = worker[w].sid
                    /\ store'[r].results[n].status = worker[w].result
    <3>1. CASE StopAtIntent(w)
      BY <2>2, <3>1, LastStep DEF StopAtIntent, CommitStage
    <3>2. CASE CommitStage(w)
      <4>1. /\ r \in Runs /\ OnlyRun(r) /\ store[r] \in CampaignRun
            /\ worker[w].pc = "commit"
            /\ \/ /\ store'[r].superseded = store[r].superseded
                  /\ Len(store'[r].results) = n
                  /\ \A k \in 1..(n - 1) : store'[r].results[k] = store[r].results[k]
                  /\ store'[r].results[n].sid = worker[w].sid
                  /\ store'[r].results[n].status = worker[w].result
               \/ store'[r] = NoRun
        BY <2>2, <3>2, LastStep DEF StopAtIntent, CommitStage
      <4>2. ~Present(NoRun)
        BY DEF Present, NoRun
      <4> HIDE DEF n, r
      <4>3. Present(store'[r]) => store'[r] # NoRun
        BY <4>2
      <4> QED BY <4>1, <4>3
    <3> QED BY <1>11, <3>1, <3>2
  <2>4. n \in Nat /\ Present(store[r]) /\ worker[w].sid \in Sids /\ worker[w].sid # NoSid
    <3>1. n \in Nat
      BY <2>3, ResultsTyped
    <3>2. Present(store[r])
      BY <2>3, PresentTyped DEF CampaignRun, Statuses, Present
    <3>3. worker[w] \in Executing \/ worker[w] \in Committing
      BY <2>1, TaskKinds DEF TypeOK
    <3>4. worker[w].sid \in Sids /\ NoSid \notin Sids
      BY <3>3 DEF Executing, Committing, Sids, NoSid
    <3> QED BY <3>1, <3>2, <3>4
  <2>5. store[r].results[n].sid = worker[w].sid
    BY <2>2 DEF Last
  <2>6. /\ worker[w].pc = "recheck" => audit[worker[w].sid] = NoAudit
        /\ worker[w].pc = "commit" /\ worker[w].result = "COMPLETED" =>
              audit[worker[w].sid].status = "COMPLETED"
    BY DEF SidInv, IntentFresh, ResultEvidenced
  <2>7. CASE r = q
    <3> DEFINE old == store[r]
               new == store'[r]
    <3>1. /\ old \in CampaignRun /\ n \in Nat /\ n > 0
          /\ Len(old.results) = n /\ Len(new.results) = n /\ new.superseded = old.superseded
          /\ \A k \in 1..(n - 1) : new.results[k] = old.results[k]
          /\ \/ /\ new.results[n].sid = NoSid /\ new.results[n].status # "COMPLETED"
                /\ old.results[n].sid \in Sids => audit[old.results[n].sid] = NoAudit
             \/ /\ new.results[n].sid = old.results[n].sid /\ old.results[n].sid # NoSid
                /\ new.results[n].status = "COMPLETED" =>
                      audit[old.results[n].sid].status = "COMPLETED"
      BY <2>2, <2>3, <2>4, <2>5, <2>6, <2>7
    <3> HIDE DEF old, new, n
    <3>2. Evolves(old, new)
      BY <3>1, EvolvesLast
    <3> QED BY <2>4, <2>7, <3>2 DEF old, new
  <2> QED BY <1>2, <2>3, <2>7
<1>12. Outside => UNCHANGED store
  BY OutsideStep
<1> QED BY <1>3, <1>4, <1>5, <1>6, <1>7, <1>8, <1>9, <1>10, <1>11, <1>12, NextSteps

\* The intent of the stage that a task is starting is the last result of its run.
LEMMA StartingStep ==
    ASSUME TypeOK, Core, SidInv, NEW w \in Workers, worker[w].pc \in {"recheck", "start"}
    PROVE  LET run == store[worker[w].run]
           IN  /\ worker[w].run \in Runs /\ worker[w].run \in launched
               /\ worker[w].sid \in Sids /\ worker[w].sid # NoSid
               /\ Present(run) /\ run \in CampaignRun
               /\ Len(run.results) \in 1..Len(run.results)
               /\ run.results[Len(run.results)].sid = worker[w].sid
               /\ worker[w].len = Len(run.results)
               /\ worker[w].sid < nextSid
               /\ audit[worker[w].sid] = NoAudit
               /\ \A v \in Workers \ {w} : Busy(v) => worker[v].run # worker[w].run
               /\ \A v \in Workers \ {w} :
                     worker[v].pc \in {"recheck", "start"} => worker[v].sid # worker[w].sid
<1> DEFINE run == store[worker[w].run]
<1>1. InExecute(w) /\ Busy(w) /\ worker[w] \in Executing
  BY TaskKinds DEF InExecute, Busy, TypeOK
<1>2. worker[w].run \in Runs /\ worker[w].sid \in Sids /\ worker[w].sid # NoSid
  BY <1>1 DEF Executing, Sids, NoSid
<1>3. Present(run) /\ worker[w].len = Len(run.results)
  BY <1>1 DEF Core, SoleExecutor, Present, Pending
<1>4. run \in CampaignRun
  BY <1>2, <1>3, PresentTyped DEF Present, TypeOK, Store
<1>5. Len(run.results) \in 1..Len(run.results)
  BY <1>1, <1>4, ResultsTyped DEF Core, StageInv, StageOf
<1>6. run.results[Len(run.results)].sid = worker[w].sid
  BY <1>1 DEF Core, StageInv, StageOf, Last
<1>7. worker[w].sid < nextSid
  BY <1>2, <1>3, <1>5, <1>6 DEF SidInv, SidsLinked
<1>8. audit[worker[w].sid] = NoAudit
  BY DEF SidInv, IntentFresh
<1>9. \A v \in Workers \ {w} : Busy(v) => worker[v].run # worker[w].run
  BY <1>1 DEF Core, Registered
<1>10. ASSUME NEW v \in Workers \ {w}, worker[v].pc \in {"recheck", "start"}
       PROVE  worker[v].sid # worker[w].sid
  <2>1. worker[v].run # worker[w].run
    BY <1>9, <1>10 DEF Busy
  <2> QED BY <1>2, <1>3, <1>5, <1>6, <1>10, <2>1 DEF SidInv, IntentFresh
<1>11. worker[w].run \in launched
  BY <1>1 DEF Core, Registered
<1> QED BY <1>2, <1>3, <1>4, <1>5, <1>6, <1>7, <1>8, <1>9, <1>10, <1>11

\* The ids only grow.
LEMMA IdsGrow ==
    ASSUME TypeOK, [Next]_vars
    PROVE  /\ nextSid \in Nat /\ nextSid' \in Nat /\ nextSid <= nextSid'
           /\ launched \subseteq launched'
           /\ \A w \in Workers : BeginStage(w) => nextSid' = nextSid + 1
<1>1. nextSid \in Nat
  BY MaxSidsAssumption DEF TypeOK
<1>2. \/ UNCHANGED nextSid
      \/ nextSid' = nextSid + 1
  BY DEF Next, vars, Crash, RunCampaign, ResumeCampaignRun, WorkerStep, Admit, AdmitFails,
         Unregister, UpdateFails, StopBeforeStage, BeginStage, StopAtIntent, Recheck,
         StageRefused, StageStarts, SetCurrent, StopStage, StageEnds, Settle, CommitStage,
         NothingLeft, ScenarioAdmitted, ScenarioEnds, ScenarioUnrecorded, CancelRun, AbortAll,
         CancelStep, CancelCampaignRun, AbortCampaigns, CancelLookup, CancelControl, CancelStage,
         idVars, Others, Quiet
<1>3. UNCHANGED launched \/ \E r \in Runs : launched' = launched \cup {r}
  BY DEF Next, vars, Crash, RunCampaign, ResumeCampaignRun, WorkerStep, Admit, AdmitFails,
         Unregister, UpdateFails, StopBeforeStage, BeginStage, StopAtIntent, Recheck,
         StageRefused, StageStarts, SetCurrent, StopStage, StageEnds, Settle, CommitStage,
         NothingLeft, ScenarioAdmitted, ScenarioEnds, ScenarioUnrecorded, CancelRun, AbortAll,
         CancelStep, CancelCampaignRun, AbortCampaigns, CancelLookup, CancelControl, CancelStage,
         idVars, Others, Quiet
<1>4. \A w \in Workers : BeginStage(w) => nextSid' = nextSid + 1
  BY DEF BeginStage
<1> QED BY <1>1, <1>2, <1>3, <1>4

\* What any step does to the ids of a stored run.
LEMMA SidsStep ==
    ASSUME TypeOK, Core, SidInv, [Next]_vars, NEW r \in Runs, Present(store'[r]),
           NEW k \in 1..Len(store'[r].results)
    PROVE  LET sid == store'[r].results[k].sid
           IN  \/ sid = NoSid
               \/ /\ Present(store[r]) /\ k \in 1..Len(store[r].results)
                  /\ sid = store[r].results[k].sid
               \/ \E w \in Workers :
                     /\ BeginStage(w) /\ worker[w].run = r /\ sid = nextSid
                     /\ k = worker'[w].len /\ worker'[w].run = r /\ worker'[w].sid = sid
<1>1. CASE Present(store[r]) /\ Evolves(store[r], store'[r])
  BY <1>1 DEF Evolves, SidsKept
<1>2. ASSUME NEW w \in Workers, Admit(w), worker[w].pc = "new", worker[w].run = r
      PROVE  FALSE
  <2>1. Len(store'[r].results) = 0
    BY <1>2, AdmitNewStep
  <2> QED BY <2>1
<1>3. ASSUME NEW w \in Workers, BeginStage(w), worker[w].run = r
      PROVE  LET sid == store'[r].results[k].sid
             IN  \/ /\ Present(store[r]) /\ k \in 1..Len(store[r].results)
                    /\ sid = store[r].results[k].sid
                 \/ /\ sid = nextSid
                    /\ k = worker'[w].len /\ worker'[w].run = r /\ worker'[w].sid = sid
  <2> DEFINE n == Len(store[r].results)
  <2>1. /\ store[r] \in CampaignRun
        /\ Len(store'[r].results) = n + 1
        /\ \A i \in 1..n : store'[r].results[i] = store[r].results[i]
        /\ store'[r].results[n + 1] =
              [stage |-> worker[w].len + 1, sid |-> nextSid, status |-> "RUNNING"]
        /\ worker'[w] = [pc |-> "recheck", run |-> r, len |-> n + 1, sid |-> nextSid]
    BY <1>3, BeginStageStep
  <2>2. n \in Nat /\ Present(store[r])
    BY <2>1, ResultsTyped DEF CampaignRun, Statuses, Present
  <2>3. k = n + 1 \/ k \in 1..n
    BY <2>1, <2>2
  <2> QED BY <2>1, <2>2, <2>3
<1> QED BY <1>1, <1>2, <1>3, EvolveStep

\* An audited scenario run of the next state: it was audited before, or a stage
\* of its run starts.
LEMMA AuditedStep ==
    ASSUME TypeOK, PhaseInv, Core, SidInv, [Next]_vars
    PROVE  /\ AuditGrows
           /\ \A s \in Sids : audit'[s] # NoAudit =>
                 \/ audit[s] # NoAudit
                 \/ \E w \in Workers :
                       /\ StageStarts(w) /\ worker[w].sid = s
                       /\ audit'[s].run = worker[w].run /\ audit'[s].stage = worker[w].len
                       /\ audit'[s].status = "QUEUED"
<1>1. ASSUME NEW w \in Workers, StageStarts(w)
      PROVE  /\ AuditGrows
             /\ \A s \in Sids : audit'[s] # NoAudit =>
                   \/ audit[s] # NoAudit
                   \/ /\ worker[w].sid = s
                      /\ audit'[s].run = worker[w].run /\ audit'[s].stage = worker[w].len
                      /\ audit'[s].status = "QUEUED"
  <2>1. /\ worker[w].pc = "start" /\ \A t \in Sids \ {worker[w].sid} : audit'[t] = audit[t]
        /\ audit'[worker[w].sid].run = worker[w].run
        /\ audit'[worker[w].sid].stage = worker[w].len
        /\ audit'[worker[w].sid].status = "QUEUED"
    BY <1>1, StageStartsStep
  <2>2. audit[worker[w].sid] = NoAudit
    BY <2>1, StartingStep
  <2> QED BY <2>1, <2>2 DEF AuditGrows
<1> QED BY <1>1, AuditStep

\* Every step keeps the relation of ids, results and audit.
LEMMA SidStep ==
    ASSUME TypeOK, PhaseInv, Core, SidInv, [Next]_vars
    PROVE  SidInv'
<1>0. /\ nextSid \in Nat /\ nextSid' \in Nat /\ nextSid <= nextSid' /\ launched \subseteq launched'
      /\ \A w \in Workers : BeginStage(w) => nextSid' = nextSid + 1
  BY IdsGrow
<1>1. AuditKnown'
  <2>1. SUFFICES ASSUME NEW s \in Sids, audit'[s] # NoAudit
                 PROVE  s < nextSid' /\ audit'[s].run \in launched'
    BY DEF AuditKnown
  <2>2. s \in Nat
    BY MaxSidsAssumption DEF Sids
  <2>3. CASE audit[s] # NoAudit
    BY <1>0, <2>2, <2>3, AuditedStep DEF AuditGrows, SidInv, AuditKnown
  <2>4. ASSUME NEW w \in Workers, StageStarts(w), worker[w].sid = s, audit'[s].run = worker[w].run
        PROVE  s < nextSid' /\ audit'[s].run \in launched'
    <3>1. worker[w].pc = "start"
      BY <2>4 DEF StageStarts
    <3>2. s < nextSid /\ worker[w].run \in launched
      BY <2>4, <3>1, StartingStep
    <3> QED BY <1>0, <2>2, <2>4, <3>2
  <2> QED BY <2>1, <2>3, <2>4, AuditedStep
<1>2. SidsLinked'
  <2>1. SUFFICES ASSUME NEW r \in Runs, Present(store'[r]),
                        NEW k \in 1..Len(store'[r].results), NEW sid,
                        sid = store'[r].results[k].sid, sid # NoSid
                 PROVE  /\ sid < nextSid'
                        /\ audit'[sid] # NoAudit => audit'[sid].run = r /\ audit'[sid].stage = k
    <3>1. NoSid < nextSid'
      BY <1>0 DEF NoSid, TypeOK
    <3> QED BY <3>1 DEF SidsLinked
  <2>2. CASE /\ Present(store[r]) /\ k \in 1..Len(store[r].results)
             /\ sid = store[r].results[k].sid
    <3>1. /\ sid < nextSid
          /\ audit[sid] # NoAudit => audit[sid].run = r /\ audit[sid].stage = k
      BY <2>1, <2>2 DEF SidInv, SidsLinked
    <3>2. sid \in Sids
      BY <2>1, <2>2, PresentTyped, ResultsTyped DEF Present, TypeOK, Store, StepResult
    <3>3. sid \in Nat
      BY <3>2, MaxSidsAssumption DEF Sids
    <3>4. CASE audit[sid] # NoAudit
      BY <1>0, <3>1, <3>2, <3>3, <3>4, AuditedStep DEF AuditGrows
    <3>5. ASSUME NEW w \in Workers, StageStarts(w), worker[w].sid = sid,
                 audit'[sid].run = worker[w].run, audit'[sid].stage = worker[w].len
          PROVE  audit'[sid].run = r /\ audit'[sid].stage = k
      <4>1. worker[w].pc = "start"
        BY <3>5 DEF StageStarts
      <4>2. r = worker[w].run /\ k = worker[w].len
        BY <2>2, <3>5, <4>1 DEF SidInv, IntentFresh
      <4> QED BY <3>5, <4>2
    <3> QED BY <1>0, <3>1, <3>2, <3>3, <3>4, <3>5, AuditedStep
  <2>3. ASSUME NEW w \in Workers, BeginStage(w), sid = nextSid
        PROVE  sid < nextSid' /\ audit'[sid] = NoAudit
    <3>1. nextSid' = nextSid + 1 /\ UNCHANGED audit /\ nextSid \in Sids
      BY <2>3 DEF BeginStage, Locals, scenVars
    <3>2. audit[nextSid] = NoAudit
      BY <1>0, <3>1 DEF SidInv, AuditKnown
    <3> QED BY <1>0, <2>3, <3>1, <3>2
  <2> QED BY <2>1, <2>2, <2>3, SidsStep
<1>3. IntentFresh'
  <2>1. SUFFICES ASSUME NEW w \in Workers, worker'[w].pc \in {"recheck", "start"}
                 PROVE  /\ audit'[worker'[w].sid] = NoAudit
                        /\ \A r \in Runs : Present(store'[r]) =>
                              \A k \in 1..Len(store'[r].results) :
                                 store'[r].results[k].sid = worker'[w].sid
                                    => r = worker'[w].run /\ k = worker'[w].len
                        /\ \A s \in Sids : audit'[s] # NoAudit /\ audit'[s].run = worker'[w].run
                              => s < worker'[w].sid
    BY DEF IntentFresh
  <2>2. CASE BeginStage(w)
    <3>1. /\ worker'[w].sid = nextSid /\ UNCHANGED audit /\ nextSid \in Sids
          /\ OnlyTask(w)
      BY <2>2 DEF BeginStage, TypeOK, OnlyTask, Locals, scenVars
    <3>2. \A s \in Sids : audit[s] # NoAudit => s < nextSid
      BY DEF SidInv, AuditKnown
    <3>3. ASSUME NEW r \in Runs, Present(store'[r]), NEW k \in 1..Len(store'[r].results),
                 store'[r].results[k].sid = nextSid
          PROVE  r = worker'[w].run /\ k = worker'[w].len
      <4>1. ~(/\ Present(store[r]) /\ k \in 1..Len(store[r].results)
              /\ nextSid = store[r].results[k].sid)
        BY <1>0 DEF SidInv, SidsLinked
      <4>2. nextSid # NoSid
        BY <3>1 DEF Sids, NoSid
      <4>3. \A v \in Workers : BeginStage(v) => v = w
        <5>1. ASSUME NEW v \in Workers, BeginStage(v), v # w PROVE FALSE
          <6>1. worker'[v].pc = "recheck" /\ worker[v].pc = "loop"
            BY <5>1 DEF BeginStage, TypeOK
          <6> QED BY <3>1, <5>1, <6>1 DEF OnlyTask
        <5> QED BY <5>1
      <4> QED BY <3>3, <4>1, <4>2, <4>3, SidsStep
    <3> QED BY <1>0, <3>1, <3>2, <3>3
  <2>3. CASE /\ worker[w].pc \in {"recheck", "start"}
             /\ worker'[w].run = worker[w].run /\ worker'[w].len = worker[w].len
             /\ worker'[w].sid = worker[w].sid
    <3>1. /\ worker[w].sid \in Sids /\ worker[w].sid # NoSid /\ worker[w].sid < nextSid
          /\ audit[worker[w].sid] = NoAudit
      BY <2>3, StartingStep
    <3>2. ASSUME NEW v \in Workers, StageStarts(v)
          PROVE  /\ worker[v].sid # worker[w].sid /\ worker[v].run # worker[w].run
      <4>1. worker[v].pc = "start" /\ worker'[v].pc = "admitted"
        BY <3>2, StageStartsStep
      <4>2. v # w
        BY <2>1, <4>1
      <4> QED BY <2>3, <4>1, <4>2, StartingStep DEF Busy
    <3>3. audit'[worker[w].sid] = NoAudit
      BY <3>1, <3>2, AuditedStep
    <3>4. ASSUME NEW r \in Runs, Present(store'[r]), NEW k \in 1..Len(store'[r].results),
                 store'[r].results[k].sid = worker[w].sid
          PROVE  r = worker[w].run /\ k = worker[w].len
      <4>1. worker[w].sid # nextSid
        BY <1>0, <3>1
      <4>2. /\ Present(store[r]) /\ k \in 1..Len(store[r].results)
            /\ worker[w].sid = store[r].results[k].sid
        BY <3>1, <3>4, <4>1, SidsStep
      <4> QED BY <2>3, <4>2 DEF SidInv, IntentFresh
    <3>5. ASSUME NEW s \in Sids, audit'[s] # NoAudit, audit'[s].run = worker[w].run
          PROVE  s < worker[w].sid
      <4>1. audit[s] # NoAudit
        BY <3>2, <3>5, AuditedStep
      <4>2. audit[s].run = worker[w].run
        BY <3>5, <4>1, AuditedStep DEF AuditGrows
      <4> QED BY <2>3, <4>1, <4>2 DEF SidInv, IntentFresh
    <3> QED BY <2>3, <3>3, <3>4, <3>5
  <2> QED BY <2>1, <2>2, <2>3, TaskStep
<1>4. NewUnaudited'
  <2>1. SUFFICES ASSUME NEW w \in Workers, NEW s \in Sids, worker'[w].pc = "new",
                        audit'[s] # NoAudit
                 PROVE  audit'[s].run # worker'[w].run
    BY DEF NewUnaudited
  <2>2. ASSUME NEW r \in Runs, RunCampaign(w, r) PROVE audit'[s].run # worker'[w].run
    <3>1. worker'[w].run = r /\ r \notin launched /\ UNCHANGED audit
      BY <2>2 DEF RunCampaign, Spawn, TypeOK, scenVars
    <3> QED BY <2>1, <3>1 DEF SidInv, AuditKnown
  <2>3. CASE worker'[w] = worker[w]
    <3>1. CASE audit[s] # NoAudit
      BY <2>1, <2>3, <3>1, AuditedStep DEF AuditGrows, SidInv, NewUnaudited
    <3>2. ASSUME NEW v \in Workers, StageStarts(v), audit'[s].run = worker[v].run
          PROVE  audit'[s].run # worker[w].run
      <4>1. worker[v].pc = "start"
        BY <3>2, StageStartsStep
      <4> QED BY <2>1, <2>3, <3>2, <4>1, StartingStep DEF Busy
    <3> QED BY <2>1, <2>3, <3>1, <3>2, AuditedStep
  <2> QED BY <2>1, <2>2, <2>3, TaskStep
<1>5. ResultEvidenced'
  <2>1. SUFFICES ASSUME NEW w \in Workers, worker'[w].pc = "commit",
                        worker'[w].result = "COMPLETED"
                 PROVE  audit'[worker'[w].sid].status = "COMPLETED"
    BY DEF ResultEvidenced
  <2>2. ASSUME audit[worker'[w].sid].status = "COMPLETED", worker'[w].sid \in Sids
        PROVE  audit'[worker'[w].sid].status = "COMPLETED"
    BY <2>2, AuditedStep DEF AuditGrows, IsTerminal, NoAudit
  <2>3. CASE Settle(w)
    <3>1. worker[w] \in Settling
      BY <2>3, TaskKinds DEF TypeOK, Settle
    <3>2. /\ worker'[w].sid = worker[w].sid /\ worker[w].sid \in Sids
          /\ worker'[w].result = ResultStatus(audit[worker[w].sid])
      BY <2>3, <3>1 DEF Settle, Settling, TypeOK
    <3> QED BY <2>1, <2>2, <3>2 DEF ResultStatus
  <2>4. CASE worker'[w] = worker[w]
    <3>1. worker[w] \in Committing
      BY <2>1, <2>4, TaskKinds DEF TypeOK
    <3> QED BY <2>1, <2>2, <2>4, <3>1 DEF SidInv, ResultEvidenced, Committing
  <2> QED BY <2>1, <2>3, <2>4, TaskStep
<1> QED BY <1>1, <1>2, <1>3, <1>4, <1>5 DEF SidInv

\* It holds in every reachable state.
LEMMA SidCorrect == Spec => [](TypeOK /\ PhaseInv /\ Core /\ SidInv)
<1>1. Init => SidInv
  BY DEF Init, SidInv, AuditKnown, SidsLinked, IntentFresh, NewUnaudited, ResultEvidenced,
         NoRun, Present, Idle, NoAudit
<1>2. TypeOK /\ PhaseInv /\ Core /\ SidInv /\ [Next]_vars => SidInv'
  BY SidStep
<1> QED BY <1>1, <1>2, CoreCorrect, PTL DEF Spec

\* The campaign and the audit account for each other: a stage is stored as
\* completed only with evidence for that run and stage, and every scenario run
\* that was started for a stored run is found in it (execute, prepare_resume,
\* begin_resume).
THEOREM AttemptsCorrect == Spec => []AttemptsAccounted
<1> DEFINE Accounted ==
              /\ \A r \in Runs : Present(store[r]) =>
                    \A k \in 1..Len(store[r].results) :
                       store[r].results[k].status = "COMPLETED" =>
                          /\ store[r].results[k].sid # NoSid
                          /\ audit[store[r].results[k].sid].status = "COMPLETED"
              /\ \A s \in Sids : audit[s] # NoAudit /\ Present(store[audit[s].run]) =>
                    Held(store[audit[s].run], s)
<1>1. Init => Accounted
  BY DEF Init, NoRun, Present
<1>2. ASSUME TypeOK, PhaseInv, Core, SidInv, Accounted, [Next]_vars, TypeOK'
      PROVE  Accounted'
  <2>0. /\ AuditGrows
        /\ \A r \in Runs : Present(store[r]) => store[r] \in CampaignRun
        /\ \A r \in Runs : Present(store'[r]) => Len(store'[r].results) \in Nat
    BY <1>2, AuditedStep, PresentTyped, ResultsTyped DEF Present, TypeOK, Store
  <2>1. ASSUME NEW r \in Runs, Present(store'[r]), NEW k \in 1..Len(store'[r].results),
               store'[r].results[k].status = "COMPLETED"
        PROVE  /\ store'[r].results[k].sid # NoSid
               /\ audit'[store'[r].results[k].sid].status = "COMPLETED"
    <3> DEFINE sid == store'[r].results[k].sid
    <3>1. ASSUME sid # NoSid, audit[sid].status = "COMPLETED", sid \in Sids
          PROVE  audit'[sid].status = "COMPLETED"
      BY <2>0, <3>1 DEF AuditGrows, IsTerminal, NoAudit
    <3>2. CASE Present(store[r]) /\ Evolves(store[r], store'[r])
      <4>1. /\ k \in 1..Len(store[r].results) /\ sid = store[r].results[k].sid
            /\ \/ store[r].results[k].status = "COMPLETED"
               \/ sid # NoSid /\ audit[sid].status = "COMPLETED"
        BY <2>1, <3>2 DEF Evolves, DoneFrom
      <4>2. sid # NoSid /\ audit[sid].status = "COMPLETED"
        BY <1>2, <3>2, <4>1
      <4>3. sid \in Sids
        BY <2>0, <3>2, <4>1, <4>2, ResultsTyped DEF StepResult
      <4> QED BY <3>1, <4>2, <4>3
    <3>3. ASSUME NEW w \in Workers, Admit(w), worker[w].pc = "new", worker[w].run = r
          PROVE  FALSE
      <4>1. Len(store'[r].results) = 0
        BY <1>2, <3>3, AdmitNewStep
      <4> QED BY <4>1
    <3>4. ASSUME NEW w \in Workers, BeginStage(w), worker[w].run = r
          PROVE  /\ sid # NoSid
                 /\ audit'[sid].status = "COMPLETED"
      <4> DEFINE n == Len(store[r].results)
      <4>1. /\ store[r] \in CampaignRun
            /\ Len(store'[r].results) = n + 1
            /\ \A i \in 1..n : store'[r].results[i] = store[r].results[i]
            /\ store'[r].results[n + 1] =
                  [stage |-> worker[w].len + 1, sid |-> nextSid, status |-> "RUNNING"]
        BY <1>2, <3>4, BeginStageStep
      <4>2. n \in Nat /\ Present(store[r])
        BY <4>1, ResultsTyped DEF CampaignRun, Statuses, Present
      <4>3. k \in 1..n
        BY <2>1, <4>1, <4>2
      <4>4. sid = store[r].results[k].sid /\ store[r].results[k].status = "COMPLETED"
        BY <2>1, <4>1, <4>3
      <4>5. sid # NoSid /\ audit[sid].status = "COMPLETED"
        BY <1>2, <4>2, <4>3, <4>4
      <4>6. sid \in Sids
        BY <4>1, <4>3, <4>4, <4>5, ResultsTyped DEF StepResult
      <4> QED BY <3>1, <4>5, <4>6
    <3> QED BY <1>2, <2>1, <3>2, <3>3, <3>4, EvolveStep
  <2>2. ASSUME NEW s \in Sids, audit'[s] # NoAudit, Present(store'[audit'[s].run])
        PROVE  Held(store'[audit'[s].run], s)
    <3>1. ASSUME NEW w \in Workers, StageStarts(w), worker[w].sid = s,
                 audit'[s].run = worker[w].run
          PROVE  Held(store'[audit'[s].run], s)
      <4>1. worker[w].pc = "start" /\ UNCHANGED store
        BY <1>2, <3>1, StageStartsStep
      <4> QED BY <1>2, <3>1, <4>1, StartingStep DEF Held
    <3>2. CASE audit[s] # NoAudit
      <4> DEFINE r == audit[s].run
      <4>1. audit'[s].run = r /\ r \in Runs
        BY <1>2, <2>0, <3>2 DEF AuditGrows, TypeOK, AuditRecord
      <4>2. CASE Present(store[r]) /\ Evolves(store[r], store'[r])
        BY <1>2, <3>2, <4>1, <4>2 DEF Evolves, HeldFrom
      <4>3. ASSUME NEW w \in Workers, Admit(w), worker[w].pc = "new", worker[w].run = r
            PROVE  FALSE
        BY <1>2, <3>2, <4>3 DEF SidInv, NewUnaudited
      <4>4. ASSUME NEW w \in Workers, BeginStage(w), worker[w].run = r
            PROVE  Held(store'[r], s)
        <5> DEFINE n == Len(store[r].results)
        <5>1. /\ store[r] \in CampaignRun
              /\ Len(store'[r].results) = n + 1
              /\ \A i \in 1..n : store'[r].results[i] = store[r].results[i]
              /\ store'[r].superseded = store[r].superseded
          <6> DEFINE q == worker[w].run
          <6>1. /\ store[q] \in CampaignRun
                /\ Len(store'[q].results) = Len(store[q].results) + 1
                /\ \A i \in 1..Len(store[q].results) : store'[q].results[i] = store[q].results[i]
                /\ store'[q].superseded = store[q].superseded
            BY <1>2, <4>4, BeginStageStep
          <6> QED BY <4>4, <6>1
        <5>2. n \in Nat /\ Present(store[r])
          BY <5>1, ResultsTyped DEF CampaignRun, Statuses, Present
        <5>3. \A i \in 1..n : i \in 1..(n + 1)
          BY <5>2
        <5>4. Held(store[r], s)
          BY <1>2, <3>2, <5>2
        <5> QED BY <5>1, <5>3, <5>4 DEF Held
      <4> QED BY <1>2, <2>2, <4>1, <4>2, <4>3, <4>4, EvolveStep
    <3> QED BY <1>2, <2>2, <3>1, <3>2, AuditedStep
  <2> QED BY <2>1, <2>2
<1>3. TypeOK /\ SidInv /\ Accounted => AttemptsAccounted
  <2>1. SUFFICES ASSUME TypeOK, SidInv, Accounted PROVE AttemptsAccounted
    OBVIOUS
  <2>2. \A r \in Runs : Present(store[r]) =>
           DOMAIN store[r].results = 1..Len(store[r].results)
    BY <2>1, PresentTyped, ResultsTyped DEF Present, TypeOK, Store
  <2>3. CompletionEvidenced
    <3>1. SUFFICES ASSUME NEW r \in Runs, Present(store[r]), NEW k \in 1..Len(store[r].results),
                          NEW sid, sid = store[r].results[k].sid,
                          store[r].results[k].status = "COMPLETED"
                   PROVE  /\ sid # NoSid
                          /\ audit[sid].status = "COMPLETED"
                          /\ audit[sid].run = r
                          /\ audit[sid].stage = k
      BY <2>2 DEF CompletionEvidenced
    <3>2. sid # NoSid /\ audit[sid].status = "COMPLETED"
      BY <2>1, <3>1
    <3>3. audit[sid] # NoAudit
      BY <3>2 DEF NoAudit
    <3> QED BY <2>1, <3>1, <3>2, <3>3 DEF SidInv, SidsLinked
  <2>4. \A s \in Sids : audit[s] # NoAudit => audit[s].run \in Runs
    BY <2>1 DEF TypeOK, AuditRecord
  <2> QED BY <2>1, <2>2, <2>3, <2>4 DEF AttemptsAccounted, Held
<1> HIDE DEF Accounted
<1> QED BY <1>1, <1>2, <1>3, SidCorrect, PTL DEF Spec

-----------------------------------------------------------------------------
(* No stage is retried while an earlier attempt may still have effects *)

Blocked(run, a, s) == (HasUnfinished(run) /\ Last(run).sid = s) \/ Settles(a, Reach(run))

\* What is settled for a stage is settled for later ones.
LEMMA SettlesLater ==
    ASSUME NEW a, a.stage \in Nat, NEW m \in Nat, NEW n \in Nat, m <= n, Settles(a, m)
    PROVE  Settles(a, n)
BY DEF Settles

\* What a step makes of the attempt that stands in the way of the next one.
LEMMA BlockedStep ==
    ASSUME TypeOK, Core, SidInv, [Next]_vars, NEW q \in Runs, Present(store'[q]),
           NEW s \in Sids, audit[s] # NoAudit, audit[s].run = q,
           Present(store[q]) => Blocked(store[q], audit[s], s)
    PROVE  Blocked(store'[q], audit[s], s)
<1> DEFINE Goal == Blocked(store'[q], audit[s], s)
<1>0. /\ \A r \in Runs : Present(store[r]) => store[r] \in CampaignRun
      /\ \A r \in Runs : store[r] \in CampaignRun => Present(store[r])
      /\ audit[s].stage \in Nat /\ s # NoSid
  BY PresentTyped DEF Present, TypeOK, Store, AuditRecord, CampaignRun, Statuses, Sids, NoSid
<1>1. store'[q] = store[q] => Goal
  BY <1>0
<1>2. ASSUME NEW r \in Runs, r # q, OnlyRun(r) PROVE Goal
  <2>1. store'[q] = store[q]
    BY <1>2 DEF OnlyRun, Kept, Present, NoRun
  <2> QED BY <1>1, <2>1
<1>3. ASSUME NEW old \in CampaignRun, NEW new, Blocked(old, audit[s], s),
             Len(new.results) = Len(old.results),
             Len(old.results) > 0 =>
                /\ Last(new).sid = Last(old).sid
                /\ (Last(new).status = "COMPLETED") = (Last(old).status = "COMPLETED")
      PROVE  Blocked(new, audit[s], s)
  <2>1. /\ HasUnfinished(new) <=> HasUnfinished(old)
        /\ HasUnfinished(old) => Last(new).sid = Last(old).sid
    BY <1>3 DEF HasUnfinished
  <2>2. Reach(new) = Reach(old)
    BY <1>3, <2>1 DEF Reach
  <2> QED BY <1>3, <2>1, <2>2 DEF Blocked
<1>4. CASE Crash
  <2>1. /\ store[q] \in CampaignRun /\ store'[q] = Interrupted(store[q])
        /\ Blocked(store[q], audit[s], s)
    BY <1>0, <1>4, CrashStep DEF Present, NoRun
  <2> DEFINE n == Len(store[q].results)
  <2>2. /\ Len(store'[q].results) = n /\ n \in Nat
        /\ \A k \in 1..n :
              /\ store'[q].results[k].sid = store[q].results[k].sid
              /\ (store'[q].results[k].status = "COMPLETED")
                    = (store[q].results[k].status = "COMPLETED")
    BY <2>1, InterruptedRun, ResultsTyped
  <2>3. n > 0 => n \in 1..n
    BY <2>2
  <2>4. n > 0 => /\ Last(store'[q]).sid = Last(store[q]).sid
                 /\ (Last(store'[q]).status = "COMPLETED") = (Last(store[q]).status = "COMPLETED")
    BY <2>2, <2>3 DEF Last
  <2> QED BY <1>3, <2>1, <2>2, <2>4
<1>5. CASE UNCHANGED store
  BY <1>1, <1>5
<1>6. \A w \in Workers, r \in Runs : RunCampaign(w, r) \/ ResumeCampaignRun(w, r) => UNCHANGED store
  BY DEF RunCampaign, ResumeCampaignRun
<1>7. \A w \in Workers : AdmitFails(w) \/ UpdateFails(w) \/ Unregister(w) \/ Moves(w)
                            => UNCHANGED store
  BY LeaveStep, MoveStep DEF Moves, Unregister
<1>8. ASSUME NEW w \in Workers, Admit(w), worker[w].pc = "new" PROVE Goal
  <2>1. worker[w].run \in Runs /\ OnlyRun(worker[w].run)
    BY <1>8, AdmitNewStep
  <2>2. worker[w].run # q
    BY <1>8 DEF SidInv, NewUnaudited
  <2> QED BY <1>2, <2>1, <2>2
<1>9. ASSUME NEW w \in Workers, Admit(w), worker[w].pc = "resume" PROVE Goal
  <2> DEFINE r == worker[w].run
             old == store[r]
             new == store'[r]
             n == Len(new.results)
  <2>1. r \in Runs /\ Present(old)
    BY <1>9, TaskKinds DEF Admit, TypeOK
  <2>2. \A k \in 1..(Len(old.results) - 1) : old.results[k].status = "COMPLETED"
    BY <2>1, PresentTyped, ValidRun DEF Core, SnapshotLoads, Present, TypeOK, Store
  <2>3. /\ OnlyRun(r) /\ old \in CampaignRun /\ new \in CampaignRun
        /\ StageSettled(old, audit)
        /\ n <= Len(old.results)
        /\ \A k \in 1..n :
              /\ new.results[k].status = "COMPLETED"
              /\ \/ old.results[k].status = "COMPLETED"
                 \/ /\ old.results[k].sid # NoSid
                    /\ audit[old.results[k].sid].status = "COMPLETED"
        /\ \/ n = Len(old.results)
           \/ /\ HasUnfinished(old)
              /\ n = Len(old.results) - 1
              /\ Last(old).sid = NoSid \/ audit[Last(old).sid].status # "COMPLETED"
    BY <1>9, <2>2, AdmitResumeStep DEF Resumable
  <2>4. n \in Nat /\ Len(old.results) \in Nat
    BY <2>3, ResultsTyped
  <2>5. ASSUME r = q PROVE Blocked(new, audit[s], s)
    <3> HIDE DEF old, new
    <3>1. ~HasUnfinished(new) /\ Reach(new) = n + 1
      <4>1. n > 0 => n \in 1..n
        BY <2>4
      <4>2. n > 0 => Last(new).status = "COMPLETED"
        BY <2>3, <4>1 DEF Last
      <4> QED BY <2>4, <4>2 DEF HasUnfinished, Reach
    <3>2. Blocked(old, audit[s], s)
      BY <2>1, <2>5 DEF old
    <3>3. CASE HasUnfinished(old) /\ Last(old).sid = s
      <4>1. Len(old.results) \in 1..Len(old.results)
        BY <2>4, <3>3 DEF HasUnfinished
      <4>2. audit[s].stage = Len(old.results)
        <5>1. old.results[Len(old.results)].sid = s
          BY <3>3 DEF Last
        <5> QED BY <1>0, <2>1, <2>5, <4>1, <5>1 DEF SidInv, SidsLinked, old
      <4>3. CASE n = Len(old.results)
        <5>1. audit[s].status = "COMPLETED"
          BY <2>3, <3>3, <4>1, <4>3 DEF HasUnfinished, Last
        <5>2. Settles(audit[s], n + 1)
          BY <2>4, <4>2, <4>3, <5>1 DEF Settles
        <5> QED BY <3>1, <5>2 DEF Blocked
      <4>4. CASE n = Len(old.results) - 1
        <5>1. audit[s].status # "COMPLETED"
          BY <1>0, <2>3, <2>4, <3>3, <4>4
        <5>2. IsTerminal(audit[s]) /\ ConfirmedClean(audit[s])
          BY <1>0, <2>3, <3>3 DEF StageSettled, ConfirmedClean
        <5>3. Settles(audit[s], n + 1)
          BY <2>4, <4>2, <4>4, <5>1, <5>2 DEF Settles
        <5> QED BY <3>1, <5>3 DEF Blocked
      <4> QED BY <2>3, <4>3, <4>4
    <3>4. CASE Settles(audit[s], Reach(old))
      <4>1. Reach(old) \in Nat /\ Reach(old) <= n + 1
        BY <2>3, <2>4 DEF Reach
      <4>2. Settles(audit[s], n + 1)
        BY <1>0, <2>4, <3>4, <4>1, SettlesLater
      <4> QED BY <3>1, <4>2 DEF Blocked
    <3> QED BY <3>2, <3>3, <3>4 DEF Blocked
  <2> QED BY <1>2, <2>1, <2>3, <2>5
<1>10. ASSUME NEW w \in Workers, BeginStage(w) PROVE Goal
  <2> DEFINE r == worker[w].run
             old == store[r]
             new == store'[r]
             n == Len(old.results)
  <2>1. /\ r \in Runs /\ OnlyRun(r) /\ old \in CampaignRun
        /\ Len(new.results) = n + 1
        /\ new.results[n + 1] =
              [stage |-> worker[w].len + 1, sid |-> nextSid, status |-> "RUNNING"]
        /\ worker[w].pc = "loop"
    BY <1>10, BeginStageStep
  <2>2. n \in Nat /\ Present(old)
    BY <1>0, <2>1, ResultsTyped
  <2>3. \A k \in 1..n : old.results[k].status = "COMPLETED"
    BY <2>1 DEF Core, StageInv, StageOf, InExecute
  <2>4. ASSUME r = q PROVE Blocked(new, audit[s], s)
    <3>1. Blocked(old, audit[s], s)
      BY <2>2, <2>4
    <3> HIDE DEF old, new
    <3>2. ~HasUnfinished(old) /\ Reach(old) = n + 1
      <4>1. n > 0 => n \in 1..n
        BY <2>2
      <4>2. n > 0 => Last(old).status = "COMPLETED"
        BY <2>3, <4>1 DEF Last
      <4> QED BY <2>2, <4>2 DEF HasUnfinished, Reach
    <3>3. Reach(new) = n + 1
      BY <2>1, <2>2 DEF Reach, HasUnfinished, Last
    <3> QED BY <3>1, <3>2, <3>3 DEF Blocked
  <2> QED BY <1>2, <2>1, <2>4
<1>11. ASSUME NEW w \in Workers, StopBeforeStage(w) \/ NothingLeft(w) PROVE Goal
  <2> DEFINE r == worker[w].run
  <2>1. /\ r \in Runs /\ OnlyRun(r) /\ store[r] \in CampaignRun
        /\ store'[r].results = store[r].results \/ store'[r] = NoRun
    BY <1>11, StatusStep
  <2>2. Present(store[r])
    BY <1>0, <2>1
  <2>3. CASE r = q
    <3>1. store'[r].results = store[r].results
      BY <2>1, <2>3 DEF Present, NoRun
    <3> QED BY <1>3, <2>1, <2>2, <2>3, <3>1 DEF Last
  <2> QED BY <1>2, <2>1, <2>3
<1>12. ASSUME NEW w \in Workers, StopAtIntent(w) \/ CommitStage(w) PROVE Goal
  <2> DEFINE r == worker[w].run
             old == store[r]
             new == store'[r]
             n == Len(old.results)
  <2>1. InExecute(w) /\ worker[w].pc \in {"recheck", "commit"}
    BY <1>12 DEF InExecute, StopAtIntent, CommitStage
  <2>2. n > 0 /\ Last(old).sid = worker[w].sid /\ Last(old).status = "RUNNING"
    BY <2>1 DEF Core, StageInv, StageOf
  <2>3. /\ r \in Runs /\ OnlyRun(r) /\ old \in CampaignRun
        /\ Present(new) =>
              /\ Len(new.results) = n
              /\ \/ /\ worker[w].pc = "recheck"
                    /\ new.results[n].sid = NoSid
                    /\ new.results[n].status = "CANCELLED"
                 \/ /\ worker[w].pc = "commit"
                    /\ new.results[n].sid = worker[w].sid
                    /\ new.results[n].status = worker[w].result
    <3>1. CASE StopAtIntent(w)
      BY <2>2, <3>1, LastStep DEF StopAtIntent, CommitStage
    <3>2. CASE CommitStage(w)
      <4>1. /\ r \in Runs /\ OnlyRun(r) /\ old \in CampaignRun
            /\ worker[w].pc = "commit"
            /\ \/ /\ Len(new.results) = n
                  /\ new.results[n].sid = worker[w].sid
                  /\ new.results[n].status = worker[w].result
               \/ new = NoRun
        BY <2>2, <3>2, LastStep DEF StopAtIntent, CommitStage
      <4>2. ~Present(NoRun)
        BY DEF Present, NoRun
      <4> HIDE DEF n, r, old, new
      <4>3. Present(new) => new # NoRun
        BY <4>2
      <4> QED BY <4>1, <4>3
    <3> QED BY <1>12, <3>1, <3>2
  <2>4. n \in Nat /\ Present(old)
    BY <1>0, <2>3, ResultsTyped
  <2>5. /\ worker[w].pc = "recheck" => audit[worker[w].sid] = NoAudit
        /\ worker[w].pc = "commit" /\ worker[w].result = "COMPLETED" =>
              audit[worker[w].sid].status = "COMPLETED"
    BY DEF SidInv, IntentFresh, ResultEvidenced
  <2>6. ASSUME r = q PROVE Blocked(new, audit[s], s)
    <3>1. Blocked(old, audit[s], s) /\ Present(new)
      BY <2>4, <2>6
    <3>2. worker[w].sid = s => audit[s].stage = n
      <4>1. n \in 1..n /\ old.results[n].sid = worker[w].sid
        BY <2>2, <2>4 DEF Last
      <4>2. Present(old) => \A k \in 1..n :
               old.results[k].sid # NoSid /\ audit[old.results[k].sid] # NoAudit =>
                  audit[old.results[k].sid].stage = k
        BY <2>3 DEF SidInv, SidsLinked
      <4> HIDE DEF old, n, r
      <4> QED BY <1>0, <2>4, <4>1, <4>2
    <3> HIDE DEF old, new, n
    <3>3. Len(new.results) = n /\ Last(new) = new.results[n]
      BY <2>3, <3>1 DEF Last
    <3>4. HasUnfinished(old) /\ Reach(old) = n
      BY <2>2, <2>4 DEF HasUnfinished, Reach, n
    <3>5. CASE new.results[n].status # "COMPLETED"
      <4>1. HasUnfinished(new) /\ Reach(new) = n
        BY <2>2, <2>4, <3>3, <3>5 DEF HasUnfinished, Reach
      <4>2. CASE Last(old).sid = s
        <5>1. worker[w].pc = "commit" /\ Last(new).sid = s
          BY <2>1, <2>2, <2>3, <2>5, <3>1, <3>3, <4>2
        <5> QED BY <4>1, <5>1 DEF Blocked
      <4>3. CASE Settles(audit[s], n)
        BY <4>1, <4>3 DEF Blocked
      <4> QED BY <3>1, <3>4, <4>2, <4>3 DEF Blocked
    <3>6. CASE new.results[n].status = "COMPLETED"
      <4>1. ~HasUnfinished(new) /\ Reach(new) = n + 1
        BY <2>4, <3>3, <3>6 DEF HasUnfinished, Reach
      <4>2. worker[w].pc = "commit" /\ worker[w].result = "COMPLETED"
        BY <2>3, <3>1, <3>6
      <4>3. Settles(audit[s], n + 1)
        <5>1. CASE Last(old).sid = s
          BY <2>2, <2>4, <2>5, <3>2, <4>2, <5>1 DEF Settles
        <5>2. CASE Settles(audit[s], n)
          BY <1>0, <2>4, <5>2, SettlesLater
        <5> QED BY <3>1, <3>4, <5>1, <5>2 DEF Blocked
      <4> QED BY <4>1, <4>3 DEF Blocked
    <3> QED BY <3>5, <3>6
  <2> QED BY <1>2, <2>3, <2>6
<1>13. Outside => UNCHANGED store
  BY OutsideStep
<1> QED BY <1>4, <1>5, <1>6, <1>7, <1>8, <1>9, <1>10, <1>11, <1>12, <1>13, NextSteps

\* A scenario is started for a run only when every earlier one of the run has
\* ended; a completed stage never runs again, and another is retried only once
\* its effects are known to be gone (prepare_resume, begin_resume).
THEOREM RetryCorrect == Spec => []NoUnsafeRetry
<1>1. Init => RetryInv /\ NoUnsafeRetry
  BY DEF Init, RetryInv, NoUnsafeRetry, NoRun, Present
<1>2. ASSUME TypeOK, PhaseInv, Core, SidInv, RetryInv, NoUnsafeRetry, [Next]_vars
      PROVE  RetryInv' /\ NoUnsafeRetry'
  <2>0. /\ AuditGrows
        /\ \A s \in Sids : s \in Nat
        /\ \A s \in Sids : audit[s] # NoAudit => audit[s].run \in Runs /\ audit[s].stage \in Nat
    BY <1>2, AuditedStep, MaxSidsAssumption DEF Sids, TypeOK, AuditRecord
  <2>1. \A s \in Sids, n \in Nat : audit[s] # NoAudit /\ Settles(audit[s], n) =>
           IsTerminal(audit[s]) /\ audit'[s] = audit[s]
    BY <2>0 DEF AuditGrows, Settles, IsTerminal
  <2>2. \A s \in Sids : audit'[s] # NoAudit =>
           \/ audit[s] # NoAudit
           \/ \E w \in Workers :
                 /\ StageStarts(w) /\ worker[w].sid = s
                 /\ audit'[s].run = worker[w].run /\ audit'[s].stage = worker[w].len
    BY <1>2, AuditedStep
  <2>3. ASSUME NEW w \in Workers, StageStarts(w)
        PROVE  LET run == store[worker[w].run]
               IN  /\ UNCHANGED store /\ Present(run) /\ worker[w].run \in Runs
                   /\ worker[w].len \in Nat /\ Reach(run) = worker[w].len
                   /\ HasUnfinished(run) /\ Last(run).sid = worker[w].sid
                   /\ audit[worker[w].sid] = NoAudit
                   /\ \A s \in Sids : audit[s] # NoAudit /\ audit[s].run = worker[w].run =>
                         s < worker[w].sid
    <3>1. worker[w].pc = "start" /\ UNCHANGED store
      BY <2>3 DEF StageStarts
    <3> DEFINE run == store[worker[w].run]
    <3>2. /\ worker[w].run \in Runs /\ Present(run)
          /\ Len(run.results) \in 1..Len(run.results)
          /\ run.results[Len(run.results)].sid = worker[w].sid
          /\ worker[w].len = Len(run.results) /\ audit[worker[w].sid] = NoAudit
          /\ run \in CampaignRun
      BY <1>2, <3>1, StartingStep
    <3>3. Last(run).status = "RUNNING" /\ Len(run.results) \in Nat /\ Len(run.results) > 0
      BY <1>2, <3>1, <3>2, ResultsTyped DEF Core, StageInv, StageOf, InExecute
    <3>4. HasUnfinished(run) /\ Reach(run) = worker[w].len /\ Last(run).sid = worker[w].sid
      BY <3>2, <3>3 DEF HasUnfinished, Reach, Last
    <3> QED BY <1>2, <3>1, <3>2, <3>3, <3>4 DEF SidInv, IntentFresh
  <2>4. RetryInv'
    <3>1. SUFFICES ASSUME NEW r \in Runs, NEW s \in Sids, Present(store'[r]),
                          audit'[s] # NoAudit, audit'[s].run = r
                   PROVE  Blocked(store'[r], audit'[s], s)
      BY DEF RetryInv, Blocked
    <3>2. CASE audit[s] # NoAudit
      <4>1. audit[s].run = r
        BY <2>0, <3>1, <3>2 DEF AuditGrows
      <4>2. Present(store[r]) => Blocked(store[r], audit[s], s)
        BY <1>2, <3>2, <4>1 DEF RetryInv, Blocked
      <4>3. Blocked(store'[r], audit[s], s)
        BY <1>2, <3>1, <3>2, <4>1, <4>2, BlockedStep
      <4>4. Settles(audit[s], Reach(store'[r])) => Settles(audit'[s], Reach(store'[r]))
        BY <2>0, <3>2 DEF AuditGrows, Settles, IsTerminal
      <4> QED BY <4>3, <4>4 DEF Blocked
    <3>3. ASSUME NEW w \in Workers, StageStarts(w), worker[w].sid = s,
                 audit'[s].run = worker[w].run
          PROVE  Blocked(store'[r], audit'[s], s)
      BY <2>3, <3>1, <3>3 DEF Blocked
    <3> QED BY <2>2, <3>1, <3>2, <3>3
  <2>5. NoUnsafeRetry'
    <3>1. SUFFICES ASSUME NEW s \in Sids, NEW t \in Sids, s < t, audit'[s] # NoAudit,
                          audit'[t] # NoAudit, audit'[s].run = audit'[t].run
                   PROVE  IF audit'[s].status = "COMPLETED"
                          THEN audit'[s].stage < audit'[t].stage
                          ELSE /\ audit'[s].stage <= audit'[t].stage
                               /\ IsTerminal(audit'[s])
                               /\ ConfirmedClean(audit'[s])
      BY DEF NoUnsafeRetry
    <3>2. CASE audit[s] # NoAudit /\ audit[t] # NoAudit
      <4>1. audit[s].run = audit[t].run /\ audit'[t].stage = audit[t].stage
        BY <2>0, <3>1, <3>2 DEF AuditGrows
      <4>2. IF audit[s].status = "COMPLETED"
            THEN audit[s].stage < audit[t].stage
            ELSE /\ audit[s].stage <= audit[t].stage
                 /\ IsTerminal(audit[s])
                 /\ ConfirmedClean(audit[s])
        BY <1>2, <3>1, <3>2, <4>1 DEF NoUnsafeRetry
      <4>3. IsTerminal(audit[s])
        BY <4>2 DEF IsTerminal
      <4>4. audit'[s] = audit[s]
        BY <2>0, <3>2, <4>3 DEF AuditGrows
      <4> QED BY <4>1, <4>2, <4>4
    <3>3. ASSUME NEW w \in Workers, StageStarts(w), worker[w].sid = t,
                 audit'[t].run = worker[w].run, audit'[t].stage = worker[w].len,
                 audit[s] # NoAudit
          PROVE  Settles(audit'[s], audit'[t].stage)
      <4> DEFINE run == store[worker[w].run]
      <4>1. audit[s].run = worker[w].run /\ worker[w].run \in Runs /\ Present(run)
        BY <2>0, <2>3, <3>1, <3>3 DEF AuditGrows
      <4>2. Last(run).sid # s /\ Reach(run) = worker[w].len /\ worker[w].len \in Nat
        BY <2>0, <2>3, <3>1, <3>3
      <4>3. Settles(audit[s], worker[w].len)
        BY <1>2, <3>3, <4>1, <4>2 DEF RetryInv
      <4>4. audit'[s] = audit[s]
        BY <2>1, <3>3, <4>2, <4>3
      <4> QED BY <3>3, <4>3, <4>4
    <3>4. ASSUME NEW w \in Workers, StageStarts(w), worker[w].sid = s,
                 audit'[s].run = worker[w].run
          PROVE  FALSE
      <4>1. audit[t] # NoAudit
        <5>1. audit[t] = NoAudit => \E v \in Workers : StageStarts(v) /\ worker[v].sid = t
          BY <2>2, <3>1
        <5>2. \A v \in Workers : StageStarts(v) => v = w
          <6>1. ASSUME NEW v \in Workers, StageStarts(v), v # w PROVE FALSE
            <7>1. OnlyTask(w) /\ worker[v].pc = "start" /\ worker'[v].pc = "admitted"
              BY <1>2, <3>4, <6>1, StageStartsStep
            <7> QED BY <6>1, <7>1 DEF OnlyTask
          <6> QED BY <6>1
        <5> QED BY <2>0, <3>1, <3>4, <5>1, <5>2
      <4>2. audit[t].run = worker[w].run
        BY <2>0, <3>1, <3>4, <4>1 DEF AuditGrows
      <4> QED BY <2>0, <2>3, <3>1, <3>4, <4>1, <4>2
    <3>5. \A n : Settles(audit'[s], n) =>
             IF audit'[s].status = "COMPLETED" THEN audit'[s].stage < n
             ELSE audit'[s].stage <= n /\ IsTerminal(audit'[s]) /\ ConfirmedClean(audit'[s])
      BY DEF Settles
    <3> QED BY <2>2, <3>1, <3>2, <3>3, <3>4, <3>5
  <2> QED BY <2>4, <2>5
<1> QED BY <1>1, <1>2, SidCorrect, PTL DEF Spec

-----------------------------------------------------------------------------
(* A cancellation and the admission of a stage *)

\* A running scenario can be found in state.runs; a worker that waits has put
\* its scenario, which is admitted, in its control.
CancelInv ==
    /\ \A s \in Sids : phase[s] = "running" => s \in live
    /\ \A w \in Workers : worker[w].pc \in {"stop", "await"} =>
          current[w] = worker[w].sid /\ phase[worker[w].sid] # "queued"
    /\ CancelNotMissed

\* Two tasks in a stage have different scenario runs, if one is only starting.
LEMMA StartsOwnSid ==
    ASSUME TypeOK, Core, SidInv, NEW v \in Workers, NEW w \in Workers \ {v},
           worker[v].pc = "start", worker[w].pc \in {"stop", "await"}
    PROVE  worker[w].sid # worker[v].sid
<1> DEFINE run == store[worker[w].run]
<1>1. InExecute(w) /\ Busy(w) /\ worker[w].run \in Runs
  BY TaskKinds DEF InExecute, Busy, TypeOK
<1>2. Present(run)
  BY <1>1 DEF Core, SoleExecutor, Present, Pending
<1>3. run \in CampaignRun
  BY <1>1, <1>2, PresentTyped DEF Present, TypeOK, Store
<1>4. Len(run.results) \in 1..Len(run.results)
  BY <1>1, <1>3, ResultsTyped DEF Core, StageInv, StageOf
<1>5. run.results[Len(run.results)].sid = worker[w].sid
  BY <1>1 DEF Core, StageInv, StageOf, Last
<1>6. worker[w].run # worker[v].run
  BY <1>1, StartingStep
<1> QED BY <1>1, <1>2, <1>4, <1>5, <1>6 DEF SidInv, IntentFresh

\* A step that only moves task w to a place where it does not wait.
LEMMA CancelQuietStep ==
    ASSUME TypeOK, CancelInv, NEW w \in Workers, OnlyTask(w),
           worker'[w].pc \notin {"stop", "await"},
           cancelled' \subseteq cancelled, live' = live, cancelling' = cancelling,
           canceller' = canceller,
           \A v \in Workers \ {w} : current'[v] = current[v],
           \A s \in Sids : phase'[s] = phase[s] \/ phase'[s] = "none"
    PROVE  CancelInv'
<1>1. \A v \in Workers \ {w} : worker'[v] = worker[v]
  BY DEF OnlyTask
<1>2. \A v \in Workers : worker'[v].pc \in {"stop", "await"} =>
         /\ v # w /\ worker'[v] = worker[v] /\ worker[v].sid \in Sids
         /\ current'[v] = current[v]
  BY <1>1, TaskKinds DEF TypeOK, Executing
<1>3. CancelNotMissed'
  BY <1>2 DEF CancelInv, CancelNotMissed
<1> QED BY <1>2, <1>3 DEF CancelInv

\* Every step keeps what a cancellation has been promised.
LEMMA CancelInvStep ==
    ASSUME TypeOK, Core, SidInv, CancelInv, [Next]_vars
    PROVE  CancelInv'
<1>0. \A w \in Workers : worker[w].pc \in {"start", "admitted", "stop", "await"} =>
         worker[w] \in Executing /\ worker[w].sid \in Sids /\ worker[w].sid # NoSid
  BY TaskKinds DEF TypeOK, Executing, Sids, NoSid
<1>1. CASE Crash
  BY <1>1 DEF Crash, CancelInv, CancelNotMissed, Idle
<1>2. ASSUME NEW w \in Workers, NEW r \in Runs, RunCampaign(w, r) \/ ResumeCampaignRun(w, r)
      PROVE  CancelInv'
  <2>1. /\ OnlyTask(w) /\ worker'[w].pc \in {"new", "resume"}
        /\ cancelled' \subseteq cancelled /\ live' = live /\ cancelling' = cancelling
        /\ canceller' = canceller /\ phase' = phase
        /\ \A v \in Workers \ {w} : current'[v] = current[v]
    BY <1>2 DEF RunCampaign, ResumeCampaignRun, Spawn, OnlyTask, TypeOK, scenVars
  <2> QED BY <2>1, CancelQuietStep
<1>3. ASSUME NEW w \in Workers,
             \/ Admit(w) \/ AdmitFails(w) \/ Unregister(w) \/ UpdateFails(w)
             \/ StopBeforeStage(w) \/ BeginStage(w) \/ StopAtIntent(w) \/ StageRefused(w)
             \/ Settle(w) \/ CommitStage(w) \/ NothingLeft(w)
      PROVE  CancelInv'
  <2>1. /\ OnlyTask(w)
        /\ worker'[w].pc \in {"idle", "loop", "leaving", "recheck", "settle", "commit"}
        /\ cancelled' \subseteq cancelled
        /\ UNCHANGED <<current, phase, live, cancelling, canceller>>
    BY <1>3 DEF Admit, AdmitFails, Unregister, UpdateFails, StopBeforeStage, BeginStage,
                StopAtIntent, StageRefused, Settle, CommitStage, NothingLeft, Leave, Settled,
                Idle, OnlyTask, TypeOK, Locals, ctlVars, scenVars
  <2> QED BY <2>1, CancelQuietStep
<1>4. ASSUME NEW w \in Workers, Recheck(w) PROVE CancelInv'
  <2>1. /\ OnlyTask(w) /\ worker'[w].pc \notin {"stop", "await"}
        /\ UNCHANGED <<cancelled, current, phase, live, cancelling, canceller>>
    <3>1. worker[w] \in Executing /\ worker' = [worker EXCEPT ![w] = [@ EXCEPT !.pc = "start"]]
      BY <1>4, TaskKinds DEF TypeOK, Recheck
    <3> QED BY <1>4, <3>1, PcChange DEF Recheck, OnlyTask, TypeOK, Locals, ctlVars, scenVars
  <2> QED BY <2>1, CancelQuietStep
<1>5. ASSUME NEW w \in Workers, StageEnds(w) PROVE CancelInv'
  <2>1. /\ OnlyTask(w) /\ worker'[w].pc = "settle"
        /\ UNCHANGED <<cancelled, live, cancelling, canceller>>
        /\ \A v \in Workers \ {w} : current'[v] = current[v]
        /\ \A s \in Sids : phase'[s] = phase[s] \/ phase'[s] = "none"
    BY <1>5 DEF StageEnds, Settled, OnlyTask, TypeOK
  <2> QED BY <2>1, CancelQuietStep
<1>6. ASSUME NEW w \in Workers, StageStarts(w) PROVE CancelInv'
  <2>1. /\ OnlyTask(w) /\ worker'[w].pc = "admitted" /\ worker[w].pc = "start"
    BY <1>6, StageStartsStep
  <2>2. /\ phase' = [phase EXCEPT ![worker[w].sid] = "queued"]
        /\ UNCHANGED <<current, cancelled, live, cancelling, canceller>>
    BY <1>6 DEF StageStarts, ctlVars
  <2>3. \A v \in Workers : worker'[v].pc \in {"stop", "await"} =>
           /\ worker'[v] = worker[v] /\ worker[v].sid \in Sids
           /\ phase'[worker[v].sid] = phase[worker[v].sid]
    <3>1. SUFFICES ASSUME NEW v \in Workers, worker'[v].pc \in {"stop", "await"}
                   PROVE  /\ worker'[v] = worker[v] /\ worker[v].sid \in Sids
                          /\ phase'[worker[v].sid] = phase[worker[v].sid]
      OBVIOUS
    <3>2. v # w /\ worker'[v] = worker[v]
      BY <2>1, <3>1 DEF OnlyTask
    <3>3. worker[v].sid # worker[w].sid /\ worker[v].sid \in Sids
      BY <1>0, <2>1, <3>1, <3>2, StartsOwnSid
    <3> QED BY <2>2, <3>2, <3>3 DEF TypeOK
  <2>4. \A s \in Sids : phase'[s] = "running" => phase[s] = "running"
    BY <2>2 DEF TypeOK
  <2>5. CancelNotMissed'
    BY <2>2, <2>3 DEF CancelInv, CancelNotMissed
  <2> QED BY <2>2, <2>3, <2>4, <2>5 DEF CancelInv
<1>7. ASSUME NEW w \in Workers, SetCurrent(w) PROVE CancelInv'
  <2>1. /\ worker[w] \in Executing /\ worker[w].sid \in Sids
        /\ phase[worker[w].sid] # "queued"
    BY <1>0, <1>7 DEF SetCurrent
  <2>2. /\ worker' = [worker EXCEPT ![w] =
                        [@ EXCEPT !.pc = IF w \in cancelled THEN "stop" ELSE "await"]]
        /\ current' = [current EXCEPT ![w] = worker[w].sid]
        /\ UNCHANGED <<cancelled, phase, live, cancelling, canceller>>
    BY <1>7 DEF SetCurrent, scenVars
  <2>3. /\ worker'[w].sid = worker[w].sid /\ current'[w] = worker[w].sid
        /\ worker'[w].pc = IF w \in cancelled THEN "stop" ELSE "await"
        /\ \A v \in Workers \ {w} : worker'[v] = worker[v] /\ current'[v] = current[v]
    BY <2>1, <2>2, PcChange DEF TypeOK
  <2>4. CancelNotMissed'
    BY <2>2, <2>3 DEF CancelInv, CancelNotMissed
  <2> QED BY <2>1, <2>2, <2>3, <2>4 DEF CancelInv
<1>8. ASSUME NEW w \in Workers, StopStage(w) PROVE CancelInv'
  <2>1. worker[w] \in Executing /\ worker[w].sid \in Sids /\ worker[w].pc = "stop"
    BY <1>0, <1>8 DEF StopStage
  <2>2. /\ worker' = [worker EXCEPT ![w] = [@ EXCEPT !.pc = "await"]]
        /\ cancelling' = cancelling \cup ({worker[w].sid} \cap live)
        /\ UNCHANGED <<cancelled, current, phase, live, canceller>>
    BY <1>8 DEF StopStage, CancelScenario, ctlVars
  <2>3. /\ worker'[w].sid = worker[w].sid /\ worker'[w].pc = "await"
        /\ \A v \in Workers \ {w} : worker'[v] = worker[v]
    BY <2>1, <2>2, PcChange DEF TypeOK
  <2>4. phase[worker[w].sid] = "running" => worker[w].sid \in cancelling'
    BY <2>1, <2>2 DEF CancelInv
  <2>5. CancelNotMissed'
    BY <2>2, <2>3, <2>4 DEF CancelInv, CancelNotMissed
  <2> QED BY <2>1, <2>2, <2>3, <2>5 DEF CancelInv
<1>9. ASSUME NEW s \in Sids,
             ScenarioAdmitted(s) \/ ScenarioEnds(s) \/ ScenarioUnrecorded(s) \/ CancelRun(s)
      PROVE  CancelInv'
  <2>1. UNCHANGED <<worker, cancelled, current, canceller>>
    BY <1>9 DEF ScenarioAdmitted, ScenarioEnds, ScenarioUnrecorded, CancelRun, Quiet, Others,
                ctlVars
  <2>2. \/ /\ phase[s] = "queued" /\ phase' = [phase EXCEPT ![s] = "running"]
           /\ live' = live \cup {s} /\ cancelling' = cancelling
        \/ /\ phase' \in {[phase EXCEPT ![s] = "ok"], [phase EXCEPT ![s] = "error"]}
           /\ live \ {s} \subseteq live' /\ cancelling \ {s} \subseteq cancelling'
        \/ phase' = phase /\ live' = live /\ cancelling \subseteq cancelling'
    BY <1>9 DEF ScenarioAdmitted, ScenarioEnds, ScenarioUnrecorded, CancelRun, CancelScenario,
                Others
  <2>3. \A t \in Sids : phase'[t] = "running" =>
           \/ t = s /\ phase[t] = "queued" /\ t \in live'
           \/ phase[t] = "running" /\ (t \in live => t \in live')
              /\ (t \in cancelling => t \in cancelling')
    BY <2>2 DEF TypeOK
  <2>4. \A t \in Sids : phase'[t] = "queued" => phase[t] = "queued"
    BY <2>2 DEF TypeOK
  <2>5. CancelNotMissed'
    BY <1>0, <2>1, <2>3 DEF CancelInv, CancelNotMissed
  <2> QED BY <1>0, <2>1, <2>3, <2>4, <2>5 DEF CancelInv
<1>10. ASSUME NEW c \in Cancellers, \/ AbortAll(c) \/ CancelStep(c)
                                    \/ \E r \in Runs : CancelCampaignRun(c, r)
       PROVE  CancelInv'
  <2>1. /\ UNCHANGED <<worker, phase, live>> /\ cancelling \subseteq cancelling'
        /\ \A d \in Cancellers \ {c} : canceller'[d] = canceller[d]
    BY <1>10 DEF AbortAll, CancelStep, CancelCampaignRun, AbortCampaigns, CancelLookup,
                 CancelControl, CancelStage, CancelScenario, Others, Goto, TypeOK
  <2>2. UNCHANGED current
    BY <1>10 DEF AbortAll, CancelStep, CancelCampaignRun, AbortCampaigns, CancelLookup,
                 CancelControl, CancelStage
  <2>3. CASE UNCHANGED cancelled /\ canceller[c].state # "stage"
    <3>1. CancelNotMissed'
      BY <2>1, <2>3 DEF CancelInv, CancelNotMissed
    <3> QED BY <2>1, <2>2, <3>1 DEF CancelInv
  <2>4. CASE CancelControl(c)
    <3> DEFINE w == canceller[c].worker
    <3>1. canceller[c].state = "control" /\ cancelled' = cancelled \cup {w}
      BY <2>4 DEF CancelControl
    <3>2. current[w] # NoSid =>
             canceller'[c] = [state |-> "stage", todo |-> canceller[c].todo, sid |-> current[w]]
      BY <2>4 DEF CancelControl, Goto, TypeOK
    <3>3. CancelNotMissed'
      <4>1. SUFFICES ASSUME NEW v \in Workers, v \in cancelled', worker[v].pc = "await",
                            phase[worker[v].sid] = "running"
                     PROVE  \/ worker[v].sid \in cancelling'
                            \/ \E d \in Cancellers : /\ canceller'[d].state = "stage"
                                                     /\ canceller'[d].sid = worker[v].sid
        BY <2>1 DEF CancelNotMissed
      <4>2. CASE v \in cancelled
        BY <2>1, <3>1, <4>1, <4>2 DEF CancelInv, CancelNotMissed
      <4>3. CASE v = w
        <5>1. current[w] = worker[v].sid /\ current[w] # NoSid
          BY <1>0, <4>1, <4>3 DEF CancelInv
        <5> QED BY <3>2, <5>1
      <4> QED BY <3>1, <4>1, <4>2, <4>3
    <3> QED BY <2>1, <2>2, <3>3 DEF CancelInv
  <2>5. CASE CancelStage(c)
    <3>1. cancelling' = cancelling \cup ({canceller[c].sid} \cap live) /\ UNCHANGED cancelled
      BY <2>5 DEF CancelStage, CancelScenario
    <3>2. CancelNotMissed'
      BY <1>0, <2>1, <3>1 DEF CancelInv, CancelNotMissed
    <3> QED BY <2>1, <2>2, <3>2 DEF CancelInv
  <2>6. \/ UNCHANGED cancelled /\ canceller[c].state # "stage"
        \/ CancelControl(c) \/ CancelStage(c)
    <3>1. NoCancel.state = "idle"
      BY DEF NoCancel
    <3>2. AbortAll(c) \/ (\E r \in Runs : CancelCampaignRun(c, r)) =>
             UNCHANGED cancelled /\ canceller[c].state # "stage"
      BY <3>1 DEF AbortAll, CancelCampaignRun
    <3>3. AbortCampaigns(c) \/ CancelLookup(c) =>
             UNCHANGED cancelled /\ canceller[c].state # "stage"
      BY DEF AbortCampaigns, CancelLookup
    <3> QED BY <1>10, <3>2, <3>3 DEF CancelStep
  <2> QED BY <2>3, <2>4, <2>5, <2>6
<1>11. CASE UNCHANGED vars
  BY <1>11 DEF vars, CancelInv, CancelNotMissed
<1> QED BY <1>1, <1>2, <1>3, <1>4, <1>5, <1>6, <1>7, <1>8, <1>9, <1>10, <1>11
        DEF Next, WorkerStep

\* A cancel request and the admission of a stage cannot miss each other: the
\* flag and the current stage change under one lock (CampaignControl).
THEOREM CancelCorrect == Spec => []CancelNotMissed
<1>1. Init => CancelInv
  BY DEF Init, CancelInv, CancelNotMissed, Idle
<1>2. TypeOK /\ Core /\ SidInv /\ CancelInv /\ [Next]_vars => CancelInv'
  BY CancelInvStep
<1>3. CancelInv => CancelNotMissed
  BY DEF CancelInv
<1> QED BY <1>1, <1>2, <1>3, SidCorrect, PTL DEF Spec

-----------------------------------------------------------------------------
(* What a step may never do to a stored run *)

\* How a run that is stored changes.
LEMMA ChangesStep ==
    ASSUME TypeOK, Core, [Next]_vars, NEW r \in Runs
    PROVE  /\ store[r].status \in Finished => store'[r] \in {store[r], NoRun}
           /\ Present(store[r]) /\ store[r].status \notin Finished /\ ~Present(store'[r])
                 => Finishing(r)
<1> DEFINE Goal == /\ store[r].status \in Finished => store'[r] \in {store[r], NoRun}
                   /\ Present(store[r]) /\ store[r].status \notin Finished /\ ~Present(store'[r])
                         => Finishing(r)
<1>1. Kept(r) => Goal
  BY DEF Kept, Present, NoRun
<1>2. ASSUME NEW w \in Workers, OnlyRun(worker[w].run),
             worker[w].run = r => store[r].status \notin Finished,
             worker[w].run = r =>
                Present(store'[r]) \/ ~Present(store[r]) \/ worker[w].pc = "commit"
                  \/ (worker[w].pc = "loop" /\ worker[w].len = Steps)
      PROVE  Goal
  BY <1>1, <1>2 DEF OnlyRun, Finishing
<1>3. CASE Crash
  <2>1. /\ store'[r] = Interrupted(store[r])
        /\ Present(store[r]) => Present(store'[r])
    BY <1>3, CrashStep DEF CampaignRun, Statuses, Present
  <2>2. store[r].status \in Finished => Interrupted(store[r]) = store[r]
    BY DEF Interrupted, Finished, Pending
  <2> QED BY <2>1, <2>2
<1>4. CASE UNCHANGED store
  BY <1>1, <1>4 DEF Kept
<1>5. \A w \in Workers, q \in Runs : RunCampaign(w, q) \/ ResumeCampaignRun(w, q) => UNCHANGED store
  BY DEF RunCampaign, ResumeCampaignRun
<1>6. \A w \in Workers : AdmitFails(w) \/ UpdateFails(w) \/ Unregister(w) \/ Moves(w)
                            => UNCHANGED store
  BY LeaveStep, MoveStep DEF Moves, Unregister
<1>7. ASSUME NEW w \in Workers, Admit(w), worker[w].pc = "new" PROVE Goal
  <2>1. OnlyRun(worker[w].run) /\ store[worker[w].run] = NoRun
    BY <1>7, AdmitNewStep DEF Core, Registered, Busy
  <2> QED BY <1>2, <2>1 DEF Present, NoRun, Finished
<1>8. ASSUME NEW w \in Workers, Admit(w), worker[w].pc = "resume" PROVE Goal
  <2> DEFINE q == worker[w].run
  <2>1. q \in Runs /\ Present(store[q])
    BY <1>8, TaskKinds DEF Admit, TypeOK
  <2>2. \A k \in 1..(Len(store[q].results) - 1) : store[q].results[k].status = "COMPLETED"
    BY <2>1, PresentTyped, ValidRun DEF Core, SnapshotLoads, Present, TypeOK, Store
  <2>3. OnlyRun(q) /\ Resumable(store[q], audit) /\ store'[q].status = "QUEUED"
    BY <1>8, <2>2, AdmitResumeStep
  <2> QED BY <1>2, <2>3 DEF Resumable, Retained, Finished, Present
<1>9. ASSUME NEW w \in Workers, InExecute(w), OnlyRun(worker[w].run),
             worker[w].run = r =>
                Present(store'[r]) \/ worker[w].pc = "commit"
                  \/ (worker[w].pc = "loop" /\ worker[w].len = Steps)
      PROVE  Goal
  <2>1. store[worker[w].run].status \notin Finished
    BY <1>9 DEF Core, SoleExecutor, Pending, Finished
  <2> QED BY <1>2, <1>9, <2>1
<1>10. ASSUME NEW w \in Workers, BeginStage(w) PROVE Goal
  <2>1. /\ OnlyRun(worker[w].run) /\ store'[worker[w].run].status = "RUNNING"
        /\ worker[w].pc = "loop"
    BY <1>10, BeginStageStep
  <2> QED BY <1>9, <2>1 DEF InExecute, Present
<1>11. ASSUME NEW w \in Workers, StopBeforeStage(w) \/ NothingLeft(w) PROVE Goal
  <2> DEFINE q == worker[w].run
  <2>1. /\ q \in Runs /\ OnlyRun(q) /\ worker[w].pc = "loop" /\ store[q] \in CampaignRun
        /\ \/ store'[q] \in CampaignRun
           \/ ~(worker[w].len < Steps)
    BY <1>11, StatusStep
  <2>2. Present(store[q]) /\ worker[w].len = Len(store[q].results)
    BY <2>1 DEF Core, SoleExecutor, InExecute, Present, Pending
  <2>3. Len(store[q].results) <= Steps /\ Len(store[q].results) \in Nat
    BY <2>1, <2>2, ValidRun, ResultsTyped DEF Core, SnapshotLoads
  <2>4. store'[q] \in CampaignRun => Present(store'[q])
    BY DEF CampaignRun, Statuses, Present
  <2> QED BY <1>9, <2>1, <2>2, <2>3, <2>4, StepsAssumption DEF InExecute
<1>12. ASSUME NEW w \in Workers, StopAtIntent(w) PROVE Goal
  <2>1. Len(store[worker[w].run].results) > 0 /\ worker[w].pc = "recheck"
    BY <1>12 DEF Core, StageInv, StageOf, InExecute, StopAtIntent
  <2>2. OnlyRun(worker[w].run) /\ store'[worker[w].run].status = "CANCELLED"
    BY <1>12, <2>1, LastStep DEF StopAtIntent, CommitStage
  <2> QED BY <1>9, <2>1, <2>2 DEF InExecute, Present
<1>13. ASSUME NEW w \in Workers, CommitStage(w) PROVE Goal
  <2>1. Len(store[worker[w].run].results) > 0 /\ worker[w].pc = "commit"
    BY <1>13 DEF Core, StageInv, StageOf, InExecute, CommitStage
  <2>2. OnlyRun(worker[w].run)
    BY <1>13, <2>1, LastStep
  <2> QED BY <1>9, <2>1, <2>2 DEF InExecute
<1>14. Outside => UNCHANGED store
  BY OutsideStep
<1> QED BY <1>3, <1>4, <1>5, <1>6, <1>7, <1>8, <1>10, <1>11, <1>12, <1>13, <1>14, NextSteps

\* A completed or failed run never changes again, it can only be pruned: no
\* worker that lags behind and no resume rewrites it (update, prepare_resume).
THEOREM FinishedCorrect == Spec => FinishedIsFinal
<1>1. TypeOK /\ Core /\ [Next]_vars =>
         [\A r \in Runs : store[r].status \in Finished => store'[r] \in {store[r], NoRun}]_vars
  BY ChangesStep
<1> QED BY <1>1, CoreCorrect, PTL DEF Spec, FinishedIsFinal

\* prune never takes a run that is under way or may be resumed, except in the
\* transaction that finishes it (prune, update).
THEOREM KeptCorrect == Spec => ResumableIsKept
<1>1. TypeOK /\ Core /\ [Next]_vars =>
         [\A r \in Runs : (Present(store[r]) /\ store[r].status \notin Finished
                             /\ ~Present(store'[r])) => Finishing(r)]_vars
  BY ChangesStep
<1> QED BY <1>1, CoreCorrect, PTL DEF Spec, ResumableIsKept
=============================================================================
