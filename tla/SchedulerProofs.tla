-------------------------- MODULE SchedulerProofs --------------------------
(***************************************************************************)
(* Theorems about Scheduler, for every set of jobs and of operators, every *)
(* length of the histories, and every kind of failure.                     *)
(***************************************************************************)
EXTENDS Scheduler, SequenceTheorems, TLAPS

-----------------------------------------------------------------------------
(* The inductive invariants *)

\* Where the task is: it writes only an outcome that it has, and claims new jobs
\* only when the claims of the last round are done.  An outcome without a run
\* has no feedback.  A run in execution is in the audit.
TaskInv ==
    /\ pc = "write" => pending # <<>> /\ (Head(pending).sid = NoSid => seen = NoAudit)
    /\ pc = "await" => claim # NoClaim
    /\ pc \in {"boot", "tick", "claim"} => todo = {}
    /\ pc \in {"flush", "write"} /\ context = "poll" => todo = {}
    /\ \A k \in 1..Len(pending) : pending[k].kind = "skipped" => pending[k].sid = NoSid
    /\ \A s \in running : audit[s] # NoAudit

\* The generations and the runs that were handed out.
IssuedInv ==
    /\ \A j \in Jobs : Exists(j) => jobs[j].gen < nextGen
    /\ \A c \in todo : c.gen < nextGen
    /\ \A s \in Sids : s < nextSid => origin[s] # NoClaim /\ origin[s].gen < nextGen

\* Run s is in the history of a job.
Has(job, s) == \E k \in 1..Len(job.history) : job.history[k].sid = s

\* No run is there twice.
Distinct(job) ==
    \A k, i \in 1..Len(job.history) :
        job.history[k].sid # NoSid /\ i # k => job.history[i].sid # job.history[k].sid

Unseen(s) == \A j \in Jobs : Exists(j) => ~Has(jobs[j], s)

\* A run is in one place: the history of its job, the queue, or in execution.
StoredInv ==
    \A j \in Jobs : Exists(j) =>
        /\ Distinct(jobs[j])
        /\ \A s \in Sids : Has(jobs[j], s) =>
              s < nextSid /\ origin[s] = [job |-> j, gen |-> jobs[j].gen]

QueueInv ==
    \A k \in 1..Len(pending) :
        pending[k].sid # NoSid =>
            /\ pending[k].sid < nextSid
            /\ origin[pending[k].sid] = [job |-> pending[k].job, gen |-> pending[k].gen]
            /\ \A i \in 1..Len(pending) : i # k => pending[i].sid # pending[k].sid
            /\ Unseen(pending[k].sid)

ClaimInv ==
    pc = "await" =>
        /\ claim.sid < nextSid
        /\ origin[claim.sid] = [job |-> claim.job, gen |-> claim.gen]
        /\ \A i \in 1..Len(pending) : pending[i].sid # claim.sid
        /\ Unseen(claim.sid)

PlaceInv == StoredInv /\ QueueInv /\ ClaimInv

\* Every run of a job that was not replaced is on its way, or has been stored.
AttemptInv ==
    \A s \in Sids :
        LET j == origin[s].job
        IN  s < nextSid /\ Exists(j) /\ jobs[j].gen = origin[s].gen =>
               \/ pc = "await" /\ claim.sid = s
               \/ \E k \in 1..Len(pending) : pending[k].sid = s
               \/ Has(jobs[j], s)
               \/ Len(jobs[j].history) = MaxHistory

-----------------------------------------------------------------------------
(* The bounded queues *)

\* A bounded queue keeps its newest entries, in their order.
LEMMA TruncatedSeq ==
    ASSUME NEW S, NEW seq \in Seq(S), NEW n \in Nat
    PROVE  LET t == Truncated(seq, n)
               d == IF Len(seq) > n THEN Len(seq) - n ELSE 0
           IN  /\ t \in Seq(S)
               /\ Len(t) = Len(seq) - d
               /\ Len(t) <= n
               /\ \A k \in 1..Len(t) : t[k] = seq[k + d]
  <1>1. Len(seq) \in Nat /\ \A k \in 1..Len(seq) : seq[k] \in S
    BY LenProperties, ElementOfSeq
  <1>2. CASE Len(seq) > n
    <2> DEFINE m == Len(seq) - n + 1
    <2>1. m \in Int /\ Len(seq) \in Int /\ \A k \in m..Len(seq) : seq[k] \in S
      BY <1>1, <1>2
    <2>2. Len(seq) - m + 1 = n /\ m <= Len(seq) + 1
      BY <1>1, <1>2
    <2> HIDE DEF m
    <2>3. /\ SubSeq(seq, m, Len(seq)) \in Seq(S)
          /\ Len(SubSeq(seq, m, Len(seq))) = IF m <= Len(seq) THEN Len(seq) - m + 1 ELSE 0
          /\ \A i \in 1..(Len(seq) - m + 1) : SubSeq(seq, m, Len(seq))[i] = seq[m + i - 1]
      BY <2>1, SubSeqProperties
    <2>4. Len(SubSeq(seq, m, Len(seq))) = n
      BY <2>1, <2>2, <2>3
    <2>5. \A i \in 1..n : m + i - 1 = i + (Len(seq) - n)
      BY <1>1, <1>2 DEF m
    <2>6. Truncated(seq, n) = SubSeq(seq, m, Len(seq))
      BY <1>2 DEF Truncated, m
    <2> QED BY <1>1, <1>2, <2>2, <2>3, <2>4, <2>5, <2>6
  <1>3. CASE ~(Len(seq) > n)
    BY <1>1, <1>3 DEF Truncated
  <1> QED BY <1>2, <1>3

\* t is seq with e at its end, and may have lost the first entry.
Pushed(seq, e, t, n) ==
    \E d \in {0, 1} :
        /\ Len(t) = Len(seq) + 1 - d
        /\ d = 1 => Len(t) = n
        /\ \A k \in 1..Len(t) : t[k] = IF k + d = Len(seq) + 1 THEN e ELSE seq[k + d]

\* One more entry in a queue that was within its bound drops one at most.
LEMMA AppendedSeq ==
    ASSUME NEW S, NEW seq \in Seq(S), NEW n \in Nat, Len(seq) <= n, NEW e \in S
    PROVE  LET t == Truncated(Append(seq, e), n)
           IN  /\ t \in Seq(S)
               /\ Len(t) <= n
               /\ Pushed(seq, e, t, n)
  <1> DEFINE s1 == Append(seq, e)
             d  == IF Len(s1) > n THEN Len(s1) - n ELSE 0
             t  == Truncated(s1, n)
  <1>1. s1 \in Seq(S) /\ Len(s1) = Len(seq) + 1 /\ Len(seq) \in Nat
    BY LenProperties
  <1>2. \A k \in 1..Len(s1) : s1[k] = IF k = Len(seq) + 1 THEN e ELSE seq[k]
    BY <1>1
  <1>3. d \in {0, 1} /\ (d = 1 => Len(s1) - d = n)
    BY <1>1
  <1> HIDE DEF s1
  <1>4. /\ t \in Seq(S) /\ Len(t) = Len(s1) - d /\ Len(t) <= n
        /\ \A k \in 1..Len(t) : t[k] = s1[k + d]
    BY <1>1, TruncatedSeq
  <1> HIDE DEF t, d
  <1>5. \A k \in 1..Len(t) : k + d \in 1..Len(s1)
    BY <1>1, <1>3, <1>4
  <1>6. \A k \in 1..Len(t) : t[k] = IF k + d = Len(seq) + 1 THEN e ELSE seq[k + d]
    BY <1>2, <1>4, <1>5
  <1>7. t \in Seq(S) /\ Len(t) <= n /\ d \in {0, 1} /\ Len(t) = Len(seq) + 1 - d /\ (d = 1 => Len(t) = n)
    BY <1>1, <1>3, <1>4
  <1>8. t = Truncated(Append(seq, e), n)
    BY DEF t, s1
  <1> HIDE DEF t
  <1>9. Pushed(seq, e, t, n)
    BY <1>6, <1>7 DEF Pushed
  <1> QED BY <1>7, <1>8, <1>9

-----------------------------------------------------------------------------
(* One job *)

USE JobsAssumption, MttdsAssumption, BoundsAssumption

\* A stored job.
Stored(job) == job \in ScheduledJob /\ Len(job.history) <= MaxHistory

\* The histories of the two jobs are of the same runs.
SameRuns(old, new) ==
    /\ Len(new.history) = Len(old.history)
    /\ \A k \in 1..Len(old.history) : new.history[k].sid = old.history[k].sid

\* The history of the new job has run s last, and may have lost its first entry.
OneMore(old, new, s) ==
    Pushed(old.history, [sid |-> s, verdict |-> NoVerdict], new.history, MaxHistory)

\* Feedback v reached an entry of run s, and the job if that run is its latest.
Heard(old, new, s, v) ==
    \E n \in 1..Len(old.history) :
        /\ old.history[n].sid = s
        /\ new.history[n].verdict = v
        /\ \A k \in 1..Len(old.history) : k # n => new.history[k] = old.history[k]
        /\ old.lastRun # s => /\ new.mttd = old.mttd /\ new.baseline = old.baseline
                              /\ new.health = old.health
        /\ old.lastRun = s => /\ new.mttd = IF v.detected = "yes" THEN {v.mttd} ELSE {}
                              /\ new.health = Health(new.baseline, v)

\* The fields of a job and their types.
LEMMA JobFields ==
    ASSUME NEW job \in ScheduledJob
    PROVE  /\ job.gen \in Gens
           /\ job.state \in {"enabled", "disabled"}
           /\ job.status \in {"NONE", "RUNNING", "ENDED"}
           /\ job.lastRun \in Sids \cup {NoSid}
           /\ job.mttd \subseteq Mttds
           /\ job.baseline \subseteq Mttds
           /\ job.health \in {"ok", "slow", "missed"}
           /\ job.history \in Seq(Sample)
           /\ Len(job.history) \in Nat
           /\ DOMAIN job.history = 1..Len(job.history)
           /\ \A k \in 1..Len(job.history) : job.history[k] \in Sample
  <1>1. job.history \in Seq(Sample)
    BY DEF ScheduledJob
  <1>2. Len(job.history) \in Nat /\ DOMAIN job.history = 1..Len(job.history)
    BY <1>1, LenProperties
  <1>3. \A k \in 1..Len(job.history) : job.history[k] \in Sample
    BY <1>1, ElementOfSeq
  <1> QED BY <1>1, <1>2, <1>3 DEF ScheduledJob

\* A run that ended is the last of its job, and has no detection time yet.
LEMMA AppliedRun ==
    ASSUME NEW job, Stored(job), NEW o \in Outcome, o.kind = "run"
    PROVE  LET new == Applied(job, o)
           IN  /\ Stored(new)
               /\ new.gen = job.gen /\ new.state = job.state /\ new.status = "ENDED"
               /\ new.lastRun = o.sid /\ new.mttd = {}
               /\ new.baseline = job.baseline /\ new.health = job.health
               /\ OneMore(job, new, o.sid)
  <1> DEFINE e == [sid |-> o.sid, verdict |-> NoVerdict]
             h == Truncated(Append(job.history, e), MaxHistory)
             new == [job EXCEPT !.status = "ENDED", !.lastRun = o.sid, !.mttd = {}, !.history = h]
  <1>1. job \in ScheduledJob /\ Len(job.history) <= MaxHistory /\ MaxHistory \in Nat
    BY DEF Stored
  <1>2. o.sid \in Sids \cup {NoSid} /\ e \in Sample
    BY DEF Outcome, Sample
  <1> HIDE DEF e
  <1>3. job.history \in Seq(Sample)
    BY <1>1, JobFields
  <1>4. /\ h \in Seq(Sample) /\ Len(h) <= MaxHistory
        /\ Pushed(job.history, e, h, MaxHistory)
    <2> DEFINE q == job.history
    <2>1. q \in Seq(Sample) /\ Len(q) <= MaxHistory /\ MaxHistory \in Nat /\ e \in Sample
      BY <1>1, <1>2, <1>3
    <2> HIDE DEF q
    <2>2. /\ Truncated(Append(q, e), MaxHistory) \in Seq(Sample)
          /\ Len(Truncated(Append(q, e), MaxHistory)) <= MaxHistory
          /\ Pushed(q, e, Truncated(Append(q, e), MaxHistory), MaxHistory)
      BY <2>1, AppendedSeq
    <2> QED BY <2>2 DEF q
  <1>5. Applied(job, o) = new
    BY DEF Applied, e
  <1> HIDE DEF h
  <1>6. /\ new \in ScheduledJob
        /\ new.gen = job.gen /\ new.state = job.state /\ new.status = "ENDED"
        /\ new.lastRun = o.sid /\ new.mttd = {}
        /\ new.baseline = job.baseline /\ new.health = job.health /\ new.history = h
    BY <1>1, <1>2, <1>4 DEF ScheduledJob
  <1> HIDE DEF new
  <1>7. OneMore(job, new, o.sid)
    BY <1>4, <1>6 DEF OneMore, e
  <1>8. Stored(new)
    BY <1>4, <1>6 DEF Stored
  <1> QED BY <1>5, <1>6, <1>7, <1>8

\* A claim that was skipped ends, and leaves no entry.
LEMMA AppliedSkipped ==
    ASSUME NEW job, Stored(job), NEW o \in Outcome, o.kind = "skipped"
    PROVE  LET new == Applied(job, o)
           IN  /\ Stored(new)
               /\ new.gen = job.gen /\ new.state = job.state /\ new.status = "ENDED"
               /\ new.lastRun = job.lastRun /\ new.mttd = job.mttd
               /\ new.baseline = job.baseline /\ new.health = job.health
               /\ new.history = job.history
  BY DEF Applied, Stored, ScheduledJob

\* Feedback on run s: the first entry of that run has its verdict, and when the
\* run is the latest of the job, so has the job.
LEMMA ObservedJob ==
    ASSUME NEW job, Stored(job), NEW s \in Sids, NEW v \in Verdict
    PROVE  LET new == Observed(job, s, v)
           IN  /\ Stored(new)
               /\ new.gen = job.gen /\ new.state = job.state /\ new.status = job.status
               /\ new.lastRun = job.lastRun
               /\ SameRuns(job, new)
               /\ new = job \/ Heard(job, new, s, v)
  <1> DEFINE found    == Outdated(job, s, v)
             baseline == IF job.baseline = {} /\ v.mttd > 0 THEN {v.mttd} ELSE job.baseline
             mttd     == IF v.detected = "yes" THEN {v.mttd} ELSE {}
             health   == Health(baseline, v)
             noted    == [k \in DOMAIN job.history |->
                            IF k \in found THEN [job.history[k] EXCEPT !.verdict = v]
                            ELSE job.history[k]]
             new      == Observed(job, s, v)
  <1>1. job \in ScheduledJob /\ Len(job.history) <= MaxHistory
    BY DEF Stored
  <1>2. /\ job.history \in Seq(Sample) /\ Len(job.history) \in Nat
        /\ DOMAIN job.history = 1..Len(job.history)
        /\ \A k \in 1..Len(job.history) : job.history[k] \in Sample
    BY <1>1, JobFields
  <1>3. SameRuns(job, job)
    BY DEF SameRuns
  <1>4. CASE found = {}
    BY <1>1, <1>3, <1>4 DEF Observed, Stored
  <1>5. CASE found # {}
    <2>1. PICK n \in 1..Len(job.history) : n \in found
      BY <1>2, <1>5 DEF Outdated
    <2>2. /\ job.history[n].sid = s
          /\ \A i \in 1..(n - 1) : job.history[i].sid # s
      BY <2>1 DEF Outdated
    <2>3. \A k \in found : k \in 1..Len(job.history) /\ job.history[k].sid = s
                           /\ \A i \in 1..(k - 1) : job.history[i].sid # s
      BY <1>2 DEF Outdated
    <2>4. \A k \in found : k = n
      <3>1. SUFFICES ASSUME NEW k \in found, k # n PROVE FALSE
        OBVIOUS
      <3>2. k \in 1..Len(job.history)
        BY <2>3
      <3>3. k \in 1..(n - 1) \/ n \in 1..(k - 1)
        BY <1>2, <3>1, <3>2
      <3> QED BY <2>2, <2>3, <3>3
    <2>5. found = {n}
      BY <2>1, <2>4
    <2> HIDE DEF found
    <2>6. \A k \in 1..Len(job.history) :
             noted[k] = IF k = n THEN [job.history[k] EXCEPT !.verdict = v] ELSE job.history[k]
      BY <1>2, <2>5
    <2>7. /\ [job.history[n] EXCEPT !.verdict = v] \in Sample
          /\ [job.history[n] EXCEPT !.verdict = v].sid = job.history[n].sid
          /\ [job.history[n] EXCEPT !.verdict = v].verdict = v
      BY <1>2 DEF Sample
    <2>8. noted \in [1..Len(job.history) -> Sample]
      BY <1>2, <2>6, <2>7
    <2>9. noted \in Seq(Sample) /\ Len(noted) = Len(job.history)
      <3>1. noted \in Seq(Sample)
        BY <1>2, <2>8, SeqDef
      <3> QED BY <1>2, <2>8, <3>1, LenProperties
    <2> HIDE DEF noted
    <2>10. /\ \A k \in 1..Len(job.history) : noted[k].sid = job.history[k].sid
           /\ noted[n].verdict = v
           /\ \A k \in 1..Len(job.history) : k # n => noted[k] = job.history[k]
      BY <2>6, <2>7
    <2>11. v.mttd \in Nat /\ (v.detected = "yes" => v.mttd \in Mttds) /\ (v.mttd > 0 => v.mttd \in Mttds)
      <3>1. CASE v \in [detected: {"yes"}, mttd: Mttds]
        BY <3>1
      <3>2. CASE v \in [detected: {"no"}, mttd: {0}]
        BY <3>2
      <3> QED BY <3>1, <3>2 DEF Verdict
    <2>12. /\ baseline \subseteq Mttds /\ mttd \subseteq Mttds
           /\ health \in {"ok", "slow", "missed"}
      <3>1. baseline \subseteq Mttds /\ mttd \subseteq Mttds
        BY <1>1, <2>11, JobFields
      <3>2. health \in {"ok", "slow", "missed"}
        BY DEF Health
      <3> QED BY <3>1, <3>2
    <2>13. CASE job.lastRun # s
      <3>1. new = [job EXCEPT !.history = noted]
        BY <1>5, <2>13 DEF Observed, IsLatest, found, noted
      <3> HIDE DEF new
      <3>2. /\ new \in ScheduledJob /\ new.history = noted
            /\ new.gen = job.gen /\ new.state = job.state /\ new.status = job.status
            /\ new.lastRun = job.lastRun /\ new.mttd = job.mttd
            /\ new.baseline = job.baseline /\ new.health = job.health
        BY <1>1, <2>9, <3>1 DEF ScheduledJob
      <3>3. Stored(new) /\ SameRuns(job, new)
        BY <1>1, <2>9, <2>10, <3>2 DEF Stored, SameRuns
      <3>4. new.history[n].verdict = v
            /\ \A k \in 1..Len(job.history) : k # n => new.history[k] = job.history[k]
        BY <2>10, <3>2
      <3>5. Observed(job, s, v) = new
        BY DEF new
      <3>6. Heard(job, new, s, v)
        BY <2>2, <2>13, <3>2, <3>4 DEF Heard
      <3> QED BY <3>2, <3>3, <3>5, <3>6
    <2>14. CASE job.lastRun = s
      <3>1. new = [job EXCEPT !.history = noted, !.mttd = mttd, !.baseline = baseline,
                              !.health = health]
        BY <1>5, <2>14 DEF Observed, IsLatest, found, noted
      <3>2. health = Health(baseline, v)
        OBVIOUS
      <3> HIDE DEF new, mttd, baseline, health
      <3>3. /\ new \in ScheduledJob /\ new.history = noted
            /\ new.gen = job.gen /\ new.state = job.state /\ new.status = job.status
            /\ new.lastRun = job.lastRun /\ new.mttd = mttd
            /\ new.baseline = baseline /\ new.health = health
        BY <1>1, <2>9, <2>12, <3>1 DEF ScheduledJob
      <3>4. Stored(new) /\ SameRuns(job, new)
        BY <1>1, <2>9, <2>10, <3>3 DEF Stored, SameRuns
      <3>5. new.history[n].verdict = v
            /\ \A k \in 1..Len(job.history) : k # n => new.history[k] = job.history[k]
        BY <2>10, <3>3
      <3>6. /\ new.mttd = IF v.detected = "yes" THEN {v.mttd} ELSE {}
            /\ new.health = Health(new.baseline, v)
        BY <3>2, <3>3 DEF mttd
      <3>7. Observed(job, s, v) = new
        BY DEF new
      <3>8. Heard(job, new, s, v)
        BY <2>2, <2>14, <3>5, <3>6 DEF Heard
      <3> QED BY <3>3, <3>4, <3>7, <3>8
    <2> QED BY <2>13, <2>14
  <1> QED BY <1>4, <1>5

-----------------------------------------------------------------------------
(* The catalog *)

Catalog(c) ==
    /\ c \in [Jobs -> ScheduledJob \cup {NoJob}]
    /\ \A j \in Jobs : c[j].state # "absent" => Stored(c[j])

AlertsOK == alerts \in Seq(DriftAlert) /\ Len(alerts) <= MaxAlerts

\* The rest of TypeOK.
ControlOK ==
    /\ waiting \subseteq Jobs
    /\ audit \in [Sids -> AuditRecord \cup {NoAudit}]
    /\ running \subseteq Sids
    /\ pc \in {"boot", "tick", "flush", "write", "claim", "dispatch", "await"}
    /\ context \in {"poll", "loop"}
    /\ todo \subseteq Claim
    /\ claim \in {NoClaim} \cup [job: Jobs, gen: Gens, sid: Sids]
    /\ seen \in AuditRecord \cup {NoAudit}
    /\ pending \in Seq(Outcome)
    /\ feedback \in [Operators -> {NoFeedback} \cup [sid: Sids, record: AuditRecord]]
    /\ nextSid \in 1..(MaxSids + 1) /\ nextGen \in 1..(MaxGens + 1)
    /\ origin \in [Sids -> Claim \cup {NoClaim}]

\* A job that is not stored is absent.
LEMMA AbsentJob ==
    ASSUME NEW job \in ScheduledJob \cup {NoJob}
    PROVE  /\ job.state = "absent" <=> job = NoJob
           /\ job.state # "absent" => job \in ScheduledJob
  BY DEF ScheduledJob, NoJob

\* The types by the part of the scheduler they are about.
LEMMA TypeParts == TypeOK <=> Catalog(jobs) /\ AlertsOK /\ ControlOK
  <1>1. ASSUME jobs \in [Jobs -> ScheduledJob \cup {NoJob}], NEW j \in Jobs, jobs[j].state # "absent"
        PROVE  Stored(jobs[j]) <=> Len(jobs[j].history) <= MaxHistory
    BY <1>1, AbsentJob DEF Stored
  <1> QED BY <1>1 DEF TypeOK, Catalog, AlertsOK, ControlOK, Exists

\* Feedback changes a job only as far as the verdict on the run goes.
LEMMA FeedbackStep ==
    ASSUME NEW c, Catalog(c), NEW s \in Sids \cup {NoSid}, NEW a \in AuditRecord \cup {NoAudit},
           s = NoSid => a = NoAudit, AlertsOK, RecordFeedback(c, s, a)
    PROVE  /\ Catalog(jobs') /\ AlertsOK'
           /\ \A j \in Jobs : \/ jobs'[j] = c[j]
                              \/ /\ c[j].state # "absent" /\ Confirmed(a)
                                 /\ s \in Sids /\ a.verdict \in Verdict
                                 /\ jobs'[j] = Observed(c[j], s, a.verdict)
  <1>1. CASE ~Confirmed(a)
    BY <1>1 DEF RecordFeedback, AlertsOK
  <1>2. CASE Confirmed(a)
    <2> DEFINE new == [j \in Jobs |-> IF c[j].state = "absent" THEN c[j]
                                      ELSE Observed(c[j], s, a.verdict)]
               raised == {j \in Jobs : c[j].state # "absent" /\ Raises(c[j], new[j])}
    <2>1. s \in Sids /\ a.verdict \in Verdict
      BY <1>2 DEF Confirmed, IsTerminal, NoAudit, AuditRecord
    <2>2. ASSUME NEW j \in Jobs
          PROVE  /\ new[j] \in ScheduledJob \cup {NoJob}
                 /\ new[j].state = c[j].state
                 /\ c[j].state # "absent" => Stored(new[j]) /\ new[j] = Observed(c[j], s, a.verdict)
                 /\ c[j].state = "absent" => new[j] = c[j]
      <3>1. CASE c[j].state = "absent"
        BY <3>1 DEF Catalog
      <3>2. CASE c[j].state # "absent"
        <4>1. Stored(c[j])
          BY <3>2 DEF Catalog
        <4>2. /\ Stored(Observed(c[j], s, a.verdict))
              /\ Observed(c[j], s, a.verdict).state = c[j].state
          <5> DEFINE job == c[j]
                     v   == a.verdict
          <5>1. Stored(job) /\ s \in Sids /\ v \in Verdict
            BY <4>1, <2>1
          <5> HIDE DEF job, v
          <5>2. Stored(Observed(job, s, v)) /\ Observed(job, s, v).state = job.state
            BY <5>1, ObservedJob
          <5> QED BY <5>2 DEF job, v
        <4> QED BY <3>2, <4>2 DEF Stored
      <3> QED BY <3>1, <3>2
    <2>3. jobs' = new
      BY <1>2 DEF RecordFeedback
    <2>4. Catalog(new)
      <3>1. new \in [Jobs -> ScheduledJob \cup {NoJob}]
        BY <2>2
      <3> HIDE DEF new
      <3> QED BY <2>2, <3>1 DEF Catalog
    <2>5. AlertsOK'
      <3>1. CASE raised = {}
        BY <1>2, <3>1 DEF RecordFeedback, AlertsOK
      <3>2. CASE raised # {}
        <4>1. PICK j \in raised :
                 alerts' = Truncated(Append(alerts, [job |-> j, health |-> new[j].health]), MaxAlerts)
          BY <1>2, <3>2 DEF RecordFeedback
        <4>2. j \in Jobs /\ c[j].state # "absent" /\ Raises(c[j], new[j])
          BY <4>1
        <4>3. new[j] \in ScheduledJob
          BY <2>2, <4>2 DEF Stored
        <4> DEFINE e == [job |-> j, health |-> new[j].health]
        <4> HIDE DEF new
        <4>4. e \in DriftAlert
          BY <4>2, <4>3, JobFields DEF Raises, DriftAlert
        <4>5. alerts' = Truncated(Append(alerts, e), MaxAlerts)
          BY <4>1
        <4> HIDE DEF e
        <4>6. alerts \in Seq(DriftAlert) /\ Len(alerts) <= MaxAlerts /\ MaxAlerts \in Nat
          BY DEF AlertsOK
        <4>7. /\ Truncated(Append(alerts, e), MaxAlerts) \in Seq(DriftAlert)
              /\ Len(Truncated(Append(alerts, e), MaxAlerts)) <= MaxAlerts
          BY <4>4, <4>6, AppendedSeq
        <4> QED BY <4>5, <4>7 DEF AlertsOK
      <3> QED BY <3>1, <3>2
    <2> HIDE DEF new
    <2> QED BY <1>2, <2>1, <2>2, <2>3, <2>4, <2>5
  <1> QED BY <1>1, <1>2

\* An outcome changes the job it is for, if that is still there, and no other.
LEMMA OutcomeStep ==
    ASSUME Catalog(jobs), NEW o \in Outcome
    PROVE  /\ Catalog(WithOutcome(o))
           /\ \A j \in Jobs : j # o.job => WithOutcome(o)[j] = jobs[j]
           /\ Applies(o) => Stored(jobs[o.job]) /\ WithOutcome(o)[o.job] = Applied(jobs[o.job], o)
           /\ ~Applies(o) => WithOutcome(o) = jobs
  <1>1. o.job \in Jobs /\ o.kind \in {"run", "skipped"}
    BY DEF Outcome
  <1>2. CASE Applies(o)
    <2> DEFINE new == Applied(jobs[o.job], o)
    <2>1. Stored(jobs[o.job])
      BY <1>1, <1>2 DEF Applies, Exists, Catalog
    <2>2. Stored(new)
      BY <1>1, <2>1, AppliedRun, AppliedSkipped
    <2>3. WithOutcome(o) = [jobs EXCEPT ![o.job] = new]
      BY <1>2 DEF WithOutcome
    <2>4. new = Applied(jobs[o.job], o)
      OBVIOUS
    <2> HIDE DEF new
    <2>5. new \in ScheduledJob
      BY <2>2 DEF Stored
    <2>6. Catalog(WithOutcome(o))
      BY <1>1, <2>2, <2>3, <2>5 DEF Catalog
    <2> QED BY <1>1, <1>2, <2>1, <2>3, <2>4, <2>6 DEF Catalog
  <1>3. CASE ~Applies(o)
    BY <1>3 DEF WithOutcome
  <1> QED BY <1>2, <1>3

-----------------------------------------------------------------------------
(* Type correctness *)

\* The queue of pending outcomes, its head and its tail.
LEMMA PendingFacts ==
    ASSUME pending \in Seq(Outcome)
    PROVE  /\ Len(pending) \in Nat
           /\ \A k \in 1..Len(pending) : pending[k] \in Outcome
           /\ pending # <<>> =>
                 /\ Head(pending) = pending[1] /\ 1 \in 1..Len(pending)
                 /\ Head(pending) \in Outcome
                 /\ Tail(pending) \in Seq(Outcome)
                 /\ Len(Tail(pending)) = Len(pending) - 1
                 /\ \A k \in 1..Len(Tail(pending)) :
                       Tail(pending)[k] = pending[k + 1] /\ k + 1 \in 1..Len(pending)
  <1>1. Len(pending) \in Nat /\ \A k \in 1..Len(pending) : pending[k] \in Outcome
    BY LenProperties, ElementOfSeq
  <1>2. ASSUME pending # <<>>
        PROVE  /\ Head(pending) = pending[1] /\ 1 \in 1..Len(pending)
               /\ Head(pending) \in Outcome
               /\ Tail(pending) \in Seq(Outcome)
               /\ Len(Tail(pending)) = Len(pending) - 1
               /\ \A k \in 1..Len(Tail(pending)) : Tail(pending)[k] = pending[k + 1]
    <2>1. Len(pending) \in Nat \ {0}
      BY <1>2, EmptySeq
    <2>2. /\ Head(pending) \in Outcome
          /\ Tail(pending) \in Seq(Outcome)
          /\ Len(Tail(pending)) = Len(pending) - 1
          /\ \A k \in 1..Len(Tail(pending)) : Tail(pending)[k] = pending[k + 1]
      BY <1>2, HeadTailProperties
    <2> QED BY <1>2, <2>1, <2>2
  <1>3. ASSUME pending # <<>>, NEW k \in 1..Len(Tail(pending)) PROVE k + 1 \in 1..Len(pending)
    BY <1>1, <1>2, <1>3
  <1> QED BY <1>1, <1>2, <1>3

\* A claim that ends puts its outcome at the end of the queue.
LEMMA FinishFacts ==
    ASSUME pending \in Seq(Outcome), NEW c, NEW sid \in Sids \cup {NoSid}, NEW kind \in {"run", "skipped"},
           c.job \in Jobs, c.gen \in Gens, Finish(c, sid, kind)
    PROVE  /\ pending' \in Seq(Outcome) /\ Len(pending') = Len(pending) + 1
           /\ Len(pending) \in Nat
           /\ \A k \in 1..Len(pending) : pending'[k] = pending[k]
           /\ pending'[Len(pending) + 1] = [job |-> c.job, gen |-> c.gen, sid |-> sid, kind |-> kind]
           /\ \A k \in 1..Len(pending') : k \in 1..Len(pending) \/ k = Len(pending) + 1
           /\ context' = "loop" /\ pc' = "flush"
  <1> DEFINE e == [job |-> c.job, gen |-> c.gen, sid |-> sid, kind |-> kind]
  <1>1. e \in Outcome
    BY DEF Outcome
  <1>2. pending' = Append(pending, e) /\ context' = "loop" /\ pc' = "flush"
    BY DEF Finish
  <1>3. e = [job |-> c.job, gen |-> c.gen, sid |-> sid, kind |-> kind]
    OBVIOUS
  <1> HIDE DEF e
  <1>4. Len(pending) \in Nat
    BY LenProperties
  <1> QED BY <1>1, <1>2, <1>3, <1>4

\* The scheduler starts well typed,
LEMMA TypeInit == Init => TypeOK /\ TaskInv
  <1> SUFFICES ASSUME Init PROVE TypeOK /\ TaskInv
    OBVIOUS
  <1>1. Catalog(jobs) /\ AlertsOK
    BY DEF Init, Catalog, AlertsOK, NoJob
  <1>2. ControlOK
    BY DEF Init, ControlOK
  <1>3. TaskInv
    BY DEF Init, TaskInv
  <1> QED BY <1>1, <1>2, <1>3, TypeParts

\* One job of the catalog is replaced.
LEMMA CatalogExcept ==
    ASSUME Catalog(jobs), NEW j \in Jobs, NEW job, Stored(job) \/ job = NoJob
    PROVE  Catalog([jobs EXCEPT ![j] = job])
  BY DEF Catalog, Stored, NoJob

\* Every job of the catalog keeps its history.
LEMMA CatalogMap ==
    ASSUME Catalog(jobs), NEW c, DOMAIN c = Jobs, c = [j \in Jobs |-> c[j]],
           \A j \in Jobs : \/ c[j] = jobs[j]
                           \/ Exists(j) /\ c[j] = [jobs[j] EXCEPT !.status = "ENDED"]
                           \/ Exists(j) /\ c[j] = [jobs[j] EXCEPT !.status = "RUNNING"]
    PROVE  Catalog(c)
  <1>1. ASSUME NEW j \in Jobs
        PROVE  /\ c[j] \in ScheduledJob \cup {NoJob}
               /\ c[j].state # "absent" => Stored(c[j])
    <2>1. CASE c[j] = jobs[j]
      BY <2>1 DEF Catalog
    <2>2. CASE \/ Exists(j) /\ c[j] = [jobs[j] EXCEPT !.status = "ENDED"]
               \/ Exists(j) /\ c[j] = [jobs[j] EXCEPT !.status = "RUNNING"]
      <3>1. Stored(jobs[j])
        BY <2>2 DEF Catalog, Exists
      <3> QED BY <2>2, <3>1 DEF Stored, ScheduledJob
    <2> QED BY <2>1, <2>2
  <1> QED BY <1>1 DEF Catalog

\* and every step keeps it so.
LEMMA TypeStep ==
    ASSUME TypeOK, TaskInv, [Next]_vars
    PROVE  TypeOK' /\ TaskInv'
  <1>0. Catalog(jobs) /\ AlertsOK /\ ControlOK
    BY TypeParts
  <1>p. pending \in Seq(Outcome)
    BY <1>0 DEF ControlOK
  <1> SUFFICES (Catalog(jobs) /\ AlertsOK /\ ControlOK)' /\ TaskInv'
    BY TypeParts, PTL
  <1>r. \A s \in running : audit[s] # NoAudit /\ audit[s] \in AuditRecord
    BY <1>0 DEF TaskInv, ControlOK
  <1>1. ASSUME UNCHANGED catVars PROVE Catalog(jobs') /\ AlertsOK'
    BY <1>0, <1>1 DEF catVars, AlertsOK
  <1>2. CASE Crash
    <2>1. ASSUME NEW j \in Jobs
          PROVE  jobs'[j] = jobs[j] \/ (Exists(j) /\ jobs'[j] = [jobs[j] EXCEPT !.status = "ENDED"])
      <3>1. jobs'[j] = Interrupted(jobs[j])
        BY <1>2 DEF Crash
      <3> QED BY <3>1 DEF Interrupted, Exists
    <2>2. Catalog(jobs')
      <3>1. jobs' = [j \in Jobs |-> jobs'[j]]
        BY <1>2 DEF Crash
      <3> QED BY <1>0, <2>1, <3>1, CatalogMap
    <2>3. AlertsOK'
      BY <1>0, <1>2 DEF Crash, AlertsOK
    <2>4. audit' \in [Sids -> AuditRecord \cup {NoAudit}]
      <3>1. ASSUME NEW s \in Sids PROVE audit'[s] \in AuditRecord \cup {NoAudit}
        <4>1. audit'[s] = IF audit[s].status = "QUEUED" THEN [audit[s] EXCEPT !.status = "ENDED"]
                          ELSE audit[s]
          BY <1>2 DEF Crash
        <4>2. audit[s] \in AuditRecord \cup {NoAudit}
          BY <1>0 DEF ControlOK
        <4>3. CASE audit[s].status = "QUEUED"
          <5>1. audit[s] \in AuditRecord
            BY <4>2, <4>3 DEF NoAudit
          <5> QED BY <4>1, <4>3, <5>1 DEF AuditRecord
        <4> QED BY <4>1, <4>2, <4>3
      <3> QED BY <1>2, <3>1 DEF Crash
    <2>5. ControlOK'
      BY <1>0, <1>2, <2>4 DEF Crash, ControlOK
    <2>6. TaskInv'
      <3>1. running' = {}
        BY <1>2 DEF Crash
      <3> QED BY <1>2, <3>1 DEF Crash, TaskInv
    <2> QED BY <2>2, <2>3, <2>5, <2>6
  <1>3. CASE InitialProbes \/ Tick \/ FlushFails \/ FlushDone \/ ClaimFails \/ RoundEnds
    <2>1. UNCHANGED catVars
      BY <1>3 DEF InitialProbes, Tick, FlushFails, FlushDone, ClaimFails, RoundEnds
    <2>2. ControlOK'
      BY <1>0, <1>3 DEF InitialProbes, Tick, FlushFails, FlushDone, ClaimFails, RoundEnds,
                        ControlOK, Rest, runVars, catVars
    <2>3. TaskInv'
      BY <1>0, <1>3 DEF InitialProbes, Tick, FlushFails, FlushDone, ClaimFails, RoundEnds,
                        ControlOK, TaskInv, Rest, runVars, catVars
    <2> QED BY <1>1, <2>1, <2>2, <2>3
  <1>4. CASE FlushRead
    <2>1. UNCHANGED catVars
      BY <1>4 DEF FlushRead
    <2>2. Head(pending) \in Outcome
      BY <1>4, <1>p, PendingFacts DEF FlushRead
    <2>3. ControlOK'
      BY <1>0, <1>4, <2>2 DEF FlushRead, ControlOK, Rest, runVars, catVars, Outcome
    <2>4. TaskInv'
      BY <1>0, <1>4, <2>2 DEF FlushRead, TaskInv, Rest, runVars, catVars, Outcome
    <2> QED BY <1>1, <2>1, <2>3, <2>4
  <1>5. CASE FlushWrite
    <2> DEFINE o == Head(pending)
               c == WithOutcome(o)
    <2>1. /\ pc = "write" /\ pending # <<>>
          /\ o.sid = NoSid => seen = NoAudit
          /\ seen \in AuditRecord \cup {NoAudit}
      BY <1>0, <1>5 DEF FlushWrite, TaskInv, ControlOK
    <2>2. /\ o \in Outcome /\ Tail(pending) \in Seq(Outcome)
          /\ \A k \in 1..Len(Tail(pending)) :
                Tail(pending)[k] = pending[k + 1] /\ k + 1 \in 1..Len(pending)
      BY <1>p, <2>1, PendingFacts
    <2>3. o.sid \in Sids \cup {NoSid}
      BY <2>2 DEF Outcome
    <2>4. RecordFeedback(c, o.sid, seen)
      BY <1>5 DEF FlushWrite
    <2> HIDE DEF o
    <2>5. Catalog(c)
      BY <1>0, <2>2, OutcomeStep
    <2> HIDE DEF c
    <2>6. Catalog(jobs') /\ AlertsOK'
      BY <1>0, <2>1, <2>3, <2>4, <2>5, FeedbackStep
    <2>7. ControlOK'
      BY <1>0, <1>5, <2>2 DEF FlushWrite, ControlOK, Rest, runVars
    <2>8. TaskInv'
      BY <1>0, <1>5, <2>1, <2>2 DEF FlushWrite, TaskInv, Rest, runVars
    <2> QED BY <2>6, <2>7, <2>8
  <1>6. CASE ClaimDue
    <2>1. ASSUME NEW j \in Jobs
          PROVE  jobs'[j] = jobs[j] \/ (Exists(j) /\ jobs'[j] = [jobs[j] EXCEPT !.status = "RUNNING"])
      <3>1. jobs'[j] = jobs[j] \/ (Due(j) /\ jobs'[j] = [jobs[j] EXCEPT !.status = "RUNNING"])
        BY <1>6 DEF ClaimDue
      <3> QED BY <3>1 DEF Due
    <2>2. Catalog(jobs')
      <3>1. jobs' = [j \in Jobs |-> jobs'[j]]
        BY <1>6 DEF ClaimDue
      <3> QED BY <1>0, <2>1, <3>1, CatalogMap
    <2>3. AlertsOK'
      BY <1>0, <1>6 DEF ClaimDue, AlertsOK
    <2>4. ASSUME NEW j \in Jobs, Due(j) PROVE jobs[j].gen \in Gens
      <3>1. jobs[j] \in ScheduledJob
        BY <1>0, <2>4 DEF Due, Exists, Catalog, Stored
      <3> QED BY <3>1, JobFields
    <2>5. todo' \subseteq Claim /\ waiting' \subseteq Jobs
      BY <1>0, <1>6, <2>4 DEF ClaimDue, Claim, ControlOK
    <2>6. ControlOK'
      BY <1>0, <1>6, <2>5 DEF ClaimDue, ControlOK, Rest, runVars
    <2>7. TaskInv'
      BY <1>0, <1>6 DEF ClaimDue, TaskInv, Rest, runVars
    <2> QED BY <2>2, <2>3, <2>6, <2>7
  <1>7. CASE Completed
    <2>1. UNCHANGED catVars
      BY <1>7 DEF Completed
    <2>2. claim.job \in Jobs /\ claim.gen \in Gens /\ claim.sid \in Sids
      BY <1>0, <1>7 DEF Completed, TaskInv, ControlOK
    <2>3. Finish(claim, claim.sid, "run")
      BY <1>7 DEF Completed
    <2>4. /\ pending' \in Seq(Outcome) /\ Len(pending') = Len(pending) + 1
          /\ \A k \in 1..Len(pending) : pending'[k] = pending[k]
          /\ pending'[Len(pending) + 1].kind = "run"
          /\ \A k \in 1..Len(pending') : k \in 1..Len(pending) \/ k = Len(pending) + 1
          /\ context' = "loop" /\ pc' = "flush"
      <3>1. /\ pending' \in Seq(Outcome) /\ Len(pending') = Len(pending) + 1
            /\ \A k \in 1..Len(pending) : pending'[k] = pending[k]
            /\ pending'[Len(pending) + 1]
                  = [job |-> claim.job, gen |-> claim.gen, sid |-> claim.sid, kind |-> "run"]
            /\ \A k \in 1..Len(pending') : k \in 1..Len(pending) \/ k = Len(pending) + 1
            /\ context' = "loop" /\ pc' = "flush"
        BY <1>p, <2>2, <2>3, FinishFacts
      <3> QED BY <3>1
    <2>5. ControlOK'
      BY <1>0, <1>7, <2>4 DEF Completed, ControlOK, Rest, runVars, catVars
    <2>6. TaskInv'
      BY <1>7, <2>4 DEF Completed, TaskInv, Rest, runVars
    <2> QED BY <1>1, <2>1, <2>5, <2>6
  <1>8. ASSUME NEW c \in todo, Skip(c) \/ StartFails(c) PROVE (Catalog(jobs) /\ AlertsOK /\ ControlOK)' /\ TaskInv'
    <2>1. UNCHANGED catVars
      BY <1>8 DEF Skip, StartFails
    <2>2. c.job \in Jobs /\ c.gen \in Gens
      BY <1>0 DEF Claim, ControlOK
    <2>3. PICK kind \in {"run", "skipped"} : Finish(c, NoSid, kind)
      BY <1>8 DEF Skip, StartFails
    <2>4. /\ pending' \in Seq(Outcome) /\ Len(pending') = Len(pending) + 1
          /\ \A k \in 1..Len(pending) : pending'[k] = pending[k]
          /\ pending'[Len(pending) + 1].sid = NoSid
          /\ \A k \in 1..Len(pending') : k \in 1..Len(pending) \/ k = Len(pending) + 1
          /\ context' = "loop" /\ pc' = "flush"
      <3>1. /\ pending' \in Seq(Outcome) /\ Len(pending') = Len(pending) + 1
            /\ \A k \in 1..Len(pending) : pending'[k] = pending[k]
            /\ pending'[Len(pending) + 1]
                  = [job |-> c.job, gen |-> c.gen, sid |-> NoSid, kind |-> kind]
            /\ \A k \in 1..Len(pending') : k \in 1..Len(pending) \/ k = Len(pending) + 1
            /\ context' = "loop" /\ pc' = "flush"
        BY <1>p, <2>2, <2>3, FinishFacts
      <3> QED BY <3>1
    <2>5. ControlOK'
      BY <1>0, <1>8, <2>4 DEF Skip, StartFails, ControlOK, Rest, runVars, catVars
    <2>6. TaskInv'
      BY <1>8, <2>4 DEF Skip, StartFails, TaskInv, Rest, runVars
    <2> QED BY <1>1, <2>1, <2>5, <2>6
  <1>9. ASSUME NEW c \in todo, Start(c) PROVE (Catalog(jobs) /\ AlertsOK /\ ControlOK)' /\ TaskInv'
    <2>1. UNCHANGED catVars
      BY <1>9 DEF Start
    <2>2. c \in Claim /\ c.job \in Jobs /\ c.gen \in Gens /\ nextSid \in Sids
      BY <1>0, <1>9 DEF Claim, ControlOK, Start
    <2>3. PICK mode \in {"runner", "simulated"} :
             audit' = [audit EXCEPT ![nextSid] =
                         [status |-> "QUEUED", mode |-> mode, verdict |-> NoVerdict]]
      BY <1>9 DEF Start
    <2>4. audit' \in [Sids -> AuditRecord \cup {NoAudit}]
      <3>1. [status |-> "QUEUED", mode |-> mode, verdict |-> NoVerdict] \in AuditRecord
        BY DEF AuditRecord
      <3> QED BY <1>0, <2>2, <2>3, <3>1 DEF ControlOK
    <2>5. nextSid' \in 1..(MaxSids + 1)
      BY <1>9, <2>2 DEF Start, Sids
    <2>6. /\ running' \subseteq Sids /\ origin' \in [Sids -> Claim \cup {NoClaim}]
          /\ claim' \in [job: Jobs, gen: Gens, sid: Sids] /\ todo' \subseteq Claim
      BY <1>0, <1>9, <2>2 DEF Start, ControlOK
    <2>7. ControlOK'
      BY <1>0, <1>9, <2>4, <2>5, <2>6 DEF Start, ControlOK, catVars
    <2>8. TaskInv'
      <3>1. \A s \in running' : audit'[s] # NoAudit
        BY <1>0, <1>9, <1>r, <2>2, <2>3 DEF Start, NoAudit, ControlOK
      <3> QED BY <1>9, <3>1 DEF Start, TaskInv, NoClaim
    <2> QED BY <1>1, <2>1, <2>7, <2>8
  <1>10. ASSUME NEW j \in Jobs, NEW baseline \in {{}} \cup {{m} : m \in Mttds \ {0}},
                CreateSchedule(j, baseline)
         PROVE  (Catalog(jobs) /\ AlertsOK /\ ControlOK)' /\ TaskInv'
    <2>1. nextGen \in Gens /\ jobs' = [jobs EXCEPT ![j] = NewJob(nextGen, baseline)]
      BY <1>10 DEF CreateSchedule
    <2>2. Stored(NewJob(nextGen, baseline))
      <3>1. baseline \subseteq Mttds
        OBVIOUS
      <3>2. <<>> \in Seq(Sample) /\ Len(<<>>) = 0
        BY EmptySeq
      <3> QED BY <2>1, <3>1, <3>2 DEF NewJob, Stored, ScheduledJob
    <2>3. Catalog(jobs')
      BY <1>0, <2>1, <2>2, CatalogExcept
    <2>4. AlertsOK'
      BY <1>0, <1>10 DEF CreateSchedule, AlertsOK
    <2>5. ControlOK'
      BY <1>0, <1>10, <2>1 DEF CreateSchedule, ControlOK, Elsewhere, schedVars, runVars, Gens
    <2>6. TaskInv'
      BY <1>10 DEF CreateSchedule, TaskInv, Elsewhere, schedVars, runVars
    <2> QED BY <2>3, <2>4, <2>5, <2>6
  <1>11. ASSUME NEW j \in Jobs, DeleteSchedule(j) \/ ToggleSchedule(j) \/ IntervalPasses(j)
         PROVE  (Catalog(jobs) /\ AlertsOK /\ ControlOK)' /\ TaskInv'
    <2>1. CASE DeleteSchedule(j)
      <3>1. jobs' = [jobs EXCEPT ![j] = NoJob]
        BY <2>1 DEF DeleteSchedule
      <3>2. Catalog(jobs')
        BY <1>0, <3>1, CatalogExcept
      <3> QED BY <1>0, <2>1, <3>2
              DEF DeleteSchedule, AlertsOK, ControlOK, TaskInv, Elsewhere, schedVars, runVars
    <2>2. CASE ToggleSchedule(j)
      <3> DEFINE job == [jobs[j] EXCEPT !.state = IF @ = "enabled" THEN "disabled" ELSE "enabled"]
      <3>1. jobs' = [jobs EXCEPT ![j] = job]
        BY <2>2 DEF ToggleSchedule
      <3>2. Stored(jobs[j])
        BY <1>0, <2>2 DEF ToggleSchedule, Exists, Catalog
      <3>3. Stored(job)
        BY <3>2 DEF Stored, ScheduledJob
      <3> HIDE DEF job
      <3>4. Catalog(jobs')
        BY <1>0, <3>1, <3>3, CatalogExcept
      <3> QED BY <1>0, <2>2, <3>4
              DEF ToggleSchedule, AlertsOK, ControlOK, TaskInv, Elsewhere, schedVars, runVars
    <2>3. CASE IntervalPasses(j)
      BY <1>0, <2>3 DEF IntervalPasses, AlertsOK, ControlOK, TaskInv, Elsewhere, schedVars, runVars
    <2> QED BY <1>11, <2>1, <2>2, <2>3
  <1>12. ASSUME NEW s \in Sids, ScenarioEnds(s)
         PROVE  (Catalog(jobs) /\ AlertsOK /\ ControlOK)' /\ TaskInv'
    <2>1. UNCHANGED catVars
      BY <1>12 DEF ScenarioEnds
    <2>2. TaskInv'
      <3>1. s \in running /\ running' = running \ {s} /\ \A r \in running' : audit'[r] = audit[r]
        BY <1>0, <1>12 DEF ScenarioEnds, ControlOK
      <3> QED BY <1>12, <3>1 DEF ScenarioEnds, TaskInv, schedVars
    <2>3. ControlOK'
      <3>1. audit' \in [Sids -> AuditRecord \cup {NoAudit}]
        <4>1. CASE UNCHANGED audit
          BY <1>0, <4>1 DEF ControlOK
        <4>2. CASE audit' = [audit EXCEPT ![s].status = "ENDED"]
          <5>1. audit[s] \in AuditRecord
            BY <1>12, <1>r DEF ScenarioEnds
          <5> QED BY <1>0, <4>2, <5>1 DEF ControlOK, AuditRecord
        <4> QED BY <1>12, <4>1, <4>2 DEF ScenarioEnds
      <3> QED BY <1>0, <1>12, <3>1 DEF ScenarioEnds, ControlOK, schedVars, catVars
    <2> QED BY <1>1, <2>1, <2>2, <2>3
  <1>13. ASSUME NEW op \in Operators, NEW s \in Sids, NEW v \in Verdict, FeedbackAudit(op, s, v)
         PROVE  (Catalog(jobs) /\ AlertsOK /\ ControlOK)' /\ TaskInv'
    <2>1. UNCHANGED catVars
      BY <1>13 DEF FeedbackAudit
    <2>3. audit[s] \in AuditRecord
      BY <1>0, <1>13 DEF FeedbackAudit, IsTerminal, NoAudit, ControlOK
    <2>4. audit'[s] \in AuditRecord /\ audit' \in [Sids -> AuditRecord \cup {NoAudit}]
      BY <1>0, <1>13, <2>3 DEF FeedbackAudit, ControlOK, AuditRecord
    <2>5. feedback' \in [Operators -> {NoFeedback} \cup [sid: Sids, record: AuditRecord]]
      BY <1>0, <1>13, <2>4 DEF FeedbackAudit, ControlOK
    <2>6. ControlOK'
      BY <1>0, <1>13, <2>4, <2>5 DEF FeedbackAudit, ControlOK, schedVars, catVars
    <2>2. TaskInv'
      <3>1. \A r \in running : audit'[r] # NoAudit
        BY <1>0, <1>13, <2>4 DEF FeedbackAudit, TaskInv, ControlOK, AuditRecord, NoAudit
      <3> QED BY <1>13, <3>1 DEF FeedbackAudit, TaskInv, schedVars
    <2> QED BY <1>1, <2>1, <2>2, <2>6
  <1>14. ASSUME NEW op \in Operators, FeedbackSchedule(op) \/ FeedbackScheduleFails(op)
         PROVE  (Catalog(jobs) /\ AlertsOK /\ ControlOK)' /\ TaskInv'
    <2>1. CASE FeedbackSchedule(op)
      <3> DEFINE s == feedback[op].sid
                 a == feedback[op].record
      <3>1. s \in Sids /\ a \in AuditRecord /\ s # NoSid
        BY <1>0, <2>1 DEF FeedbackSchedule, ControlOK, Sids, NoSid
      <3>2. RecordFeedback(jobs, s, a)
        BY <2>1 DEF FeedbackSchedule
      <3> HIDE DEF s, a
      <3>3. Catalog(jobs') /\ AlertsOK'
        BY <1>0, <3>1, <3>2, FeedbackStep
      <3>4. ControlOK'
        BY <1>0, <2>1 DEF FeedbackSchedule, ControlOK, schedVars, runVars
      <3>5. TaskInv'
        BY <2>1 DEF FeedbackSchedule, TaskInv, schedVars, runVars
      <3> QED BY <3>3, <3>4, <3>5
    <2>2. CASE FeedbackScheduleFails(op)
      BY <1>0, <2>2 DEF FeedbackScheduleFails, AlertsOK, ControlOK, TaskInv, catVars, schedVars, runVars
    <2> QED BY <1>14, <2>1, <2>2
  <1>15. CASE UNCHANGED vars
    BY <1>0, <1>15 DEF vars, AlertsOK, ControlOK, TaskInv
  <1> QED BY <1>2, <1>3, <1>4, <1>5, <1>6, <1>7, <1>8, <1>9, <1>10, <1>11, <1>12, <1>13, <1>14, <1>15
          DEF Next, Poll

\* What the scheduler stores and remembers is what its code says it is, for any
\* catalog and however often the control plane is restarted: histories and
\* alerts stay within their bounds.
LEMMA TypeCorrect == Spec => [](TypeOK /\ TaskInv)
  <1>1. Init => TypeOK /\ TaskInv
    BY TypeInit
  <1>2. (TypeOK /\ TaskInv) /\ [Next]_vars => (TypeOK /\ TaskInv)'
    BY TypeStep
  <1> QED BY <1>1, <1>2, PTL DEF Spec

-----------------------------------------------------------------------------
(* How a step changes a job *)

\* The new job differs from the old one in state and status at most.
Alike(old, new) ==
    /\ new.gen = old.gen /\ new.lastRun = old.lastRun /\ new.mttd = old.mttd
    /\ new.baseline = old.baseline /\ new.health = old.health /\ new.history = old.history

\* The outcome at the head of the queue is stored, and the feedback with it.
Recorded(j) ==
    /\ FlushWrite
    /\ pending # <<>> /\ Head(pending) \in Outcome /\ Head(pending).kind = "run"
    /\ Head(pending).job = j /\ Head(pending).gen = jobs[j].gen
    /\ LET x == Applied(jobs[j], Head(pending))
       IN  \/ jobs'[j] = x
           \/ /\ Head(pending).sid \in Sids
              /\ \E v \in Verdict : jobs'[j] = Observed(x, Head(pending).sid, v)

Created(j) ==
    /\ ~Exists(j)
    /\ nextGen' = nextGen + 1
    /\ \E baseline \in SUBSET Mttds : jobs'[j] = NewJob(nextGen, baseline)

\* What flush_outcomes does to job j.
LEMMA FlushStep ==
    ASSUME TypeOK, TaskInv, FlushWrite, NEW j \in Jobs
    PROVE  LET o    == Head(pending)
               mine == Exists(j) /\ o.job = j /\ o.gen = jobs[j].gen
           IN  /\ pending # <<>> /\ o = pending[1] /\ o \in Outcome
               /\ o.sid # NoSid => o.sid \in Sids /\ o.kind = "run"
               /\ mine /\ o.kind = "run" => Recorded(j)
               /\ mine /\ o.kind = "skipped" => jobs'[j] = [jobs[j] EXCEPT !.status = "ENDED"]
               /\ ~mine => \/ jobs'[j] = jobs[j]
                           \/ /\ Exists(j)
                              /\ \E s \in Sids, v \in Verdict : jobs'[j] = Observed(jobs[j], s, v)
  <1>0. Catalog(jobs) /\ AlertsOK /\ ControlOK
    BY TypeParts
  <1> DEFINE o    == Head(pending)
             c    == WithOutcome(o)
             mine == Exists(j) /\ o.job = j /\ o.gen = jobs[j].gen
  <1>1. /\ pc = "write" /\ pending # <<>>
        /\ o.sid = NoSid => seen = NoAudit
        /\ seen \in AuditRecord \cup {NoAudit}
    BY <1>0 DEF FlushWrite, TaskInv, ControlOK
  <1>2. /\ o = pending[1] /\ o \in Outcome /\ o.sid \in Sids \cup {NoSid} /\ o.job \in Jobs
        /\ (o.kind = "skipped" => o.sid = NoSid) /\ o.kind \in {"run", "skipped"}
    <2>1. pending \in Seq(Outcome)
      BY <1>0 DEF ControlOK
    <2>2. o = pending[1] /\ 1 \in 1..Len(pending) /\ o \in Outcome
      BY <1>1, <2>1, PendingFacts
    <2> QED BY <2>2 DEF TaskInv, Outcome
  <1>3. RecordFeedback(c, o.sid, seen)
    BY DEF FlushWrite
  <1>4. o = Head(pending)
    OBVIOUS
  <1> HIDE DEF o
  <1>5. /\ Catalog(c)
        /\ j # o.job => c[j] = jobs[j]
        /\ Applies(o) => Stored(jobs[o.job]) /\ c[o.job] = Applied(jobs[o.job], o)
        /\ ~Applies(o) => c = jobs
    BY <1>0, <1>2, OutcomeStep
  <1> HIDE DEF c
  <1>6. \/ jobs'[j] = c[j]
        \/ /\ c[j].state # "absent" /\ Confirmed(seen)
           /\ o.sid \in Sids /\ seen.verdict \in Verdict
           /\ jobs'[j] = Observed(c[j], o.sid, seen.verdict)
    BY <1>0, <1>1, <1>2, <1>3, <1>5, FeedbackStep
  <1>7. NoSid \notin Sids
    BY DEF Sids, NoSid
  <1>8. ASSUME mine PROVE Stored(jobs[j]) /\ c[j] = Applied(jobs[j], o)
    BY <1>5, <1>8 DEF Applies
  <1>9. ASSUME mine, o.kind = "run" PROVE Recorded(j)
    BY <1>1, <1>2, <1>4, <1>6, <1>8, <1>9 DEF Recorded
  <1>10. ASSUME mine, o.kind = "skipped" PROVE jobs'[j] = [jobs[j] EXCEPT !.status = "ENDED"]
    <2>1. jobs'[j] = Applied(jobs[j], o)
      BY <1>2, <1>6, <1>7, <1>8, <1>10
    <2> QED BY <1>10, <2>1 DEF Applied
  <1>11. ASSUME ~mine
         PROVE  \/ jobs'[j] = jobs[j]
                \/ /\ Exists(j)
                   /\ \E s \in Sids, v \in Verdict : jobs'[j] = Observed(jobs[j], s, v)
    <2>1. c[j] = jobs[j]
      BY <1>5, <1>11 DEF Applies
    <2> QED BY <1>6, <2>1 DEF Exists
  <1> QED BY <1>1, <1>2, <1>4, <1>9, <1>10, <1>11

\* What a step may do to a job that is stored afterwards.
LEMMA JobStep ==
    ASSUME TypeOK, TaskInv, [Next]_vars, NEW j \in Jobs, Exists(j)'
    PROVE  \/ Created(j)
           \/ Exists(j) /\ Alike(jobs[j], jobs'[j])
           \/ Exists(j) /\ \E s \in Sids, v \in Verdict : jobs'[j] = Observed(jobs[j], s, v)
           \/ Exists(j) /\ Recorded(j)
  <1>0. Catalog(jobs) /\ AlertsOK /\ ControlOK
    BY TypeParts
  <1>1. jobs[j] \in ScheduledJob \cup {NoJob} /\ (Exists(j) <=> jobs[j] \in ScheduledJob)
    BY <1>0, AbsentJob DEF Catalog, Exists, NoJob, ScheduledJob
  <1>2. CASE jobs'[j] = jobs[j]
    BY <1>2 DEF Exists, Alike
  <1>3. CASE jobs'[j] # jobs[j]
    <2>1. CASE Crash
      <3>1. jobs'[j] = Interrupted(jobs[j])
        BY <2>1 DEF Crash
      <3>2. Exists(j) /\ jobs'[j] = [jobs[j] EXCEPT !.status = "ENDED"]
        BY <1>3, <3>1 DEF Interrupted, Exists
      <3> QED BY <1>1, <3>2 DEF Alike, ScheduledJob
    <2>2. CASE FlushWrite
      <3> DEFINE o    == Head(pending)
                 mine == Exists(j) /\ o.job = j /\ o.gen = jobs[j].gen
      <3>1. /\ o \in Outcome
            /\ mine /\ o.kind = "run" => Recorded(j)
            /\ mine /\ o.kind = "skipped" => jobs'[j] = [jobs[j] EXCEPT !.status = "ENDED"]
            /\ ~mine => \/ jobs'[j] = jobs[j]
                        \/ /\ Exists(j)
                           /\ \E s \in Sids, v \in Verdict : jobs'[j] = Observed(jobs[j], s, v)
        BY <2>2, FlushStep
      <3>2. o.kind \in {"run", "skipped"}
        BY <3>1 DEF Outcome
      <3>3. CASE mine /\ o.kind = "skipped"
        BY <1>1, <3>1, <3>3 DEF Alike, ScheduledJob
      <3> HIDE DEF o
      <3> QED BY <1>3, <3>1, <3>2, <3>3
    <2>3. CASE ClaimDue
      <3>1. Exists(j) /\ jobs'[j] = [jobs[j] EXCEPT !.status = "RUNNING"]
        BY <1>3, <2>3 DEF ClaimDue, Due
      <3> QED BY <1>1, <3>1 DEF Alike, ScheduledJob
    <2>4. ASSUME NEW i \in Jobs, NEW baseline \in {{}} \cup {{m} : m \in Mttds \ {0}},
                 CreateSchedule(i, baseline)
          PROVE  Created(j)
      <3>1. i = j
        BY <1>0, <1>3, <2>4 DEF CreateSchedule, Catalog
      <3>2. ~Exists(j) /\ jobs'[j] = NewJob(nextGen, baseline) /\ nextGen' = nextGen + 1
        BY <1>0, <2>4, <3>1 DEF CreateSchedule, Catalog
      <3>3. baseline \in SUBSET Mttds
        OBVIOUS
      <3> QED BY <3>2, <3>3 DEF Created
    <2>5. ASSUME NEW i \in Jobs, DeleteSchedule(i) PROVE FALSE
      <3>1. i = j
        BY <1>0, <1>3, <2>5 DEF DeleteSchedule, Catalog
      <3> QED BY <1>0, <2>5, <3>1 DEF DeleteSchedule, Catalog, Exists, NoJob
    <2>6. ASSUME NEW i \in Jobs, ToggleSchedule(i)
          PROVE  Exists(j) /\ Alike(jobs[j], jobs'[j])
      <3>1. i = j
        BY <1>0, <1>3, <2>6 DEF ToggleSchedule, Catalog
      <3>2. Exists(j) /\ \E x : jobs'[j] = [jobs[j] EXCEPT !.state = x]
        BY <1>0, <2>6, <3>1 DEF ToggleSchedule, Catalog
      <3> QED BY <1>1, <3>2 DEF Alike, ScheduledJob
    <2>7. ASSUME NEW op \in Operators, FeedbackSchedule(op)
          PROVE  Exists(j) /\ \E s \in Sids, v \in Verdict : jobs'[j] = Observed(jobs[j], s, v)
      <3> DEFINE s == feedback[op].sid
                 a == feedback[op].record
      <3>1. s \in Sids /\ a \in AuditRecord /\ s # NoSid
        BY <1>0, <2>7 DEF FeedbackSchedule, ControlOK, Sids, NoSid
      <3>2. RecordFeedback(jobs, s, a)
        BY <2>7 DEF FeedbackSchedule
      <3> HIDE DEF s, a
      <3>3. /\ jobs[j].state # "absent"
            /\ a.verdict \in Verdict /\ jobs'[j] = Observed(jobs[j], s, a.verdict)
        BY <1>0, <1>3, <3>1, <3>2, FeedbackStep
      <3> QED BY <3>1, <3>3 DEF Exists
    <2>8. UNCHANGED jobs \/ Crash \/ FlushWrite \/ ClaimDue
          \/ (\E i \in Jobs : \/ \E baseline \in {{}} \cup {{m} : m \in Mttds \ {0}} : CreateSchedule(i, baseline)
                              \/ DeleteSchedule(i) \/ ToggleSchedule(i))
          \/ (\E op \in Operators : FeedbackSchedule(op))
      BY DEF Next, Poll, vars, catVars, InitialProbes, Tick, FlushRead, FlushFails, FlushDone, ClaimFails,
             RoundEnds, Completed, Skip, StartFails, Start, IntervalPasses, ScenarioEnds, FeedbackAudit,
             FeedbackScheduleFails
    <2> QED BY <1>3, <2>1, <2>2, <2>3, <2>4, <2>5, <2>6, <2>7, <2>8
  <1> QED BY <1>2, <1>3

\* Runs and generations are numbered, and stay what they were handed out for.
LEMMA NumberStep ==
    ASSUME TypeOK, TaskInv, [Next]_vars
    PROVE  /\ nextSid \in Nat /\ nextSid' \in Nat /\ nextSid <= nextSid'
           /\ nextGen \in Nat /\ nextGen' \in Nat /\ nextGen <= nextGen'
           /\ \A s \in Sids : s < nextSid => origin'[s] = origin[s]
           /\ \A s \in Sids : s < nextSid' => \/ s < nextSid
                                              \/ /\ s = nextSid /\ \E c \in todo : Start(c) /\ origin'[s] = c
                                                 /\ origin' = [origin EXCEPT ![nextSid] = origin'[s]]
           /\ \A c \in todo' : c \in todo \/ (\E j \in Jobs : Exists(j) /\ c.gen = jobs[j].gen /\ nextGen' = nextGen)
  <1>0. ControlOK
    BY TypeParts
  <1>1. CASE \E c \in todo : Start(c)
    <2> PICK c \in todo : Start(c)
      BY <1>1
    <2>1. nextSid \in Sids /\ nextSid' = nextSid + 1 /\ nextGen' = nextGen /\ todo' \subseteq todo
          /\ origin' = [origin EXCEPT ![nextSid] = c]
      BY DEF Start
    <2>2. origin'[nextSid] = c
      BY <1>0, <2>1 DEF ControlOK
    <2>3. nextSid \in Nat /\ nextGen \in Nat /\ MaxSids \in Nat /\ \A s \in Sids : s \in Nat
      BY <1>0 DEF ControlOK, Sids
    <2>4. /\ nextSid' \in Nat /\ nextSid <= nextSid' /\ nextGen' \in Nat /\ nextGen <= nextGen'
          /\ \A s \in Sids : s < nextSid' => s < nextSid \/ s = nextSid
      BY <2>1, <2>3
    <2>5. \A s \in Sids : s < nextSid => origin'[s] = origin[s]
      BY <1>0, <2>1, <2>3 DEF ControlOK
    <2>6. origin' = [origin EXCEPT ![nextSid] = origin'[nextSid]]
      BY <2>1, <2>2
    <2>7. \E d \in todo : Start(d) /\ origin'[nextSid] = d
      BY <2>2
    <2>8. \A d \in todo' : d \in todo
      BY <2>1
    <2> QED BY <2>3, <2>4, <2>5, <2>6, <2>7, <2>8
  <1>2. CASE ~\E c \in todo : Start(c)
    <2>1. UNCHANGED <<nextSid, origin>>
      BY <1>2 DEF Next, Poll, vars, Crash, InitialProbes, Tick, FlushRead, FlushWrite, FlushFails,
             FlushDone, ClaimDue, ClaimFails, RoundEnds, Completed, Skip, StartFails,
             CreateSchedule, DeleteSchedule, ToggleSchedule, IntervalPasses,
             ScenarioEnds, FeedbackAudit, FeedbackSchedule, FeedbackScheduleFails,
             Rest, Elsewhere, runVars
    <2>2. nextGen' = nextGen \/ (nextGen' = nextGen + 1 /\ UNCHANGED todo)
      BY <1>2 DEF Next, Poll, vars, Crash, InitialProbes, Tick, FlushRead, FlushWrite, FlushFails,
             FlushDone, ClaimDue, ClaimFails, RoundEnds, Completed, Skip, StartFails,
             CreateSchedule, DeleteSchedule, ToggleSchedule, IntervalPasses,
             ScenarioEnds, FeedbackAudit, FeedbackSchedule, FeedbackScheduleFails,
             Rest, Elsewhere, schedVars
    <2>3. (todo' \subseteq todo) \/ (ClaimDue /\ nextGen' = nextGen)
      BY <1>2 DEF Next, Poll, vars, Crash, InitialProbes, Tick, FlushRead, FlushWrite, FlushFails,
             FlushDone, ClaimDue, ClaimFails, RoundEnds, Completed, Skip, StartFails,
             CreateSchedule, DeleteSchedule, ToggleSchedule, IntervalPasses,
             ScenarioEnds, FeedbackAudit, FeedbackSchedule, FeedbackScheduleFails,
             Rest, Elsewhere, schedVars
    <2>4. ASSUME ClaimDue, NEW c \in todo' PROVE \E j \in Jobs : Exists(j) /\ c.gen = jobs[j].gen
      BY <2>4 DEF ClaimDue, Due
    <2> QED BY <1>0, <2>1, <2>2, <2>3, <2>4 DEF ControlOK
  <1> QED BY <1>1, <1>2

\* Generations and ids are handed out in order.
LEMMA IssuedStep ==
    ASSUME TypeOK, TaskInv, IssuedInv, [Next]_vars
    PROVE  IssuedInv'
  <1>0. ControlOK /\ Catalog(jobs)
    BY TypeParts
  <1>1. /\ nextSid \in Nat /\ nextSid' \in Nat /\ nextSid <= nextSid'
        /\ nextGen \in Nat /\ nextGen' \in Nat /\ nextGen <= nextGen'
        /\ \A s \in Sids : s < nextSid => origin'[s] = origin[s]
        /\ \A s \in Sids : s < nextSid' => s < nextSid \/ (\E c \in todo : origin'[s] = c)
        /\ \A c \in todo' : c \in todo \/ (\E j \in Jobs : Exists(j) /\ c.gen = jobs[j].gen)
    BY NumberStep
  <1>2. ASSUME NEW j \in Jobs, Exists(j) PROVE jobs[j].gen \in Nat /\ jobs[j].gen < nextGen /\ Stored(jobs[j])
    <2>1. Stored(jobs[j])
      BY <1>0, <1>2 DEF Catalog, Exists
    <2>2. jobs[j].gen \in Gens
      BY <2>1, JobFields DEF Stored
    <2>3. jobs[j].gen < nextGen
      BY <1>2 DEF IssuedInv
    <2> QED BY <2>1, <2>2, <2>3 DEF Gens
  <1>3. ASSUME NEW c \in todo PROVE c.gen \in Nat /\ c.gen < nextGen /\ c # NoClaim
    <2>1. c \in [job: Jobs, gen: Gens]
      BY <1>0 DEF ControlOK, Claim
    <2>2. c.gen \in Nat
      BY <2>1 DEF Gens
    <2>3. c # NoClaim
      BY <2>1, <2>2 DEF NoClaim
    <2> QED BY <2>2, <2>3 DEF IssuedInv
  <1>4. ASSUME NEW j \in Jobs, Exists(j)' PROVE (jobs[j].gen < nextGen)'
    <2>1. CASE Created(j)
      BY <1>1, <2>1 DEF Created, NewJob
    <2>2. CASE Exists(j) /\ jobs'[j].gen = jobs[j].gen
      <3>1. jobs[j].gen \in Nat /\ jobs[j].gen < nextGen
        BY <1>2, <2>2
      <3>2. jobs'[j].gen < nextGen'
        BY <1>1, <2>2, <3>1
      <3> QED BY <3>2
    <2>3. ASSUME Exists(j), NEW s \in Sids, NEW v \in Verdict, jobs'[j] = Observed(jobs[j], s, v)
          PROVE  jobs'[j].gen = jobs[j].gen
      <3> DEFINE job == jobs[j]
      <3>1. Stored(job)
        BY <1>2, <2>3
      <3> HIDE DEF job
      <3>2. Observed(job, s, v).gen = job.gen
        BY <3>1, ObservedJob
      <3> QED BY <2>3, <3>2 DEF job
    <2>4. ASSUME Exists(j), Recorded(j) PROVE jobs'[j].gen = jobs[j].gen
      <3> DEFINE job == jobs[j]
                 o   == Head(pending)
                 x   == Applied(job, o)
      <3>1. Stored(job) /\ o \in Outcome /\ o.kind = "run"
        BY <1>2, <2>4 DEF Recorded
      <3>2. jobs'[j] = x \/ (o.sid \in Sids /\ \E v \in Verdict : jobs'[j] = Observed(x, o.sid, v))
        BY <2>4 DEF Recorded
      <3> HIDE DEF job, o
      <3>3. Stored(x) /\ x.gen = job.gen
        BY <3>1, AppliedRun
      <3> HIDE DEF x
      <3>4. \A s \in Sids, v \in Verdict : Observed(x, s, v).gen = x.gen
        BY <3>3, ObservedJob
      <3> QED BY <3>2, <3>3, <3>4 DEF job
    <2> QED BY <1>4, <2>1, <2>2, <2>3, <2>4, JobStep DEF Alike
  <1>5. ASSUME NEW c \in todo' PROVE c.gen < nextGen'
    BY <1>1, <1>2, <1>3, <1>5
  <1>6. ASSUME NEW s \in Sids, s < nextSid' PROVE (origin[s] # NoClaim /\ origin[s].gen < nextGen)'
    <2>1. CASE s < nextSid
      <3>1. origin[s] \in Claim /\ origin[s].gen < nextGen /\ origin[s] # NoClaim
        BY <1>0, <2>1 DEF IssuedInv, ControlOK
      <3>2. origin[s].gen \in Nat
        BY <3>1 DEF Claim, Gens
      <3> QED BY <1>1, <2>1, <3>1, <3>2
    <2>2. CASE \E c \in todo : origin'[s] = c
      BY <1>1, <1>3, <2>2
    <2> QED BY <1>1, <1>6, <2>1, <2>2
  <1> QED BY <1>4, <1>5, <1>6 DEF IssuedInv

\* None is in use before it was handed out.
LEMMA IssuedCorrect == Spec => []IssuedInv
  <1>1. Init => IssuedInv
    BY DEF Init, IssuedInv, Exists, NoJob, Sids
  <1>2. (TypeOK /\ TaskInv) /\ IssuedInv /\ [Next]_vars => IssuedInv'
    BY IssuedStep
  <1> QED BY <1>1, <1>2, TypeCorrect, PTL DEF Spec

-----------------------------------------------------------------------------
(* A run is stored once, for its own job *)

\* A history with the same runs has the same runs.
LEMMA SameRunsHas ==
    ASSUME NEW old, NEW new, SameRuns(old, new)
    PROVE  /\ \A s : Has(new, s) <=> Has(old, s)
           /\ Distinct(old) => Distinct(new)
           /\ Len(new.history) = Len(old.history)
  BY DEF SameRuns, Has, Distinct

\* A history with one run more has that one, and drops one only when it is full.
LEMMA OneMoreHas ==
    ASSUME NEW old, Stored(old), NEW new, Stored(new), NEW s, OneMore(old, new, s)
    PROVE  /\ \A r : Has(new, r) => r = s \/ Has(old, r)
           /\ Distinct(old) /\ (s # NoSid => ~Has(old, s)) => Distinct(new)
           /\ Len(new.history) # MaxHistory => Has(new, s) /\ \A r : Has(old, r) => Has(new, r)
           /\ Len(old.history) = MaxHistory => Len(new.history) = MaxHistory
  <1> DEFINE m == Len(old.history)
             n == Len(new.history)
             e == [sid |-> s, verdict |-> NoVerdict]
  <1>1. m \in Nat /\ n \in Nat
    BY JobFields DEF Stored
  <1>2. e.sid = s
    OBVIOUS
  <1> HIDE DEF e
  <1>3. PICK d \in {0, 1} :
           /\ n = m + 1 - d
           /\ d = 1 => n = MaxHistory
           /\ \A k \in 1..n : new.history[k] = IF k + d = m + 1 THEN e ELSE old.history[k + d]
    BY DEF OneMore, Pushed, e
  <1> HIDE DEF m, n
  <1>4. \A k \in 1..n : k + d = m + 1 \/ k + d \in 1..m
    BY <1>1, <1>3
  <1>5. ASSUME NEW r, NEW k \in 1..n, new.history[k].sid = r
        PROVE  r = s \/ \E i \in 1..m : old.history[i].sid = r
    BY <1>2, <1>3, <1>4, <1>5
  <1>6. ASSUME Distinct(old), s # NoSid => ~Has(old, s),
               NEW k \in 1..n, NEW i \in 1..n, new.history[k].sid # NoSid, i # k
        PROVE  new.history[i].sid # new.history[k].sid
    <2>1. k + d # i + d
      BY <1>1, <1>3, <1>6
    <2>2. CASE k + d = m + 1
      <3>1. new.history[k].sid = s /\ i + d \in 1..m /\ new.history[i] = old.history[i + d] /\ i + d # m + 1
        BY <1>2, <1>3, <1>4, <2>1, <2>2
      <3> QED BY <1>6, <3>1 DEF Has, m
    <2>3. CASE i + d = m + 1
      <3>1. new.history[i].sid = s /\ k + d \in 1..m /\ new.history[k] = old.history[k + d] /\ k + d # m + 1
        BY <1>2, <1>3, <1>4, <2>1, <2>3
      <3> QED BY <1>6, <3>1 DEF Has, m
    <2>4. CASE k + d # m + 1 /\ i + d # m + 1
      <3>1. k + d \in 1..m /\ i + d \in 1..m /\ new.history[k] = old.history[k + d]
            /\ new.history[i] = old.history[i + d]
        BY <1>3, <1>4, <2>4
      <3> QED BY <1>6, <2>1, <3>1 DEF Distinct, m
    <2> QED BY <2>2, <2>3, <2>4
  <1>7. ASSUME n # MaxHistory
        PROVE  Has(new, s) /\ \A r : Has(old, r) => Has(new, r)
    <2>1. d = 0 /\ n = m + 1 /\ n \in 1..n
      BY <1>1, <1>3, <1>7
    <2>2. new.history[n] = e /\ \A k \in 1..m : k \in 1..n /\ new.history[k] = old.history[k]
      BY <1>1, <1>3, <2>1
    <2> QED BY <1>2, <2>1, <2>2 DEF Has, m, n
  <1>8. m = MaxHistory => n = MaxHistory
    <2>1. n <= MaxHistory /\ MaxHistory \in Nat
      BY DEF Stored, n
    <2> QED BY <1>1, <1>3, <2>1
  <1> QED BY <1>5, <1>6, <1>7, <1>8 DEF Has, Distinct, m, n

\* What a step may do to the history of a job.
Grown(j) ==
    /\ FlushWrite
    /\ pending # <<>> /\ Head(pending) \in Outcome /\ Head(pending).kind = "run"
    /\ Head(pending).job = j /\ Head(pending).gen = jobs[j].gen
    /\ \A r : Has(jobs'[j], r) => r = Head(pending).sid \/ Has(jobs[j], r)
    /\ Distinct(jobs[j]) /\ (Head(pending).sid # NoSid => ~Has(jobs[j], Head(pending).sid))
          => Distinct(jobs'[j])
    /\ Len(jobs'[j].history) # MaxHistory =>
          Has(jobs'[j], Head(pending).sid) /\ \A r : Has(jobs[j], r) => Has(jobs'[j], r)
    /\ Len(jobs[j].history) = MaxHistory => Len(jobs'[j].history) = MaxHistory

\* An outcome that is stored is one entry more for its own job.
LEMMA GrownStep ==
    ASSUME TypeOK, TaskInv, NEW j \in Jobs, Exists(j), Recorded(j)
    PROVE  jobs'[j].gen = jobs[j].gen /\ Grown(j)
  <1> DEFINE job == jobs[j]
             new == jobs'[j]
             o   == Head(pending)
             x   == Applied(job, o)
  <1>1. Stored(job) /\ o \in Outcome /\ o.kind = "run"
    <2>1. Stored(jobs[j])
      BY TypeParts DEF Catalog, Exists
    <2> QED BY <2>1 DEF Recorded
  <1>2. new = x \/ (o.sid \in Sids /\ \E v \in Verdict : new = Observed(x, o.sid, v))
    BY DEF Recorded
  <1> HIDE DEF job, new, o
  <1>3. Stored(x) /\ x.gen = job.gen /\ OneMore(job, x, o.sid)
    BY <1>1, AppliedRun
  <1> HIDE DEF x
  <1>4. \A s \in Sids, v \in Verdict : Observed(x, s, v).gen = x.gen /\ SameRuns(x, Observed(x, s, v))
    BY <1>3, ObservedJob
  <1>5. new.gen = x.gen /\ SameRuns(x, new)
    BY <1>2, <1>4 DEF SameRuns
  <1>6. /\ \A r : Has(x, r) => r = o.sid \/ Has(job, r)
        /\ Distinct(job) /\ (o.sid # NoSid => ~Has(job, o.sid)) => Distinct(x)
        /\ Len(x.history) # MaxHistory => Has(x, o.sid) /\ \A r : Has(job, r) => Has(x, r)
        /\ Len(job.history) = MaxHistory => Len(x.history) = MaxHistory
    BY <1>1, <1>3, OneMoreHas
  <1>7. /\ \A r : Has(new, r) <=> Has(x, r)
        /\ Distinct(x) => Distinct(new)
        /\ Len(new.history) = Len(x.history)
    BY <1>5, SameRunsHas
  <1>8. /\ \A r : Has(new, r) => r = o.sid \/ Has(job, r)
        /\ Distinct(job) /\ (o.sid # NoSid => ~Has(job, o.sid)) => Distinct(new)
        /\ Len(new.history) # MaxHistory => Has(new, o.sid) /\ \A r : Has(job, r) => Has(new, r)
        /\ Len(job.history) = MaxHistory => Len(new.history) = MaxHistory
    BY <1>6, <1>7
  <1>9. new.gen = job.gen
    BY <1>3, <1>5
  <1> QED BY <1>8, <1>9 DEF Grown, Recorded, job, new, o

\* How a history may change in a step.
LEMMA HistoryStep ==
    ASSUME TypeOK, TaskInv, [Next]_vars, NEW j \in Jobs, Exists(j)'
    PROVE  \/ Created(j) /\ jobs'[j].gen = nextGen /\ jobs'[j].history = <<>>
           \/ Exists(j) /\ jobs'[j].gen = jobs[j].gen /\ (SameRuns(jobs[j], jobs'[j]) \/ Grown(j))
  <1>0. Catalog(jobs)
    BY TypeParts
  <1>1. CASE Created(j)
    <2>1. PICK baseline \in SUBSET Mttds : jobs'[j] = NewJob(nextGen, baseline)
      BY <1>1 DEF Created
    <2> QED BY <1>1, <2>1 DEF NewJob
  <1>2. CASE Exists(j) /\ Alike(jobs[j], jobs'[j])
    BY <1>2 DEF Alike, SameRuns
  <1>3. ASSUME Exists(j), NEW s \in Sids, NEW v \in Verdict, jobs'[j] = Observed(jobs[j], s, v)
        PROVE  jobs'[j].gen = jobs[j].gen /\ SameRuns(jobs[j], jobs'[j])
    <2> DEFINE job == jobs[j]
    <2>1. Stored(job)
      BY <1>0, <1>3 DEF Catalog, Exists
    <2> HIDE DEF job
    <2>2. Observed(job, s, v).gen = job.gen /\ SameRuns(job, Observed(job, s, v))
      BY <2>1, ObservedJob
    <2> QED BY <1>3, <2>2 DEF job
  <1>4. ASSUME Exists(j), Recorded(j)
        PROVE  jobs'[j].gen = jobs[j].gen /\ Grown(j)
    BY <1>4, GrownStep
  <1> QED BY <1>1, <1>2, <1>3, <1>4, JobStep

\* A run without an entry gets one only from the write of its outcome.
LEMMA UnseenStep ==
    ASSUME TypeOK, TaskInv, [Next]_vars, NEW s, Unseen(s), FlushWrite => Head(pending).sid # s
    PROVE  \A j \in Jobs : Exists(j)' => ~Has(jobs'[j], s)
  <1> SUFFICES ASSUME NEW j \in Jobs, Exists(j)', Has(jobs'[j], s) PROVE FALSE
    OBVIOUS
  <1>1. Exists(j) => ~Has(jobs[j], s)
    BY DEF Unseen
  <1>2. CASE jobs'[j].history = <<>>
    BY <1>2 DEF Has
  <1>3. CASE Exists(j) /\ SameRuns(jobs[j], jobs'[j])
    BY <1>1, <1>3, SameRunsHas
  <1>4. CASE Exists(j) /\ Grown(j)
    BY <1>1, <1>4 DEF Grown
  <1> QED BY <1>2, <1>3, <1>4, HistoryStep

\* The queue loses its head, gains an outcome, is emptied, or stays as it is.
LEMMA QueueStep ==
    ASSUME TypeOK, TaskInv, [Next]_vars
    PROVE  \/ FlushWrite /\ pending' = Tail(pending)
           \/ pending' = pending /\ ~FlushWrite
           \/ pending' = <<>> /\ pc' = "boot" /\ ~FlushWrite
           \/ /\ ~FlushWrite /\ pc = "dispatch" /\ pc' = "flush" /\ Len(pending') = Len(pending) + 1
              /\ \A k \in 1..Len(pending) : pending'[k] = pending[k]
              /\ pending'[Len(pending) + 1].sid = NoSid
              /\ \E c \in todo : Skip(c) \/ StartFails(c)
           \/ /\ ~FlushWrite /\ Completed /\ pc' = "flush" /\ Len(pending') = Len(pending) + 1
              /\ \A k \in 1..Len(pending) : pending'[k] = pending[k]
              /\ pending'[Len(pending) + 1]
                    = [job |-> claim.job, gen |-> claim.gen, sid |-> claim.sid, kind |-> "run"]
  <1>0. ControlOK
    BY TypeParts
  <1>p. pending \in Seq(Outcome) /\ Len(pending) \in Nat
    BY <1>0, LenProperties DEF ControlOK
  <1>1. CASE FlushWrite
    BY <1>1 DEF FlushWrite
  <1>2. CASE Completed
    <2>1. claim.job \in Jobs /\ claim.gen \in Gens /\ claim.sid \in Sids
      BY <1>0, <1>2 DEF Completed, TaskInv, ControlOK
    <2>2. Finish(claim, claim.sid, "run") /\ pc = "await"
      BY <1>2 DEF Completed
    <2>3. /\ Len(pending') = Len(pending) + 1
          /\ \A k \in 1..Len(pending) : pending'[k] = pending[k]
          /\ pending'[Len(pending) + 1]
                = [job |-> claim.job, gen |-> claim.gen, sid |-> claim.sid, kind |-> "run"]
          /\ pc' = "flush"
      BY <1>p, <2>1, <2>2, FinishFacts
    <2>4. ~FlushWrite
      BY <2>2 DEF FlushWrite
    <2> QED BY <1>2, <2>3, <2>4
  <1>3. ASSUME NEW c \in todo, Skip(c) \/ StartFails(c)
        PROVE  /\ ~FlushWrite /\ pc = "dispatch" /\ pc' = "flush" /\ Len(pending') = Len(pending) + 1
               /\ \A k \in 1..Len(pending) : pending'[k] = pending[k]
               /\ pending'[Len(pending) + 1].sid = NoSid
    <2>1. c.job \in Jobs /\ c.gen \in Gens
      BY <1>0 DEF Claim, ControlOK
    <2>2. PICK kind \in {"run", "skipped"} : Finish(c, NoSid, kind)
      BY <1>3 DEF Skip, StartFails
    <2>3. /\ Len(pending') = Len(pending) + 1
          /\ \A k \in 1..Len(pending) : pending'[k] = pending[k]
          /\ pending'[Len(pending) + 1]
                = [job |-> c.job, gen |-> c.gen, sid |-> NoSid, kind |-> kind]
          /\ pc' = "flush"
      BY <1>p, <2>1, <2>2, FinishFacts
    <2>4. pc = "dispatch" /\ ~FlushWrite
      BY <1>3 DEF FlushWrite, Skip, StartFails
    <2> QED BY <2>3, <2>4
  <1>4. CASE Crash /\ ~FlushWrite
    BY <1>4 DEF Crash
  <1>5. CASE ~FlushWrite /\ ~Completed /\ ~Crash /\ ~\E c \in todo : Skip(c) \/ StartFails(c)
    <2>1. UNCHANGED pending
      BY <1>5 DEF Next, Poll, vars, InitialProbes, Tick, FlushRead, FlushFails,
             FlushDone, ClaimDue, ClaimFails, RoundEnds, Start,
             CreateSchedule, DeleteSchedule, ToggleSchedule, IntervalPasses,
             ScenarioEnds, FeedbackAudit, FeedbackSchedule, FeedbackScheduleFails,
             Rest, Elsewhere, schedVars
    <2> QED BY <1>5, <2>1
  <1> QED BY <1>1, <1>2, <1>3, <1>4, <1>5

\* The claim in execution is the one that Start has put there.
LEMMA ClaimStep ==
    ASSUME TypeOK, TaskInv, [Next]_vars, pc' = "await"
    PROVE  /\ ~FlushWrite /\ pending' = pending
           /\ \/ pc = "await" /\ claim' = claim
              \/ \E c \in todo : /\ Start(c) /\ claim' = [job |-> c.job, gen |-> c.gen, sid |-> nextSid]
                                 /\ UNCHANGED jobs /\ nextSid \in Sids
  <1>1. ~FlushWrite /\ ~Crash /\ ~Completed /\ ~\E c \in todo : Skip(c) \/ StartFails(c)
    BY DEF FlushWrite, Crash, Completed, Skip, StartFails, Finish
  <1>2. pending' = pending
    BY <1>1, QueueStep
  <1>3. ASSUME NEW c \in todo, Start(c)
        PROVE  /\ claim' = [job |-> c.job, gen |-> c.gen, sid |-> nextSid]
               /\ UNCHANGED jobs /\ nextSid \in Sids
    BY <1>3 DEF Start, catVars
  <1>4. CASE ~\E c \in todo : Start(c)
    <2>1. pc = "await" /\ claim' = claim
      BY <1>1, <1>4 DEF Next, Poll, vars, InitialProbes, Tick, FlushRead, FlushFails,
             FlushDone, ClaimDue, ClaimFails, RoundEnds,
             CreateSchedule, DeleteSchedule, ToggleSchedule, IntervalPasses,
             ScenarioEnds, FeedbackAudit, FeedbackSchedule, FeedbackScheduleFails,
             Rest, Elsewhere, schedVars
    <2> QED BY <1>1, <1>2, <2>1
  <1> QED BY <1>1, <1>2, <1>3, <1>4

\* Every step keeps a run in one place.
LEMMA PlaceStep ==
    ASSUME TypeOK, TaskInv, PlaceInv, [Next]_vars
    PROVE  PlaceInv'
  <1>0. ControlOK /\ pending \in Seq(Outcome)
    BY TypeParts DEF ControlOK
  <1>1. /\ nextSid \in Nat /\ nextSid' \in Nat /\ nextSid <= nextSid'
        /\ \A s \in Sids : s < nextSid => origin'[s] = origin[s] /\ s < nextSid'
    <2>1. /\ nextSid \in Nat /\ nextSid' \in Nat /\ nextSid <= nextSid'
          /\ \A s \in Sids : s < nextSid => origin'[s] = origin[s]
      BY NumberStep
    <2> QED BY <2>1 DEF Sids
  <1>2. pending # <<>> =>
           /\ Head(pending) = pending[1] /\ 1 \in 1..Len(pending) /\ Head(pending) \in Outcome
           /\ Len(Tail(pending)) = Len(pending) - 1
           /\ \A k \in 1..Len(Tail(pending)) : Tail(pending)[k] = pending[k + 1] /\ k + 1 \in 1..Len(pending)
    BY <1>0, PendingFacts
  <1>3. \A k \in 1..Len(pending) : pending[k].sid # NoSid => pending[k].sid \in Sids
    BY <1>0, PendingFacts DEF Outcome
  <1>4. FlushWrite => pending # <<>>
    BY DEF FlushWrite, TaskInv
  <1>5. StoredInv'
    <2> SUFFICES ASSUME NEW j \in Jobs, Exists(j)'
                 PROVE  /\ Distinct(jobs'[j])
                        /\ \A s \in Sids : Has(jobs'[j], s) =>
                              s < nextSid' /\ origin'[s] = [job |-> j, gen |-> jobs'[j].gen]
      BY DEF StoredInv
    <2>1. Exists(j) => /\ Distinct(jobs[j])
                       /\ \A s \in Sids : Has(jobs[j], s) =>
                             s < nextSid /\ origin[s] = [job |-> j, gen |-> jobs[j].gen]
      BY DEF PlaceInv, StoredInv
    <2>2. CASE jobs'[j].history = <<>>
      BY <2>2 DEF Distinct, Has
    <2>3. CASE Exists(j) /\ jobs'[j].gen = jobs[j].gen /\ SameRuns(jobs[j], jobs'[j])
      BY <1>1, <2>1, <2>3, SameRunsHas
    <2>4. CASE Exists(j) /\ jobs'[j].gen = jobs[j].gen /\ Grown(j)
      <3> DEFINE o == Head(pending)
      <3>1. pending # <<>> /\ o = pending[1] /\ 1 \in 1..Len(pending) /\ o.job = j /\ o.gen = jobs[j].gen
        BY <1>2, <2>4 DEF Grown
      <3>2. o.sid # NoSid => /\ o.sid \in Sids /\ o.sid < nextSid
                             /\ origin[o.sid] = [job |-> j, gen |-> jobs[j].gen]
                             /\ ~Has(jobs[j], o.sid)
        BY <1>3, <2>4, <3>1 DEF PlaceInv, QueueInv, Unseen
      <3>3. /\ \A r : Has(jobs'[j], r) => r = o.sid \/ Has(jobs[j], r)
            /\ Distinct(jobs[j]) /\ (o.sid # NoSid => ~Has(jobs[j], o.sid)) => Distinct(jobs'[j])
        BY <2>4 DEF Grown
      <3>4. NoSid \notin Sids
        BY DEF NoSid, Sids
      <3> HIDE DEF o
      <3>5. ASSUME NEW s \in Sids, Has(jobs'[j], s)
            PROVE  s < nextSid /\ origin[s] = [job |-> j, gen |-> jobs[j].gen]
        BY <2>1, <2>4, <3>2, <3>3, <3>4, <3>5
      <3> QED BY <1>1, <2>1, <2>4, <3>2, <3>3, <3>5
    <2> QED BY <2>2, <2>3, <2>4, HistoryStep
  <1>6. QueueInv'
    <2> SUFFICES ASSUME NEW k \in 1..Len(pending'), pending'[k].sid # NoSid
                 PROVE  /\ pending'[k].sid < nextSid'
                        /\ origin'[pending'[k].sid] = [job |-> pending'[k].job, gen |-> pending'[k].gen]
                        /\ \A i \in 1..Len(pending') : i # k => pending'[i].sid # pending'[k].sid
                        /\ \A j \in Jobs : Exists(j)' => ~Has(jobs'[j], pending'[k].sid)
      BY DEF QueueInv, Unseen
    <2> DEFINE s == pending'[k].sid
    \* an outcome that was in the queue
    <2>1. ASSUME NEW n \in 1..Len(pending), pending'[k] = pending[n], FlushWrite => n # 1
          PROVE  /\ s < nextSid' /\ origin'[s] = [job |-> pending'[k].job, gen |-> pending'[k].gen]
                 /\ (\A j \in Jobs : Exists(j)' => ~Has(jobs'[j], s)) /\ s \in Sids /\ \A i \in 1..Len(pending) : i # n => pending[i].sid # s
      <3>1. /\ s \in Sids /\ s < nextSid
            /\ origin[s] = [job |-> pending[n].job, gen |-> pending[n].gen]
            /\ \A i \in 1..Len(pending) : i # n => pending[i].sid # s
            /\ Unseen(s)
        BY <1>3, <2>1 DEF PlaceInv, QueueInv
      <3>2. FlushWrite => Head(pending).sid # s
        BY <1>2, <1>4, <2>1, <3>1
      <3> HIDE DEF s
      <3>3. \A j \in Jobs : Exists(j)' => ~Has(jobs'[j], s)
        BY <3>1, <3>2, UnseenStep
      <3> QED BY <1>1, <2>1, <3>1, <3>3
    <2>2. CASE FlushWrite /\ pending' = Tail(pending)
      <3>1. k + 1 \in 1..Len(pending) /\ pending'[k] = pending[k + 1] /\ k + 1 # 1
        BY <1>2, <1>4, <2>2
      <3>2. /\ s < nextSid' /\ origin'[s] = [job |-> pending'[k].job, gen |-> pending'[k].gen]
            /\ (\A j \in Jobs : Exists(j)' => ~Has(jobs'[j], s)) /\ \A i \in 1..Len(pending) : i # k + 1 => pending[i].sid # s
        BY <2>1, <3>1
      <3>3. ASSUME NEW i \in 1..Len(pending'), i # k PROVE pending'[i].sid # s
        <4>1. i + 1 \in 1..Len(pending) /\ pending'[i] = pending[i + 1] /\ i + 1 # k + 1
          BY <1>2, <1>4, <2>2, <3>3
        <4> QED BY <3>2, <4>1
      <3> QED BY <3>2, <3>3
    <2>3. CASE pending' = pending /\ ~FlushWrite
      BY <2>1, <2>3
    <2>4. CASE pending' = <<>>
      BY <2>4
    <2>5. \A i \in 1..(Len(pending) + 1) : i \in 1..Len(pending) \/ i = Len(pending) + 1
      <3>1. Len(pending) \in Nat
        BY <1>0, LenProperties
      <3> QED BY <3>1
    <2>6. CASE /\ ~FlushWrite /\ Len(pending') = Len(pending) + 1
               /\ \A n \in 1..Len(pending) : pending'[n] = pending[n]
               /\ pending'[Len(pending) + 1].sid = NoSid
      <3>1. k \in 1..Len(pending) /\ pending'[k] = pending[k]
        BY <2>5, <2>6
      <3>2. /\ s < nextSid' /\ origin'[s] = [job |-> pending'[k].job, gen |-> pending'[k].gen]
            /\ (\A j \in Jobs : Exists(j)' => ~Has(jobs'[j], s)) /\ \A i \in 1..Len(pending) : i # k => pending[i].sid # s
        BY <2>1, <2>6, <3>1
      <3>3. ASSUME NEW i \in 1..Len(pending'), i # k PROVE pending'[i].sid # s
        BY <2>5, <2>6, <3>2, <3>3
      <3> QED BY <3>2, <3>3
    <2>7. CASE /\ ~FlushWrite /\ Completed /\ Len(pending') = Len(pending) + 1
               /\ \A n \in 1..Len(pending) : pending'[n] = pending[n]
               /\ pending'[Len(pending) + 1]
                     = [job |-> claim.job, gen |-> claim.gen, sid |-> claim.sid, kind |-> "run"]
      <3>1. /\ claim.sid \in Sids /\ claim.sid < nextSid
            /\ origin[claim.sid] = [job |-> claim.job, gen |-> claim.gen]
            /\ \A i \in 1..Len(pending) : pending[i].sid # claim.sid
            /\ Unseen(claim.sid)
        BY <1>0, <2>7 DEF Completed, TaskInv, ControlOK, PlaceInv, ClaimInv
      <3>2. CASE k \in 1..Len(pending)
        <4>1. /\ s < nextSid' /\ origin'[s] = [job |-> pending'[k].job, gen |-> pending'[k].gen]
              /\ (\A j \in Jobs : Exists(j)' => ~Has(jobs'[j], s)) /\ \A i \in 1..Len(pending) : i # k => pending[i].sid # s
          BY <2>1, <2>7, <3>2
        <4>2. s # claim.sid
          BY <2>7, <3>1, <3>2
        <4>3. ASSUME NEW i \in 1..Len(pending'), i # k PROVE pending'[i].sid # s
          BY <2>5, <2>7, <4>1, <4>2, <4>3
        <4> QED BY <4>1, <4>3
      <3>3. CASE k = Len(pending) + 1
        <4>1. s = claim.sid /\ pending'[k].job = claim.job /\ pending'[k].gen = claim.gen
          BY <2>7, <3>3
        <4>2. \A j \in Jobs : Exists(j)' => ~Has(jobs'[j], claim.sid)
          <5> DEFINE r == claim.sid
          <5>1. Unseen(r)
            BY <3>1
          <5> HIDE DEF r
          <5>2. \A j \in Jobs : Exists(j)' => ~Has(jobs'[j], r)
            BY <2>7, <5>1, UnseenStep
          <5> QED BY <5>2 DEF r
        <4>3. ASSUME NEW i \in 1..Len(pending'), i # k PROVE pending'[i].sid # claim.sid
          BY <2>5, <2>7, <3>1, <3>3, <4>3
        <4>4. claim.sid < nextSid' /\ origin'[claim.sid] = [job |-> claim.job, gen |-> claim.gen]
          BY <1>1, <3>1
        <4> QED BY <4>1, <4>2, <4>3, <4>4
      <3> QED BY <2>5, <2>7, <3>2, <3>3
    <2> QED BY <2>2, <2>3, <2>4, <2>6, <2>7, QueueStep
  <1>7. ClaimInv'
    <2> SUFFICES ASSUME pc' = "await"
                 PROVE  /\ claim'.sid < nextSid'
                        /\ origin'[claim'.sid] = [job |-> claim'.job, gen |-> claim'.gen]
                        /\ \A i \in 1..Len(pending') : pending'[i].sid # claim'.sid
                        /\ \A j \in Jobs : Exists(j)' => ~Has(jobs'[j], claim'.sid)
      BY DEF ClaimInv, Unseen
    <2>1. ~FlushWrite /\ pending' = pending
      BY ClaimStep
    <2>2. CASE pc = "await" /\ claim' = claim
      <3>1. /\ claim.sid \in Sids /\ claim.sid < nextSid
            /\ origin[claim.sid] = [job |-> claim.job, gen |-> claim.gen]
            /\ \A i \in 1..Len(pending) : pending[i].sid # claim.sid
            /\ Unseen(claim.sid)
        BY <1>0, <2>2 DEF TaskInv, ControlOK, PlaceInv, ClaimInv
      <3>2. \A j \in Jobs : Exists(j)' => ~Has(jobs'[j], claim.sid)
        <4> DEFINE r == claim.sid
        <4>1. Unseen(r)
          BY <3>1
        <4> HIDE DEF r
        <4>2. \A j \in Jobs : Exists(j)' => ~Has(jobs'[j], r)
          BY <2>1, <4>1, UnseenStep
        <4> QED BY <4>2 DEF r
      <3> QED BY <1>1, <2>1, <2>2, <3>1, <3>2
    <2>3. ASSUME NEW c \in todo, Start(c), claim' = [job |-> c.job, gen |-> c.gen, sid |-> nextSid],
                 UNCHANGED jobs, nextSid \in Sids
          PROVE  /\ claim'.sid < nextSid'
                 /\ origin'[claim'.sid] = [job |-> claim'.job, gen |-> claim'.gen]
                 /\ \A i \in 1..Len(pending') : pending'[i].sid # claim'.sid
                 /\ \A j \in Jobs : Exists(j)' => ~Has(jobs'[j], claim'.sid)
      <3>1. claim'.sid = nextSid /\ claim'.job = c.job /\ claim'.gen = c.gen
        BY <2>3
      <3>2. nextSid' = nextSid + 1 /\ origin'[nextSid] = c
        BY <1>0, <2>3 DEF Start, ControlOK
      <3>3. c = [job |-> c.job, gen |-> c.gen]
        BY <1>0 DEF ControlOK, Claim
      <3>4. \A i \in 1..Len(pending) : pending[i].sid # nextSid
        <4>1. nextSid # NoSid
          BY <2>3 DEF Sids, NoSid
        <4>2. \A i \in 1..Len(pending) : pending[i].sid # NoSid => pending[i].sid < nextSid
          BY DEF PlaceInv, QueueInv
        <4> QED BY <1>1, <4>1, <4>2
      <3>5. \A j \in Jobs : Exists(j) => ~Has(jobs[j], nextSid)
        <4>1. \A j \in Jobs : Exists(j) => \A s \in Sids : Has(jobs[j], s) => s < nextSid
          BY DEF PlaceInv, StoredInv
        <4>2. ~(nextSid < nextSid)
          BY <1>1
        <4> QED BY <2>3, <4>1, <4>2
      <3>6. \A j \in Jobs : Exists(j)' => ~Has(jobs'[j], nextSid)
        BY <2>3, <3>5 DEF Exists
      <3>7. nextSid < nextSid'
        BY <1>1, <3>2
      <3> QED BY <2>1, <3>1, <3>2, <3>3, <3>4, <3>6, <3>7
    <2> QED BY <2>2, <2>3, ClaimStep
  <1> QED BY <1>5, <1>6, <1>7 DEF PlaceInv

\* So it is in every reachable state.
LEMMA PlaceCorrect == Spec => []PlaceInv
  <1>1. Init => PlaceInv
    BY DEF Init, PlaceInv, StoredInv, QueueInv, ClaimInv, Exists, NoJob
  <1>2. (TypeOK /\ TaskInv) /\ PlaceInv /\ [Next]_vars => PlaceInv'
    BY PlaceStep
  <1> QED BY <1>1, <1>2, TypeCorrect, PTL DEF Spec

\* A late outcome never reaches a job that was deleted and created again under
\* the same id, and a retried write adds no second sample: PendingOutcome::apply
\* compares the generation, and flush_outcomes removes an outcome with the write
\* that stores it.
THEOREM HistoryCorrect == Spec => []HistoryIsOwn
  <1>1. TypeOK /\ PlaceInv => HistoryIsOwn
    <2> SUFFICES ASSUME TypeOK, PlaceInv, NEW j \in Jobs, Exists(j),
                        NEW k \in DOMAIN jobs[j].history, jobs[j].history[k].sid # NoSid
                 PROVE  /\ origin[jobs[j].history[k].sid] = [job |-> j, gen |-> jobs[j].gen]
                        /\ \A i \in DOMAIN jobs[j].history \ {k} :
                              jobs[j].history[i].sid # jobs[j].history[k].sid
      BY DEF HistoryIsOwn
    <2> DEFINE job == jobs[j]
               s   == job.history[k].sid
    <2>1. job \in ScheduledJob
      BY TypeParts DEF Catalog, Exists, Stored
    <2>2. DOMAIN job.history = 1..Len(job.history) /\ job.history[k] \in Sample
      BY <2>1, JobFields
    <2>3. s \in Sids /\ Has(job, s)
      BY <2>2 DEF Sample, Has
    <2>4. Distinct(job) /\ origin[s] = [job |-> j, gen |-> job.gen]
      BY <2>3 DEF PlaceInv, StoredInv
    <2> QED BY <2>2, <2>4 DEF Distinct
  <1> QED BY <1>1, TypeCorrect, PlaceCorrect, PTL

-----------------------------------------------------------------------------
(* A job that runs is answered for *)

\* A job is RUNNING after a step because it was claimed, or was RUNNING before and
\* its outcome is not the one that was stored.
LEMMA StatusStep ==
    ASSUME TypeOK, TaskInv, [Next]_vars, NEW j \in Jobs, Exists(j)', jobs'[j].status = "RUNNING"
    PROVE  /\ Exists(j) /\ jobs'[j].gen = jobs[j].gen /\ ~Crash
           /\ \/ ClaimDue /\ Due(j)
              \/ /\ jobs[j].status = "RUNNING"
                 /\ FlushWrite => ~(Head(pending).job = j /\ Head(pending).gen = jobs[j].gen)
  <1>0. Catalog(jobs) /\ AlertsOK /\ ControlOK
    BY TypeParts
  <1>1. jobs[j] \in ScheduledJob \cup {NoJob} /\ (Exists(j) <=> jobs[j] \in ScheduledJob)
    BY <1>0, AbsentJob DEF Catalog, Exists, NoJob, ScheduledJob
  <1>2. ASSUME Exists(j), NEW s \in Sids, NEW v \in Verdict, jobs'[j] = Observed(jobs[j], s, v)
        PROVE  jobs'[j].gen = jobs[j].gen /\ jobs'[j].status = jobs[j].status
    <2> DEFINE job == jobs[j]
    <2>1. Stored(job)
      BY <1>0, <1>2 DEF Catalog, Exists
    <2> HIDE DEF job
    <2>2. Observed(job, s, v).gen = job.gen /\ Observed(job, s, v).status = job.status
      BY <2>1, ObservedJob
    <2> QED BY <1>2, <2>2 DEF job
  <1>3. ~Crash
    <2> SUFFICES ASSUME Crash PROVE FALSE
      OBVIOUS
    <2>1. jobs'[j] = Interrupted(jobs[j])
      BY DEF Crash
    <2> QED BY <1>1, <2>1 DEF Interrupted, Exists, NoJob, ScheduledJob
  <1>4. CASE FlushWrite
    <2> DEFINE o    == Head(pending)
               mine == Exists(j) /\ o.job = j /\ o.gen = jobs[j].gen
    <2>1. /\ o \in Outcome
          /\ mine /\ o.kind = "run" => Recorded(j)
          /\ mine /\ o.kind = "skipped" => jobs'[j] = [jobs[j] EXCEPT !.status = "ENDED"]
          /\ ~mine => \/ jobs'[j] = jobs[j]
                      \/ /\ Exists(j)
                         /\ \E s \in Sids, v \in Verdict : jobs'[j] = Observed(jobs[j], s, v)
      BY <1>4, FlushStep
    <2>2. o.kind \in {"run", "skipped"}
      BY <2>1 DEF Outcome
    <2>3. ~(mine /\ o.kind = "skipped")
      BY <1>1, <2>1 DEF ScheduledJob
    <2>4. ASSUME mine, o.kind = "run" PROVE FALSE
      <3> DEFINE job == jobs[j]
                 new == jobs'[j]
                 x   == Applied(job, o)
      <3>1. Stored(job) /\ new.status = "RUNNING"
        BY <1>0, <2>4 DEF Catalog, Exists
      <3>2. new = x \/ (o.sid \in Sids /\ \E v \in Verdict : new = Observed(x, o.sid, v))
        BY <2>1, <2>4 DEF Recorded
      <3> HIDE DEF job, new, o
      <3>3. Stored(x) /\ x.status = "ENDED"
        BY <2>1, <2>4, <3>1, AppliedRun
      <3> HIDE DEF x
      <3>4. \A s \in Sids, v \in Verdict : Observed(x, s, v).status = x.status
        BY <3>3, ObservedJob
      <3> QED BY <3>1, <3>2, <3>3, <3>4
    <2>5. ~mine
      BY <2>2, <2>3, <2>4
    <2> HIDE DEF o
    <2>6. Exists(j) /\ jobs'[j].gen = jobs[j].gen /\ jobs[j].status = "RUNNING"
      BY <1>2, <2>1, <2>5 DEF Exists
    <2> QED BY <1>3, <2>5, <2>6 DEF o
  <1>5. CASE ClaimDue
    <2>1. jobs'[j] = IF Due(j) THEN [jobs[j] EXCEPT !.status = "RUNNING"] ELSE jobs[j]
      BY <1>5 DEF ClaimDue
    <2>2. ~FlushWrite
      BY <1>5 DEF FlushWrite, ClaimDue
    <2>3. CASE Due(j)
      <3>1. Exists(j) /\ jobs'[j] = [jobs[j] EXCEPT !.status = "RUNNING"]
        BY <2>1, <2>3 DEF Due
      <3> QED BY <1>1, <1>3, <1>5, <2>3, <3>1 DEF ScheduledJob
    <2>4. CASE ~Due(j)
      BY <1>3, <2>1, <2>2, <2>4 DEF Exists
    <2> QED BY <2>3, <2>4
  <1>6. CASE ~FlushWrite /\ ~ClaimDue
    <2>1. CASE jobs'[j] = jobs[j]
      BY <1>3, <1>6, <2>1 DEF Exists
    <2>2. CASE jobs'[j] # jobs[j]
      <3>1. ASSUME NEW i \in Jobs, NEW baseline, CreateSchedule(i, baseline)
            PROVE  FALSE
        <4>1. i = j
          BY <1>0, <2>2, <3>1 DEF CreateSchedule, Catalog
        <4>2. jobs'[j] = NewJob(nextGen, baseline)
          BY <1>0, <3>1, <4>1 DEF CreateSchedule, Catalog
        <4> QED BY <4>2 DEF NewJob
      <3>2. ASSUME NEW i \in Jobs, DeleteSchedule(i) PROVE FALSE
        <4>1. i = j
          BY <1>0, <2>2, <3>2 DEF DeleteSchedule, Catalog
        <4> QED BY <1>0, <3>2, <4>1 DEF DeleteSchedule, Catalog, Exists, NoJob
      <3>3. ASSUME NEW i \in Jobs, ToggleSchedule(i)
            PROVE  Exists(j) /\ jobs'[j].gen = jobs[j].gen /\ jobs[j].status = "RUNNING"
        <4>1. i = j
          BY <1>0, <2>2, <3>3 DEF ToggleSchedule, Catalog
        <4>2. Exists(j) /\ \E x : jobs'[j] = [jobs[j] EXCEPT !.state = x]
          BY <1>0, <3>3, <4>1 DEF ToggleSchedule, Catalog
        <4> QED BY <1>1, <4>2 DEF ScheduledJob
      <3>4. ASSUME NEW op \in Operators, FeedbackSchedule(op)
            PROVE  Exists(j) /\ jobs'[j].gen = jobs[j].gen /\ jobs[j].status = "RUNNING"
        <4> DEFINE s == feedback[op].sid
                   a == feedback[op].record
        <4>1. s \in Sids /\ a \in AuditRecord /\ s # NoSid
          BY <1>0, <3>4 DEF FeedbackSchedule, ControlOK, Sids, NoSid
        <4>2. RecordFeedback(jobs, s, a)
          BY <3>4 DEF FeedbackSchedule
        <4> HIDE DEF s, a
        <4>3. /\ jobs[j].state # "absent"
              /\ a.verdict \in Verdict /\ jobs'[j] = Observed(jobs[j], s, a.verdict)
          BY <1>0, <2>2, <4>1, <4>2, FeedbackStep
        <4> QED BY <1>2, <4>1, <4>3 DEF Exists
      <3>5. \/ (\E i \in Jobs : \/ \E baseline \in {{}} \cup {{m} : m \in Mttds \ {0}} : CreateSchedule(i, baseline)
                                \/ DeleteSchedule(i) \/ ToggleSchedule(i))
            \/ (\E op \in Operators : FeedbackSchedule(op))
        BY <1>3, <1>6, <2>2 DEF Next, Poll, vars, catVars, InitialProbes, Tick, FlushRead, FlushFails,
             FlushDone, ClaimFails, RoundEnds, Completed, Skip, StartFails, Start, IntervalPasses,
             ScenarioEnds, FeedbackAudit, FeedbackScheduleFails
      <3> QED BY <1>3, <1>6, <3>1, <3>2, <3>3, <3>4, <3>5
    <2> QED BY <2>1, <2>2
  <1> QED BY <1>4, <1>5, <1>6

\* A claim moves on: it is dispatched, awaited, queued, and at last stored.
LEMMA OpenStep ==
    ASSUME TypeOK, TaskInv, [Next]_vars, ~Crash, ~ClaimDue, NEW j \in Jobs, NEW g \in Gens, Open(j, g),
           FlushWrite => ~(Head(pending).job = j /\ Head(pending).gen = g)
    PROVE  \/ [job |-> j, gen |-> g] \in todo'
           \/ pc' = "await" /\ claim'.job = j /\ claim'.gen = g
           \/ \E k \in 1..Len(pending') : pending'[k].job = j /\ pending'[k].gen = g
  <1>0. ControlOK /\ pending \in Seq(Outcome) /\ Len(pending) \in Nat /\ DOMAIN pending = 1..Len(pending)
    BY TypeParts, LenProperties DEF ControlOK
  <1> DEFINE c == [job |-> j, gen |-> g]
             Goal == \/ c \in todo'
                     \/ pc' = "await" /\ claim'.job = j /\ claim'.gen = g
                     \/ \E k \in 1..Len(pending') : pending'[k].job = j /\ pending'[k].gen = g
  <1>1. ASSUME NEW d \in todo, Skip(d) \/ StartFails(d)
        PROVE  /\ todo' = todo \ {d}
               /\ Len(pending') = Len(pending) + 1
               /\ \A k \in 1..Len(pending) : pending'[k] = pending[k]
               /\ pending'[Len(pending) + 1].job = d.job /\ pending'[Len(pending) + 1].gen = d.gen
    <2>1. d.job \in Jobs /\ d.gen \in Gens
      BY <1>0 DEF Claim, ControlOK
    <2>2. PICK kind \in {"run", "skipped"} : Finish(d, NoSid, kind)
      BY <1>1 DEF Skip, StartFails
    <2>3. /\ Len(pending') = Len(pending) + 1
          /\ \A k \in 1..Len(pending) : pending'[k] = pending[k]
          /\ pending'[Len(pending) + 1] = [job |-> d.job, gen |-> d.gen, sid |-> NoSid, kind |-> kind]
      BY <1>0, <2>1, <2>2, FinishFacts
    <2> QED BY <1>1, <2>3 DEF Skip, StartFails
  <1>2. CASE c \in todo
    <2>1. CASE \E d \in todo : Skip(d) \/ StartFails(d)
      <3>1. PICK d \in todo : Skip(d) \/ StartFails(d)
        BY <2>1
      <3>2. CASE d = c
        <4>1. d.job = j /\ d.gen = g /\ Len(pending) + 1 \in 1..Len(pending')
          BY <1>0, <1>1, <3>1, <3>2
        <4> QED BY <1>1, <3>1, <4>1
      <3>3. CASE d # c
        BY <1>1, <1>2, <3>1, <3>3
      <3> QED BY <3>2, <3>3
    <2>2. CASE \E d \in todo : Start(d)
      <3>1. PICK d \in todo : Start(d)
        BY <2>2
      <3>2. todo' = todo \ {d} /\ claim' = [job |-> d.job, gen |-> d.gen, sid |-> nextSid] /\ pc' = "await"
        BY <3>1 DEF Start
      <3> QED BY <1>2, <3>2
    <2>3. CASE ~(\E d \in todo : Skip(d) \/ StartFails(d)) /\ ~(\E d \in todo : Start(d))
      <3>1. todo' = todo
        BY <2>3 DEF Next, Poll, vars, InitialProbes, Tick, FlushRead, FlushWrite, FlushFails,
             FlushDone, ClaimFails, RoundEnds, Completed,
             CreateSchedule, DeleteSchedule, ToggleSchedule, IntervalPasses,
             ScenarioEnds, FeedbackAudit, FeedbackSchedule, FeedbackScheduleFails,
             Rest, Elsewhere, schedVars
      <3> QED BY <1>2, <3>1
    <2> QED BY <2>1, <2>2, <2>3
  <1>3. CASE pc = "await" /\ claim.job = j /\ claim.gen = g
    <2>1. CASE Completed
      <3>1. claim.job \in Jobs /\ claim.gen \in Gens /\ claim.sid \in Sids
        BY <1>0, <1>3 DEF TaskInv, ControlOK
      <3>2. Finish(claim, claim.sid, "run")
        BY <2>1 DEF Completed
      <3>3. /\ Len(pending') = Len(pending) + 1
            /\ pending'[Len(pending) + 1]
                  = [job |-> claim.job, gen |-> claim.gen, sid |-> claim.sid, kind |-> "run"]
        BY <1>0, <3>1, <3>2, FinishFacts
      <3>4. Len(pending) + 1 \in 1..Len(pending')
        BY <1>0, <3>3
      <3> QED BY <1>3, <3>3, <3>4
    <2>2. CASE ~Completed
      <3>1. pc' = pc /\ claim' = claim
        BY <1>3, <2>2 DEF Next, Poll, vars, InitialProbes, Tick, FlushRead, FlushWrite, FlushFails,
             FlushDone, ClaimFails, RoundEnds, Skip, StartFails, Start,
             CreateSchedule, DeleteSchedule, ToggleSchedule, IntervalPasses,
             ScenarioEnds, FeedbackAudit, FeedbackSchedule, FeedbackScheduleFails,
             Rest, Elsewhere, schedVars
      <3> QED BY <1>3, <3>1
    <2> QED BY <2>1, <2>2
  <1>4. ASSUME NEW k \in 1..Len(pending), pending[k].job = j, pending[k].gen = g
        PROVE  \E i \in 1..Len(pending') : pending'[i].job = j /\ pending'[i].gen = g
    <2>1. CASE FlushWrite
      <3>1. pending # <<>> /\ pending' = Tail(pending)
        BY <2>1 DEF FlushWrite, TaskInv
      <3>2. /\ Head(pending) = pending[1] /\ Len(Tail(pending)) = Len(pending) - 1
            /\ \A i \in 1..Len(Tail(pending)) : Tail(pending)[i] = pending[i + 1]
        BY <1>0, <3>1, PendingFacts
      <3>3. k # 1
        BY <1>4, <2>1, <3>2
      <3>4. k - 1 \in 1..Len(Tail(pending)) /\ (k - 1) + 1 = k
        BY <1>0, <3>2, <3>3
      <3>5. pending'[k - 1] = pending[k]
        BY <3>1, <3>2, <3>4
      <3> QED BY <1>4, <3>1, <3>4, <3>5
    <2>2. CASE ~FlushWrite
      <3>1. \/ pending' = pending
            \/ /\ Len(pending') = Len(pending) + 1
               /\ \A i \in 1..Len(pending) : pending'[i] = pending[i]
            \/ pending' = <<>> /\ pc' = "boot"
        BY <2>2, QueueStep
      <3>2. ~(pending' = <<>> /\ pc' = "boot")
        <4> SUFFICES ASSUME pending' = <<>>, pc' = "boot" PROVE FALSE
          OBVIOUS
        <4>1. pending # <<>>
          BY <1>0, EmptySeq
        <4>2. pending' = pending
          BY <2>2, QueueStep DEF Next, Poll, vars, InitialProbes, Tick, FlushRead, FlushFails,
             FlushDone, ClaimFails, RoundEnds, Completed, Skip, StartFails, Start, Finish,
             CreateSchedule, DeleteSchedule, ToggleSchedule, IntervalPasses,
             ScenarioEnds, FeedbackAudit, FeedbackSchedule, FeedbackScheduleFails,
             Rest, Elsewhere, schedVars
        <4> QED BY <4>1, <4>2
      <3>3. k \in 1..Len(pending') /\ pending'[k] = pending[k]
        BY <1>0, <3>1, <3>2
      <3> QED BY <1>4, <3>3
    <2> QED BY <2>1, <2>2
  <1> QED BY <1>0, <1>2, <1>3, <1>4 DEF Open

\* Every step answers for the jobs it leaves RUNNING.
LEMMA RunningStep ==
    ASSUME TypeOK, TypeOK', TaskInv, RunningIsTracked, [Next]_vars
    PROVE  RunningIsTracked'
  <1> SUFFICES ASSUME NEW j \in Jobs, Exists(j)', jobs'[j].status = "RUNNING"
               PROVE  Open(j, jobs[j].gen)'
    BY DEF RunningIsTracked
  <1> DEFINE g == jobs[j].gen
  <1>1. /\ Exists(j) /\ jobs'[j].gen = g /\ ~Crash
        /\ \/ ClaimDue /\ Due(j)
           \/ /\ jobs[j].status = "RUNNING"
              /\ FlushWrite => ~(Head(pending).job = j /\ Head(pending).gen = g)
    BY StatusStep
  <1>2. g \in Gens
    <2>1. jobs[j] \in ScheduledJob
      BY <1>1, TypeParts DEF Catalog, Exists, Stored
    <2> QED BY <2>1, JobFields
  <1>3. DOMAIN pending' = 1..Len(pending')
    <2>1. pending' \in Seq(Outcome)
      BY DEF TypeOK
    <2> QED BY <2>1, LenProperties
  <1>4. CASE ClaimDue
    <2>1. Due(j) \/ (jobs[j].status = "RUNNING" /\ todo = {} /\ pc = "claim")
      BY <1>1, <1>4 DEF ClaimDue, TaskInv
    <2>2. CASE Due(j)
      <3>1. [job |-> j, gen |-> g] \in todo'
        BY <1>4, <2>2 DEF ClaimDue
      <3> QED BY <1>1, <3>1 DEF Open
    <2>3. CASE ~Due(j)
      <3>1. Open(j, g)
        BY <1>1, <2>1, <2>3 DEF RunningIsTracked
      <3>2. pending' = pending
        BY <1>4 DEF ClaimDue
      <3> QED BY <1>1, <2>1, <2>3, <3>1, <3>2 DEF Open
    <2> QED BY <2>2, <2>3
  <1>5. CASE ~ClaimDue
    <2>1. Open(j, g) /\ (FlushWrite => ~(Head(pending).job = j /\ Head(pending).gen = g))
      BY <1>1, <1>5 DEF RunningIsTracked
    <2> HIDE DEF g
    <2>2. \/ [job |-> j, gen |-> g] \in todo'
          \/ pc' = "await" /\ claim'.job = j /\ claim'.gen = g
          \/ \E k \in 1..Len(pending') : pending'[k].job = j /\ pending'[k].gen = g
      BY <1>1, <1>2, <1>5, <2>1, OpenStep
    <2> QED BY <1>1, <1>3, <2>2 DEF Open
  <1> QED BY <1>4, <1>5

\* No failed write loses the end of a run, and claim_due never takes a job whose
\* last claim is not over: whatever fails and however operators pause, delete and
\* create jobs meanwhile, the scheduler still answers for every job that its
\* catalog has as RUNNING.
THEOREM RunningCorrect == Spec => []RunningIsTracked
  <1>1. Init => RunningIsTracked
    BY DEF Init, RunningIsTracked, Exists, NoJob
  <1>2. (TypeOK /\ TaskInv) /\ (TypeOK /\ TaskInv)' /\ RunningIsTracked /\ [Next]_vars => RunningIsTracked'
    BY RunningStep
  <1> QED BY <1>1, <1>2, TypeCorrect, PTL DEF Spec

-----------------------------------------------------------------------------
(* The latest run decides *)

\* Entry k is that of the latest run, and feedback on it is in.
Rated(job, k) ==
    /\ job.lastRun # NoSid
    /\ job.history[k].sid = job.lastRun
    /\ job.history[k].verdict # NoVerdict

Decides(job) ==
    /\ (\A k \in 1..Len(job.history) : ~Rated(job, k)) => job.mttd = {}
    /\ \A k \in 1..Len(job.history) : Rated(job, k) =>
          LET v == job.history[k].verdict
          IN  /\ job.mttd = IF v.detected = "yes" THEN {v.mttd} ELSE {}
              /\ job.health = Health(job.baseline, v)

DecidesInv == \A j \in Jobs : Exists(j) => Decides(jobs[j])

\* Feedback on the latest run moves the job with it, feedback on another does not.
LEMMA ObservedDecides ==
    ASSUME NEW job, Stored(job), Distinct(job), Decides(job), NEW s \in Sids, NEW v \in Verdict
    PROVE  Decides(Observed(job, s, v))
  <1> DEFINE new == Observed(job, s, v)
  <1>1. /\ new.lastRun = job.lastRun /\ SameRuns(job, new)
        /\ new = job \/ Heard(job, new, s, v)
    BY ObservedJob
  <1> HIDE DEF new
  <1>2. ASSUME Heard(job, new, s, v) PROVE Decides(new)
    <2>1. PICK n \in 1..Len(job.history) :
             /\ job.history[n].sid = s
             /\ new.history[n].verdict = v
             /\ \A k \in 1..Len(job.history) : k # n => new.history[k] = job.history[k]
             /\ job.lastRun # s => /\ new.mttd = job.mttd /\ new.baseline = job.baseline
                                   /\ new.health = job.health
             /\ job.lastRun = s => /\ new.mttd = IF v.detected = "yes" THEN {v.mttd} ELSE {}
                                   /\ new.health = Health(new.baseline, v)
      BY <1>2 DEF Heard
    <2>2. Len(new.history) = Len(job.history) /\ new.history[n].sid = s
      BY <1>1, <2>1 DEF SameRuns
    <2>3. v # NoVerdict /\ s # NoSid
      BY DEF Verdict, NoVerdict, Sids, NoSid
    <2>4. CASE job.lastRun = s
      <3>1. Rated(new, n)
        BY <1>1, <2>1, <2>2, <2>3, <2>4 DEF Rated
      <3>2. \A k \in 1..Len(job.history) : k # n => job.history[k].sid # s
        BY <2>1, <2>3 DEF Distinct
      <3>3. \A k \in 1..Len(job.history) : Rated(new, k) => k = n
        BY <1>1, <2>1, <2>4, <3>2 DEF Rated
      <3> QED BY <2>1, <2>2, <2>4, <3>1, <3>3 DEF Decides
    <2>5. CASE job.lastRun # s
      <3>1. ~Rated(new, n) /\ ~Rated(job, n)
        BY <1>1, <2>1, <2>2, <2>5 DEF Rated
      <3>2. \A k \in 1..Len(job.history) : Rated(new, k) <=> Rated(job, k)
        BY <1>1, <2>1, <3>1 DEF Rated
      <3>3. \A k \in 1..Len(job.history) : Rated(new, k) => new.history[k] = job.history[k]
        BY <2>1, <3>1
      <3>4. /\ new.mttd = job.mttd /\ new.baseline = job.baseline /\ new.health = job.health
            /\ Len(new.history) = Len(job.history)
        BY <2>1, <2>2, <2>5
      <3> HIDE DEF Rated
      <3> QED BY <3>2, <3>3, <3>4 DEF Decides
    <2> QED BY <2>4, <2>5
  <1> QED BY <1>1, <1>2 DEF new

\* A run that was not in the history is the latest, and has no feedback.
LEMMA AppliedDecides ==
    ASSUME NEW job, Stored(job), NEW o \in Outcome, o.kind = "run", o.sid # NoSid => ~Has(job, o.sid)
    PROVE  Decides(Applied(job, o))
  <1> DEFINE new == Applied(job, o)
             e   == [sid |-> o.sid, verdict |-> NoVerdict]
             m   == Len(job.history)
  <1>1. Stored(new) /\ new.lastRun = o.sid /\ new.mttd = {} /\ OneMore(job, new, o.sid)
    BY AppliedRun
  <1> HIDE DEF new
  <1>2. m \in Nat /\ Len(new.history) \in Nat
    BY <1>1, JobFields DEF Stored
  <1>3. e.verdict = NoVerdict
    OBVIOUS
  <1> HIDE DEF e, m
  <1>4. PICK d \in {0, 1} :
           /\ Len(new.history) = m + 1 - d
           /\ \A k \in 1..Len(new.history) :
                 new.history[k] = IF k + d = m + 1 THEN e ELSE job.history[k + d]
    BY <1>1 DEF OneMore, Pushed, e, m
  <1>5. ASSUME NEW k \in 1..Len(new.history), Rated(new, k) PROVE FALSE
    <2>1. new.history[k].sid = o.sid /\ o.sid # NoSid /\ new.history[k].verdict # NoVerdict
      BY <1>1, <1>5 DEF Rated
    <2>2. k + d # m + 1
      BY <1>3, <1>4, <2>1
    <2>3. k + d \in 1..m
      BY <1>2, <1>4, <2>2
    <2>4. job.history[k + d].sid = o.sid
      BY <1>4, <2>1, <2>2
    <2> QED BY <2>1, <2>3, <2>4 DEF Has, m
  <1> QED BY <1>1, <1>5 DEF Decides, new

\* Every step leaves the drift state with the latest run.
LEMMA DecidesStep ==
    ASSUME TypeOK, TaskInv, PlaceInv, DecidesInv, [Next]_vars
    PROVE  DecidesInv'
  <1> SUFFICES ASSUME NEW j \in Jobs, Exists(j)' PROVE Decides(jobs'[j])
    BY DEF DecidesInv
  <1>1. ASSUME Exists(j) PROVE Stored(jobs[j]) /\ Distinct(jobs[j]) /\ Decides(jobs[j])
    BY <1>1, TypeParts DEF Catalog, Exists, PlaceInv, StoredInv, DecidesInv
  <1>2. CASE Created(j)
    <2>1. PICK baseline \in SUBSET Mttds : jobs'[j] = NewJob(nextGen, baseline)
      BY <1>2 DEF Created
    <2>2. jobs'[j].history = <<>> /\ jobs'[j].mttd = {} /\ Len(<<>>) = 0
      BY <2>1 DEF NewJob
    <2> QED BY <2>2 DEF Decides
  <1>3. CASE Exists(j) /\ Alike(jobs[j], jobs'[j])
    <2>1. Decides(jobs[j]) /\ \A k : Rated(jobs'[j], k) <=> Rated(jobs[j], k)
      BY <1>1, <1>3 DEF Alike, Rated
    <2> QED BY <1>3, <2>1 DEF Alike, Decides
  <1>4. ASSUME Exists(j), NEW s \in Sids, NEW v \in Verdict, jobs'[j] = Observed(jobs[j], s, v)
        PROVE  Decides(jobs'[j])
    <2> DEFINE job == jobs[j]
    <2>1. Stored(job) /\ Distinct(job) /\ Decides(job)
      BY <1>1, <1>4
    <2> HIDE DEF job
    <2>2. Decides(Observed(job, s, v))
      BY <2>1, ObservedDecides
    <2> QED BY <1>4, <2>2 DEF job
  <1>5. ASSUME Exists(j), Recorded(j) PROVE Decides(jobs'[j])
    <2> DEFINE job == jobs[j]
               new == jobs'[j]
               o   == Head(pending)
               x   == Applied(job, o)
    <2>1. Stored(job) /\ Distinct(job) /\ o \in Outcome /\ o.kind = "run"
      BY <1>1, <1>5 DEF Recorded
    <2>2. o.sid # NoSid => ~Has(job, o.sid)
      <3>1. pending # <<>> /\ pending \in Seq(Outcome)
        BY <1>5, TypeParts DEF Recorded, ControlOK
      <3>2. o = pending[1] /\ 1 \in 1..Len(pending)
        BY <3>1, PendingFacts
      <3> QED BY <1>5, <3>2 DEF PlaceInv, QueueInv, Unseen
    <2>3. new = x \/ (o.sid \in Sids /\ \E v \in Verdict : new = Observed(x, o.sid, v))
      BY <1>5 DEF Recorded
    <2> HIDE DEF job, new, o
    <2>4. Stored(x) /\ OneMore(job, x, o.sid)
      BY <2>1, AppliedRun
    <2>5. Decides(x)
      BY <2>1, <2>2, AppliedDecides
    <2> HIDE DEF x
    <2>6. Distinct(x)
      BY <2>1, <2>2, <2>4, OneMoreHas
    <2>7. \A s \in Sids, v \in Verdict : Decides(Observed(x, s, v))
      BY <2>4, <2>5, <2>6, ObservedDecides
    <2>8. Decides(new)
      BY <2>3, <2>5, <2>7
    <2> QED BY <2>8 DEF new
  <1> QED BY <1>2, <1>3, <1>4, <1>5, JobStep

\* Feedback on an older run, however late, leaves the detection time and the
\* health of the job to its latest run (record_feedback compares last_run_id).
THEOREM LatestCorrect == Spec => []LatestRunDecides
  <1>1. Init => DecidesInv
    BY DEF Init, DecidesInv, Exists, NoJob
  <1>2. (TypeOK /\ TaskInv) /\ PlaceInv /\ DecidesInv /\ [Next]_vars => DecidesInv'
    BY DecidesStep
  <1>3. TypeOK /\ DecidesInv => LatestRunDecides
    <2> SUFFICES ASSUME TypeOK, DecidesInv, NEW j \in Jobs, Exists(j)
                 PROVE  LET job    == jobs[j]
                            latest == {k \in DOMAIN job.history : job.history[k].sid = job.lastRun
                                                                  /\ job.lastRun # NoSid
                                                                  /\ job.history[k].verdict # NoVerdict}
                        IN  /\ latest = {} => job.mttd = {}
                            /\ \A k \in latest :
                                  LET v == job.history[k].verdict
                                  IN  /\ job.mttd = IF v.detected = "yes" THEN {v.mttd} ELSE {}
                                      /\ job.health = Health(job.baseline, v)
      BY DEF LatestRunDecides
    <2> DEFINE job    == jobs[j]
               latest == {k \in DOMAIN job.history : job.history[k].sid = job.lastRun
                                                     /\ job.lastRun # NoSid
                                                     /\ job.history[k].verdict # NoVerdict}
    <2>1. job \in ScheduledJob /\ Decides(job)
      BY TypeParts DEF Catalog, Exists, Stored, DecidesInv
    <2>2. DOMAIN job.history = 1..Len(job.history)
      BY <2>1, JobFields
    <2> HIDE DEF job
    <2>3. \A k : k \in latest <=> (k \in 1..Len(job.history) /\ Rated(job, k))
      BY <2>2 DEF Rated
    <2> HIDE DEF latest
    <2>4. latest = {} => job.mttd = {}
      BY <2>1, <2>3 DEF Decides
    <2>5. \A k \in latest : /\ job.mttd = IF job.history[k].verdict.detected = "yes"
                                          THEN {job.history[k].verdict.mttd} ELSE {}
                            /\ job.health = Health(job.baseline, job.history[k].verdict)
      BY <2>1, <2>3 DEF Decides
    <2> QED BY <2>4, <2>5 DEF job, latest
  <1> QED BY <1>1, <1>2, <1>3, TypeCorrect, PlaceCorrect, PTL DEF Spec

-----------------------------------------------------------------------------
(* Every attempt is in the history, unless the process dies in between *)

\* The run in execution stays there until it has returned.
LEMMA AwaitStep ==
    ASSUME TypeOK, TaskInv, [Next]_vars, ~Crash, pc = "await"
    PROVE  \/ pc' = "await" /\ claim' = claim
           \/ /\ pending' = Append(pending,
                    [job |-> claim.job, gen |-> claim.gen, sid |-> claim.sid, kind |-> "run"])
  <1>1. CASE Completed
    BY <1>1 DEF Completed, Finish
  <1>2. CASE ~Completed
    BY <1>2 DEF Next, Poll, vars, InitialProbes, Tick, FlushRead, FlushWrite, FlushFails,
             FlushDone, ClaimDue, ClaimFails, RoundEnds, Skip, StartFails, Start,
             CreateSchedule, DeleteSchedule, ToggleSchedule, IntervalPasses,
             ScenarioEnds, FeedbackAudit, FeedbackSchedule, FeedbackScheduleFails,
             Rest, Elsewhere, schedVars
  <1> QED BY <1>1, <1>2

\* Every step short of a crash accounts for every attempt.
LEMMA AttemptStep ==
    ASSUME TypeOK, TypeOK', TaskInv, IssuedInv, PlaceInv, AttemptInv, ~Crash, [Next]_vars
    PROVE  AttemptInv'
  <1>0. ControlOK /\ pending \in Seq(Outcome) /\ Len(pending) \in Nat
    BY TypeParts, LenProperties DEF ControlOK
  <1> SUFFICES ASSUME NEW s \in Sids, s < nextSid', NEW j, j = origin'[s].job,
                      Exists(j)', jobs'[j].gen = origin'[s].gen
               PROVE  \/ pc' = "await" /\ claim'.sid = s
                      \/ \E k \in 1..Len(pending') : pending'[k].sid = s
                      \/ Has(jobs'[j], s)
                      \/ Len(jobs'[j].history) = MaxHistory
    BY DEF AttemptInv
  <1>1. CASE s = nextSid /\ \E c \in todo : Start(c)
    BY <1>1 DEF Start
  <1>2. CASE s < nextSid
    <2>1. origin'[s] = origin[s] /\ origin[s] \in Claim /\ origin[s].gen < nextGen
      BY <1>0, <1>2, NumberStep DEF IssuedInv, ControlOK
    <2>2. j \in Jobs /\ origin[s].gen \in Nat /\ nextGen \in Nat /\ j = origin[s].job
      BY <1>0, <2>1 DEF Claim, Gens, ControlOK
    <2>3. jobs'[j].gen # nextGen
      BY <2>1, <2>2
    <2>4. Exists(j) /\ jobs'[j].gen = jobs[j].gen /\ (SameRuns(jobs[j], jobs'[j]) \/ Grown(j))
      BY <2>2, <2>3, HistoryStep
    <2>5. \/ pc = "await" /\ claim.sid = s
          \/ \E k \in 1..Len(pending) : pending[k].sid = s
          \/ Has(jobs[j], s)
          \/ Len(jobs[j].history) = MaxHistory
      BY <1>2, <2>1, <2>2, <2>4 DEF AttemptInv
    <2>6. CASE pc = "await" /\ claim.sid = s
      <3>1. CASE pc' = "await" /\ claim' = claim
        BY <2>6, <3>1
      <3>2. CASE pending' = Append(pending,
                    [job |-> claim.job, gen |-> claim.gen, sid |-> claim.sid, kind |-> "run"])
        <4> DEFINE e == [job |-> claim.job, gen |-> claim.gen, sid |-> claim.sid, kind |-> "run"]
        <4>1. e \in Outcome
          BY <1>0, <2>6 DEF TaskInv, ControlOK, Outcome
        <4>2. e.sid = s
          BY <2>6
        <4> HIDE DEF e
        <4>3. Len(pending') = Len(pending) + 1 /\ pending'[Len(pending) + 1] = e
          BY <1>0, <3>2, <4>1 DEF e
        <4>4. Len(pending) + 1 \in 1..Len(pending')
          BY <1>0, <4>3
        <4> QED BY <4>2, <4>3, <4>4
      <3> QED BY <2>6, <3>1, <3>2, AwaitStep
    <2>7. ASSUME NEW k \in 1..Len(pending), pending[k].sid = s
          PROVE  \/ \E i \in 1..Len(pending') : pending'[i].sid = s
                 \/ Has(jobs'[j], s)
                 \/ Len(jobs'[j].history) = MaxHistory
      <3>1. s # NoSid
        BY DEF Sids, NoSid
      <3>2. CASE FlushWrite
        <4>1. pending # <<>> /\ pending' = Tail(pending)
          BY <3>2 DEF FlushWrite, TaskInv
        <4>2. /\ Head(pending) = pending[1] /\ Len(Tail(pending)) = Len(pending) - 1
              /\ \A i \in 1..Len(Tail(pending)) : Tail(pending)[i] = pending[i + 1]
          BY <1>0, <4>1, PendingFacts
        <4>3. CASE k = 1
          <5>1. pending[k].job = j /\ pending[k].gen = jobs[j].gen
            <6>1. origin[s] = [job |-> pending[k].job, gen |-> pending[k].gen]
              BY <2>7, <3>1 DEF PlaceInv, QueueInv
            <6>2. origin[s].job = pending[k].job /\ origin[s].gen = pending[k].gen
              BY <6>1
            <6> QED BY <2>1, <2>2, <2>4, <6>2
          <5>2. Recorded(j)
            BY <2>2, <2>4, <2>7, <3>1, <3>2, <4>2, <4>3, <5>1, FlushStep
          <5>3. Grown(j)
            BY <2>2, <2>4, <5>2, GrownStep
          <5> QED BY <2>7, <4>2, <4>3, <5>3 DEF Grown
        <4>4. CASE k # 1
          <5>1. k - 1 \in 1..Len(Tail(pending)) /\ (k - 1) + 1 = k
            BY <1>0, <4>2, <4>4
          <5>2. pending'[k - 1] = pending[k]
            BY <4>1, <4>2, <5>1
          <5> QED BY <2>7, <4>1, <5>1, <5>2
        <4> QED BY <4>3, <4>4
      <3>3. CASE ~FlushWrite
        <4>1. \/ pending' = pending
              \/ /\ Len(pending') = Len(pending) + 1
                 /\ \A i \in 1..Len(pending) : pending'[i] = pending[i]
              \/ pending' = <<>> /\ pc' = "boot"
          BY <3>3, QueueStep
        <4>2. ~(pending' = <<>> /\ pc' = "boot")
          <5> SUFFICES ASSUME pending' = <<>>, pc' = "boot" PROVE FALSE
            OBVIOUS
          <5>1. pending # <<>>
            BY <1>0, EmptySeq
          <5>2. pending' = pending
            BY <3>3, QueueStep DEF Next, Poll, vars, InitialProbes, Tick, FlushRead, FlushFails,
               FlushDone, ClaimDue, ClaimFails, RoundEnds, Completed, Skip, StartFails, Start, Finish,
               CreateSchedule, DeleteSchedule, ToggleSchedule, IntervalPasses,
               ScenarioEnds, FeedbackAudit, FeedbackSchedule, FeedbackScheduleFails,
               Rest, Elsewhere, schedVars
          <5> QED BY <5>1, <5>2
        <4>3. k \in 1..Len(pending') /\ pending'[k] = pending[k]
          BY <1>0, <4>1, <4>2
        <4> QED BY <2>7, <4>3
      <3> QED BY <3>2, <3>3
    <2>8. CASE Has(jobs[j], s) \/ Len(jobs[j].history) = MaxHistory
      BY <2>4, <2>8, SameRunsHas DEF Grown
    <2> QED BY <2>5, <2>6, <2>7, <2>8
  <1> QED BY <1>1, <1>2, NumberStep

\* As long as the process does not die between a run and the write of its outcome,
\* every run that the scheduler has started ends up in the history of its job, and
\* leaves it only for newer ones: a write that fails keeps the outcome.  With a
\* crash it does not (the run scheduler_attempts has the counterexample).
THEOREM AttemptCorrect ==
    ASSUME "crash" \notin Failures
    PROVE  Spec => []AttemptHasHistory
  <1>1. Init => AttemptInv
    BY DEF Init, AttemptInv, Sids
  <1>2. (TypeOK /\ TaskInv) /\ (TypeOK /\ TaskInv)' /\ IssuedInv /\ PlaceInv /\ AttemptInv /\ [Next]_vars
           => AttemptInv'
    BY AttemptStep DEF Crash
  <1>3. TypeOK /\ IssuedInv /\ PlaceInv /\ AttemptInv => AttemptHasHistory
    <2> SUFFICES ASSUME TypeOK, IssuedInv, PlaceInv, AttemptInv, NEW s \in 1..(nextSid - 1), NEW j, j = origin[s].job,
                        Exists(j), jobs[j].gen = origin[s].gen, ~Open(j, jobs[j].gen)
                 PROVE  \/ \E k \in DOMAIN jobs[j].history : jobs[j].history[k].sid = s
                        \/ Len(jobs[j].history) = MaxHistory
      BY DEF AttemptHasHistory
    <2>1. ControlOK /\ Catalog(jobs) /\ pending \in Seq(Outcome) /\ DOMAIN pending = 1..Len(pending)
      BY TypeParts, LenProperties DEF ControlOK
    <2>2. s \in Sids /\ s < nextSid /\ s # NoSid
      BY <2>1 DEF ControlOK, Sids, NoSid
    <2>3. ~(pc = "await" /\ claim.sid = s)
      BY <2>2 DEF PlaceInv, ClaimInv, Open
    <2>4. \A k \in 1..Len(pending) : pending[k].sid # s
      <3> SUFFICES ASSUME NEW k \in 1..Len(pending), pending[k].sid = s PROVE FALSE
        OBVIOUS
      <3>1. origin[s] = [job |-> pending[k].job, gen |-> pending[k].gen]
        BY <2>2 DEF PlaceInv, QueueInv
      <3>2. pending[k].job = j /\ pending[k].gen = jobs[j].gen
        BY <3>1
      <3> QED BY <2>1, <3>2 DEF Open
    <2>5. Has(jobs[j], s) \/ Len(jobs[j].history) = MaxHistory
      BY <2>2, <2>3, <2>4 DEF AttemptInv
    <2>6. jobs[j] \in ScheduledJob
      <3>1. origin[s] \in Claim
        BY <2>1, <2>2 DEF ControlOK, IssuedInv
      <3>2. j \in Jobs
        BY <3>1 DEF Claim
      <3> QED BY <2>1, <3>2 DEF Catalog, Exists, Stored
    <2>7. DOMAIN jobs[j].history = 1..Len(jobs[j].history)
      BY <2>6, JobFields
    <2> QED BY <2>5, <2>7 DEF Has
  <1> QED BY <1>1, <1>2, <1>3, TypeCorrect, IssuedCorrect, PlaceCorrect, PTL DEF Spec
=============================================================================
