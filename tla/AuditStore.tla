----------------------------- MODULE AuditStore -----------------------------
(***************************************************************************)
(* The audit of the control plane: an append-only file of signed revisions,*)
(* the trail of latest revisions and the metrics aggregate, with the runs  *)
(* and the operators that write to it, restarts and failing disks.         *)
(***************************************************************************)
EXTENDS Integers, FiniteSets, Sequences, RunAggregate

CONSTANTS
    Runs,        \* run ids: unique over restarts, next_run_id
    Operators,   \* feedback requests under way
    Keys,        \* audit signing keys an operator may configure
    Settings,    \* bounds: what may fail ("crash", "write", "rollback", "key"),
                 \* and the lines the file may have then
    NoRecord

Modes == {"runner", "simulated"}
Statuses == {"COMPLETED", "INTERRUPTED"}

\* The names of the writers that are not operators are not theirs, and no
\* record is none.
ASSUME NamesAssumption ==
    /\ Operators \cap {"admission", "end", "recovery"} = {}
    /\ NoRecord \notin [status : Statuses \cup {"QUEUED"}, mode : Modes,
                        feedback : Feedbacks \cup {NoFeedback}]

VARIABLES
    file,       \* the revisions in ASMODEUS_AUDIT_LOG
    readable,   \* "no" once a line of the file is damaged
    leftover,   \* lines whose writer was told that the write failed
    process,    \* "down", "recovering", "up" or "refused"
    key,        \* the signing key of this process
    trail,      \* Snapshot.trail: latest revisions by first appearance
    aggregate,  \* Snapshot.aggregate
    writer,     \* the holder of the writer lock, between persist and publication
    task,       \* run -> its worker: "none", "running", "ended" or "unsaved"
    request,    \* operator -> the feedback request it has under way
    setting     \* the one of Settings that this behaviour is subject to

storeVars == <<trail, aggregate, writer>>
diskVars == <<file, readable, leftover>>
auditVars == <<diskVars, process, key, storeVars, task, request, setting>>

Revision == [run : Runs, status : Statuses \cup {"QUEUED"}, mode : Modes,
             feedback : Feedbacks \cup {NoFeedback}, signer : Keys]

Idle == [pc |-> "idle"]
NoRequest == [run |-> NoRecord]

-----------------------------------------------------------------------------
(* AuditTrail *)

RunsOf(revisions) == {revisions[i].run : i \in DOMAIN revisions}

\* The last revision of run r, of those at some lines.
Latest(revisions, lines, r) ==
    LET mine == {i \in lines : revisions[i].run = r}
    IN  revisions[CHOOSE i \in mine : \A j \in mine : j <= i]

\* The lines that are the first of their run.
Firsts(revisions, lines) ==
    {i \in lines : \A j \in lines : j < i => revisions[j].run # revisions[i].run}

\* The n-th of a set of lines.
Nth(lines, n) == CHOOSE i \in lines : Cardinality({j \in lines : j <= i}) = n

\* from_jsonl: the last revision of each run, at the place of its first.
Replay(revisions, lines) ==
    LET firsts == Firsts(revisions, lines)
    IN  [n \in 1..Cardinality(firsts) |->
            Latest(revisions, lines, revisions[Nth(firsts, n)].run)]

Recorded(r) == r \in RunsOf(trail)

Get(r) == Latest(trail, DOMAIN trail, r)

\* Mutant: an update is appended.
PublishedAppending(revision) == Append(trail, revision)

\* append, or update in place.
Published(revision) ==
    IF Recorded(revision.run)
    THEN [i \in DOMAIN trail |-> IF trail[i].run = revision.run THEN revision ELSE trail[i]]
    ELSE Append(trail, revision)

-----------------------------------------------------------------------------
(* Aggregate *)

\* Mutant: the old contribution is not taken out.
CountedTwice(revision) == Plus(aggregate, Contribution(revision))

\* record_run, or update_run with the revision that is replaced.
Counted(revision) ==
    Plus(IF Recorded(revision.run) THEN Minus(aggregate, Contribution(Get(revision.run)))
                                   ELSE aggregate,
         Contribution(revision))

-----------------------------------------------------------------------------
(* A commit: append or update, under the writer lock *)

AuditInit ==
    /\ setting \in Settings
    /\ file = <<>> /\ readable = "yes" /\ leftover = {}
    /\ process = "down" /\ key \in Keys
    /\ trail = <<>> /\ aggregate = Nothing /\ writer = Idle
    /\ task = [r \in Runs |-> "none"]
    /\ request = [o \in Operators |-> NoRequest]

\* The writer lock is free, and the bound allows a line more.
Begin(revision, by) ==
    /\ writer = Idle
    /\ Len(file) < setting.lines
    /\ writer' = [pc |-> "write", revision |-> revision, by |-> by]
    /\ UNCHANGED <<diskVars, process, key, trail, aggregate, task, request>>

\* append_to_file: the line is written and synced.
Written ==
    /\ writer.pc = "write"
    /\ file' = Append(file, writer.revision)
    /\ writer' = [writer EXCEPT !.pc = "publish"]
    /\ UNCHANGED <<readable, leftover, process, key, trail, aggregate, task, request>>

\* What is left of a write that set_len does not take back.
WholeLine ==
    /\ file' = Append(file, writer.revision)
    /\ UNCHANGED readable

PieceOfLine ==
    /\ readable' = "no"
    /\ UNCHANGED file

\* Mutant: the record is published although the write failed.
AfterFailurePublished(trailed) == Published(writer.revision)

\* Nothing of a failed write is published.
AfterFailure(trailed) == trailed

\* The write fails, and perhaps set_len too.  A failed admission or feedback is
\* answered, a worker ends all the same, and the startup is given up.
WriteFails ==
    /\ "write" \in setting.failures
    /\ writer.pc = "write"
    /\ \/ UNCHANGED diskVars
       \/ "rollback" \in setting.failures /\ WholeLine /\ leftover' = leftover \cup {Len(file) + 1}
       \/ "rollback" \in setting.failures /\ PieceOfLine /\ UNCHANGED leftover
    /\ writer' = Idle
    /\ task' = CASE writer.by = "admission" -> [task EXCEPT ![writer.revision.run] = "ended"]
                 [] writer.by = "end"       -> [task EXCEPT ![writer.revision.run] = "unsaved"]
                 [] OTHER                   -> task
    /\ request' = [o \in Operators |-> IF writer.by = o THEN NoRequest ELSE request[o]]
    /\ process' = IF writer.by = "recovery" THEN "down" ELSE process
    /\ trail' = AfterFailure(trail)
    /\ UNCHANGED <<key, aggregate>>

\* Trail and aggregate change under one lock; the caller gets its answer.
Publish ==
    /\ writer.pc = "publish"
    /\ LET revision == writer.revision
       IN  /\ trail' = Published(revision)
           /\ aggregate' = Counted(revision)
           /\ task' = CASE writer.by = "admission" -> [task EXCEPT ![revision.run] = "running"]
                        [] writer.by = "end"       -> [task EXCEPT ![revision.run] = "ended"]
                        [] OTHER                   -> task
    /\ request' = [o \in Operators |-> IF writer.by = o THEN NoRequest ELSE request[o]]
    /\ writer' = Idle
    /\ UNCHANGED <<diskVars, process, key>>

-----------------------------------------------------------------------------
(* The writers *)

\* The worker's first step; execution begins once the record is published.
Admit(r) ==
    /\ process = "up"
    /\ task[r] = "none"
    /\ ~Recorded(r)
    /\ \E mode \in Modes :
          Begin([run |-> r, status |-> "QUEUED", mode |-> mode,
                 feedback |-> NoFeedback, signer |-> key], "admission")

\* The scenario has ended; the runner may have simulated it.
End(r) ==
    /\ process = "up"
    /\ task[r] = "running"
    /\ \E mode \in {Get(r).mode, "simulated"} :
          Begin([Get(r) EXCEPT !.status = "COMPLETED", !.mode = mode, !.signer = key], "end")

\* Mutant: feedback before the end is taken.
AcceptsAny(r) == Recorded(r)

AcceptsFeedback(r) == Recorded(r) /\ IsTerminal(Get(r))

\* run_feedback looks at the record before it enters the transaction.
CheckFeedback(o, r) ==
    /\ process = "up"
    /\ request[o] = NoRequest
    /\ AcceptsFeedback(r)
    /\ \E f \in Feedbacks : request' = [request EXCEPT ![o] = [run |-> r, feedback |-> f]]
    /\ UNCHANGED <<diskVars, process, key, storeVars, task>>

\* The transaction works on the latest revision.
WriteFeedback(o) ==
    /\ process = "up"
    /\ request[o] # NoRequest
    /\ Begin([Get(request[o].run) EXCEPT !.feedback = request[o].feedback, !.signer = key], o)

-----------------------------------------------------------------------------
(* Restarts *)

\* The process dies.  A write that has begun is complete, torn, or not there.
Crash ==
    /\ "crash" \in setting.failures
    /\ process \in {"recovering", "up"}
    /\ process' = "down"
    /\ \/ UNCHANGED <<file, readable>>
       \/ writer.pc = "write" /\ (WholeLine \/ PieceOfLine)
    /\ trail' = <<>> /\ aggregate' = Nothing /\ writer' = Idle
    /\ task' = [r \in Runs |-> IF task[r] = "none" THEN "none" ELSE "ended"]
    /\ request' = [o \in Operators |-> NoRequest]
    /\ UNCHANGED <<leftover, key>>

\* Mutant: nobody asks who signed.
TrustedAny(revisions, k) == TRUE

\* verify_with_key on the latest revision of every run.
Trusted(revisions, k) == \A i \in DOMAIN revisions : revisions[i].signer = k

\* with_storage: a file that cannot be read, or that another key signed, stops
\* the startup.
Start ==
    /\ process \in {"down", "refused"}
    /\ key' \in IF "key" \in setting.failures THEN Keys ELSE {key}
    /\ IF readable = "yes" /\ Trusted(Replay(file, DOMAIN file), key')
       THEN /\ process' = "recovering"
            /\ trail' = Replay(file, DOMAIN file)
            /\ aggregate' = FromRecords(trail')
            /\ leftover' = {}
       ELSE /\ process' = "refused"
            /\ UNCHANGED <<trail, aggregate, leftover>>
    /\ UNCHANGED <<file, readable, writer, task, request>>

\* Mutant: a run that was under way is left as it is.
IncompleteNone == {}

\* The runs recover_incomplete has yet to settle.
Incomplete == {r \in RunsOf(trail) : ~IsTerminal(Get(r))}

\* recover_incomplete, one record at a time; one that cannot be written ends
\* the startup.
Recover(r) ==
    /\ process = "recovering"
    /\ r \in Incomplete
    /\ Begin([Get(r) EXCEPT !.status = "INTERRUPTED", !.signer = key], "recovery")

Recovered ==
    /\ process = "recovering"
    /\ writer = Idle
    /\ Incomplete = {}
    /\ process' = "up"
    /\ UNCHANGED <<diskVars, key, storeVars, task, request>>

-----------------------------------------------------------------------------
AuditNext ==
    /\ UNCHANGED setting
    /\ \/ \E r \in Runs : Admit(r) \/ End(r) \/ Recover(r)
       \/ \E o \in Operators : WriteFeedback(o) \/ \E r \in Runs : CheckFeedback(o, r)
       \/ Written \/ WriteFails \/ Publish \/ Crash \/ Start \/ Recovered

AuditSpec == AuditInit /\ [][AuditNext]_auditVars

-----------------------------------------------------------------------------
(* Properties *)

Serving == process \in {"recovering", "up"}

\* What a run is in the hands of: a worker, the recovery, or an operator.
Writer == [pc : {"write", "publish"}, revision : Revision,
           by : Operators \cup {"admission", "end", "recovery"}]

\* The ranges of the variables; the trail has one record per run (append, update).
TypeOK ==
    /\ file \in Seq(Revision)
    /\ readable \in {"yes", "no"}
    /\ leftover \subseteq DOMAIN file
    /\ process \in {"down", "recovering", "up", "refused"}
    /\ key \in Keys
    /\ trail \in Seq(Revision) /\ Cardinality(RunsOf(trail)) = Len(trail)
    /\ aggregate \in [Counters -> Nat]
    /\ writer \in Writer \cup {Idle}
    /\ task \in [Runs -> {"none", "running", "ended", "unsaved"}]
    /\ request \in [Operators -> [run : Runs, feedback : Feedbacks] \cup {NoRequest}]

\* What is served is the replay of the file: every revision that a caller was
\* told is durable is there and nothing else, in the order of the file; a line
\* is written before it is published.  Lines of failed writes come in with the
\* next start (architecture-review-2026-09-22.ru.md:14).
TrailIsReplay ==
    LET written == IF writer # Idle /\ writer.pc = "publish" THEN Len(file) - 1 ELSE Len(file)
    IN  Serving => trail = Replay(file, (1..written) \ leftover)

\* The incremental metrics are those a restart would compute, whatever order
\* of ends, feedback and corrections led here: update_run never saturates.
AggregateIsReplay == Serving => aggregate = FromRecords(trail)

\* Every run that ended is counted exactly once, as simulated, awaiting
\* feedback or answered; no containment without detection.
CountedOnce ==
    Serving =>
        /\ aggregate.executed = Cardinality({i \in DOMAIN trail : IsTerminal(trail[i])})
        /\ aggregate.executed = aggregate.simulated + aggregate.pending + aggregate.feedback
        /\ aggregate.contained <= aggregate.detected /\ aggregate.detected <= aggregate.feedback

\* The metrics are those of the records, each counted once (record_run, update_run,
\* contribution).
MetricsAreRecords == AggregateIsReplay /\ CountedOnce

\* Once startup is over, a record is unfinished exactly while its worker runs,
\* or if its terminal revision could not be written: nothing executes without
\* a durable record, and no run of an earlier process is left open.
OpenIsExecuting ==
    process = "up" =>
        /\ \A r \in Runs : task[r] = "running" => Recorded(r) /\ ~IsTerminal(Get(r))
        /\ \A r \in RunsOf(trail) :
              IsTerminal(Get(r)) \/ task[r] \in {"running", "unsaved"}

\* A process serves only records that its own key signed
\* (architecture-review-2026-09-22.ru.md:18).
TrailIsTrusted == Serving => \A i \in DOMAIN trail : trail[i].signer = key

\* What the audit serves is what its file would give a restart, and the key of
\* the process signed all of it (append, update, verify_with_key).
AuditIsDurable == TypeOK /\ TrailIsReplay /\ TrailIsTrusted

\* The latest revision of every run, as the file has it.
FileLog ==
    [r \in Runs |->
        IF r \in RunsOf(file)
        THEN LET last == Latest(file, DOMAIN file, r)
             IN  [status |-> last.status, mode |-> last.mode, feedback |-> last.feedback]
        ELSE NoRecord]

Log == INSTANCE AuditLog WITH log <- FileLog

\* The file, replayed, is the audit of AuditLog at every moment: what any
\* crash or failed write leaves is a legal history of every run.  It is
\* Log!Spec; that a step which leaves the file alone stutters is put first.
FileIsAuditLog ==
    /\ Log!Init
    /\ [][file' # file => Log!Next \/ UNCHANGED FileLog]_file
=============================================================================
