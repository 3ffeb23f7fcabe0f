---------------------------- MODULE PersistentStore ----------------------------
(***************************************************************************)
(* Persistent<T>, the JSON snapshot below the catalogs of campaigns and    *)
(* schedules and the campaign run store: a transaction works on a copy,    *)
(* replaces the file by a synced one and then publishes the copy.  The     *)
(* value is the set of the updates that made it.                           *)
(***************************************************************************)
EXTENDS FiniteSets

CONSTANTS
    Updates,     \* the calls of update, each of them made once
    Ineffective  \* those of them that leave the value as it is

VARIABLES
    snapshot,        \* the snapshot file
    tmp,         \* the file beside it, path.with_extension("json.tmp")
    former,      \* what snapshot may hold after a power loss: the directory is not synced
    value,       \* what read() gives
    program,     \* "down", "up", or "refused": the snapshot does not load
    transaction, \* the holder of the writer lock
    answer       \* update -> what its caller knows

snapshotVars == <<snapshot, tmp, former, value, program, transaction, answer>>

Absent == [state |-> "absent", value |-> {}]
Partial == [state |-> "partial", value |-> {}]
Whole(v) == [state |-> "whole", value |-> v]

NoTransaction == [step |-> "none"]

-----------------------------------------------------------------------------
SnapshotInit ==
    /\ snapshot = Absent /\ tmp = Absent /\ former = {Absent}
    /\ value = {} /\ program = "down" /\ transaction = NoTransaction
    /\ answer = [u \in Updates |-> "none"]

\* The default stands for a file that is not there.
Load ==
    /\ program = "down"
    /\ IF snapshot.state = "partial"
       THEN program' = "refused" /\ UNCHANGED value
       ELSE program' = "up" /\ value' = snapshot.value
    /\ UNCHANGED <<snapshot, tmp, former, transaction, answer>>

\* Mutant: any file will do.
NeedNotWriteOnce(next) == snapshot.state = "whole"

\* The bytes are those of the value in force, and the file is there.
NeedNotWrite(next) == next = value /\ snapshot.state = "whole"

\* update takes the writer lock and applies the closure to a copy.
BeginUpdate(u) ==
    /\ program = "up"
    /\ transaction = NoTransaction
    /\ answer[u] = "none"
    /\ LET next == IF u \in Ineffective THEN value ELSE value \cup {u}
       IN  transaction' = [step |-> IF NeedNotWrite(next) THEN "publish" ELSE "open",
                           next |-> next, update |-> u]
    /\ answer' = [answer EXCEPT ![u] = "waiting"]
    /\ UNCHANGED <<snapshot, tmp, former, value, program>>

\* The closure refuses: a conflict, or an unknown id.
Refuse(u) ==
    /\ program = "up"
    /\ transaction = NoTransaction
    /\ answer[u] = "none"
    /\ answer' = [answer EXCEPT ![u] = "failed"]
    /\ UNCHANGED <<snapshot, tmp, former, value, program, transaction>>

Advance(from, to) ==
    /\ transaction.step = from
    /\ transaction' = [transaction EXCEPT !.step = to]

\* open truncates what an earlier process may have left.
Open ==
    /\ Advance("open", "write")
    /\ tmp' = Partial
    /\ UNCHANGED <<snapshot, former, value, program, answer>>

Write ==
    /\ Advance("write", "sync")
    /\ tmp' = Whole(transaction.next)
    /\ UNCHANGED <<snapshot, former, value, program, answer>>

Sync ==
    /\ Advance("sync", "rename")
    /\ UNCHANGED <<snapshot, tmp, former, value, program, answer>>

\* Mutant: sync_all is forgotten.
RenamesAfterWrite == "sync"

RenamesAfter == "rename"

\* The entry of the directory reaches the disk at some later time; a file that
\* was not synced may then have lost its bytes.
Rename ==
    /\ Advance(RenamesAfter, "publish")
    /\ snapshot' = tmp
    /\ tmp' = Absent
    /\ former' = former \cup {tmp} \cup (IF transaction.step = "sync" THEN {Partial} ELSE {})
    /\ UNCHANGED <<value, program, answer>>

\* What the caller of u learns; one that has left learns nothing.
Told(u, what) == IF answer[u] = "waiting" THEN what ELSE answer[u]

Answered(what) ==
    [answer EXCEPT ![transaction.update] = Told(transaction.update, what)]

PublishValue ==
    /\ transaction.step = "publish"
    /\ value' = transaction.next
    /\ answer' = Answered("done")
    /\ transaction' = NoTransaction
    /\ UNCHANGED <<snapshot, tmp, former, program>>

\* Mutant: the copy is published all the same.
ValueAfterFailure(v) == transaction.next

KeptValue(v) == v

\* create_dir_all or a step of write fails; remove_file may fail as well.
Fail ==
    /\ transaction.step \in {"open", "write", "sync", "rename"}
    /\ tmp' \in {tmp, Absent}
    /\ value' = KeptValue(value)
    /\ answer' = Answered("failed")
    /\ transaction' = NoTransaction
    /\ UNCHANGED <<snapshot, former, program>>

\* The future of update is dropped; its blocking task goes on.
Leave(u) ==
    /\ answer[u] = "waiting"
    /\ answer' = [answer EXCEPT ![u] = "left"]
    /\ UNCHANGED <<snapshot, tmp, former, value, program, transaction>>

Stopped ==
    /\ program # "down"
    /\ program' = "down"
    /\ value' = {}
    /\ transaction' = NoTransaction

ProgramCrash ==
    /\ Stopped
    /\ answer' = [u \in Updates |-> Told(u, "left")]
    /\ UNCHANGED <<snapshot, tmp, former>>

\* The last renames may be undone, and with them what callers were told is done.
LosePower ==
    /\ Stopped
    /\ snapshot' \in former
    /\ former' = {snapshot'}
    /\ tmp' \in {tmp, IF tmp = Absent THEN Absent ELSE Partial}
    /\ answer' = [u \in Updates |-> IF answer[u] = "done" /\ u \notin snapshot'.value
                                    THEN "left" ELSE Told(u, "left")]

SnapshotNext ==
    \/ \E u \in Updates : BeginUpdate(u) \/ Refuse(u) \/ Leave(u)
    \/ Open \/ Write \/ Sync \/ Rename \/ PublishValue \/ Fail
    \/ Load \/ ProgramCrash \/ LosePower

SnapshotSpec == SnapshotInit /\ [][SnapshotNext]_snapshotVars

-----------------------------------------------------------------------------
(* Properties *)

\* No crash, power loss or failed write ever leaves a snapshot that the next
\* start cannot load (update: write_all, sync_all, rename).
SnapshotIsWhole == program # "refused" /\ snapshot.state # "partial"

\* Readers see what a restart would load, except between the rename and the
\* publication, and nothing of a transaction that failed (update).
ServedIsStored ==
    program = "up" /\ transaction.step # "publish" => value = snapshot.value

\* What a caller was told holds over every later failure and restart: an update
\* that is done is in force, one that failed is not (update's io::Result).  A
\* power loss may take back the last of those that are done.
AnswersAreTrue ==
    program = "up" =>
        \A u \in Updates \ Ineffective :
            /\ answer[u] = "done" => u \in value
            /\ answer[u] = "failed" => u \notin value

\* What the callers of Persistent rely on, whatever fails (update, load).
SnapshotKeepsPromises == SnapshotIsWhole /\ ServedIsStored /\ AnswersAreTrue
=============================================================================
