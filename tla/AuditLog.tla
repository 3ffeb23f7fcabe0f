------------------------------ MODULE AuditLog ------------------------------
(***************************************************************************)
(* What the audit promises: one record per run, which is admitted once,    *)
(* ends once, and takes operators' feedback only after it ended.           *)
(***************************************************************************)

CONSTANTS Runs, Modes, Statuses, Feedbacks, NoRecord, NoFeedback

VARIABLE log

Init == log = [r \in Runs |-> NoRecord]

Admit(r) ==
    /\ log[r] = NoRecord
    /\ \E mode \in Modes :
          log' = [log EXCEPT ![r] = [status |-> "QUEUED", mode |-> mode, feedback |-> NoFeedback]]

\* A run ends once, from its own task or by the recovery after a restart.  The
\* runner may report that it only simulated.
End(r) ==
    /\ log[r] # NoRecord
    /\ log[r].status = "QUEUED"
    /\ \E status \in Statuses, mode \in {log[r].mode, "simulated"} :
          log' = [log EXCEPT ![r].status = status, ![r].mode = mode]

TakeFeedback(r) ==
    /\ log[r] # NoRecord
    /\ log[r].status # "QUEUED"
    /\ \E f \in Feedbacks : log' = [log EXCEPT ![r].feedback = f]

Next == \E r \in Runs : Admit(r) \/ End(r) \/ TakeFeedback(r)

Spec == Init /\ [][Next]_log
=============================================================================
