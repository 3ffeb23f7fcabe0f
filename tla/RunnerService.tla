--------------------------- MODULE RunnerService ---------------------------
(***************************************************************************)
(* One runner (service.rs) and the control plane's side of its executions  *)
(* (dispatch.rs dispatch_controlled, and the outcome that execution.rs     *)
(* makes of it).                                                           *)
(*                                                                         *)
(* On the runner an execution is a blocking worker, its supervisor, and    *)
(* the handlers of the Execute, Heartbeat and Cancel calls.  On the        *)
(* control plane it is a task that renews the lease, passes a cancellation *)
(* on and waits for the terminal event.  Calls may be answered late or not *)
(* at all, the stream may break, and either process may die.               *)
(*                                                                         *)
(* Time is not counted: a lease or a deadline may be over at any moment.   *)
(* Progress events are left out, since only the live state shows them, and *)
(* so is the second try of Sandbox::drop to remove what cleanup could not. *)
(***************************************************************************)
EXTENDS Naturals

CONSTANTS
    Runs,  \* run ids; each is dispatched to the runner at most once
    NoRun

ASSUME NoRunAssumption == NoRun \notin Runs

VARIABLES
    slot,       \* RunnerService.active: the run that holds the slot
    worker,     \* worker[r]: run_worker and its supervisor, and their locals
    cancelled,  \* Active.cancelled
    expired,    \* runs whose last renewal is LEASE ago
    healthy,    \* RunnerService.healthy
    residue,    \* runs of which something is still there on the runner's host
    receiver,   \* receiver[r]: what the worker knows of the other end of its stream
    event,      \* event[r]: the terminal event on its way
    net,        \* calls on their way to the runner
    client,     \* client[r]: the dispatch task of the control plane
    aborting,   \* ActiveRun.cancel
    sent,       \* runs whose cancellation the runner has accepted
    audit       \* audit[r]: what the control plane records

hostVars   == <<slot, worker, cancelled, expired, healthy, residue>>
clientVars == <<client, aborting, sent, audit>>
vars == <<slot, worker, cancelled, expired, healthy, residue, receiver, event, net,
          client, aborting, sent, audit>>

-----------------------------------------------------------------------------
(* Data *)

Terminal == {"COMPLETED", "CANCELLED", "TIMED_OUT", "CONTROL_LOST", "FAILED",
             "CLEANUP_FAILED"}

Event   == [state: Terminal \cup {"REJECTED"}, cleanup: {"confirmed", "unconfirmed"}]
NoEvent == [state |-> "none"]

\* result: how the injection ended.  left: whether the injector or the network
\* session could undo its effects itself.
NoWorker == [pc |-> "none"]
Worker ==
    {NoWorker}
      \cup [pc: {"queued", "injecting"}]
      \cup [pc: {"cleanup"}, result: Terminal, left: {"nothing", "effects"}]
      \cup [pc: {"report", "returned", "settled"}, outcome: Event]
      \cup [pc: {"done"}]

\* Active.state is terminal.  It is set before the terminal event is sent, and
\* a rejection does not set it.
Ended(r) ==
    /\ worker[r].pc \in {"report", "returned", "settled"}
    /\ worker[r].outcome.state # "REJECTED"

\* The worker runs: from the admission to the cleanup.
Working(r) == worker[r].pc \in {"queued", "injecting", "cleanup"}

Call == [kind: {"execute", "heartbeat", "cancel"}, run: Runs]

Pending == [status |-> "QUEUED", cleanup |-> "PENDING"]
Record  == {Pending} \cup [status: Terminal \cup {"INTERRUPTED"},
                           cleanup: {"SUCCESS", "UNCONFIRMED"}]

\* The dispatch task waits for something.
Dispatching(r) == client[r] \in {"calling", "loop", "heartbeat", "cancel"}

Init ==
    /\ slot = NoRun
    /\ worker = [r \in Runs |-> NoWorker]
    /\ cancelled = {}
    /\ expired = {}
    /\ healthy = "yes"
    /\ residue = {}
    /\ receiver = [r \in Runs |-> "none"]
    /\ event = [r \in Runs |-> NoEvent]
    /\ net = {}
    /\ client = [r \in Runs |-> "idle"]
    /\ aborting = {}
    /\ sent = {}
    /\ audit = [r \in Runs |-> Pending]

-----------------------------------------------------------------------------
(* The worker: run_worker *)

Goto(r, next) == worker' = [worker EXCEPT ![r] = next]

WorkerFrame == <<slot, cancelled, expired, receiver, net, clientVars>>

\* The sandbox directory is created: armed, then injecting.
Arm(r) ==
    /\ worker[r].pc = "queued"
    /\ Goto(r, [pc |-> "injecting"])
    /\ residue' = residue \cup {r}
    /\ UNCHANGED <<WorkerFrame, healthy, event>>

\* Its creation is refused; Active.state stays at Validated.
Reject(r) ==
    /\ worker[r].pc = "queued"
    /\ Goto(r, [pc |-> "report",
                outcome |-> [state |-> "REJECTED", cleanup |-> "unconfirmed"]])
    /\ UNCHANGED <<WorkerFrame, healthy, residue, event>>

\* Mutant: the lease is not looked at.
StopsNoLease(r) == r \in cancelled \/ receiver[r] = "closed"

\* Mutant: a cancellation is not looked at.
StopsLeaseOnly(r) == receiver[r] = "closed" \/ r \in expired

\* The closure check stops the injection, whatever the clock says.
Stops(r) == r \in cancelled \/ receiver[r] = "closed" \/ r \in expired

\* What a check finds, in its order: a cancellation, the signed deadline, the
\* lease.  Or the injection ends with an error of its own, or its last check
\* passes.
Results(r) ==
    {"FAILED"} \cup
        CASE r \in cancelled \/ receiver[r] = "closed" -> {"CANCELLED"}
          [] ~Stops(r) -> {"TIMED_OUT", "COMPLETED"}
          [] OTHER -> {"TIMED_OUT", "CONTROL_LOST"}

InjectionEnds(r) ==
    /\ worker[r].pc = "injecting"
    /\ \E result \in Results(r), left \in {"nothing", "effects"} :
          Goto(r, [pc |-> "cleanup", result |-> result, left |-> left])
    /\ UNCHANGED <<WorkerFrame, healthy, residue, event>>

\* Mutant: only the removal of the sandbox decides.
CleanedSandboxOnly(left, removed) == removed

\* No error of the injector, of the network session or of the sandbox.
Cleaned(left, removed) == left = "nothing" /\ removed

\* The sandbox is removed, or cannot be, and Active.state becomes terminal.
Cleanup(r, removed) ==
    LET cleaned == Cleaned(worker[r].left, removed)
    IN  /\ worker[r].pc = "cleanup"
        /\ Goto(r, [pc |-> "report",
                    outcome |->
                        [state   |-> IF cleaned THEN worker[r].result ELSE "CLEANUP_FAILED",
                         cleanup |-> IF cleaned THEN "confirmed" ELSE "unconfirmed"]])
        /\ residue' = IF removed /\ worker[r].left = "nothing" THEN residue \ {r} ELSE residue
        /\ UNCHANGED <<WorkerFrame, healthy, event>>

\* The terminal event is sent, if anybody receives it; run_worker returns, and
\* its end of the stream is dropped.
Report(r) ==
    /\ worker[r].pc = "report"
    /\ Goto(r, [worker[r] EXCEPT !.pc = "returned"])
    /\ event' = IF receiver[r] = "open" THEN [event EXCEPT ![r] = worker[r].outcome] ELSE event
    /\ receiver' = [receiver EXCEPT ![r] = "none"]
    /\ UNCHANGED <<slot, cancelled, expired, healthy, residue, net, clientVars>>

-----------------------------------------------------------------------------
(* The supervisor: the task that execute spawns *)

StoreHealth(r) ==
    /\ worker[r].pc = "returned"
    /\ healthy' = IF worker[r].outcome.cleanup = "confirmed" THEN "yes" ELSE "no"
    /\ Goto(r, [worker[r] EXCEPT !.pc = "settled"])
    /\ UNCHANGED <<WorkerFrame, residue, event>>

\* Mutant: the slot is cleared whoever holds it.
ClearedAny(r) == NoRun

\* Arc::ptr_eq: a newer run may hold the slot already.  Active is dropped.
Cleared(r) == IF slot = r THEN NoRun ELSE slot

ClearSlot(r) ==
    /\ worker[r].pc = "settled"
    /\ slot' = Cleared(r)
    /\ Goto(r, [pc |-> "done"])
    /\ cancelled' = cancelled \ {r}
    /\ expired' = expired \ {r}
    /\ UNCHANGED <<healthy, residue, receiver, event, net,
                   clientVars>>

WorkerStep(r) ==
    \/ Arm(r) \/ Reject(r) \/ \E removed \in BOOLEAN : Cleanup(r, removed)
    \/ Report(r) \/ StoreHealth(r) \/ ClearSlot(r)

-----------------------------------------------------------------------------
(* Time *)

\* LEASE has passed since the last renewal.  Only check() asks.
LeaseExpires(r) ==
    /\ worker[r].pc = "injecting"
    /\ expired' = expired \cup {r}
    /\ UNCHANGED <<slot, worker, cancelled, healthy, residue, receiver, event, net,
                   clientVars>>

-----------------------------------------------------------------------------
(* The dispatch task: dispatch_controlled *)

Ask(r, kind) ==
    /\ client' = [client EXCEPT ![r] = kind]
    /\ net' = net \cup {[kind |-> kind, run |-> r]}

ClientFrame == <<hostVars, receiver, event>>

\* Connected; the Execute call is sent.
Dispatch(r) ==
    /\ client[r] = "idle"
    /\ client' = [client EXCEPT ![r] = "calling"]
    /\ net' = net \cup {[kind |-> "execute", run |-> r]}
    /\ UNCHANGED <<ClientFrame, aborting, sent, audit>>

\* cancel_run, abort_all or a campaign's cancellation.
Abort(r) ==
    /\ client[r] # "done"
    /\ aborting' = aborting \cup {r}
    /\ UNCHANGED <<ClientFrame, net, client, sent, audit>>

CancelDue(r) == r \in aborting /\ r \notin sent

\* A tick passes the cancellation on, until the runner has accepted it.
SendCancel(r) ==
    /\ client[r] = "loop"
    /\ CancelDue(r)
    /\ Ask(r, "cancel")
    /\ UNCHANGED <<ClientFrame, aborting, sent, audit>>

\* A tick renews the lease.
SendHeartbeat(r) ==
    /\ client[r] = "loop"
    /\ Ask(r, "heartbeat")
    /\ UNCHANGED <<ClientFrame, aborting, sent, audit>>

\* The outcome of execution.rs: rejected, or completed without a confirmed
\* cleanup, is a failure.
Recorded(e) ==
    [status  |-> IF \/ e.state = "REJECTED"
                    \/ e.state = "COMPLETED" /\ e.cleanup # "confirmed"
                 THEN "FAILED" ELSE e.state,
     cleanup |-> IF e.cleanup = "confirmed" THEN "SUCCESS" ELSE "UNCONFIRMED"]

\* The terminal event arrives.
Receive(r) ==
    /\ client[r] = "loop"
    /\ event[r] # NoEvent
    /\ event' = [event EXCEPT ![r] = NoEvent]
    /\ client' = [client EXCEPT ![r] = "done"]
    /\ sent' = sent \ {r}
    /\ audit' = [audit EXCEPT ![r] = Recorded(event[r])]
    /\ UNCHANGED <<hostVars, receiver, net, aborting>>

Lost == [status |-> "FAILED", cleanup |-> "UNCONFIRMED"]

\* No connection, an error or no answer to a call, the stream broken or over
\* without a terminal event, or the deadline of the dispatch.
ClientFails(r) ==
    /\ client[r] = "idle" \/ Dispatching(r)
    /\ client' = [client EXCEPT ![r] = "done"]
    /\ sent' = sent \ {r}
    /\ audit' = [audit EXCEPT ![r] = Lost]
    /\ event' = [event EXCEPT ![r] = NoEvent]
    /\ UNCHANGED <<hostVars, receiver, net, aborting>>

\* The runner learns that the receiver of a stream is gone.
StreamCloses(r) ==
    /\ client[r] = "done"
    /\ receiver[r] = "open"
    /\ receiver' = [receiver EXCEPT ![r] = "closed"]
    /\ UNCHANGED <<hostVars, event, net, clientVars>>

\* The control plane dies: recover_incomplete.
ControlPlaneCrash ==
    LET started == {r \in Runs : Dispatching(r) \/ (client[r] = "idle" /\ r \in aborting)}
    IN  /\ client' = [r \in Runs |-> IF r \in started THEN "done" ELSE client[r]]
        /\ audit' = [r \in Runs |->
                        IF r \in started
                        THEN [status |-> "INTERRUPTED", cleanup |-> "UNCONFIRMED"]
                        ELSE audit[r]]
        /\ sent' = {}
        /\ event' = [r \in Runs |-> NoEvent]
        /\ UNCHANGED <<hostVars, receiver, net, aborting>>

-----------------------------------------------------------------------------
(* The handlers of the runner *)

\* The task that made call c still waits for its answer.
Awaited(c) ==
    client[c.run] = IF c.kind = "execute" THEN "calling" ELSE c.kind

Answered(c) ==
    client' = IF Awaited(c) THEN [client EXCEPT ![c.run] = "loop"] ELSE client

Free == slot # NoRun => Ended(slot)

\* execute: the run takes the slot.
Admit(r) ==
    LET c == [kind |-> "execute", run |-> r]
    IN  /\ c \in net
        /\ net' = net \ {c}
        /\ Free
        /\ slot' = r
        /\ Goto(r, [pc |-> "queued"])
        /\ receiver' = [receiver EXCEPT ![r] = "open"]
        /\ Answered(c)
        /\ UNCHANGED <<cancelled, expired, healthy, residue, event, aborting, sent,
                       audit>>

\* execute: validate refuses the request, or the runner is busy.
Refuse(r) ==
    LET c == [kind |-> "execute", run |-> r]
    IN  /\ c \in net
        /\ net' = net \ {c}
        /\ IF Awaited(c)
           THEN /\ client' = [client EXCEPT ![r] = "done"]
                /\ audit' = [audit EXCEPT ![r] = Lost]
           ELSE UNCHANGED <<client, audit>>
        /\ UNCHANGED <<hostVars, receiver, event, aborting, sent>>

\* heartbeat: only the run that holds the slot renews its lease.
HandleHeartbeat(r) ==
    LET c == [kind |-> "heartbeat", run |-> r]
    IN  /\ c \in net
        /\ net' = net \ {c}
        /\ expired' = IF slot = r THEN expired \ {r} ELSE expired
        /\ Answered(c)
        /\ UNCHANGED <<slot, worker, cancelled, healthy, residue, receiver, event,
                       aborting, sent, audit>>

\* Mutant: whatever runs is cancelled.
CancelsAny(r) == {slot} \ {NoRun}

\* The run that a cancel call for r reaches.
Cancels(r) == {slot} \cap {r}

\* cancel: a run that does not hold the slot is not found, and the dispatch
\* task asks again.
HandleCancel(r) ==
    LET c == [kind |-> "cancel", run |-> r]
    IN  /\ c \in net
        /\ net' = net \ {c}
        /\ cancelled' = cancelled \cup Cancels(r)
        /\ sent' = IF Cancels(r) # {} /\ Awaited(c) THEN sent \cup {r} ELSE sent
        /\ Answered(c)
        /\ UNCHANGED <<slot, worker, expired, healthy, residue, receiver, event,
                       aborting, audit>>

Handle(r) == Admit(r) \/ Refuse(r) \/ HandleHeartbeat(r) \/ HandleCancel(r)

\* A call never reaches its handler.
Lose(r) ==
    /\ \E c \in net : c.run = r /\ net' = net \ {c}
    /\ UNCHANGED <<hostVars, receiver, event, clientVars>>

\* The runner dies and starts again; what it left on its host stays.
RunnerCrash ==
    /\ slot' = NoRun
    /\ worker' = [r \in Runs |-> NoWorker]
    /\ cancelled' = {}
    /\ expired' = {}
    /\ healthy' = "yes"
    /\ receiver' = [r \in Runs |-> "none"]
    /\ event' = [r \in Runs |-> NoEvent]
    /\ net' = {}
    /\ UNCHANGED <<residue, clientVars>>

-----------------------------------------------------------------------------
Next ==
    \/ ControlPlaneCrash
    \/ RunnerCrash
    \/ \E r \in Runs :
          \/ WorkerStep(r) \/ InjectionEnds(r) \/ LeaseExpires(r)
          \/ Dispatch(r) \/ Abort(r) \/ SendCancel(r) \/ SendHeartbeat(r) \/ Receive(r)
          \/ ClientFails(r) \/ StreamCloses(r) \/ Handle(r) \/ Lose(r)

Spec == Init /\ [][Next]_vars

\* Nobody can renew the lease of run r any more.
Abandoned(r) == client[r] = "done" /\ [kind |-> "heartbeat", run |-> r] \notin net

\* The dispatch task waits for something that cannot come.
CutOff(r) ==
    \/ client[r] = "loop" /\ receiver[r] = "none" /\ event[r] = NoEvent
    \/ client[r] = "calling" /\ [kind |-> "execute", run |-> r] \notin net
    \/ client[r] \in {"heartbeat", "cancel"} /\ [kind |-> client[r], run |-> r] \notin net

\* The worker looks at check() again and again, tokio runs the tasks and the
\* handlers, and select! takes each of its branches.  A lease is only known to
\* run out when nobody renews it.  An injection need not end by itself, no
\* deadline is assumed to pass, and nothing is assumed of crashes.
Fairness ==
    \A r \in Runs :
        /\ WF_vars(WorkerStep(r))
        /\ WF_vars(Stops(r) /\ InjectionEnds(r))
        /\ WF_vars(Abandoned(r) /\ LeaseExpires(r))
        /\ WF_vars(Handle(r))
        /\ SF_vars(SendCancel(r))
        /\ SF_vars(Receive(r))
        /\ SF_vars(CutOff(r) /\ ClientFails(r))

FairSpec == Spec /\ Fairness

-----------------------------------------------------------------------------
(* Properties *)

TypeOK ==
    /\ slot \in Runs \cup {NoRun}
    /\ worker \in [Runs -> Worker]
    /\ cancelled \subseteq Runs /\ expired \subseteq Runs
    /\ healthy \in {"yes", "no"}
    /\ residue \subseteq Runs
    /\ receiver \in [Runs -> {"none", "open", "closed"}]
    /\ event \in [Runs -> Event \cup {NoEvent}]
    /\ net \subseteq Call
    /\ client \in [Runs -> {"idle", "calling", "loop", "heartbeat", "cancel", "done"}]
    /\ aborting \subseteq Runs /\ sent \subseteq Runs
    /\ audit \in [Runs -> Record]

\* The runner executes one run at a time, and the slot names it, from its
\* admission until its cleanup is over: so a cancel call and a renewal reach
\* it, although the supervisor of the run before may not have left yet.
SlotHeld == \A r \in Runs : Working(r) => slot = r

\* Once the audit says that the cleanup succeeded, nothing of the run is left
\* on the host and nothing of it executes there: what prepare_resume and the
\* evidence rely on (features-2026-09-22.ru.md:28).
EvidenceIsTrue ==
    \A r \in Runs : audit[r].cleanup = "SUCCESS" => r \notin residue /\ ~Working(r)

\* A run is recorded as cancelled only if somebody asked for that, and as
\* completed or cancelled only with its cleanup confirmed: what execution.rs
\* and the campaigns take from a runner.  No late call of another run, no lost
\* lease and no restart shows up as a cancellation.
OutcomeIsEarned ==
    \A r \in Runs :
        /\ audit[r].status = "CANCELLED" => r \in aborting
        /\ audit[r].status \in {"COMPLETED", "CANCELLED"} => audit[r].cleanup = "SUCCESS"

\* A run whose control plane is gone stops and is cleaned up, even if the
\* runner never sees the stream close: nobody renews its lease
\* (features-2026-09-22.ru.md:36).
OrphanStops ==
    \A r \in Runs : (Working(r) /\ client[r] = "done") ~> ~Working(r)

\* A cancellation that the control plane has taken comes to an end, whatever
\* calls are lost and whichever process dies: the dispatch task gets the
\* terminal event, or gives up.
CancelEnds ==
    \A r \in Runs : (r \in aborting /\ client[r] = "loop") ~> client[r] = "done"
=============================================================================
