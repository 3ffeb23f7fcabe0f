------------------------ MODULE RunnerServiceProofs ------------------------
(***************************************************************************)
(* Theorems about RunnerService, for every set of runs.                    *)
(***************************************************************************)
EXTENDS RunnerService, TLAPS

-----------------------------------------------------------------------------
(* Types *)

\* Every variable of the runner and of the dispatch tasks keeps to its range.
LEMMA TypeCorrect == Spec => []TypeOK
<1>1. Init => TypeOK
  BY DEF Init, TypeOK, Worker, Record
<1>2. TypeOK /\ [Next]_vars => TypeOK'
  <2> SUFFICES ASSUME TypeOK, [Next]_vars PROVE TypeOK'
    OBVIOUS
  <2> USE DEF TypeOK
  <2>1. ASSUME NEW r \in Runs, Arm(r) \/ Reject(r) PROVE TypeOK'
    BY <2>1 DEF Arm, Reject, Goto, WorkerFrame, clientVars, Worker, Event
  <2>2. ASSUME NEW r \in Runs, InjectionEnds(r) PROVE TypeOK'
    <3>1. Results(r) \subseteq Terminal
      BY DEF Results, Terminal
    <3> QED BY <2>2, <3>1 DEF InjectionEnds, Goto, WorkerFrame, clientVars, Worker
  <2>3. ASSUME NEW r \in Runs, NEW removed \in BOOLEAN, Cleanup(r, removed) PROVE TypeOK'
    <3>1. worker[r].result \in Terminal
      BY <2>3 DEF Cleanup, Worker, NoWorker
    <3> QED BY <2>3, <3>1 DEF Cleanup, Goto, WorkerFrame, clientVars, Worker, Event, Terminal
  <2>4. ASSUME NEW r \in Runs, Report(r) PROVE TypeOK'
    <3>1. worker[r].outcome \in Event /\ [worker[r] EXCEPT !.pc = "returned"] \in Worker
      BY <2>4 DEF Report, Worker, NoWorker
    <3> QED BY <2>4, <3>1 DEF Report, Goto, clientVars
  <2>5. ASSUME NEW r \in Runs, StoreHealth(r) \/ ClearSlot(r) PROVE TypeOK'
    <3>1. CASE StoreHealth(r)
      <4>1. [worker[r] EXCEPT !.pc = "settled"] \in Worker
        BY <3>1 DEF StoreHealth, Worker, NoWorker
      <4> QED BY <3>1, <4>1 DEF StoreHealth, Goto, WorkerFrame, clientVars
    <3>2. CASE ClearSlot(r)
      BY <3>2 DEF ClearSlot, Cleared, Goto, clientVars, Worker
    <3> QED BY <2>5, <3>1, <3>2
  <2>6. ASSUME NEW r \in Runs, LeaseExpires(r) \/ StreamCloses(r) \/ Abort(r) \/ Lose(r)
        PROVE  TypeOK'
    BY <2>6 DEF LeaseExpires, StreamCloses, Abort, Lose, hostVars, clientVars, ClientFrame
  <2>7. ASSUME NEW r \in Runs, Dispatch(r) \/ SendCancel(r) \/ SendHeartbeat(r) PROVE TypeOK'
    BY <2>7 DEF Dispatch, SendCancel, SendHeartbeat, Ask, ClientFrame, hostVars, Call
  <2>8. ASSUME NEW r \in Runs, Receive(r) PROVE TypeOK'
    <3>1. Recorded(event[r]) \in Record
      BY <2>8 DEF Receive, Recorded, Record, Event, Terminal
    <3> QED BY <2>8, <3>1 DEF Receive, hostVars
  <2>9. ASSUME NEW r \in Runs, ClientFails(r) \/ Refuse(r) PROVE TypeOK'
    <3>1. Lost \in Record
      BY DEF Lost, Record, Terminal
    <3> QED BY <2>9, <3>1 DEF ClientFails, Refuse, hostVars
  <2>10. ASSUME NEW r \in Runs, Admit(r) \/ HandleHeartbeat(r) \/ HandleCancel(r) PROVE TypeOK'
    BY <2>10 DEF Admit, HandleHeartbeat, HandleCancel, Answered, Goto, Worker, Cancels
  <2>11. CASE ControlPlaneCrash
    BY <2>11 DEF ControlPlaneCrash, hostVars, Record
  <2>12. CASE RunnerCrash
    BY <2>12 DEF RunnerCrash, clientVars, Worker
  <2>13. CASE UNCHANGED vars
    BY <2>13 DEF vars
  <2> QED BY <2>1, <2>2, <2>3, <2>4, <2>5, <2>6, <2>7, <2>8, <2>9, <2>10, <2>11, <2>12, <2>13
          DEF Next, WorkerStep, Handle
<1> QED BY <1>1, <1>2, PTL DEF Spec

-----------------------------------------------------------------------------
(* The slot *)

\* The run that executes is the one that the slot names, through supervisors
\* that come late, admissions and restarts: cancels and renewals reach it.
THEOREM SlotCorrect == Spec => []SlotHeld
<1>1. Init => SlotHeld
  BY DEF Init, SlotHeld, Working, NoWorker
<1>2. TypeOK /\ SlotHeld /\ [Next]_vars => SlotHeld'
  <2> SUFFICES ASSUME TypeOK, SlotHeld, [Next]_vars PROVE SlotHeld'
    OBVIOUS
  <2> USE DEF TypeOK, SlotHeld, Working
  <2>1. ASSUME NEW r \in Runs, WorkerStep(r) \/ InjectionEnds(r) PROVE SlotHeld'
    <3>1. /\ \A s \in Runs \ {r} : worker'[s] = worker[s]
          /\ worker'[r].pc \in {"queued", "injecting", "cleanup"}
                => worker[r].pc \in {"queued", "injecting", "cleanup"}
      <4>1. CASE Report(r) \/ StoreHealth(r)
        <5>1. worker[r].pc \in {"report", "returned"} /\ worker[r] \in Worker
          BY <4>1 DEF Report, StoreHealth
        <5>2. /\ [worker[r] EXCEPT !.pc = "returned"].pc = "returned"
              /\ [worker[r] EXCEPT !.pc = "settled"].pc = "settled"
          BY <5>1 DEF Worker, NoWorker
        <5> QED BY <4>1, <5>2 DEF Report, StoreHealth, Goto
      <4>2. CASE ~(Report(r) \/ StoreHealth(r))
        BY <2>1, <4>2 DEF WorkerStep, Arm, Reject, Cleanup, ClearSlot, InjectionEnds, Goto
      <4> QED BY <4>1, <4>2
    <3>2. CASE slot' = slot
      BY <3>1, <3>2
    <3>3. CASE ClearSlot(r) /\ slot = r
      BY <3>1, <3>3 DEF ClearSlot, Goto
    <3>4. slot' = slot \/ (ClearSlot(r) /\ slot = r)
      BY <2>1 DEF WorkerStep, Arm, Reject, Cleanup, Report, StoreHealth, ClearSlot,
                  InjectionEnds, WorkerFrame, Cleared
    <3> QED BY <3>2, <3>3, <3>4
  <2>2. ASSUME NEW r \in Runs, Admit(r) PROVE SlotHeld'
    <3>1. \A s \in Runs \ {r} : worker'[s] = worker[s] /\ ~Working(s)
      BY <2>2, NoRunAssumption DEF Admit, Goto, Free, Ended
    <3> QED BY <2>2, <3>1 DEF Admit
  <2>3. CASE RunnerCrash
    BY <2>3 DEF RunnerCrash, NoWorker
  <2>4. CASE UNCHANGED <<slot, worker>>
    BY <2>4
  <2>5. ASSUME NEW r \in Runs,
               \/ LeaseExpires(r) \/ Dispatch(r) \/ Abort(r) \/ SendCancel(r)
               \/ SendHeartbeat(r) \/ Receive(r) \/ ClientFails(r) \/ StreamCloses(r)
               \/ Refuse(r) \/ HandleHeartbeat(r) \/ HandleCancel(r) \/ Lose(r)
        PROVE  UNCHANGED <<slot, worker>>
    BY <2>5 DEF LeaseExpires, Dispatch, Abort, SendCancel, SendHeartbeat, Receive, ClientFails,
                StreamCloses, Refuse, HandleHeartbeat, HandleCancel, Lose, ClientFrame, hostVars
  <2> QED BY <2>1, <2>2, <2>3, <2>4, <2>5 DEF Next, Handle, ControlPlaneCrash, hostVars, vars
<1> QED BY <1>1, <1>2, TypeCorrect, PTL DEF Spec

-----------------------------------------------------------------------------
(* What the audit may say *)

Calls(r, kind) == [kind |-> kind, run |-> r] \in net

Closing(r) == worker[r].pc \in {"report", "returned", "settled"}

\* A run is admitted at most once: its call is on its way only before the runner
\* knows anything of it, and there is none before the dispatch.
OnceInv ==
    \A r \in Runs :
        /\ Calls(r, "execute") => client[r] # "idle"
        /\ Calls(r, "execute") \/ client[r] = "idle" =>
              /\ worker[r] = NoWorker
              /\ event[r] = NoEvent
              /\ audit[r].cleanup # "SUCCESS"

\* A confirmed cleanup is true while it is reported, on its way and recorded.
CleanInv ==
    \A r \in Runs :
        /\ Closing(r) /\ worker[r].outcome.cleanup = "confirmed" => r \notin residue
        /\ event[r] # NoEvent /\ event[r].cleanup = "confirmed"
              => r \notin residue /\ ~Working(r)

\* A cancellation was asked for, or nobody is there to receive its outcome.
CancelInv ==
    \A r \in Runs :
        /\ r \in cancelled \/ Calls(r, "cancel") => r \in aborting
        /\ worker[r].pc = "cleanup" /\ worker[r].result = "CANCELLED"
              => r \in aborting \/ receiver[r] = "closed"
        /\ worker[r].pc = "report" =>
              /\ worker[r].outcome.state = "CANCELLED"
                    => r \in aborting \/ receiver[r] = "closed"
              /\ worker[r].outcome.state \in {"COMPLETED", "CANCELLED"}
                    => worker[r].outcome.cleanup = "confirmed"
        /\ event[r] # NoEvent =>
              /\ event[r].state = "CANCELLED" => r \in aborting
              /\ event[r].state \in {"COMPLETED", "CANCELLED"} => event[r].cleanup = "confirmed"

\* A run is admitted at most once in every reachable state.
LEMMA OnceCorrect == Spec => []OnceInv
<1>1. Init => OnceInv
  <2> SUFFICES ASSUME Init, NEW r \in Runs
               PROVE  ~Calls(r, "execute") /\ worker[r] = NoWorker /\ event[r] = NoEvent
                        /\ audit[r].cleanup # "SUCCESS"
    BY DEF OnceInv, Init, Calls
  <2>1. audit[r] = Pending /\ Pending.cleanup # "SUCCESS"
    BY DEF Init, Pending
  <2>2. ~Calls(r, "execute") /\ worker[r] = NoWorker /\ event[r] = NoEvent
    BY DEF Init, Calls
  <2> QED BY <2>1, <2>2
<1>2. TypeOK /\ OnceInv /\ [Next]_vars => OnceInv'
  <2> SUFFICES ASSUME TypeOK, OnceInv, [Next]_vars PROVE OnceInv'
    OBVIOUS
  <2> USE DEF TypeOK, OnceInv, Calls
  <2>1. ASSUME NEW r \in Runs, WorkerStep(r) \/ InjectionEnds(r) PROVE OnceInv'
    <3>1. worker[r] # NoWorker
      <4>1. worker[r].pc # "none"
        BY <2>1 DEF WorkerStep, Arm, Reject, Cleanup, Report, StoreHealth, ClearSlot,
                    InjectionEnds
      <4> QED BY <4>1 DEF NoWorker
    <3>2. /\ UNCHANGED <<net, client, audit>>
          /\ \A s \in Runs \ {r} : worker'[s] = worker[s] /\ event'[s] = event[s]
      BY <2>1 DEF WorkerStep, Arm, Reject, Cleanup, Report, StoreHealth, ClearSlot,
                  InjectionEnds, Goto, WorkerFrame, clientVars
    <3> QED BY <3>1, <3>2
  <2>2. ASSUME NEW r \in Runs, Dispatch(r) PROVE OnceInv'
    BY <2>2 DEF Dispatch, ClientFrame, hostVars
  <2>3. ASSUME NEW r \in Runs, SendCancel(r) \/ SendHeartbeat(r) PROVE OnceInv'
    <3>1. /\ \A s \in Runs : Calls(s, "execute")' <=> Calls(s, "execute")
          /\ \A s \in Runs : (client'[s] = "idle") <=> (client[s] = "idle")
      BY <2>3 DEF SendCancel, SendHeartbeat, Ask
    <3>2. UNCHANGED <<worker, event, audit>>
      BY <2>3 DEF SendCancel, SendHeartbeat, ClientFrame, hostVars
    <3> QED BY <3>1, <3>2
  <2>4. ASSUME NEW r \in Runs, Receive(r) PROVE OnceInv'
    BY <2>4 DEF Receive, hostVars
  <2>5. ASSUME NEW r \in Runs, ClientFails(r) PROVE OnceInv'
    BY <2>5 DEF ClientFails, hostVars, Lost
  <2>6. ASSUME NEW r \in Runs, Admit(r) PROVE OnceInv'
    BY <2>6 DEF Admit, Answered, Awaited, Goto
  <2>7. ASSUME NEW r \in Runs, Refuse(r) PROVE OnceInv'
    BY <2>7 DEF Refuse, hostVars, Lost
  <2>8. ASSUME NEW r \in Runs, HandleHeartbeat(r) \/ HandleCancel(r) PROVE OnceInv'
    BY <2>8 DEF HandleHeartbeat, HandleCancel, Answered, Awaited
  <2>9. ASSUME NEW r \in Runs, Lose(r) PROVE OnceInv'
    BY <2>9 DEF Lose, hostVars, clientVars
  <2>10. CASE ControlPlaneCrash
    BY <2>10 DEF ControlPlaneCrash, hostVars
  <2>11. CASE RunnerCrash
    BY <2>11 DEF RunnerCrash, clientVars
  <2>12. ASSUME UNCHANGED <<worker, event, net, client, audit>> PROVE OnceInv'
    BY <2>12
  <2>13. ASSUME NEW r \in Runs, LeaseExpires(r) \/ Abort(r) \/ StreamCloses(r)
         PROVE  UNCHANGED <<worker, event, net, client, audit>>
    BY <2>13 DEF LeaseExpires, Abort, StreamCloses, ClientFrame, hostVars, clientVars
  <2> QED BY <2>1, <2>2, <2>3, <2>4, <2>5, <2>6, <2>7, <2>8, <2>9, <2>10, <2>11, <2>12, <2>13
          DEF Next, Handle, vars
<1> QED BY <1>1, <1>2, TypeCorrect, PTL DEF Spec

\* Whatever happens on the way to the audit, a cleanup recorded as a success left
\* nothing of its run on the host, and nothing of it executes (cleanup, dispatch).
THEOREM EvidenceCorrect == Spec => []EvidenceIsTrue
<1> DEFINE Inv == CleanInv /\ EvidenceIsTrue
<1>1. Init => Inv
  BY DEF Init, CleanInv, EvidenceIsTrue, Closing, Pending, NoWorker
<1>2. TypeOK /\ OnceInv /\ Inv /\ [Next]_vars => Inv'
  <2> SUFFICES ASSUME TypeOK, OnceInv, Inv, [Next]_vars PROVE Inv'
    OBVIOUS
  <2> USE DEF TypeOK, CleanInv, EvidenceIsTrue, Closing, Working
  <2>1. ASSUME NEW r \in Runs, Arm(r) PROVE Inv'
    BY <2>1 DEF Arm, Goto, WorkerFrame, clientVars
  <2>2. ASSUME NEW r \in Runs, Reject(r) PROVE Inv'
    BY <2>2 DEF Reject, Goto, WorkerFrame, clientVars
  <2>3. ASSUME NEW r \in Runs, InjectionEnds(r) PROVE Inv'
    BY <2>3 DEF InjectionEnds, Goto, WorkerFrame, clientVars
  <2>4. ASSUME NEW r \in Runs, NEW removed \in BOOLEAN, Cleanup(r, removed) PROVE Inv'
    BY <2>4 DEF Cleanup, Cleaned, Goto, WorkerFrame, clientVars
  <2>5. ASSUME NEW r \in Runs, Report(r) PROVE Inv'
    <3>1. /\ worker'[r].pc = "returned" /\ worker'[r].outcome = worker[r].outcome
          /\ \A s \in Runs \ {r} : worker'[s] = worker[s]
      BY <2>5 DEF Report, Goto, Worker, NoWorker
    <3> QED BY <2>5, <3>1 DEF Report, clientVars
  <2>6. ASSUME NEW r \in Runs, StoreHealth(r) PROVE Inv'
    <3>1. /\ worker'[r].pc = "settled" /\ worker'[r].outcome = worker[r].outcome
          /\ \A s \in Runs \ {r} : worker'[s] = worker[s]
      BY <2>6 DEF StoreHealth, Goto, Worker, NoWorker
    <3> QED BY <2>6, <3>1 DEF StoreHealth, WorkerFrame, clientVars
  <2>7. ASSUME NEW r \in Runs, ClearSlot(r) PROVE Inv'
    BY <2>7 DEF ClearSlot, Goto, clientVars
  <2>8. ASSUME NEW r \in Runs, Receive(r) PROVE Inv'
    BY <2>8 DEF Receive, Recorded, hostVars
  <2>9. ASSUME NEW r \in Runs, ClientFails(r) \/ Refuse(r) PROVE Inv'
    BY <2>9 DEF ClientFails, Refuse, Lost, hostVars
  <2>10. ASSUME NEW r \in Runs, Admit(r) PROVE Inv'
    <3>1. event[r] = NoEvent /\ audit[r].cleanup # "SUCCESS"
      BY <2>10 DEF Admit, OnceInv, Calls
    <3> QED BY <2>10, <3>1 DEF Admit, Goto
  <2>11. CASE ControlPlaneCrash
    BY <2>11 DEF ControlPlaneCrash, hostVars
  <2>12. CASE RunnerCrash
    BY <2>12 DEF RunnerCrash, clientVars, NoWorker
  <2>13. ASSUME UNCHANGED <<worker, residue, event, audit>> PROVE Inv'
    BY <2>13
  <2>14. ASSUME NEW r \in Runs,
                \/ LeaseExpires(r) \/ Abort(r) \/ StreamCloses(r) \/ Dispatch(r) \/ SendCancel(r)
                \/ SendHeartbeat(r) \/ HandleHeartbeat(r) \/ HandleCancel(r) \/ Lose(r)
         PROVE  UNCHANGED <<worker, residue, event, audit>>
    BY <2>14 DEF LeaseExpires, Abort, StreamCloses, Dispatch, SendCancel, SendHeartbeat,
                 HandleHeartbeat, HandleCancel, Lose, ClientFrame, hostVars, clientVars
  <2> QED BY <2>1, <2>2, <2>3, <2>4, <2>5, <2>6, <2>7, <2>8, <2>9, <2>10, <2>11, <2>12, <2>13,
             <2>14 DEF Next, WorkerStep, Handle, vars
<1> QED BY <1>1, <1>2, TypeCorrect, OnceCorrect, PTL DEF Spec

\* The audit says CANCELLED only of a run that somebody cancelled, and COMPLETED
\* or CANCELLED only with its cleanup confirmed (run_worker, execution.rs).
THEOREM OutcomeCorrect == Spec => []OutcomeIsEarned
<1> DEFINE Inv == CancelInv /\ OutcomeIsEarned
<1>1. Init => Inv
  BY DEF Init, CancelInv, OutcomeIsEarned, Calls, Pending, NoWorker
<1>2. TypeOK /\ Inv /\ [Next]_vars => Inv'
  <2> SUFFICES ASSUME TypeOK, Inv, [Next]_vars PROVE Inv'
    OBVIOUS
  <2> USE DEF TypeOK, CancelInv, OutcomeIsEarned, Calls
  <2>1. ASSUME NEW r \in Runs, Arm(r) \/ Reject(r) PROVE Inv'
    BY <2>1 DEF Arm, Reject, Goto, WorkerFrame, clientVars
  <2>2. ASSUME NEW r \in Runs, InjectionEnds(r) PROVE Inv'
    <3>1. "CANCELLED" \in Results(r) => r \in aborting \/ receiver[r] = "closed"
      BY DEF Results
    <3> QED BY <2>2, <3>1 DEF InjectionEnds, Goto, WorkerFrame, clientVars
  <2>3. ASSUME NEW r \in Runs, NEW removed \in BOOLEAN, Cleanup(r, removed) PROVE Inv'
    BY <2>3 DEF Cleanup, Cleaned, Goto, WorkerFrame, clientVars
  <2>4. ASSUME NEW r \in Runs, Report(r) PROVE Inv'
    <3>1. worker'[r].pc = "returned" /\ \A s \in Runs \ {r} : worker'[s] = worker[s]
      BY <2>4 DEF Report, Goto, Worker, NoWorker
    <3> QED BY <2>4, <3>1 DEF Report, clientVars
  <2>5. ASSUME NEW r \in Runs, StoreHealth(r) PROVE Inv'
    <3>1. worker'[r].pc = "settled" /\ \A s \in Runs \ {r} : worker'[s] = worker[s]
      BY <2>5 DEF StoreHealth, Goto, Worker, NoWorker
    <3> QED BY <2>5, <3>1 DEF StoreHealth, WorkerFrame, clientVars
  <2>6. ASSUME NEW r \in Runs, ClearSlot(r) PROVE Inv'
    BY <2>6 DEF ClearSlot, Goto, clientVars
  <2>7. ASSUME NEW r \in Runs, Dispatch(r) \/ SendCancel(r) \/ SendHeartbeat(r) PROVE Inv'
    BY <2>7 DEF Dispatch, SendCancel, SendHeartbeat, CancelDue, Ask, ClientFrame, hostVars
  <2>8. ASSUME NEW r \in Runs, Abort(r) \/ StreamCloses(r) PROVE Inv'
    BY <2>8 DEF Abort, StreamCloses, ClientFrame, hostVars, clientVars
  <2>9. ASSUME NEW r \in Runs, Receive(r) PROVE Inv'
    BY <2>9 DEF Receive, Recorded, hostVars
  <2>10. ASSUME NEW r \in Runs, ClientFails(r) \/ Refuse(r) PROVE Inv'
    BY <2>10 DEF ClientFails, Refuse, Lost, hostVars
  <2>11. ASSUME NEW r \in Runs, Admit(r) PROVE Inv'
    BY <2>11 DEF Admit, Goto
  <2>12. ASSUME NEW r \in Runs, HandleHeartbeat(r) \/ HandleCancel(r) PROVE Inv'
    BY <2>12 DEF HandleHeartbeat, HandleCancel, Cancels
  <2>13. ASSUME NEW r \in Runs, Lose(r) PROVE Inv'
    BY <2>13 DEF Lose, hostVars, clientVars
  <2>14. CASE ControlPlaneCrash
    BY <2>14 DEF ControlPlaneCrash, hostVars
  <2>15. CASE RunnerCrash
    BY <2>15 DEF RunnerCrash, clientVars, NoWorker
  <2>16. ASSUME NEW r \in Runs, LeaseExpires(r) PROVE Inv'
    BY <2>16 DEF LeaseExpires, clientVars
  <2>17. CASE UNCHANGED vars
    BY <2>17 DEF vars
  <2> QED BY <2>1, <2>2, <2>3, <2>4, <2>5, <2>6, <2>7, <2>8, <2>9, <2>10, <2>11, <2>12, <2>13,
             <2>14, <2>15, <2>16, <2>17 DEF Next, WorkerStep, Handle
<1> QED BY <1>1, <1>2, TypeCorrect, PTL DEF Spec
=============================================================================
