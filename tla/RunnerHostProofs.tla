-------------------------- MODULE RunnerHostProofs --------------------------
(***************************************************************************)
(* Theorems about what a run does to its runner's host, and about the      *)
(* procedures that are executed there, for every plan, corpus and id.      *)
(***************************************************************************)
EXTENDS RunnerHost, ProcedureSuite, ScenarioProofs, FiniteSetTheorems

-----------------------------------------------------------------------------
(* The inductive invariant of a host *)

Reasons == {"CANCELLED", "TIMED_OUT", "CONTROL_LOST"}

Pcs == {"create", "armed", "inject", "write", "start", "arm", "wait", "undo", "revert",
        "cleanup", "drop"}

AtWork == worker # NoWorker

WorkerType ==
    [pc : Pcs, run : HostRuns, plan : Plans, stop : Reasons \cup {"no"}, done : Nat,
     result : Reasons \cup {"none", "FAILED", "COMPLETED"}, error : {"no", "yes"},
     simulated : {"no", "yes"}]

\* A rule as it is in force for a plan whose specification was accepted.
InForce(plan) == [program |-> "attached", armed |-> "yes", map |-> RuleOf(plan)]
Rules == {NoRule, Zeroed} \cup {InForce(plan) : plan \in {p \in Plans : SpecValid(p)}}
Armed(installed) == installed \notin {NoRule, Zeroed}

HostTypeOK ==
    /\ base \in {"absent", "real", "unsafe"}
    /\ DOMAIN tree = HostRuns
    /\ \A r \in HostRuns : tree[r] = [owner |-> tree[r].owner, files |-> tree[r].files]
    /\ rule \in [HostRuns -> Rules]
    /\ AtWork => worker \in WorkerType
    /\ late \in Nat
    /\ unclean \subseteq HostRuns
    /\ DOMAIN evidence = HostRuns

\* Where the worker is, and what that says of its plan and of what it did.
PlaceInv ==
    AtWork =>
        /\ worker.pc = "inject" => Checked(worker.plan)
        /\ worker.pc \in {"start", "arm", "revert"} => IsNetwork(worker.plan)
        /\ worker.pc \in {"write", "undo"} => ~IsNetwork(worker.plan)
        /\ worker.pc \in {"create", "armed", "start", "arm"} => worker.done = 0
        /\ worker.pc \in {"create", "armed", "start", "arm"} => worker.simulated = "no"
        /\ worker.pc \notin {"undo", "revert", "cleanup", "drop"} => worker.result = "none"
        /\ worker.pc \in {"inject", "write"} => worker.done <= Len(Files(worker.plan))
        /\ worker.pc = "wait" /\ ~IsNetwork(worker.plan) => worker.done = Len(Files(worker.plan))
        /\ worker.simulated = "yes" => IsNetwork(worker.plan)

\* The directory belongs to the run from the moment it is made, and to nobody else.
TreeInv ==
    /\ ForeignUntouched
    /\ AtWork /\ worker.pc # "create" =>
          /\ base = "real"
          /\ tree[worker.run] = NoEntry \/ tree[worker.run].owner = "runner"
    /\ AtWork /\ worker.pc \notin {"create", "cleanup", "drop"} =>
          tree[worker.run].owner = "runner"

\* A rule that can drop a packet has the run's directory beside it, and once the
\* run has its directory it is the one that was started.
RuleInv ==
    /\ \A r \in HostRuns : Armed(rule[r]) => tree[r].owner = "runner"
    /\ AtWork /\ worker.pc # "create" /\ Armed(rule[worker.run]) =>
          /\ worker.pc \in {"wait", "revert"}
          /\ IsNetwork(worker.plan) /\ worker.simulated = "no"
    /\ AtWork /\ worker.pc = "arm" =>
          rule[worker.run] = Zeroed /\ SpecValid(worker.plan) /\ ~IsLoopback(worker.plan.iface)
    /\ AtWork /\ worker.pc = "wait" /\ IsNetwork(worker.plan) /\ worker.simulated = "no" =>
          /\ rule[worker.run] = InForce(worker.plan)
          /\ ~IsLoopback(worker.plan.iface)

\* A directory that nobody reported belongs to the run that is at work in it.
LeftInv ==
    \A r \in HostRuns :
        r \notin unclean /\ (AtWork /\ worker.run = r => worker.pc \in {"create", "drop"}) =>
            tree[r].owner # "runner"

\* A canary that was let through may be written after the reason to stop.
LateInv ==
    AtWork =>
        /\ worker.stop = "no" => late = 0
        /\ Checked(worker.plan) => late <= 1 /\ (worker.pc = "write" => late = 0)
        /\ ~IsNetwork(worker.plan) /\ ~Checked(worker.plan) =>
              late <= Len(Files(worker.plan)) /\ (worker.pc = "write" => late <= worker.done)

\* What a run that ends well has done.
DoneInv ==
    AtWork /\ worker.result = "COMPLETED" =>
        /\ IsNetwork(worker.plan) => worker.simulated = "yes" \/ ~IsLoopback(worker.plan.iface)
        /\ ~IsNetwork(worker.plan) => worker.done = Len(Files(worker.plan))

\* The event is the last thing of a run, and true when it is told.
EvidenceInv ==
    /\ \A r \in HostRuns :
          /\ AtWork /\ worker.run = r /\ worker.pc # "drop" => evidence[r] = NoEvidence
          /\ evidence[r].state \notin {"none", "REJECTED"} /\ evidence[r].cleaned = "yes" =>
                tree[r] = NoEntry /\ ~Armed(rule[r])
    /\ CompletedDidAll

HostInv ==
    /\ HostTypeOK /\ PlaceInv /\ TreeInv /\ RuleInv /\ LeftInv /\ LateInv /\ DoneInv
    /\ EvidenceInv

-----------------------------------------------------------------------------
(* Plans, files and places *)

\* An action is checked between files, or a network fault, or neither.
LEMMA KindsOfPlan ==
    ASSUME NEW plan
    PROVE  Checked(plan) => ~IsNetwork(plan)
BY DEF Checked, IsNetwork

\* Every injector has its files, none of which is somebody else's.
LEMMA FilesOfPlan ==
    ASSUME NEW plan \in Plans, ~IsNetwork(plan)
    PROVE  /\ Len(Files(plan)) \in Nat
           /\ \A i \in 1..Len(Files(plan)) : Files(plan)[i] # <<"precious">>
<1>1. plan.action \in Actions /\ plan.numbers.file_count \in Nat
  BY PlansAssumption
<1>2. CASE plan.action = "synthetic_canary_encrypt"
  <2> DEFINE n == plan.numbers.file_count
  <2>1. Files(plan) = [i \in 1..n |-> <<"canary", i>>]
    BY <1>2 DEF Files, CanaryInjector
  <2>2. n \in Nat
    BY <1>1
  <2> HIDE DEF n
  <2>3. Len([i \in 1..n |-> <<"canary", i>>]) = n
    BY <2>2
  <2>4. \A i \in 1..n : <<"canary", i>> # <<"precious">>
    OBVIOUS
  <2> QED
    BY <2>1, <2>2, <2>3, <2>4
<1>3. CASE plan.action = "k8s_escape_probe"
  BY <1>3 DEF Files, K8sEscapeInjector
<1>4. CASE plan.action = "c2_beacon"
  BY <1>4 DEF Files, C2BeaconInjector
<1>5. CASE plan.action = "credential_canary"
  BY <1>5 DEF Files, CredentialAccessInjector
<1>6. CASE plan.action = "log_tamper_canary"
  BY <1>6 DEF Files, LogTamperInjector
<1>7. CASE plan.action = "persistence_canary"
  BY <1>7 DEF Files, PersistenceCronInjector
<1>8. CASE plan.action = "exfiltration_canary"
  BY <1>8 DEF Files, DataExfiltrationInjector
<1>9. CASE plan.action = "watchdog_probe"
  BY <1>9 DEF Files, DefenseImpairmentInjector
<1> QED
  BY <1>1, <1>2, <1>3, <1>4, <1>5, <1>6, <1>7, <1>8, <1>9 DEF Actions, IsNetwork

\* A worker that is somewhere holds a run.
LEMMA Somewhere ==
    ASSUME HostTypeOK, worker.pc \in Pcs
    PROVE  /\ AtWork /\ worker \in WorkerType
           /\ worker.run \in HostRuns /\ worker.plan \in Plans /\ worker.done \in Nat
<1>1. AtWork
  BY DEF AtWork, NoWorker, Pcs
<1>2. worker \in WorkerType
  BY <1>1 DEF HostTypeOK
<1> QED
  BY <1>1, <1>2 DEF WorkerType

-----------------------------------------------------------------------------
(* Steps of the worker that touch nothing on the host *)

\* Where the worker may go without a change on the host.
LEMMA WorkerMoves ==
    ASSUME HostInv, worker.pc \in Pcs \ {"create", "cleanup", "drop"}, UNCHANGED hostVars,
           worker' \in WorkerType, worker'.run = worker.run, worker'.plan = worker.plan,
           worker'.pc \notin {"create", "drop"},
           PlaceInv', LateInv', DoneInv',
           Armed(rule[worker.run]) =>
              worker'.pc \in {"wait", "revert"} /\ worker'.simulated = "no",
           worker'.pc = "arm" => worker.pc = "arm",
           worker'.pc = "wait" /\ IsNetwork(worker.plan) /\ worker'.simulated = "no" =>
              worker.pc = "wait" /\ worker.simulated = "no"
    PROVE  HostInv'
<1>1. /\ HostTypeOK /\ TreeInv /\ RuleInv /\ LeftInv /\ EvidenceInv
      /\ base' = base /\ tree' = tree /\ rule' = rule /\ late' = late
      /\ unclean' = unclean /\ evidence' = evidence
  BY DEF HostInv, hostVars
<1>2. AtWork /\ worker \in WorkerType /\ worker.run \in HostRuns
  BY <1>1, Somewhere
<1>3. AtWork'
  BY DEF AtWork, NoWorker, WorkerType, Pcs
<1>4. HostTypeOK'
  BY <1>1 DEF HostTypeOK
<1>5. TreeInv'
  BY <1>1, <1>2, <1>3 DEF TreeInv, ForeignUntouched
<1>6. RuleInv'
  <2>1. IsNetwork(worker.plan)' <=> IsNetwork(worker.plan)
    BY DEF IsNetwork
  <2>2. \A r \in HostRuns : Armed(rule[r])' => tree'[r].owner = "runner"
    BY <1>1 DEF RuleInv, Armed
  <2>3. worker'.pc # "create" /\ Armed(rule[worker.run])' =>
           /\ worker'.pc \in {"wait", "revert"}
           /\ IsNetwork(worker.plan)' /\ worker'.simulated = "no"
    BY <1>1, <1>2, <2>1 DEF RuleInv, Armed
  <2>4. worker'.pc = "arm" =>
           rule'[worker'.run] = Zeroed /\ SpecValid(worker.plan)' /\ ~IsLoopback(worker.plan.iface)'
    BY <1>1, <1>2 DEF RuleInv, SpecValid, IsLoopback
  <2>5. worker'.pc = "wait" /\ IsNetwork(worker.plan)' /\ worker'.simulated = "no" =>
           rule'[worker'.run] = InForce(worker.plan)' /\ ~IsLoopback(worker.plan.iface)'
    BY <1>1, <1>2, <2>1 DEF RuleInv, InForce, RuleOf, IsLoopback
  <2> QED
    BY <1>2, <1>3, <2>2, <2>3, <2>4, <2>5 DEF RuleInv
<1>7. LeftInv'
  BY <1>1, <1>2, <1>3 DEF LeftInv
<1>8. EvidenceInv'
  BY <1>1, <1>2, <1>3 DEF EvidenceInv, CompletedDidAll, Armed
<1> QED
  BY <1>4, <1>5, <1>6, <1>7, <1>8 DEF HostInv

\* A reason to stop comes up.
LEMMA StopKeeps ==
    ASSUME HostInv, NEW reason \in Reasons, Stop(reason)
    PROVE  HostInv'
<1>1. /\ worker.pc \in {"armed", "inject", "write", "start", "arm", "wait"}
      /\ worker.stop = "no" /\ worker' = [worker EXCEPT !.stop = reason]
      /\ UNCHANGED hostVars /\ late' = late
  BY DEF Stop, hostVars
<1>2. /\ HostTypeOK /\ PlaceInv /\ RuleInv /\ LateInv /\ DoneInv
      /\ AtWork /\ worker \in WorkerType
  BY <1>1, Somewhere DEF HostInv, Pcs
<1>3. /\ worker' \in WorkerType
      /\ worker'.pc = worker.pc /\ worker'.run = worker.run /\ worker'.plan = worker.plan
      /\ worker'.stop # "no" /\ worker'.done = worker.done /\ worker'.result = worker.result
      /\ worker'.error = worker.error /\ worker'.simulated = worker.simulated
  BY <1>1, <1>2 DEF WorkerType, Reasons
<1>4. PlaceInv'
  BY <1>2, <1>3 DEF PlaceInv
<1>5. LateInv'
  BY <1>1, <1>2, <1>3 DEF LateInv
<1>6. DoneInv'
  BY <1>2, <1>3 DEF DoneInv
<1>7. Armed(rule[worker.run]) => worker'.pc \in {"wait", "revert"} /\ worker'.simulated = "no"
  BY <1>1, <1>2, <1>3 DEF RuleInv
<1> QED
  BY <1>1, <1>3, <1>4, <1>5, <1>6, <1>7, WorkerMoves DEF Pcs

\* What a check that does not pass does.
LEMMA CheckFailsMoves ==
    ASSUME worker \in WorkerType, NEW pc \in Pcs, CheckFails(pc)
    PROVE  /\ UNCHANGED hostVars /\ worker' \in WorkerType /\ late' = late
           /\ worker'.pc = pc /\ worker'.run = worker.run /\ worker'.plan = worker.plan
           /\ worker'.stop = worker.stop /\ worker'.done = worker.done
           /\ worker'.result \in Reasons \cup {"FAILED"}
           /\ worker'.error = worker.error /\ worker'.simulated = worker.simulated
<1>1. UNCHANGED hostVars /\ late' = late
  BY DEF CheckFails, hostVars
<1>2. CASE Ends("FAILED", pc)
  BY <1>1, <1>2 DEF Ends, WorkerType
<1>3. CASE worker.stop # "no" /\ Ends(worker.stop, pc)
  BY <1>1, <1>3 DEF Ends, WorkerType, Reasons
<1> QED
  BY <1>2, <1>3 DEF CheckFails

\* What a check that passes does.
LEMMA GotoMoves ==
    ASSUME worker \in WorkerType, NEW pc \in Pcs, Goto(pc)
    PROVE  /\ worker' \in WorkerType
           /\ worker'.pc = pc /\ worker'.run = worker.run /\ worker'.plan = worker.plan
           /\ worker'.stop = worker.stop /\ worker'.done = worker.done
           /\ worker'.result = worker.result
           /\ worker'.error = worker.error /\ worker'.simulated = worker.simulated
BY DEF Goto, WorkerType

\* What the end of the closure does to the worker.
LEMMA EndsMoves ==
    ASSUME worker \in WorkerType, NEW pc \in Pcs, NEW result \in {"FAILED", "COMPLETED"},
           Ends(result, pc)
    PROVE  /\ worker' \in WorkerType
           /\ worker'.pc = pc /\ worker'.run = worker.run /\ worker'.plan = worker.plan
           /\ worker'.stop = worker.stop /\ worker'.done = worker.done
           /\ worker'.result = result
           /\ worker'.error = worker.error /\ worker'.simulated = worker.simulated
BY DEF Ends, WorkerType

\* The check before anything is injected.
LEMMA FirstCheckKeeps ==
    ASSUME HostInv, FirstCheck
    PROVE  HostInv'
<1>1. /\ worker.pc = "armed" /\ HostTypeOK /\ PlaceInv /\ RuleInv /\ LateInv
      /\ AtWork /\ worker \in WorkerType /\ worker.run \in HostRuns
  BY Somewhere DEF FirstCheck, HostInv, Pcs
<1>2. ~Armed(rule[worker.run])
  BY <1>1 DEF RuleInv
<1>3. CASE CheckFails("cleanup")
  <2>1. /\ UNCHANGED hostVars /\ worker' \in WorkerType /\ late' = late
        /\ worker'.pc = "cleanup" /\ worker'.run = worker.run /\ worker'.plan = worker.plan
        /\ worker'.stop = worker.stop /\ worker'.done = worker.done
        /\ worker'.result \in Reasons \cup {"FAILED"}
        /\ worker'.error = worker.error /\ worker'.simulated = worker.simulated
    BY <1>1, <1>3, CheckFailsMoves DEF Pcs
  <2>2. PlaceInv'
    BY <1>1, <2>1 DEF PlaceInv
  <2>3. LateInv'
    BY <1>1, <2>1 DEF LateInv
  <2>4. DoneInv'
    BY <1>1, <2>1 DEF DoneInv, Reasons
  <2> QED
    BY <1>1, <1>2, <2>1, <2>2, <2>3, <2>4, WorkerMoves DEF Pcs
<1>4. CASE CheckPasses(CASE Checked(worker.plan)   -> "inject"
                         [] IsNetwork(worker.plan) -> "start"
                         [] OTHER                  -> "write")
  <2>1. PICK pc \in {"inject", "start", "write"} :
           /\ CheckPasses(pc)
           /\ pc = "inject" <=> Checked(worker.plan)
           /\ pc = "start" => IsNetwork(worker.plan)
           /\ pc = "write" => ~IsNetwork(worker.plan)
    <3>1. CASE Checked(worker.plan)
      BY <1>4, <3>1, KindsOfPlan
    <3>2. CASE ~Checked(worker.plan) /\ IsNetwork(worker.plan)
      BY <1>4, <3>2
    <3>3. CASE ~Checked(worker.plan) /\ ~IsNetwork(worker.plan)
      BY <1>4, <3>3
    <3> QED
      BY <3>1, <3>2, <3>3
  <2>2. /\ UNCHANGED hostVars /\ worker.stop = "no" /\ Goto(pc) /\ late' = late
    BY <2>1 DEF CheckPasses, hostVars
  <2>3. /\ worker' \in WorkerType
        /\ worker'.pc = pc /\ worker'.run = worker.run /\ worker'.plan = worker.plan
        /\ worker'.stop = worker.stop /\ worker'.done = worker.done
        /\ worker'.result = worker.result
        /\ worker'.error = worker.error /\ worker'.simulated = worker.simulated
    BY <1>1, <2>1, <2>2, GotoMoves DEF Pcs
  <2>4. ~IsNetwork(worker.plan) => Len(Files(worker.plan)) \in Nat
    BY <1>1, FilesOfPlan DEF WorkerType
  <2>5. worker.done = 0 /\ worker.simulated = "no" /\ worker.result = "none" /\ late = 0
    BY <1>1, <2>2 DEF PlaceInv, LateInv
  <2>6. PlaceInv'
    <3>1. pc \in {"inject", "write"} => 0 <= Len(Files(worker.plan))
      BY <2>1, <2>4, KindsOfPlan
    <3> QED
      BY <2>1, <2>3, <2>5, <3>1 DEF PlaceInv
  <2>7. LateInv'
    BY <2>2, <2>3, <2>4, <2>5 DEF LateInv
  <2>8. DoneInv'
    BY <2>3, <2>5 DEF DoneInv
  <2> QED
    BY <1>1, <1>2, <2>1, <2>2, <2>3, <2>6, <2>7, <2>8, WorkerMoves DEF Pcs
<1> QED
  BY <1>3, <1>4 DEF FirstCheck

\* A check that does not pass leads to what undoes the action's effects.
LEMMA CheckFailsKeeps ==
    ASSUME HostInv, worker.pc \in {"inject", "wait"}, NEW pc,
           CheckFails(pc), pc = "cleanup" => worker.pc = "inject",
           pc # "cleanup" => pc = Undo(worker.plan)
    PROVE  HostInv'
<1>1. /\ HostTypeOK /\ PlaceInv /\ RuleInv /\ LateInv
      /\ AtWork /\ worker \in WorkerType /\ worker.run \in HostRuns
  BY Somewhere DEF HostInv, Pcs
<1>2. /\ pc \in {"cleanup", "revert", "undo"}
      /\ pc = "revert" => IsNetwork(worker.plan)
      /\ pc = "undo" => ~IsNetwork(worker.plan) /\ ~Checked(worker.plan)
      /\ IsNetwork(worker.plan) => pc = "revert"
  BY <1>1, KindsOfPlan DEF Undo, PlaceInv
<1>3. /\ UNCHANGED hostVars /\ worker' \in WorkerType /\ late' = late
      /\ worker'.pc = pc /\ worker'.run = worker.run /\ worker'.plan = worker.plan
      /\ worker'.stop = worker.stop /\ worker'.done = worker.done
      /\ worker'.result \in Reasons \cup {"FAILED"}
      /\ worker'.error = worker.error /\ worker'.simulated = worker.simulated
  BY <1>1, <1>2, CheckFailsMoves DEF Pcs
<1>4. PlaceInv'
  BY <1>1, <1>2, <1>3 DEF PlaceInv
<1>5. LateInv'
  BY <1>1, <1>2, <1>3 DEF LateInv
<1>6. DoneInv'
  BY <1>1, <1>3 DEF DoneInv, Reasons
<1>7. Armed(rule[worker.run]) => worker'.pc \in {"wait", "revert"} /\ worker'.simulated = "no"
  BY <1>1, <1>2, <1>3 DEF RuleInv
<1> QED
  BY <1>1, <1>2, <1>3, <1>4, <1>5, <1>6, <1>7, WorkerMoves DEF Pcs

\* The check before a canary.
LEMMA CanaryCheckKeeps ==
    ASSUME HostInv, CanaryCheck
    PROVE  HostInv'
<1>1. /\ worker.pc = "inject" /\ HostTypeOK /\ PlaceInv /\ RuleInv /\ LateInv
      /\ AtWork /\ worker \in WorkerType /\ worker.run \in HostRuns
      /\ Checked(worker.plan) /\ ~IsNetwork(worker.plan)
  BY Somewhere, KindsOfPlan DEF CanaryCheck, HostInv, Pcs, PlaceInv
<1>2. CASE CheckFails("cleanup")
  BY <1>1, <1>2, CheckFailsKeeps
<1>3. CASE worker.done < Len(Files(worker.plan)) /\ CheckPasses("write")
  <2>1. /\ UNCHANGED hostVars /\ worker.stop = "no" /\ Goto("write") /\ late' = late
    BY <1>3 DEF CheckPasses, hostVars
  <2>2. /\ worker' \in WorkerType
        /\ worker'.pc = "write" /\ worker'.run = worker.run /\ worker'.plan = worker.plan
        /\ worker'.stop = worker.stop /\ worker'.done = worker.done
        /\ worker'.result = worker.result
        /\ worker'.error = worker.error /\ worker'.simulated = worker.simulated
    BY <1>1, <2>1, GotoMoves DEF Pcs
  <2>3. worker.result = "none" /\ late = 0
    BY <1>1, <2>1 DEF PlaceInv, LateInv
  <2>4. PlaceInv'
    BY <1>1, <2>2 DEF PlaceInv
  <2>5. LateInv'
    BY <1>1, <2>1, <2>2, <2>3 DEF LateInv
  <2>6. DoneInv'
    BY <2>2, <2>3 DEF DoneInv
  <2>7. ~Armed(rule[worker.run])
    BY <1>1 DEF RuleInv
  <2> QED
    BY <1>1, <2>1, <2>2, <2>4, <2>5, <2>6, <2>7, WorkerMoves DEF Pcs
<1> QED
  BY <1>2, <1>3 DEF CanaryCheck

\* The file system refuses a file.
LEMMA FileFailsKeeps ==
    ASSUME HostInv, FileFails
    PROVE  HostInv'
<1>1. /\ worker.pc = "write" /\ HostTypeOK /\ PlaceInv /\ RuleInv /\ LateInv
      /\ AtWork /\ worker \in WorkerType /\ worker.run \in HostRuns
      /\ ~IsNetwork(worker.plan) /\ UNCHANGED hostVars /\ late' = late
  BY Somewhere DEF FileFails, HostInv, Pcs, PlaceInv, hostVars
<1>2. /\ Undo(worker.plan) \in {"cleanup", "undo"}
      /\ Ends("FAILED", Undo(worker.plan))
  BY <1>1 DEF Undo, FileFails
<1>3. /\ worker' \in WorkerType
      /\ worker'.pc = Undo(worker.plan) /\ worker'.run = worker.run /\ worker'.plan = worker.plan
      /\ worker'.stop = worker.stop /\ worker'.done = worker.done
      /\ worker'.result = "FAILED"
      /\ worker'.error = worker.error /\ worker'.simulated = worker.simulated
  BY <1>1, <1>2, EndsMoves DEF Pcs
<1>4. PlaceInv'
  BY <1>1, <1>2, <1>3 DEF PlaceInv
<1>5. LateInv'
  BY <1>1, <1>2, <1>3 DEF LateInv
<1>6. DoneInv'
  BY <1>3 DEF DoneInv
<1>7. ~Armed(rule[worker.run])
  BY <1>1 DEF RuleInv
<1> QED
  BY <1>1, <1>2, <1>3, <1>4, <1>5, <1>6, <1>7, WorkerMoves DEF Pcs

\* All files of the plan are written.
LEMMA AllWrittenKeeps ==
    ASSUME HostInv, AllWritten
    PROVE  HostInv'
<1>1. /\ worker.pc \in {"inject", "write"} /\ HostTypeOK /\ PlaceInv /\ RuleInv /\ LateInv
      /\ AtWork /\ worker \in WorkerType /\ worker.run \in HostRuns
      /\ worker.done = Len(Files(worker.plan)) /\ Goto("wait")
      /\ UNCHANGED hostVars /\ late' = late
  BY Somewhere DEF AllWritten, HostInv, Pcs, hostVars
<1>2. ~IsNetwork(worker.plan)
  BY <1>1, KindsOfPlan DEF PlaceInv
<1>3. /\ worker' \in WorkerType
      /\ worker'.pc = "wait" /\ worker'.run = worker.run /\ worker'.plan = worker.plan
      /\ worker'.stop = worker.stop /\ worker'.done = worker.done
      /\ worker'.result = worker.result
      /\ worker'.error = worker.error /\ worker'.simulated = worker.simulated
  BY <1>1, GotoMoves DEF Pcs
<1>4. PlaceInv'
  BY <1>1, <1>2, <1>3 DEF PlaceInv
<1>5. LateInv'
  BY <1>1, <1>2, <1>3 DEF LateInv
<1>6. DoneInv'
  BY <1>1, <1>3 DEF DoneInv, PlaceInv
<1>7. ~Armed(rule[worker.run])
  BY <1>1 DEF RuleInv
<1> QED
  BY <1>1, <1>2, <1>3, <1>4, <1>5, <1>6, <1>7, WorkerMoves DEF Pcs

\* The time of the plan is over, or cut short.
LEMMA WaitKeeps ==
    ASSUME HostInv, Wait
    PROVE  HostInv'
<1>1. /\ worker.pc = "wait" /\ HostTypeOK /\ PlaceInv /\ RuleInv /\ LateInv
      /\ AtWork /\ worker \in WorkerType /\ worker.run \in HostRuns
  BY Somewhere DEF Wait, HostInv, Pcs
<1>2. CASE CheckFails(Undo(worker.plan))
  <2>1. CASE Undo(worker.plan) = "cleanup"
    \* Only canaries are undone by the cleanup alone.
    <3>1. Checked(worker.plan) /\ ~IsNetwork(worker.plan)
      BY <2>1, KindsOfPlan DEF Undo
    <3>2. /\ UNCHANGED hostVars /\ worker' \in WorkerType /\ late' = late
          /\ worker'.pc = "cleanup" /\ worker'.run = worker.run /\ worker'.plan = worker.plan
          /\ worker'.stop = worker.stop /\ worker'.done = worker.done
          /\ worker'.result \in Reasons \cup {"FAILED"}
          /\ worker'.error = worker.error /\ worker'.simulated = worker.simulated
      BY <1>1, <1>2, <2>1, CheckFailsMoves DEF Pcs
    <3>3. PlaceInv'
      BY <1>1, <3>1, <3>2 DEF PlaceInv
    <3>4. LateInv'
      BY <1>1, <3>1, <3>2 DEF LateInv
    <3>5. DoneInv'
      BY <3>2 DEF DoneInv, Reasons
    <3>6. ~Armed(rule[worker.run])
      BY <1>1, <3>1 DEF RuleInv
    <3> QED
      BY <1>1, <3>1, <3>2, <3>3, <3>4, <3>5, <3>6, WorkerMoves DEF Pcs
  <2>2. CASE Undo(worker.plan) # "cleanup"
    BY <1>1, <1>2, <2>2, CheckFailsKeeps
  <2> QED
    BY <2>1, <2>2
<1>3. CASE worker.stop = "no" /\ Ends("COMPLETED", Undo(worker.plan)) /\ UNCHANGED hostVars
  <2>1. /\ Undo(worker.plan) \in {"cleanup", "revert", "undo"}
        /\ IsNetwork(worker.plan) <=> Undo(worker.plan) = "revert"
        /\ late' = late
    BY <1>3, KindsOfPlan DEF Undo, hostVars
  <2>2. /\ worker' \in WorkerType
        /\ worker'.pc = Undo(worker.plan) /\ worker'.run = worker.run
        /\ worker'.plan = worker.plan
        /\ worker'.stop = worker.stop /\ worker'.done = worker.done
        /\ worker'.result = "COMPLETED"
        /\ worker'.error = worker.error /\ worker'.simulated = worker.simulated
    BY <1>1, <1>3, <2>1, EndsMoves DEF Pcs
  <2>3. PlaceInv'
    BY <1>1, <2>1, <2>2 DEF PlaceInv
  <2>4. LateInv'
    BY <1>1, <2>1, <2>2 DEF LateInv
  <2>5. DoneInv'
    <3>1. IsNetwork(worker.plan) => worker.simulated = "yes" \/ ~IsLoopback(worker.plan.iface)
      BY <1>1 DEF RuleInv, WorkerType
    <3>2. ~IsNetwork(worker.plan) => worker.done = Len(Files(worker.plan))
      BY <1>1 DEF PlaceInv
    <3> QED
      BY <2>2, <3>1, <3>2 DEF DoneInv
  <2>6. Armed(rule[worker.run]) => worker'.pc \in {"wait", "revert"} /\ worker'.simulated = "no"
    BY <1>1, <2>1, <2>2 DEF RuleInv
  <2> QED
    BY <1>1, <1>3, <2>1, <2>2, <2>3, <2>4, <2>5, <2>6, WorkerMoves DEF Pcs
<1> QED
  BY <1>2, <1>3 DEF Wait

\* A network fault is refused.
LEMMA StartRefusedKeeps ==
    ASSUME HostInv, StartRefused
    PROVE  HostInv'
<1>1. /\ worker.pc = "start" /\ HostTypeOK /\ PlaceInv /\ RuleInv /\ LateInv
      /\ AtWork /\ worker \in WorkerType /\ worker.run \in HostRuns
      /\ Ends("FAILED", "cleanup") /\ UNCHANGED hostVars /\ late' = late
  BY Somewhere DEF StartRefused, HostInv, Pcs, hostVars
<1>2. /\ worker' \in WorkerType
      /\ worker'.pc = "cleanup" /\ worker'.run = worker.run /\ worker'.plan = worker.plan
      /\ worker'.stop = worker.stop /\ worker'.done = worker.done
      /\ worker'.result = "FAILED"
      /\ worker'.error = worker.error /\ worker'.simulated = worker.simulated
  BY <1>1, EndsMoves DEF Pcs
<1>3. PlaceInv'
  BY <1>1, <1>2 DEF PlaceInv
<1>4. LateInv'
  BY <1>1, <1>2 DEF LateInv
<1>5. DoneInv'
  BY <1>2 DEF DoneInv
<1>6. ~Armed(rule[worker.run])
  BY <1>1 DEF RuleInv
<1> QED
  BY <1>1, <1>2, <1>3, <1>4, <1>5, <1>6, WorkerMoves DEF Pcs

\* A network fault is simulated.
LEMMA StartSimulatedKeeps ==
    ASSUME HostInv, StartSimulated
    PROVE  HostInv'
<1>1. /\ worker.pc = "start" /\ HostTypeOK /\ PlaceInv /\ RuleInv /\ LateInv
      /\ AtWork /\ worker \in WorkerType /\ worker.run \in HostRuns
      /\ worker' = [worker EXCEPT !.pc = "wait", !.simulated = "yes"]
      /\ UNCHANGED hostVars /\ late' = late
      /\ IsNetwork(worker.plan) /\ worker.result = "none"
  BY Somewhere DEF StartSimulated, HostInv, Pcs, hostVars, PlaceInv
<1>2. /\ worker' \in WorkerType
      /\ worker'.pc = "wait" /\ worker'.run = worker.run /\ worker'.plan = worker.plan
      /\ worker'.stop = worker.stop /\ worker'.done = worker.done
      /\ worker'.result = worker.result
      /\ worker'.error = worker.error /\ worker'.simulated = "yes"
  BY <1>1 DEF WorkerType, Pcs
<1>3. PlaceInv'
  BY <1>1, <1>2 DEF PlaceInv
<1>4. LateInv'
  BY <1>1, <1>2 DEF LateInv
<1>5. DoneInv'
  BY <1>1, <1>2 DEF DoneInv
<1>6. ~Armed(rule[worker.run])
  BY <1>1 DEF RuleInv
<1> QED
  BY <1>1, <1>2, <1>3, <1>4, <1>5, <1>6, WorkerMoves DEF Pcs

-----------------------------------------------------------------------------
(* Steps that change the host *)

\* A request is taken: nothing of it is on the host yet.
LEMMA BeginRunKeeps ==
    ASSUME HostInv, NEW r \in HostRuns, NEW plan \in Plans, BeginRun(r, plan)
    PROVE  HostInv'
<1>1. /\ HostTypeOK /\ TreeInv /\ RuleInv /\ LeftInv /\ EvidenceInv /\ ~AtWork
      /\ worker' = [pc |-> "create", run |-> r, plan |-> plan, stop |-> "no", done |-> 0,
                    result |-> "none", error |-> "no", simulated |-> "no"]
      /\ late' = 0 /\ evidence' = [evidence EXCEPT ![r] = NoEvidence]
      /\ base' = base /\ tree' = tree /\ rule' = rule /\ unclean' = unclean
  BY DEF BeginRun, HostInv, AtWork
<1>2. worker' \in WorkerType
  BY <1>1 DEF WorkerType, Pcs
<1>3. /\ worker'.pc = "create" /\ worker'.run = r /\ worker'.plan = plan /\ worker'.stop = "no"
      /\ worker'.done = 0 /\ worker'.result = "none" /\ worker'.simulated = "no" /\ AtWork'
  BY <1>1 DEF AtWork, NoWorker
<1>4. HostTypeOK'
  BY <1>1, <1>2 DEF HostTypeOK
<1>5. PlaceInv'
  BY <1>3 DEF PlaceInv
<1>6. TreeInv'
  BY <1>1, <1>3 DEF TreeInv, ForeignUntouched
<1>7. RuleInv'
  BY <1>1, <1>3 DEF RuleInv, Armed
<1>8. LeftInv'
  BY <1>1, <1>3 DEF LeftInv
<1>9. LateInv'
  <2>1. ~IsNetwork(plan) => Len(Files(plan)) \in Nat
    BY FilesOfPlan
  <2> QED
    BY <1>1, <1>3, <2>1 DEF LateInv
<1>10. DoneInv'
  BY <1>3 DEF DoneInv
<1>11. EvidenceInv'
  BY <1>1, <1>3 DEF EvidenceInv, CompletedDidAll, NoEvidence, HostTypeOK, Armed
<1> QED
  BY <1>4, <1>5, <1>6, <1>7, <1>8, <1>9, <1>10, <1>11 DEF HostInv

\* The directory is made where nothing was.
LEMMA CreateKeeps ==
    ASSUME HostInv, Create
    PROVE  HostInv'
<1>1. /\ worker.pc = "create" /\ HostTypeOK /\ PlaceInv /\ TreeInv /\ RuleInv /\ LeftInv
      /\ LateInv /\ DoneInv /\ EvidenceInv
      /\ AtWork /\ worker \in WorkerType /\ worker.run \in HostRuns
      /\ base' = "real" /\ late' = late /\ unclean' = unclean
      /\ rule' = rule /\ evidence' = evidence /\ Goto("armed")
      /\ tree[worker.run] = NoEntry
  BY Somewhere DEF Create, HostInv, Pcs, Free
<1>2. /\ worker' \in WorkerType
      /\ worker'.pc = "armed" /\ worker'.run = worker.run /\ worker'.plan = worker.plan
      /\ worker'.stop = worker.stop /\ worker'.done = worker.done
      /\ worker'.result = worker.result
      /\ worker'.error = worker.error /\ worker'.simulated = worker.simulated
      /\ AtWork'
  BY <1>1, GotoMoves DEF Pcs, AtWork, NoWorker
<1>3. /\ DOMAIN tree' = HostRuns
      /\ tree'[worker.run] = [owner |-> "runner", files |-> {}]
      /\ \A r \in HostRuns \ {worker.run} : tree'[r] = tree[r]
  BY <1>1 DEF Create, HostTypeOK, NoEntry
<1>4. ~Armed(rule[worker.run])
  BY <1>1 DEF RuleInv, NoEntry
<1>5. HostTypeOK'
  BY <1>1, <1>2, <1>3 DEF HostTypeOK
<1>6. PlaceInv'
  BY <1>1, <1>2 DEF PlaceInv
<1>7. TreeInv'
  BY <1>1, <1>2, <1>3 DEF TreeInv, ForeignUntouched
<1>8. RuleInv'
  BY <1>1, <1>2, <1>3, <1>4 DEF RuleInv, Armed
<1>9. LeftInv'
  BY <1>1, <1>2, <1>3 DEF LeftInv
<1>10. LateInv'
  BY <1>1, <1>2 DEF LateInv
<1>11. DoneInv'
  BY <1>1, <1>2 DEF DoneInv, PlaceInv
<1>12. EvidenceInv'
  BY <1>1, <1>2, <1>3 DEF EvidenceInv, CompletedDidAll, NoEvidence, Armed
<1> QED
  BY <1>5, <1>6, <1>7, <1>8, <1>9, <1>10, <1>11, <1>12 DEF HostInv

\* The directory cannot be made.
LEMMA CreateRefusedKeeps ==
    ASSUME HostInv, CreateRefused
    PROVE  HostInv'
<1>1. /\ worker.pc = "create" /\ HostTypeOK /\ TreeInv /\ RuleInv /\ LeftInv /\ EvidenceInv
      /\ AtWork /\ worker \in WorkerType /\ worker.run \in HostRuns
      /\ base' \in {base, "real"} /\ base' \in {"absent", "real", "unsafe"}
      /\ late' = late /\ unclean' = unclean /\ rule' = rule /\ tree' = tree
      /\ evidence' = [evidence EXCEPT ![worker.run] =
                         [state |-> "REJECTED", cleaned |-> "no", plan |-> worker.plan]]
      /\ ~AtWork'
  BY Somewhere DEF CreateRefused, HostInv, Pcs, AtWork, HostTypeOK
<1>2. HostTypeOK'
  BY <1>1 DEF HostTypeOK
<1>3. TreeInv'
  BY <1>1 DEF TreeInv, ForeignUntouched
<1>4. RuleInv'
  BY <1>1 DEF RuleInv, Armed
<1>5. LeftInv'
  BY <1>1 DEF LeftInv
<1>6. EvidenceInv'
  BY <1>1 DEF EvidenceInv, CompletedDidAll, HostTypeOK, Armed
<1> QED
  BY <1>1, <1>2, <1>3, <1>4, <1>5, <1>6 DEF HostInv, PlaceInv, LateInv, DoneInv

\* A file is begun, and written in full or not.
LEMMA WriteFileKeeps ==
    ASSUME HostInv, WriteFile
    PROVE  HostInv'
<1>1. /\ worker.pc = "write" /\ HostTypeOK /\ PlaceInv /\ TreeInv /\ RuleInv /\ LeftInv
      /\ LateInv /\ DoneInv /\ EvidenceInv
      /\ AtWork /\ worker \in WorkerType /\ worker.run \in HostRuns /\ worker.plan \in Plans
      /\ worker.done \in Nat /\ worker.done < Len(Files(worker.plan))
      /\ late' = IF worker.stop = "no" THEN late ELSE late + 1
      /\ base' = base /\ unclean' = unclean /\ rule' = rule /\ evidence' = evidence
  BY Somewhere DEF WriteFile, HostInv, Pcs
<1>2. /\ ~IsNetwork(worker.plan) /\ worker.result = "none"
      /\ worker.simulated = "no"
  BY <1>1 DEF PlaceInv, WorkerType
<1>3. /\ Len(Files(worker.plan)) \in Nat
      /\ Files(worker.plan)[worker.done + 1] # <<"precious">>
  BY <1>1, <1>2, FilesOfPlan
<1>4. /\ worker' \in WorkerType /\ worker'.run = worker.run /\ worker'.plan = worker.plan
      /\ worker'.stop = worker.stop /\ worker'.simulated = worker.simulated
      /\ worker'.result \in {"none", "FAILED"}
      /\ \/ /\ worker'.pc = IF Checked(worker.plan) THEN "inject" ELSE "write"
            /\ worker'.done = worker.done + 1 /\ worker'.result = "none"
         \/ /\ worker'.pc = IF Checked(worker.plan) THEN "cleanup" ELSE "undo"
            /\ worker'.done = worker.done
  <2>1. CASE worker' = [worker EXCEPT !.done = @ + 1,
                                      !.pc = IF Checked(worker.plan) THEN "inject" ELSE "write"]
    <3> DEFINE pc == IF Checked(worker.plan) THEN "inject" ELSE "write"
               done == worker.done + 1
    <3>1. pc \in Pcs /\ done \in Nat
      BY <1>1 DEF Pcs
    <3>2. worker' = [worker EXCEPT !.done = done, !.pc = pc]
      BY <2>1
    <3> HIDE DEF pc, done
    <3>3. /\ worker' \in WorkerType /\ worker'.pc = pc /\ worker'.done = done
          /\ worker'.run = worker.run /\ worker'.plan = worker.plan
          /\ worker'.stop = worker.stop /\ worker'.simulated = worker.simulated
          /\ worker'.result = worker.result
      BY <1>1, <3>1, <3>2 DEF WorkerType
    <3> QED
      BY <1>2, <3>3 DEF pc, done
  <2>2. CASE Ends("FAILED", Undo(worker.plan))
    <3>1. Undo(worker.plan) = IF Checked(worker.plan) THEN "cleanup" ELSE "undo"
      BY <1>2 DEF Undo
    <3> QED
      BY <1>1, <2>2, <3>1, EndsMoves DEF Pcs
  <2> QED
    BY <2>1, <2>2 DEF WriteFile
<1>5. AtWork'
  BY <1>4 DEF AtWork, NoWorker, WorkerType, Pcs
<1>6. /\ DOMAIN tree' = HostRuns
      /\ tree'[worker.run] = [owner |-> tree[worker.run].owner,
                              files |-> tree[worker.run].files
                                           \cup {Files(worker.plan)[worker.done + 1]}]
      /\ \A r \in HostRuns \ {worker.run} : tree'[r] = tree[r]
  <2> DEFINE files == tree[worker.run].files \cup {Files(worker.plan)[worker.done + 1]}
  <2>1. tree' = [tree EXCEPT ![worker.run] = [@ EXCEPT !.files = files]]
    BY DEF WriteFile
  <2>2. tree[worker.run] = [owner |-> tree[worker.run].owner, files |-> tree[worker.run].files]
        /\ DOMAIN tree = HostRuns
    BY <1>1 DEF HostTypeOK
  <2> HIDE DEF files
  <2>3. [tree[worker.run] EXCEPT !.files = files] = [owner |-> tree[worker.run].owner, files |-> files]
    BY <2>2
  <2>4. /\ DOMAIN tree' = HostRuns
        /\ tree'[worker.run] = [owner |-> tree[worker.run].owner, files |-> files]
        /\ \A r \in HostRuns \ {worker.run} : tree'[r] = tree[r]
    BY <1>1, <2>1, <2>2, <2>3
  <2> QED
    BY <2>4 DEF files
<1>7. tree[worker.run].owner = "runner" /\ <<"precious">> \notin tree[worker.run].files
  BY <1>1 DEF TreeInv, ForeignUntouched, Foreign
<1>8. ~Armed(rule[worker.run])
  BY <1>1 DEF RuleInv
<1>9. HostTypeOK'
  BY <1>1, <1>4, <1>6 DEF HostTypeOK
<1>10. PlaceInv'
  <2>1. Checked(worker.plan)' <=> Checked(worker.plan)
    BY <1>4 DEF Checked
  <2> QED
    BY <1>1, <1>2, <1>3, <1>4, <2>1 DEF PlaceInv
<1>11. TreeInv'
  <2>1. ForeignUntouched'
    BY <1>1, <1>3, <1>6, <1>7 DEF TreeInv, ForeignUntouched
  <2> QED
    BY <1>1, <1>4, <1>6, <1>7, <2>1 DEF TreeInv
<1>12. RuleInv'
  BY <1>1, <1>4, <1>6, <1>7, <1>8 DEF RuleInv, Armed, WorkerType, Pcs
<1>13. LeftInv'
  BY <1>1, <1>4, <1>5, <1>6 DEF LeftInv, WorkerType, Pcs
<1>14. LateInv'
  <2>1. late \in Nat
    BY <1>1 DEF HostTypeOK
  <2> QED
    BY <1>1, <1>2, <1>3, <1>4, <2>1 DEF LateInv
<1>15. DoneInv'
  BY <1>4 DEF DoneInv
<1>16. EvidenceInv'
  BY <1>1, <1>4, <1>5, <1>6 DEF EvidenceInv, CompletedDidAll, NoEvidence, Armed
<1> QED
  BY <1>9, <1>10, <1>11, <1>12, <1>13, <1>14, <1>15, <1>16 DEF HostInv

\* An injector's own cleanup, or its error.
LEMMA UndoFilesKeeps ==
    ASSUME HostInv, UndoFiles
    PROVE  HostInv'
<1>1. /\ worker.pc = "undo" /\ HostTypeOK /\ PlaceInv /\ TreeInv /\ RuleInv /\ LeftInv
      /\ LateInv /\ DoneInv /\ EvidenceInv
      /\ AtWork /\ worker \in WorkerType /\ worker.run \in HostRuns
      /\ base' = base /\ unclean' = unclean /\ rule' = rule /\ evidence' = evidence
      /\ late' = late
  BY Somewhere DEF UndoFiles, HostInv, Pcs
<1>2. /\ worker' \in WorkerType /\ worker'.pc = "cleanup"
      /\ worker'.run = worker.run /\ worker'.plan = worker.plan
      /\ worker'.stop = worker.stop /\ worker'.done = worker.done
      /\ worker'.result = worker.result /\ worker'.simulated = worker.simulated
  <2>1. CASE Goto("cleanup")
    BY <1>1, <2>1, GotoMoves DEF Pcs
  <2>2. CASE worker' = [worker EXCEPT !.pc = "cleanup", !.error = "yes"]
    BY <1>1, <2>2 DEF WorkerType, Pcs
  <2> QED
    BY <2>1, <2>2 DEF UndoFiles
<1>3. AtWork'
  BY <1>2 DEF AtWork, NoWorker
<1>4. tree[worker.run].owner = "runner" /\ ~IsNetwork(worker.plan)
  BY <1>1 DEF TreeInv, PlaceInv
<1>5. /\ DOMAIN tree' = HostRuns
      /\ tree'[worker.run] \in {tree[worker.run], NoEntry, [owner |-> "runner", files |-> {}]}
      /\ \A r \in HostRuns \ {worker.run} : tree'[r] = tree[r]
  <2>1. CASE tree' = [tree EXCEPT ![worker.run].files = {}]
    <3>1. tree' = [tree EXCEPT ![worker.run] = [@ EXCEPT !.files = {}]]
      BY <2>1
    <3>2. tree[worker.run] = [owner |-> "runner", files |-> tree[worker.run].files]
          /\ DOMAIN tree = HostRuns
      BY <1>1, <1>4 DEF HostTypeOK
    <3>3. [tree[worker.run] EXCEPT !.files = {}] = [owner |-> "runner", files |-> {}]
      BY <3>2
    <3> QED
      BY <1>1, <3>1, <3>2, <3>3
  <2>2. CASE tree' = [tree EXCEPT ![worker.run] = NoEntry]
    BY <1>1, <2>2 DEF HostTypeOK
  <2>3. CASE tree' = tree
    BY <1>1, <2>3 DEF HostTypeOK
  <2> QED
    BY <2>1, <2>2, <2>3 DEF UndoFiles
<1>6. ~Armed(rule[worker.run])
  BY <1>1 DEF RuleInv
<1>7. HostTypeOK'
  <2>1. tree'[worker.run] = [owner |-> tree'[worker.run].owner, files |-> tree'[worker.run].files]
    BY <1>1, <1>5 DEF HostTypeOK, NoEntry
  <2> QED
    BY <1>1, <1>2, <1>5, <2>1 DEF HostTypeOK
<1>8. PlaceInv'
  BY <1>1, <1>2 DEF PlaceInv
<1>9. TreeInv'
  <2>1. ForeignUntouched'
    BY <1>1, <1>5 DEF TreeInv, ForeignUntouched, NoEntry
  <2> QED
    BY <1>1, <1>2, <1>4, <1>5, <2>1 DEF TreeInv
<1>10. RuleInv'
  BY <1>1, <1>2, <1>5, <1>6 DEF RuleInv, Armed
<1>11. LeftInv'
  BY <1>1, <1>2, <1>3, <1>5 DEF LeftInv
<1>12. LateInv'
  BY <1>1, <1>2 DEF LateInv
<1>13. DoneInv'
  BY <1>1, <1>2 DEF DoneInv
<1>14. EvidenceInv'
  BY <1>1, <1>2, <1>3, <1>5 DEF EvidenceInv, CompletedDidAll, NoEvidence, Armed
<1> QED
  BY <1>7, <1>8, <1>9, <1>10, <1>11, <1>12, <1>13, <1>14 DEF HostInv

\* The program is attached, and passes every packet.
LEMMA AttachKeeps ==
    ASSUME HostInv, Attach
    PROVE  HostInv'
<1>1. /\ worker.pc = "start" /\ HostTypeOK /\ PlaceInv /\ TreeInv /\ RuleInv /\ LeftInv
      /\ LateInv /\ DoneInv /\ EvidenceInv
      /\ AtWork /\ worker \in WorkerType /\ worker.run \in HostRuns
      /\ SpecValid(worker.plan) /\ ~IsLoopback(worker.plan.iface) /\ Goto("arm")
      /\ base' = base /\ unclean' = unclean /\ tree' = tree /\ evidence' = evidence
      /\ late' = late
  BY Somewhere DEF Attach, HostInv, Pcs
<1>2. /\ worker' \in WorkerType
      /\ worker'.pc = "arm" /\ worker'.run = worker.run /\ worker'.plan = worker.plan
      /\ worker'.stop = worker.stop /\ worker'.done = worker.done
      /\ worker'.result = worker.result
      /\ worker'.error = worker.error /\ worker'.simulated = worker.simulated
      /\ AtWork'
  BY <1>1, GotoMoves DEF Pcs, AtWork, NoWorker
<1>3. /\ rule' \in [HostRuns -> Rules] /\ rule'[worker.run] = Zeroed
      /\ \A r \in HostRuns \ {worker.run} : rule'[r] = rule[r]
  BY <1>1 DEF Attach, HostTypeOK, Rules
<1>4. HostTypeOK'
  <2>1. Rules' = Rules
    BY DEF Rules, InForce, RuleOf, SpecValid
  <2> QED
    BY <1>1, <1>2, <1>3, <2>1 DEF HostTypeOK
<1>5. PlaceInv'
  BY <1>1, <1>2 DEF PlaceInv
<1>6. TreeInv'
  BY <1>1, <1>2 DEF TreeInv, ForeignUntouched
<1>7. RuleInv'
  <2>1. \A r \in HostRuns : Armed(rule[r])' => tree'[r].owner = "runner"
    BY <1>1, <1>3 DEF RuleInv, Armed
  <2>2. ~Armed(rule[worker.run])'
    BY <1>2, <1>3 DEF Armed
  <2>3. SpecValid(worker.plan)' /\ ~IsLoopback(worker.plan.iface)'
    BY <1>1, <1>2 DEF SpecValid, IsLoopback
  <2> QED
    BY <1>2, <1>3, <2>1, <2>2, <2>3 DEF RuleInv
<1>8. LeftInv'
  BY <1>1, <1>2 DEF LeftInv
<1>9. LateInv'
  BY <1>1, <1>2 DEF LateInv
<1>10. DoneInv'
  BY <1>1, <1>2 DEF DoneInv
<1>11. EvidenceInv'
  BY <1>1, <1>2, <1>3 DEF EvidenceInv, CompletedDidAll, NoEvidence, Armed
<1> QED
  BY <1>4, <1>5, <1>6, <1>7, <1>8, <1>9, <1>10, <1>11 DEF HostInv

\* The rule is written, or the program dropped.
LEMMA ArmKeeps ==
    ASSUME HostInv, Arm
    PROVE  HostInv'
<1>1. /\ worker.pc = "arm" /\ HostTypeOK /\ PlaceInv /\ TreeInv /\ RuleInv /\ LeftInv
      /\ LateInv /\ DoneInv /\ EvidenceInv
      /\ AtWork /\ worker \in WorkerType /\ worker.run \in HostRuns /\ worker.plan \in Plans
      /\ base' = base /\ unclean' = unclean /\ tree' = tree /\ evidence' = evidence
      /\ late' = late
  BY Somewhere DEF Arm, HostInv, Pcs
<1>2. /\ rule[worker.run] = Zeroed /\ SpecValid(worker.plan) /\ ~IsLoopback(worker.plan.iface)
      /\ IsNetwork(worker.plan) /\ worker.result = "none" /\ worker.simulated = "no"
      /\ tree[worker.run].owner = "runner"
  BY <1>1 DEF RuleInv, PlaceInv, TreeInv
<1>3. /\ worker' \in WorkerType
      /\ worker'.pc \in {"wait", "cleanup"} /\ worker'.run = worker.run
      /\ worker'.plan = worker.plan /\ worker'.stop = worker.stop
      /\ worker'.done = worker.done /\ worker'.simulated = worker.simulated
      /\ worker'.result = IF worker'.pc = "wait" THEN "none" ELSE "FAILED"
      /\ rule' \in [HostRuns -> Rules]
      /\ worker'.pc = "wait" => rule'[worker.run] = InForce(worker.plan)
      /\ worker'.pc = "cleanup" => ~Armed(rule'[worker.run])
      /\ \A r \in HostRuns \ {worker.run} : rule'[r] = rule[r]
  <2>1. InForce(worker.plan) \in Rules /\ NoRule \in Rules
    BY <1>1, <1>2 DEF Rules
  <2>2. CASE Goto("wait") /\ rule' = [rule EXCEPT ![worker.run] = InForce(worker.plan)]
    <3>1. /\ rule' \in [HostRuns -> Rules] /\ rule'[worker.run] = InForce(worker.plan)
          /\ \A r \in HostRuns \ {worker.run} : rule'[r] = rule[r]
      BY <1>1, <2>1, <2>2 DEF HostTypeOK
    <3> QED
      BY <1>1, <1>2, <2>2, <3>1, GotoMoves DEF Pcs
  <2>3. CASE Ends("FAILED", "cleanup") /\ rule' \in {[rule EXCEPT ![worker.run] = NoRule], rule}
    <3>1. /\ rule' \in [HostRuns -> Rules] /\ rule'[worker.run] \in {NoRule, Zeroed}
          /\ \A r \in HostRuns \ {worker.run} : rule'[r] = rule[r]
      BY <1>1, <1>2, <2>1, <2>3 DEF HostTypeOK
    <3>2. ~Armed(rule'[worker.run])
      BY <3>1 DEF Armed
    <3> QED
      BY <1>1, <1>2, <2>3, <3>1, <3>2, EndsMoves DEF Pcs
  <2> QED
    BY <2>2, <2>3 DEF Arm, InForce
<1>4. AtWork'
  BY <1>3 DEF AtWork, NoWorker
<1>5. HostTypeOK'
  <2>1. Rules' = Rules
    BY DEF Rules, InForce, RuleOf, SpecValid
  <2> QED
    BY <1>1, <1>3, <2>1 DEF HostTypeOK
<1>6. PlaceInv'
  BY <1>1, <1>2, <1>3 DEF PlaceInv
<1>7. TreeInv'
  BY <1>1, <1>3 DEF TreeInv, ForeignUntouched
<1>8. RuleInv'
  <2>1. \A r \in HostRuns : Armed(rule[r])' => tree'[r].owner = "runner"
    BY <1>1, <1>2, <1>3 DEF RuleInv, Armed
  <2>2. worker'.pc = "wait" =>
           rule'[worker'.run] = InForce(worker.plan)' /\ ~IsLoopback(worker.plan.iface)'
    BY <1>2, <1>3 DEF InForce, RuleOf, IsLoopback
  <2>3. Armed(rule[worker.run])' =>
           worker'.pc = "wait" /\ IsNetwork(worker.plan)' /\ worker'.simulated = "no"
    BY <1>2, <1>3 DEF Armed, IsNetwork
  <2> QED
    BY <1>3, <1>4, <2>1, <2>2, <2>3 DEF RuleInv
<1>9. LeftInv'
  BY <1>1, <1>3, <1>4 DEF LeftInv
<1>10. LateInv'
  BY <1>1, <1>2, <1>3 DEF LateInv
<1>11. DoneInv'
  BY <1>3 DEF DoneInv
<1>12. EvidenceInv'
  <2>1. \A r \in HostRuns : evidence'[r] = evidence[r] /\ tree'[r] = tree[r]
    BY <1>1
  <2>2. evidence[worker.run] = NoEvidence
    BY <1>1 DEF EvidenceInv
  <2> QED
    BY <1>1, <1>3, <2>1, <2>2 DEF EvidenceInv, CompletedDidAll, NoEvidence, Armed
<1> QED
  BY <1>5, <1>6, <1>7, <1>8, <1>9, <1>10, <1>11, <1>12 DEF HostInv

\* The rule is disarmed, or taken away.
LEMMA RevertKeeps ==
    ASSUME HostInv, Revert
    PROVE  HostInv'
<1>1. /\ worker.pc = "revert" /\ HostTypeOK /\ PlaceInv /\ TreeInv /\ RuleInv /\ LeftInv
      /\ LateInv /\ DoneInv /\ EvidenceInv
      /\ AtWork /\ worker \in WorkerType /\ worker.run \in HostRuns
      /\ IsNetwork(worker.plan) /\ Goto("cleanup")
      /\ base' = base /\ unclean' = unclean /\ tree' = tree /\ evidence' = evidence
      /\ late' = late
  BY Somewhere DEF Revert, HostInv, Pcs, PlaceInv
<1>2. /\ worker' \in WorkerType
      /\ worker'.pc = "cleanup" /\ worker'.run = worker.run /\ worker'.plan = worker.plan
      /\ worker'.stop = worker.stop /\ worker'.done = worker.done
      /\ worker'.result = worker.result
      /\ worker'.error = worker.error /\ worker'.simulated = worker.simulated
      /\ AtWork'
  BY <1>1, GotoMoves DEF Pcs, AtWork, NoWorker
<1>3. /\ rule' \in [HostRuns -> Rules] /\ ~Armed(rule'[worker.run])
      /\ \A r \in HostRuns \ {worker.run} : rule'[r] = rule[r]
  <2>1. CASE worker.simulated = "yes"
    BY <1>1, <2>1 DEF Revert, RuleInv, HostTypeOK
  <2>2. CASE worker.simulated # "yes"
    <3>1. PICK left \in {NoRule, Zeroed} : rule' = [rule EXCEPT ![worker.run] = left]
      BY <2>2 DEF Revert, Reverted
    <3>2. left \in Rules /\ ~Armed(left)
      BY DEF Rules, Armed
    <3> QED
      BY <1>1, <3>1, <3>2 DEF HostTypeOK
  <2> QED
    BY <2>1, <2>2
<1>4. HostTypeOK'
  <2>1. Rules' = Rules
    BY DEF Rules, InForce, RuleOf, SpecValid
  <2> QED
    BY <1>1, <1>2, <1>3, <2>1 DEF HostTypeOK
<1>5. PlaceInv'
  BY <1>1, <1>2 DEF PlaceInv
<1>6. TreeInv'
  BY <1>1, <1>2 DEF TreeInv, ForeignUntouched
<1>7. RuleInv'
  <2>1. \A r \in HostRuns : Armed(rule[r])' => tree'[r].owner = "runner"
    BY <1>1, <1>3 DEF RuleInv, Armed
  <2>2. ~Armed(rule[worker.run])'
    BY <1>2, <1>3 DEF Armed
  <2> QED
    BY <1>2, <2>1, <2>2 DEF RuleInv
<1>8. LeftInv'
  BY <1>1, <1>2 DEF LeftInv
<1>9. LateInv'
  BY <1>1, <1>2 DEF LateInv
<1>10. DoneInv'
  BY <1>1, <1>2 DEF DoneInv
<1>11. EvidenceInv'
  <2>1. evidence[worker.run] = NoEvidence
    BY <1>1 DEF EvidenceInv
  <2> QED
    BY <1>1, <1>2, <1>3, <2>1 DEF EvidenceInv, CompletedDidAll, NoEvidence, Armed
<1> QED
  BY <1>4, <1>5, <1>6, <1>7, <1>8, <1>9, <1>10, <1>11 DEF HostInv

\* The directory is removed or not, and the event says which.
LEMMA CleanupKeeps ==
    ASSUME HostInv, NEW removed \in BOOLEAN, Cleanup(removed)
    PROVE  HostInv'
<1> DEFINE cleaned == Cleaned(worker.error, removed)
           event == [state |-> Outcome(cleaned), cleaned |-> IF cleaned THEN "yes" ELSE "no",
                     plan |-> worker.plan, simulated |-> worker.simulated,
                     done |-> worker.done]
<1>1. /\ worker.pc = "cleanup" /\ HostTypeOK /\ PlaceInv /\ TreeInv /\ RuleInv /\ LeftInv
      /\ LateInv /\ DoneInv /\ EvidenceInv
      /\ AtWork /\ worker \in WorkerType /\ worker.run \in HostRuns
      /\ Goto("drop") /\ base' = base /\ rule' = rule /\ late' = late
      /\ tree' = IF removed THEN [tree EXCEPT ![worker.run] = NoEntry] ELSE tree
      /\ evidence' = [evidence EXCEPT ![worker.run] = event]
      /\ unclean' = IF cleaned THEN unclean ELSE unclean \cup {worker.run}
  BY Somewhere DEF Cleanup, HostInv, Pcs
<1>2. /\ worker' \in WorkerType
      /\ worker'.pc = "drop" /\ worker'.run = worker.run /\ worker'.plan = worker.plan
      /\ worker'.stop = worker.stop /\ worker'.done = worker.done
      /\ worker'.result = worker.result
      /\ worker'.error = worker.error /\ worker'.simulated = worker.simulated
      /\ AtWork'
  BY <1>1, GotoMoves DEF Pcs, AtWork, NoWorker
<1>3. cleaned => removed
  BY DEF Cleaned
<1>4. /\ event.state = Outcome(cleaned) /\ event.plan = worker.plan
      /\ event.simulated = worker.simulated /\ event.done = worker.done
      /\ event.cleaned = "yes" <=> cleaned
      /\ event.state = "COMPLETED" => cleaned /\ worker.result = "COMPLETED"
  BY DEF Outcome
<1> HIDE DEF cleaned, event
<1>5. /\ DOMAIN tree' = HostRuns
      /\ tree'[worker.run] = IF removed THEN NoEntry ELSE tree[worker.run]
      /\ \A r \in HostRuns \ {worker.run} : tree'[r] = tree[r]
      /\ DOMAIN evidence' = HostRuns
      /\ evidence'[worker.run] = event
      /\ \A r \in HostRuns \ {worker.run} : evidence'[r] = evidence[r]
  BY <1>1 DEF HostTypeOK
<1>6. ~Armed(rule[worker.run])
  BY <1>1 DEF RuleInv
<1>7. HostTypeOK'
  <2>1. NoEntry = [owner |-> NoEntry.owner, files |-> NoEntry.files]
    BY DEF NoEntry
  <2> QED
    BY <1>1, <1>2, <1>5, <2>1 DEF HostTypeOK
<1>8. PlaceInv'
  BY <1>1, <1>2 DEF PlaceInv
<1>9. TreeInv'
  <2>1. ForeignUntouched'
    BY <1>1, <1>5 DEF TreeInv, ForeignUntouched, NoEntry
  <2> QED
    BY <1>1, <1>2, <1>5, <2>1 DEF TreeInv
<1>10. RuleInv'
  BY <1>1, <1>2, <1>5, <1>6 DEF RuleInv, Armed
<1>11. LeftInv'
  <2>1. worker.run \notin unclean' => tree'[worker.run].owner # "runner"
    BY <1>1, <1>3, <1>5 DEF NoEntry
  <2> QED
    BY <1>1, <1>2, <1>5, <2>1 DEF LeftInv
<1>12. LateInv'
  BY <1>1, <1>2 DEF LateInv
<1>13. DoneInv'
  BY <1>1, <1>2 DEF DoneInv
<1>14. EvidenceInv'
  <2>1. \A r \in HostRuns : r # worker.run =>
           (evidence'[r].state \notin {"none", "REJECTED"} /\ evidence'[r].cleaned = "yes" =>
              tree'[r] = NoEntry /\ ~Armed(rule[r])')
    BY <1>1, <1>5 DEF EvidenceInv, Armed
  <2>2. evidence'[worker.run].cleaned = "yes" =>
           tree'[worker.run] = NoEntry /\ ~Armed(rule'[worker.run])
    BY <1>1, <1>3, <1>4, <1>5, <1>6
  <2>3. \A r \in HostRuns : AtWork' /\ worker'.run = r /\ worker'.pc # "drop" =>
           evidence'[r] = NoEvidence
    BY <1>2
  <2>4. CompletedDidAll'
    <3>1. ASSUME NEW r \in HostRuns, evidence'[r].state = "COMPLETED"
          PROVE  /\ evidence'[r].cleaned = "yes"
                 /\ IsNetwork(evidence'[r].plan) =>
                       evidence'[r].simulated = "yes" \/ ~IsLoopback(evidence'[r].plan.iface)
                 /\ ~IsNetwork(evidence'[r].plan) =>
                       evidence'[r].done = Len(Files(evidence'[r].plan))
      <4>1. CASE r = worker.run
        BY <1>1, <1>4, <1>5, <3>1, <4>1 DEF DoneInv
      <4>2. CASE r # worker.run
        BY <1>1, <1>5, <3>1, <4>2 DEF EvidenceInv, CompletedDidAll
      <4> QED
        BY <4>1, <4>2
    <3> QED
      BY <3>1 DEF CompletedDidAll
  <2> QED
    BY <1>2, <2>1, <2>2, <2>3, <2>4 DEF EvidenceInv, Armed
<1> QED
  BY <1>7, <1>8, <1>9, <1>10, <1>11, <1>12, <1>13, <1>14 DEF HostInv

\* The slot is free, after one more try at the directory.
LEMMA DropKeeps ==
    ASSUME HostInv, Drop
    PROVE  HostInv'
<1>1. /\ worker.pc = "drop" /\ HostTypeOK /\ TreeInv /\ RuleInv /\ LeftInv /\ EvidenceInv
      /\ AtWork /\ worker \in WorkerType /\ worker.run \in HostRuns
      /\ base' = base /\ rule' = rule /\ late' = late /\ unclean' = unclean
      /\ evidence' = evidence /\ ~AtWork'
  BY Somewhere DEF Drop, HostInv, Pcs, AtWork
<1>2. ~Armed(rule[worker.run])
  BY <1>1 DEF RuleInv
<1>3. /\ DOMAIN tree' = HostRuns
      /\ tree'[worker.run] \in {NoEntry, tree[worker.run]}
      /\ \A r \in HostRuns \ {worker.run} : tree'[r] = tree[r]
  BY <1>1 DEF Drop, HostTypeOK
<1>4. HostTypeOK'
  <2>1. NoEntry = [owner |-> NoEntry.owner, files |-> NoEntry.files]
    BY DEF NoEntry
  <2> QED
    BY <1>1, <1>3, <2>1 DEF HostTypeOK
<1>5. TreeInv'
  BY <1>1, <1>3 DEF TreeInv, ForeignUntouched, NoEntry
<1>6. RuleInv'
  BY <1>1, <1>2, <1>3 DEF RuleInv, Armed
<1>7. LeftInv'
  BY <1>1, <1>3 DEF LeftInv, NoEntry
<1>8. EvidenceInv'
  BY <1>1, <1>3 DEF EvidenceInv, CompletedDidAll, Armed
<1> QED
  BY <1>1, <1>4, <1>5, <1>6, <1>7, <1>8 DEF HostInv, PlaceInv, LateInv, DoneInv

\* The process dies, and its run counts as cut off.
LEMMA CrashRunKeeps ==
    ASSUME HostInv, CrashRun
    PROVE  HostInv'
<1>1. /\ HostTypeOK /\ TreeInv /\ RuleInv /\ LeftInv /\ EvidenceInv
      /\ AtWork /\ worker \in WorkerType /\ worker.run \in HostRuns
      /\ base' = base /\ rule' = rule /\ late' = late /\ tree' = tree
      /\ unclean' = unclean \cup {worker.run} /\ evidence' = evidence /\ ~AtWork'
  BY DEF CrashRun, HostInv, AtWork, HostTypeOK, WorkerType
<1>2. HostTypeOK'
  BY <1>1 DEF HostTypeOK
<1>3. TreeInv'
  BY <1>1 DEF TreeInv, ForeignUntouched
<1>4. RuleInv'
  BY <1>1 DEF RuleInv, Armed
<1>5. LeftInv'
  BY <1>1 DEF LeftInv
<1>6. EvidenceInv'
  BY <1>1 DEF EvidenceInv, CompletedDidAll, Armed
<1> QED
  BY <1>1, <1>2, <1>3, <1>4, <1>5, <1>6 DEF HostInv, PlaceInv, LateInv, DoneInv

-----------------------------------------------------------------------------
(* The host, in every state *)

\* Nothing is on the host but what others put there.
LEMMA HostStarts ==
    ASSUME HostInit
    PROVE  HostInv
<1>1. /\ ~AtWork /\ late = 0 /\ unclean = {}
      /\ rule = [r \in HostRuns |-> NoRule] /\ evidence = [r \in HostRuns |-> NoEvidence]
      /\ base \in {"absent", "real", "unsafe"}
      /\ tree \in [HostRuns -> IF base = "real" THEN {NoEntry, Foreign} ELSE {NoEntry}]
  BY DEF HostInit, AtWork
<1>2. \A r \in HostRuns : tree[r] \in {NoEntry, Foreign} /\ (base # "real" => tree[r] = NoEntry)
  BY <1>1
<1>3. HostTypeOK
  <2>1. \A r \in HostRuns : tree[r] = [owner |-> tree[r].owner, files |-> tree[r].files]
    BY <1>2 DEF NoEntry, Foreign
  <2>2. rule \in [HostRuns -> Rules]
    BY <1>1 DEF Rules
  <2> QED
    BY <1>1, <2>1, <2>2 DEF HostTypeOK
<1>4. TreeInv
  BY <1>1, <1>2 DEF TreeInv, ForeignUntouched, NoEntry
<1>5. RuleInv
  BY <1>1 DEF RuleInv, Armed
<1>6. LeftInv
  BY <1>2 DEF LeftInv, NoEntry, Foreign
<1>7. EvidenceInv
  BY <1>1 DEF EvidenceInv, CompletedDidAll, NoEvidence
<1> QED
  BY <1>1, <1>3, <1>4, <1>5, <1>6, <1>7 DEF HostInv, PlaceInv, LateInv, DoneInv

\* Every step keeps the invariant.
LEMMA HostSteps ==
    ASSUME HostInv, [HostNext]_runVars
    PROVE  HostInv'
<1>1. CASE UNCHANGED runVars
  <2>1. /\ worker' = worker /\ base' = base /\ tree' = tree /\ rule' = rule /\ late' = late
        /\ unclean' = unclean /\ evidence' = evidence
    BY <1>1 DEF runVars, hostVars
  <2>2. HostTypeOK' /\ PlaceInv' /\ TreeInv'
    BY <2>1 DEF HostInv, HostTypeOK, PlaceInv, TreeInv, ForeignUntouched, AtWork
  <2>3. RuleInv' /\ LeftInv' /\ LateInv' /\ DoneInv'
    BY <2>1 DEF HostInv, RuleInv, LeftInv, LateInv, DoneInv, AtWork, Armed
  <2>4. EvidenceInv'
    BY <2>1 DEF HostInv, EvidenceInv, CompletedDidAll, AtWork, Armed
  <2> QED
    BY <2>2, <2>3, <2>4 DEF HostInv
<1>2. CASE \E r \in HostRuns, plan \in Plans : BeginRun(r, plan)
  BY <1>2, BeginRunKeeps
<1>3. CASE \E reason \in {"CANCELLED", "TIMED_OUT", "CONTROL_LOST"} : Stop(reason)
  BY <1>3, StopKeeps DEF Reasons
<1>4. CASE \E removed \in BOOLEAN : Cleanup(removed)
  BY <1>4, CleanupKeeps
<1>5. CASE Create \/ CreateRefused \/ FirstCheck \/ CanaryCheck
  BY <1>5, CreateKeeps, CreateRefusedKeeps, FirstCheckKeeps, CanaryCheckKeeps
<1>6. CASE WriteFile \/ FileFails \/ AllWritten \/ Wait \/ UndoFiles
  BY <1>6, WriteFileKeeps, FileFailsKeeps, AllWrittenKeeps, WaitKeeps, UndoFilesKeeps
<1>7. CASE StartRefused \/ StartSimulated \/ Attach \/ Arm \/ Revert
  BY <1>7, StartRefusedKeeps, StartSimulatedKeeps, AttachKeeps, ArmKeeps, RevertKeeps
<1>8. CASE Drop \/ CrashRun
  BY <1>8, DropKeeps, CrashRunKeeps
<1> QED
  BY <1>1, <1>2, <1>3, <1>4, <1>5, <1>6, <1>7, <1>8 DEF HostNext

\* The invariant holds of every host, whatever plans it is sent and wherever its
\* process dies.
THEOREM HostInvariant == HostSpec => []HostInv
<1>1. HostInit => HostInv
  BY HostStarts
<1>2. HostInv /\ [HostNext]_runVars => HostInv'
  BY HostSteps
<1> QED
  BY <1>1, <1>2, PTL DEF HostSpec

-----------------------------------------------------------------------------
(* What the invariant says *)

\* A rule that is attached and may drop a packet is armed, for an accepted plan.
LEMMA DroppingIsArmed ==
    ASSUME HostTypeOK, NEW r \in HostRuns, NEW packet \in Packets, MayDrop(rule[r], packet)
    PROVE  /\ Armed(rule[r])
           /\ \E plan \in Plans : SpecValid(plan) /\ rule[r] = InForce(plan)
<1>1. rule[r] \in Rules
  BY DEF HostTypeOK
<1>2. rule[r] # NoRule /\ rule[r] # Zeroed
  BY DEF MayDrop, NoRule, Zeroed
<1>3. \E plan \in {p \in Plans : SpecValid(p)} : rule[r] = InForce(plan)
  BY <1>1, <1>2 DEF Rules
<1> QED
  BY <1>2, <1>3 DEF Armed

\* What the rule of a plan does to a packet.
LEMMA InForceDrops ==
    ASSUME NEW plan \in Plans, NEW packet \in Packets
    PROVE  MayDrop(InForce(plan), packet) <=>
              /\ packet.ipv4 = "yes" /\ plan.numbers.loss_percent > 0
              /\ Network(packet.dst, plan.cidr.prefix) = First(plan.cidr)
<1>1. plan.numbers.loss_percent \in Nat
  BY PlansAssumption
<1>2. RuleOf(plan) = [net |-> First(plan.cidr), prefix |-> plan.cidr.prefix,
                      permille |-> 10 * plan.numbers.loss_percent]
  BY DEF RuleOf, First
<1>3. 10 * plan.numbers.loss_percent > 0 <=> plan.numbers.loss_percent > 0
  BY <1>1
<1> QED
  BY <1>2, <1>3 DEF InForce, MayDrop, MatchesDst

\* A rule that is waited on hits the block of its manifest, and every rule stays in
\* the reserved blocks.
LEMMA DropsStayInside ==
    ASSUME HostInv
    PROVE  DropsAreConfined
<1>1. ASSUME worker.pc = "wait", IsNetwork(worker.plan), worker.simulated = "no",
             NEW packet \in Packets
      PROVE  MayDrop(rule[worker.run], packet) <=>
                /\ packet.ipv4 = "yes" /\ worker.plan.numbers.loss_percent > 0
                /\ AtMost(First(worker.plan.cidr), packet.dst)
                /\ AtMost(packet.dst, Last(worker.plan.cidr))
  <2>1. AtWork /\ worker.plan \in Plans /\ RuleInv
    BY <1>1, Somewhere DEF HostInv, Pcs
  <2>2. rule[worker.run] = InForce(worker.plan)
    BY <1>1, <2>1 DEF RuleInv
  <2> DEFINE cidr == worker.plan.cidr
  <2>3. cidr.octets \in Octets /\ cidr.prefix \in Nat /\ packet.dst \in Octets
    BY <2>1, PlansAssumption, PacketsAssumption DEF Octets
  <2> HIDE DEF cidr
  <2>4. Network(packet.dst, cidr.prefix) = First(cidr) <=>
           AtMost(First(cidr), packet.dst) /\ AtMost(packet.dst, Last(cidr))
    BY <2>3, BlockIsInterval
  <2> QED
    BY <2>1, <2>2, <2>4, InForceDrops DEF cidr
<1>2. ASSUME NEW r \in HostRuns, NEW packet \in Packets, MayDrop(rule[r], packet)
      PROVE  Reserved([octets |-> packet.dst, prefix |-> 32])
  <2>1. PICK plan \in Plans : SpecValid(plan) /\ rule[r] = InForce(plan)
    BY <1>2, DroppingIsArmed DEF HostInv
  <2> DEFINE cidr == plan.cidr
  <2>2. Network(packet.dst, cidr.prefix) = First(cidr)
    BY <1>2, <2>1, InForceDrops
  <2>3. cidr.octets \in Octets /\ cidr.prefix \in Nat /\ packet.dst \in Octets
    BY PlansAssumption, PacketsAssumption DEF Octets
  <2>4. NetTargetInScope(cidr)
    BY <2>1 DEF SpecValid
  <2> HIDE DEF cidr
  <2> QED
    BY <2>2, <2>3, <2>4, TargetsAreReserved
<1> QED
  BY <1>1, <1>2 DEF DropsAreConfined

\* Evidence that says the run was cleaned up is true, what is left behind was
\* reported or its process died, and COMPLETED means all was done (run_worker).
THEOREM HostEvidenceCorrect == HostSpec => []EvidenceMatchesHost
<1>1. HostInv => EvidenceMatchesHost
  <2> SUFFICES ASSUME HostInv PROVE EvidenceMatchesHost
    OBVIOUS
  <2>1. HostTypeOK /\ RuleInv /\ LeftInv /\ EvidenceInv
    BY DEF HostInv
  <2>2. \A r \in HostRuns : ~Armed(rule[r]) => \A packet \in Packets : ~MayDrop(rule[r], packet)
    BY <2>1, DroppingIsArmed
  <2>3. CleanedMeansClean
    BY <2>1, <2>2 DEF CleanedMeansClean, EvidenceInv
  <2>4. LeftoversAreReported
    <3>1. ASSUME NEW r \in HostRuns, r \notin unclean, "run" \in DOMAIN worker => worker.run # r
          PROVE  tree[r].owner # "runner"
      <4>1. AtWork => "run" \in DOMAIN worker
        BY <2>1 DEF HostTypeOK, WorkerType
      <4> QED
        BY <2>1, <3>1, <4>1 DEF LeftInv
    <3>2. \A r \in HostRuns : tree[r].owner # "runner" => ~Armed(rule[r])
      BY <2>1 DEF RuleInv
    <3> QED
      BY <2>2, <3>1, <3>2 DEF LeftoversAreReported
  <2>5. CompletedDidAll
    BY <2>1 DEF EvidenceInv
  <2> QED
    BY <2>3, <2>4, <2>5 DEF EvidenceMatchesHost
<1> QED
  BY <1>1, HostInvariant, PTL

\* What others have on the host stays as it is, a worker that must stop writes at
\* most the file it is at, and a rule hits its plan's block, which is reserved
\* (Sandbox::create, inject_checked, decide).
THEOREM InjectionCorrect == HostSpec => []InjectionIsConfined
<1>1. HostInv => InjectionIsConfined
  <2> SUFFICES ASSUME HostInv PROVE InjectionIsConfined
    OBVIOUS
  <2>1. ForeignUntouched
    BY DEF HostInv, TreeInv
  <2>2. StopsInjecting
    BY DEF HostInv, LateInv, StopsInjecting, AtWork
  <2>3. DropsAreConfined
    BY DropsStayInside
  <2> QED
    BY <2>1, <2>2, <2>3 DEF InjectionIsConfined
<1> QED
  BY <1>1, HostInvariant, PTL

\* What somebody else made in the canary root is still there after every step, with
\* what was in it (Sandbox::create refuses a directory that exists).
THEOREM ForeignStays ==
    HostSpec => [][\A r \in HostRuns : tree[r] = Foreign => tree'[r] = Foreign]_runVars
<1>1. ASSUME HostInv, [HostNext]_runVars
      PROVE  [\A r \in HostRuns : tree[r] = Foreign => tree'[r] = Foreign]_runVars
  <2>1. /\ HostTypeOK /\ TreeInv
        /\ AtWork => worker.run \in HostRuns
        /\ DOMAIN tree = HostRuns
    BY <1>1 DEF HostInv, HostTypeOK, WorkerType
  <2>2. Foreign # NoEntry /\ Foreign.owner # "runner"
    BY DEF Foreign, NoEntry
  <2>3. ASSUME worker.pc \in Pcs \ {"create"} PROVE tree[worker.run] # Foreign
    BY <2>1, <2>2, <2>3, Somewhere DEF TreeInv
  <2>4. ASSUME NEW r \in HostRuns, tree[r] = Foreign, HostNext
        PROVE  tree'[r] = Foreign
    <3>1. CASE \E q \in HostRuns, plan \in Plans : BeginRun(q, plan)
      BY <2>4, <3>1 DEF BeginRun
    <3>2. CASE Create
      BY <2>1, <2>2, <2>4, <3>2 DEF Create, Free
    <3>3. CASE WriteFile
      BY <2>1, <2>3, <2>4, <3>3 DEF WriteFile, Pcs
    <3>4. CASE UndoFiles
      BY <2>1, <2>3, <2>4, <3>4 DEF UndoFiles, Pcs
    <3>5. CASE \E removed \in BOOLEAN : Cleanup(removed)
      BY <2>1, <2>3, <2>4, <3>5 DEF Cleanup, Pcs
    <3>6. CASE Drop
      BY <2>1, <2>3, <2>4, <3>6 DEF Drop, Pcs
    <3>7. CASE CreateRefused \/ Attach \/ Arm \/ Revert \/ CrashRun
      BY <2>4, <3>7 DEF CreateRefused, Attach, Arm, Revert, CrashRun
    <3>8. CASE UNCHANGED hostVars
      BY <2>4, <3>8 DEF hostVars
    <3>9. CASE \/ \E reason \in {"CANCELLED", "TIMED_OUT", "CONTROL_LOST"} : Stop(reason)
               \/ FirstCheck \/ CanaryCheck \/ FileFails \/ AllWritten \/ Wait
               \/ StartRefused \/ StartSimulated
      <4>1. UNCHANGED hostVars
        BY <3>9 DEF Stop, FirstCheck, CanaryCheck, FileFails, AllWritten, Wait, StartRefused,
                    StartSimulated, CheckFails, CheckPasses
      <4> QED
        BY <3>8, <4>1
    <3> QED
      BY <2>4, <3>1, <3>2, <3>3, <3>4, <3>5, <3>6, <3>7, <3>9 DEF HostNext
  <2> QED
    BY <1>1, <2>4
<1>2. HostInv /\ HostInv' /\ [HostNext]_runVars =>
         [\A r \in HostRuns : tree[r] = Foreign => tree'[r] = Foreign]_runVars
  BY <1>1
<1> QED
  BY <1>2, HostInvariant, PTL DEF HostSpec

-----------------------------------------------------------------------------
(* Places: the slots' variants in the order in which they are tried *)

At(id, p) == <<id, (p \div 2) + 1, Variants[(p % 2) + 1]>>
Expected(a) == Messages(Corpus[a[2]], a[3])

\* The corpus has a length.
LEMMA CorpusLength == Len(Corpus) \in Nat /\ DOMAIN Corpus = 1..Len(Corpus)
BY CorpusAssumption

\* There are two variants.
LEMMA VariantNames ==
    /\ \A n \in Nat : (n % 2) + 1 \in {1, 2}
    /\ Variants[1] = "positive" /\ Variants[2] = "benign"
BY DEF Variants

\* A place is that of an attempt.
LEMMA PlaceIsAttempt ==
    ASSUME NEW id \in Suites, NEW p \in 0..(2 * Len(Corpus) - 1)
    PROVE  At(id, p) \in Attempts
<1>1. (p \div 2) + 1 \in 1..Len(Corpus)
  BY CorpusLength
<1>2. Variants[(p % 2) + 1] \in {"positive", "benign"}
  <2>1. p \in Nat
    BY CorpusLength
  <2> QED
    BY <2>1, VariantNames
<1> QED
  BY <1>1, <1>2 DEF At, Attempts

\* Halves and remainders.
LEMMA Halves ==
    ASSUME NEW p \in Nat
    PROVE  p \div 2 \in Nat /\ p % 2 \in {0, 1} /\ p = 2 * (p \div 2) + (p % 2)
OBVIOUS

\* Two places are those of two attempts.
LEMMA PlacesDiffer ==
    ASSUME NEW id, NEW p \in Nat, NEW q \in Nat, At(id, p) = At(id, q)
    PROVE  p = q
<1>1. (p \div 2) = (q \div 2)
  <2>1. (p \div 2) + 1 = (q \div 2) + 1
    BY DEF At
  <2>2. p \div 2 \in Nat /\ q \div 2 \in Nat
    OBVIOUS
  <2> QED
    BY <2>1, <2>2
<1>2. Variants[(p % 2) + 1] = Variants[(q % 2) + 1]
  BY DEF At
<1>3. p % 2 \in {0, 1} /\ q % 2 \in {0, 1}
  OBVIOUS
<1>4. p % 2 = q % 2
  BY <1>2, <1>3, VariantNames
<1>5. p = 2 * (p \div 2) + (p % 2) /\ q = 2 * (q \div 2) + (q % 2)
  BY Halves
<1> QED
  BY <1>1, <1>4, <1>5

\* The two places of a slot.
LEMMA PlacesOfSlot ==
    ASSUME NEW id, NEW i \in Nat \ {0}
    PROVE  /\ At(id, 2 * i - 2) = <<id, i, "positive">>
           /\ At(id, 2 * i - 1) = <<id, i, "benign">>
<1>1. ((2 * i - 2) \div 2) + 1 = i /\ (2 * i - 2) % 2 = 0
  OBVIOUS
<1>2. ((2 * i - 1) \div 2) + 1 = i /\ (2 * i - 1) % 2 = 1
  OBVIOUS
<1>3. Variants[0 + 1] = "positive" /\ Variants[1 + 1] = "benign"
  BY DEF Variants
<1> QED
  BY <1>1, <1>2, <1>3 DEF At

\* An attempt has a place.
LEMMA AttemptHasPlace ==
    ASSUME NEW a \in Attempts
    PROVE  \E p \in 0..(2 * Len(Corpus) - 1) : a = At(a[1], p)
<1>1. a = <<a[1], a[2], a[3]>> /\ a[2] \in 1..Len(Corpus) /\ a[3] \in {"positive", "benign"}
  BY DEF Attempts
<1>2. a[2] \in Nat \ {0} /\ a[2] <= Len(Corpus)
  BY <1>1, CorpusLength
<1>3. 2 * a[2] - 2 \in 0..(2 * Len(Corpus) - 1) /\ 2 * a[2] - 1 \in 0..(2 * Len(Corpus) - 1)
  BY <1>2, CorpusLength
<1>4. CASE a[3] = "positive"
  BY <1>1, <1>2, <1>3, <1>4, PlacesOfSlot
<1>5. CASE a[3] = "benign"
  BY <1>1, <1>2, <1>3, <1>5, PlacesOfSlot
<1> QED
  BY <1>1, <1>4, <1>5

\* Every variant takes a message or more.
LEMMA SomeMessages ==
    ASSUME NEW a
    PROVE  Expected(a) \in Nat \ {0}
BY DEF Expected, Messages

-----------------------------------------------------------------------------
(* The inductive invariant of a suite *)

Entry ==
    [kind : {"gap", "evidence"}, receipts : Nat,
     status : {"REJECTED", "NOT_RUN", "Failed", "Cancelled", "Unsupported", "Executed"},
     cleanup : {"none", "VERIFIED", "FAILED"}]

Running ==
    [pc : {"next", "reserve", "ledger", "fixture", "receive", "answer", "cleanup"},
     id : Suites, entries : Seq(Entry), receipts : Nat,
     status : {"none", "Failed", "Cancelled", "Unsupported", "Executed"}]

SuiteTypeOK ==
    /\ dirs \subseteq Attempts /\ ledgers \subseteq Attempts
    /\ served \in [Attempts -> Nat]
    /\ kill \in {"on", "off"} /\ overdue \in Nat
    /\ suite \in Running \cup {NoSuite}
    /\ suite # NoSuite =>
          /\ report = NoReport
          /\ Place <= 2 * Len(Corpus)
          /\ suite.pc # "next" => Place < 2 * Len(Corpus)

\* What the receivers got, they got for an attempt that is owned.
ServedInv ==
    \A a \in Attempts : served[a] <= Expected(a) /\ (served[a] > 0 => a \in ledgers)

\* The worker counts what its receivers got.
AttemptInv ==
    suite # NoSuite =>
        /\ suite.pc \in {"fixture", "receive", "answer", "cleanup"} =>
              Attempt \in ledgers /\ served[Attempt] = suite.receipts
        /\ suite.pc = "receive" => suite.receipts < Expected(Attempt)
        /\ suite.pc = "cleanup" =>
              /\ suite.status # "none"
              /\ suite.status = "Executed" => suite.receipts = Expected(Attempt)
              /\ suite.status = "Unsupported" => Slot \notin Adapted

\* An entry stays true of its attempt while the suite goes on.
EntryTrue(e, a) ==
    /\ e.status = "Executed" => served[a] = Expected(a)
    /\ e.status = "Unsupported" => Corpus[a[2]] \notin Adapted
    /\ e.status \in {"Executed", "Unsupported"} /\ e.cleanup = "VERIFIED" => a \notin dirs

EntriesInv ==
    suite # NoSuite =>
        \A k \in 1..Len(suite.entries) : EntryTrue(suite.entries[k], At(suite.id, k - 1))

\* A message that was let through is the only one on its way.
KillInv ==
    /\ kill = "off" => overdue = 0
    /\ overdue <= 1
    /\ suite # NoSuite =>
          /\ suite.pc = "receive" => overdue = 0
          /\ suite.pc = "cleanup" /\ suite.status = "Cancelled" => kill = "on"

\* Once a variant was cancelled the rest is not run.
CutInv ==
    suite # NoSuite =>
        \A i \in 1..Len(suite.entries) : suite.entries[i].status = "Cancelled" =>
            /\ kill = "on" /\ suite.pc = "next"
            /\ \A j \in (i + 1)..Len(suite.entries) : suite.entries[j].status = "NOT_RUN"

ReportInv ==
    /\ GateIsHonest
    /\ report # NoReport => \A i, j \in DOMAIN report.entries :
          i < j /\ report.entries[i].status = "Cancelled" => report.entries[j].status = "NOT_RUN"

SuiteInv == SuiteTypeOK /\ ServedInv /\ AttemptInv /\ EntriesInv /\ KillInv /\ CutInv /\ ReportInv

-----------------------------------------------------------------------------
(* Steps *)

\* A suite that runs has its locals.
LEMMA RunningFields ==
    ASSUME SuiteTypeOK, suite # NoSuite
    PROVE  /\ suite \in Running /\ suite.entries \in Seq(Entry) /\ suite.id \in Suites
           /\ suite.receipts \in Nat /\ Place \in Nat /\ Place = Len(suite.entries)
           /\ suite.pc \in {"next", "reserve", "ledger", "fixture", "receive", "answer", "cleanup"}
           /\ Attempt = At(suite.id, Place) /\ report = NoReport
BY DEF SuiteTypeOK, Running, Place, Attempt, Kind, At

\* No suite is at no step of an attempt.
LEMMA IdleHasNoStep ==
    ASSUME SuiteTypeOK, suite.pc # "idle"
    PROVE  suite # NoSuite
BY DEF NoSuite

\* The attempt at hand, while there is one.
LEMMA AttemptAtHand ==
    ASSUME SuiteTypeOK, suite # NoSuite, Place < 2 * Len(Corpus)
    PROVE  /\ Attempt \in Attempts /\ Expected(Attempt) = Messages(Slot, Kind)
           /\ Corpus[Attempt[2]] = Slot /\ Place \in 0..(2 * Len(Corpus) - 1)
<1>1. Place \in 0..(2 * Len(Corpus) - 1)
  BY RunningFields, CorpusLength
<1>2. Attempt \in Attempts
  BY <1>1, RunningFields, PlaceIsAttempt
<1> QED
  BY <1>1, <1>2 DEF Attempt, Expected, Slot, Kind

\* The place at hand comes after those of the entries.
LEMMA PlaceIsNew ==
    ASSUME SuiteTypeOK, suite # NoSuite, NEW k \in 1..Len(suite.entries)
    PROVE  At(suite.id, k - 1) # Attempt
<1>1. k - 1 \in Nat /\ Place \in Nat /\ k - 1 # Place /\ Attempt = At(suite.id, Place)
  BY RunningFields
<1> QED
  BY <1>1, PlacesDiffer

\* A step that leaves the entries alone is about the same attempt.
LEMMA SameAttempt ==
    ASSUME suite'.id = suite.id, suite'.entries = suite.entries
    PROVE  Place' = Place /\ Slot' = Slot /\ Kind' = Kind /\ Attempt' = Attempt
<1>1. Place' = Place
  BY DEF Place
<1>2. Slot' = Slot
  BY <1>1 DEF Slot
<1>3. Kind' = Kind
  BY <1>1 DEF Kind
<1> QED
  BY <1>1, <1>2, <1>3 DEF Attempt

\* What a worker does between two entries.
AttemptStep(to) ==
    /\ suite # NoSuite
    /\ suite' \in Running /\ suite'.pc = to
    /\ suite'.id = suite.id /\ suite'.entries = suite.entries

\* And when it makes one.
RecordStep(entry) ==
    /\ suite # NoSuite
    /\ suite' = [suite EXCEPT !.entries = Append(@, entry), !.pc = "next"]
    /\ Place < 2 * Len(Corpus)

\* An entry is put behind the others.
LEMMA RecordGrows ==
    ASSUME SuiteTypeOK, NEW entry \in Entry, RecordStep(entry)
    PROVE  /\ suite' \in Running /\ suite'.pc = "next" /\ suite' # NoSuite
           /\ suite'.id = suite.id /\ Len(suite'.entries) = Place + 1
           /\ Place' = Place + 1 /\ Place' <= 2 * Len(Corpus)
           /\ suite'.entries[Place + 1] = entry
           /\ \A k \in 1..Len(suite.entries) : suite'.entries[k] = suite.entries[k]
<1>1. suite \in Running /\ suite.entries \in Seq(Entry) /\ Place \in Nat /\ Place = Len(suite.entries)
  BY RunningFields DEF RecordStep
<1>2. /\ Append(suite.entries, entry) \in Seq(Entry)
      /\ Len(Append(suite.entries, entry)) = Place + 1
      /\ Append(suite.entries, entry)[Place + 1] = entry
      /\ \A k \in 1..Len(suite.entries) : Append(suite.entries, entry)[k] = suite.entries[k]
  BY <1>1, AppendProperties
<1>3. /\ suite'.entries = Append(suite.entries, entry) /\ suite'.pc = "next"
      /\ suite'.id = suite.id /\ suite' \in Running
  BY <1>1, <1>2 DEF RecordStep, Running
<1>4. Place' = Place + 1
  BY <1>2, <1>3 DEF Place
<1>5. Place' <= 2 * Len(Corpus)
  BY <1>1, <1>4, CorpusLength DEF RecordStep
<1>6. suite' # NoSuite
  BY <1>3 DEF NoSuite
<1> QED
  BY <1>2, <1>3, <1>4, <1>5, <1>6

\* Between two entries the worker goes on with its attempt.
LEMMA AttemptSteps ==
    ASSUME SuiteTypeOK
    PROVE  /\ Reserve => AttemptStep("ledger") /\ suite.pc = "reserve"
           /\ Own => AttemptStep("fixture") /\ suite.pc = "ledger" /\ suite'.receipts = 0
           /\ AttemptStopped => AttemptStep("cleanup") /\ suite.pc \in {"fixture", "receive", "answer"}
           /\ NoAdapter => AttemptStep("cleanup") /\ suite.pc = "fixture"
           /\ SendMessage => AttemptStep("receive") /\ suite.pc = "fixture"
           /\ Receive => AttemptStep("answer") /\ suite.pc = "receive"
           /\ AnswerBack => AttemptStep("fixture") /\ suite.pc = "answer"
           /\ AllSent => AttemptStep("cleanup") /\ suite.pc = "fixture"
<1>1. suite.pc # "idle" => suite # NoSuite /\ suite \in Running
  BY IdleHasNoStep, RunningFields
<1>2. ASSUME Reserve PROVE AttemptStep("ledger") /\ suite.pc = "reserve"
  BY <1>1, <1>2 DEF Reserve, SuiteGoto, AttemptStep, Running
<1>3. ASSUME Own PROVE AttemptStep("fixture") /\ suite.pc = "ledger" /\ suite'.receipts = 0
  BY <1>1, <1>3 DEF Own, AttemptStep, Running
<1>4. ASSUME AttemptStopped
      PROVE  AttemptStep("cleanup") /\ suite.pc \in {"fixture", "receive", "answer"}
  BY <1>1, <1>4 DEF AttemptStopped, AttemptEnds, AttemptStep, Running
<1>5. ASSUME NoAdapter PROVE AttemptStep("cleanup") /\ suite.pc = "fixture"
  BY <1>1, <1>5 DEF NoAdapter, AttemptEnds, AttemptStep, Running
<1>6. ASSUME SendMessage PROVE AttemptStep("receive") /\ suite.pc = "fixture"
  BY <1>1, <1>6 DEF SendMessage, SuiteGoto, AttemptStep, Running
<1>7. ASSUME Receive PROVE AttemptStep("answer") /\ suite.pc = "receive"
  <2>1. suite # NoSuite /\ suite \in Running /\ suite.receipts + 1 \in Nat /\ suite.pc = "receive"
    BY <1>1, <1>7 DEF Receive, Running
  <2>2. suite' = [suite EXCEPT !.pc = "answer", !.receipts = suite.receipts + 1]
    BY <1>7 DEF Receive
  <2> QED
    BY <2>1, <2>2 DEF AttemptStep, Running
<1>8. ASSUME AnswerBack PROVE AttemptStep("fixture") /\ suite.pc = "answer"
  BY <1>1, <1>8 DEF AnswerBack, SuiteGoto, AttemptStep, Running
<1>9. ASSUME AllSent PROVE AttemptStep("cleanup") /\ suite.pc = "fixture"
  BY <1>1, <1>9 DEF AllSent, AttemptEnds, AttemptStep, Running
<1> QED
  BY <1>2, <1>3, <1>4, <1>5, <1>6, <1>7, <1>8, <1>9

NotRunEntry == [kind |-> "gap", status |-> "NOT_RUN", cleanup |-> "none", receipts |-> 0]

CleanupEntry(removed) ==
    [kind |-> "evidence", receipts |-> suite.receipts,
     status |-> IF removed THEN suite.status ELSE "Failed",
     cleanup |-> IF removed THEN "VERIFIED" ELSE "FAILED"]

\* A variant that is begun, and one that is skipped.
LEMMA NextVariantMoves ==
    ASSUME SuiteTypeOK, NextVariant
    PROVE  /\ suite.pc = "next" /\ suite # NoSuite /\ Place < 2 * Len(Corpus)
           /\ UNCHANGED <<dirs, ledgers, kill, served, overdue, report, started>>
           /\ \/ AttemptStep("reserve") /\ kill = "off"
              \/ RecordStep(NotRunEntry) /\ kill = "on"
<1>1. suite # NoSuite /\ suite \in Running
  BY IdleHasNoStep, RunningFields DEF NextVariant
<1>2. ASSUME SuiteGoto("reserve") PROVE AttemptStep("reserve")
  BY <1>1, <1>2 DEF SuiteGoto, AttemptStep, Running
<1> QED
  BY <1>1, <1>2 DEF NextVariant, GoesOn, Record, RecordStep, NotRunEntry

\* The entries that are made.
LEMMA RecordSteps ==
    ASSUME SuiteTypeOK, AttemptInv
    PROVE  /\ RejectedEntry \in Entry /\ NotRunEntry \in Entry
           /\ ReserveRefused => RecordStep(RejectedEntry) /\ suite.pc = "reserve"
           /\ OwnRefused => RecordStep(RejectedEntry) /\ suite.pc = "ledger"
           /\ \A removed \in BOOLEAN : CleanupAttempt(removed) =>
                 /\ suite.pc = "cleanup" /\ RecordStep(CleanupEntry(removed))
                 /\ CleanupEntry(removed) \in Entry
<1>1. suite.pc \in {"reserve", "ledger", "cleanup"} =>
         suite # NoSuite /\ suite \in Running /\ Place < 2 * Len(Corpus)
  BY IdleHasNoStep, RunningFields DEF SuiteTypeOK
<1>2. RejectedEntry \in Entry /\ NotRunEntry \in Entry
  BY DEF RejectedEntry, NotRunEntry, Entry
<1>3. ReserveRefused => RecordStep(RejectedEntry) /\ suite.pc = "reserve"
  BY <1>1 DEF ReserveRefused, Record, RecordStep
<1>4. OwnRefused => RecordStep(RejectedEntry) /\ suite.pc = "ledger"
  BY <1>1 DEF OwnRefused, Record, RecordStep
<1>5. ASSUME NEW removed \in BOOLEAN, CleanupAttempt(removed)
      PROVE  /\ suite.pc = "cleanup" /\ RecordStep(CleanupEntry(removed))
             /\ CleanupEntry(removed) \in Entry
  <2>1. suite.pc = "cleanup" /\ suite \in Running /\ suite # NoSuite
    BY <1>1, <1>5 DEF CleanupAttempt
  <2>2. suite.status \in {"Failed", "Cancelled", "Unsupported", "Executed"}
    BY <2>1 DEF AttemptInv, Running
  <2>3. CleanupEntry(removed) \in Entry
    BY <2>1, <2>2 DEF CleanupEntry, Entry, Running
  <2> QED
    BY <1>1, <1>5, <2>1, <2>3 DEF CleanupAttempt, Record, RecordStep, CleanupEntry
<1> QED
  BY <1>2, <1>3, <1>4, <1>5

-----------------------------------------------------------------------------
(* Types *)

\* A suite keeps its place while it is at an attempt.
LEMMA AttemptStepTypes ==
    ASSUME SuiteTypeOK, NEW to, AttemptStep(to), UNCHANGED report,
           suite.pc # "next" \/ Place < 2 * Len(Corpus)
    PROVE  /\ suite' # NoSuite /\ suite' \in Running /\ report' = NoReport
           /\ Place' <= 2 * Len(Corpus) /\ Place' < 2 * Len(Corpus)
<1>1. suite' # NoSuite
  BY DEF AttemptStep, Running, NoSuite
<1>2. Place' = Place /\ Place < 2 * Len(Corpus)
  BY SameAttempt DEF AttemptStep, SuiteTypeOK
<1> QED
  BY <1>1, <1>2, RunningFields, CorpusLength DEF AttemptStep, SuiteTypeOK

\* Variables and locals keep their types.
LEMMA TypeStep ==
    ASSUME SuiteTypeOK, AttemptInv, [SuiteNext]_suiteVars
    PROVE  SuiteTypeOK'
<1>0. SuiteTypeOK' <=>
        /\ (dirs \subseteq Attempts)' /\ (ledgers \subseteq Attempts)'
        /\ (served \in [Attempts -> Nat])'
        /\ (kill \in {"on", "off"} /\ overdue \in Nat)'
        /\ suite' \in Running \cup {NoSuite}
        /\ suite' # NoSuite =>
              /\ report' = NoReport
              /\ Place' <= 2 * Len(Corpus)
              /\ suite'.pc # "next" => Place' < 2 * Len(Corpus)
  BY DEF SuiteTypeOK
<1>a. suite # NoSuite /\ suite.pc # "next" => Attempt \in Attempts
  BY AttemptAtHand DEF SuiteTypeOK
<1>1. CASE Reserve
  <2>1. AttemptStep("ledger") /\ suite.pc = "reserve" /\ suite # NoSuite
    BY <1>1, AttemptSteps, IdleHasNoStep
  <2> QED
    BY <1>0, <1>a, <1>1, <2>1, AttemptStepTypes DEF Reserve, SuiteTypeOK
<1>2. CASE Own
  <2>1. AttemptStep("fixture") /\ suite.pc = "ledger" /\ suite # NoSuite
    BY <1>2, AttemptSteps, IdleHasNoStep
  <2> QED
    BY <1>0, <1>a, <1>2, <2>1, AttemptStepTypes DEF Own, SuiteTypeOK
<1>3. CASE AttemptStopped
  <2>1. AttemptStep("cleanup") /\ suite.pc # "next"
    BY <1>3, AttemptSteps
  <2> QED
    BY <1>0, <1>3, <2>1, AttemptStepTypes DEF AttemptStopped, SuiteTypeOK
<1>4. CASE NoAdapter
  <2>1. AttemptStep("cleanup") /\ suite.pc # "next"
    BY <1>4, AttemptSteps
  <2> QED
    BY <1>0, <1>4, <2>1, AttemptStepTypes DEF NoAdapter, SuiteTypeOK
<1>5. CASE SendMessage
  <2>1. AttemptStep("receive") /\ suite.pc # "next"
    BY <1>5, AttemptSteps
  <2> QED
    BY <1>0, <1>5, <2>1, AttemptStepTypes DEF SendMessage, SuiteTypeOK
<1>6. CASE Receive
  <2>1. AttemptStep("answer") /\ suite.pc = "receive" /\ suite # NoSuite
    BY <1>6, AttemptSteps, IdleHasNoStep
  <2>2. served' \in [Attempts -> Nat] /\ overdue' \in Nat
    BY <1>a, <1>6, <2>1 DEF Receive, SuiteTypeOK
  <2>3. UNCHANGED <<dirs, ledgers, kill, report>>
    BY <1>6 DEF Receive
  <2> QED
    BY <1>0, <2>1, <2>2, <2>3, AttemptStepTypes DEF SuiteTypeOK
<1>7. CASE AnswerBack
  <2>1. AttemptStep("fixture") /\ suite.pc # "next"
    BY <1>7, AttemptSteps
  <2> QED
    BY <1>0, <1>7, <2>1, AttemptStepTypes DEF AnswerBack, SuiteTypeOK
<1>8. CASE AllSent
  <2>1. AttemptStep("cleanup") /\ suite.pc # "next"
    BY <1>8, AttemptSteps
  <2> QED
    BY <1>0, <1>8, <2>1, AttemptStepTypes DEF AllSent, SuiteTypeOK
<1>9. CASE NextVariant
  <2>1. UNCHANGED <<dirs, ledgers, kill, served, overdue, report>> /\ Place < 2 * Len(Corpus)
        /\ suite # NoSuite
    BY <1>9, NextVariantMoves
  <2>2. CASE AttemptStep("reserve")
    BY <1>0, <2>1, <2>2, AttemptStepTypes DEF SuiteTypeOK
  <2>3. CASE RecordStep(NotRunEntry)
    BY <1>0, <2>1, <2>3, RecordSteps, RecordGrows, RunningFields DEF SuiteTypeOK
  <2> QED
    BY <1>9, <2>2, <2>3, NextVariantMoves
<1>10. CASE ReserveRefused
  <2>1. RecordStep(RejectedEntry) /\ suite # NoSuite
    BY <1>10, RecordSteps DEF RecordStep
  <2> QED
    BY <1>0, <1>10, <2>1, RecordSteps, RecordGrows, RunningFields DEF ReserveRefused, SuiteTypeOK
<1>11. CASE OwnRefused
  <2>1. RecordStep(RejectedEntry) /\ suite # NoSuite /\ suite.pc = "ledger"
    BY <1>11, RecordSteps DEF RecordStep
  <2>2. dirs' \subseteq Attempts /\ ledgers' \subseteq Attempts
    BY <1>a, <1>11, <2>1 DEF OwnRefused, SuiteTypeOK
  <2>3. UNCHANGED <<kill, served, overdue, report>>
    BY <1>11 DEF OwnRefused
  <2> QED
    BY <1>0, <2>1, <2>2, <2>3, RecordSteps, RecordGrows, RunningFields DEF SuiteTypeOK
<1>12. CASE \E removed \in BOOLEAN : CleanupAttempt(removed)
  <2>1. PICK removed \in BOOLEAN : CleanupAttempt(removed)
    BY <1>12
  <2>2. RecordStep(CleanupEntry(removed)) /\ CleanupEntry(removed) \in Entry /\ suite # NoSuite
    BY <2>1, RecordSteps DEF RecordStep
  <2>3. dirs' \subseteq Attempts
    BY <2>1 DEF CleanupAttempt, SuiteTypeOK
  <2>4. UNCHANGED <<ledgers, kill, served, overdue, report>>
    BY <2>1 DEF CleanupAttempt
  <2> QED
    BY <1>0, <2>2, <2>3, <2>4, RecordGrows, RunningFields DEF SuiteTypeOK
<1>13. CASE \E s \in Suites : BeginSuite(s)
  <2>1. PICK s \in Suites : BeginSuite(s)
    BY <1>13
  <2>2. suite' \in Running /\ suite'.pc = "next" /\ suite'.entries = <<>> /\ report' = NoReport
    BY <2>1, EmptySeq DEF BeginSuite, Running
  <2>3. Place' = 0
    BY <2>2 DEF Place
  <2> QED
    BY <1>0, <2>1, <2>2, <2>3, CorpusLength DEF BeginSuite, SuiteTypeOK
<1>14. CASE Report
  BY <1>0, <1>14 DEF Report, SuiteTypeOK
<1>15. CASE KillSwitch
  <2>1. Place' = Place
    BY <1>15 DEF KillSwitch, Place
  <2> QED
    BY <1>0, <1>15, <2>1 DEF KillSwitch, SuiteTypeOK
<1>16. CASE CrashSuite
  BY <1>0, <1>16 DEF CrashSuite, SuiteTypeOK
<1>17. CASE UNCHANGED suiteVars
  <2>1. Place' = Place
    BY <1>17 DEF suiteVars, Place
  <2> QED
    BY <1>0, <1>17, <2>1 DEF suiteVars, SuiteTypeOK
<1> QED
  BY <1>1, <1>2, <1>3, <1>4, <1>5, <1>6, <1>7, <1>8, <1>9, <1>10, <1>11, <1>12, <1>13,
     <1>14, <1>15, <1>16, <1>17 DEF SuiteNext

-----------------------------------------------------------------------------
(* Messages and their owner *)

\* The receivers' count changes at the attempt at hand only, and no record goes.
LEMMA ReceivedFrame ==
    ASSUME SuiteTypeOK, [SuiteNext]_suiteVars
    PROVE  Receive \/ (served' = served /\ ledgers \subseteq ledgers')
BY NextVariantMoves
   DEF SuiteNext, suiteVars, Reserve, ReserveRefused, Own, OwnRefused, AttemptStopped, NoAdapter,
       SendMessage, AnswerBack, AllSent, CleanupAttempt, BeginSuite, Report, KillSwitch, CrashSuite

\* No attempt's receivers get more than one execution's messages.
LEMMA ServedStep ==
    ASSUME SuiteTypeOK, ServedInv, AttemptInv, [SuiteNext]_suiteVars
    PROVE  ServedInv'
<1>1. CASE Receive
  <2>1. suite # NoSuite /\ suite.pc = "receive" /\ Attempt \in Attempts
    BY <1>1, AttemptSteps, AttemptAtHand DEF SuiteTypeOK, AttemptStep
  <2>2. Attempt \in ledgers /\ served[Attempt] < Expected(Attempt)
    BY <2>1 DEF AttemptInv
  <2>3. served' = [served EXCEPT ![Attempt] = @ + 1] /\ ledgers' = ledgers
    BY <1>1 DEF Receive
  <2> SUFFICES ASSUME NEW a \in Attempts
               PROVE  served'[a] <= Expected(a) /\ (served'[a] > 0 => a \in ledgers')
    BY DEF ServedInv, Expected
  <2>4. CASE a = Attempt
    <3>1. served'[a] = served[a] + 1 /\ served[a] \in Nat /\ Expected(a) \in Nat
      BY <2>1, <2>3, <2>4, SomeMessages DEF SuiteTypeOK
    <3> QED
      BY <2>2, <2>3, <2>4, <3>1
  <2>5. CASE a # Attempt
    BY <2>3, <2>5 DEF ServedInv, SuiteTypeOK
  <2> QED
    BY <2>4, <2>5
<1>2. CASE served' = served /\ ledgers \subseteq ledgers'
  BY <1>2 DEF ServedInv, Expected
<1> QED
  BY <1>1, <1>2, ReceivedFrame

-----------------------------------------------------------------------------
(* The worker's count *)

\* What the invariant asks of an attempt, before and after a step.
AttemptSays(pc, receipts, status, a) ==
    /\ pc \in {"fixture", "receive", "answer", "cleanup"} => a \in ledgers /\ served[a] = receipts
    /\ pc = "receive" => receipts < Expected(a)
    /\ pc = "cleanup" => /\ status # "none"
                         /\ status = "Executed" => receipts = Expected(a)
                         /\ status = "Unsupported" => Corpus[a[2]] \notin Adapted

\* In those words.
LEMMA AttemptInvIs ==
    AttemptInv <=> (suite # NoSuite => AttemptSays(suite.pc, suite.receipts, suite.status, Attempt))
BY DEF AttemptInv, AttemptSays, Attempt, Slot

\* Where no attempt is open there is nothing to say.
LEMMA NothingToSay ==
    ASSUME NEW pc \in {"next", "reserve", "ledger"}, NEW receipts, NEW status, NEW a
    PROVE  AttemptSays(pc, receipts, status, a)
BY DEF AttemptSays

\* The worker's count is that of its receivers.
LEMMA AttemptStepKeeps ==
    ASSUME SuiteTypeOK, ServedInv, AttemptInv, [SuiteNext]_suiteVars
    PROVE  AttemptInv'
<1> SUFFICES ASSUME suite' # NoSuite
             PROVE  AttemptSays(suite.pc, suite.receipts, suite.status, Attempt)'
  BY DEF AttemptInv, AttemptSays, Attempt, Slot
<1> DEFINE Says == AttemptSays(suite.pc, suite.receipts, suite.status, Attempt)
<1>a. suite # NoSuite => Says
  BY AttemptInvIs
<1>b. suite # NoSuite /\ suite.pc # "next" =>
         /\ Attempt \in Attempts /\ Expected(Attempt) = Messages(Slot, Kind)
         /\ Corpus[Attempt[2]] = Slot
  BY AttemptAtHand DEF SuiteTypeOK
<1>c. \A to : AttemptStep(to) => Attempt' = Attempt /\ suite # NoSuite /\ suite \in Running
  BY SameAttempt, RunningFields DEF AttemptStep
<1>1. CASE Reserve
  BY <1>1, AttemptSteps, NothingToSay DEF AttemptStep, AttemptSays
<1>2. CASE Own
  <2>1. /\ suite'.pc = "fixture" /\ suite'.receipts = 0 /\ Attempt' = Attempt
        /\ Attempt \in Attempts /\ ledgers' = ledgers \cup {Attempt} /\ Attempt \notin ledgers
        /\ served' = served
    BY <1>b, <1>c, <1>2, AttemptSteps DEF AttemptStep, Own, LedgerFree
  <2>2. served[Attempt] = 0
    BY <2>1 DEF ServedInv, SuiteTypeOK
  <2> QED
    BY <2>1, <2>2 DEF AttemptSays
<1>3. CASE AttemptStopped
  <2>1. /\ suite'.pc = "cleanup" /\ suite'.receipts = suite.receipts /\ Attempt' = Attempt
        /\ suite'.status \in {"Failed", "Cancelled"} /\ suite # NoSuite
        /\ suite.pc \in {"fixture", "receive", "answer"}
        /\ UNCHANGED <<ledgers, served>>
    BY <1>c, <1>3, AttemptSteps DEF AttemptStep, AttemptStopped, AttemptEnds, Running
  <2> QED
    BY <1>a, <2>1 DEF AttemptSays
<1>4. CASE NoAdapter
  <2>1. /\ suite'.pc = "cleanup" /\ suite'.receipts = suite.receipts /\ Attempt' = Attempt
        /\ suite'.status = "Unsupported" /\ suite # NoSuite /\ suite.pc = "fixture"
        /\ UNCHANGED <<ledgers, served>> /\ Slot \notin Adapted
    BY <1>c, <1>4, AttemptSteps DEF AttemptStep, NoAdapter, AttemptEnds, Running
  <2> QED
    BY <1>a, <1>b, <2>1 DEF AttemptSays
<1>5. CASE SendMessage
  <2>1. /\ suite'.pc = "receive" /\ suite'.receipts = suite.receipts /\ Attempt' = Attempt
        /\ suite # NoSuite /\ suite.pc = "fixture"
        /\ UNCHANGED <<ledgers, served>> /\ suite.receipts < Messages(Slot, Kind)
    BY <1>c, <1>5, AttemptSteps DEF AttemptStep, SendMessage, SuiteGoto, Running
  <2> QED
    BY <1>a, <1>b, <2>1 DEF AttemptSays, Expected
<1>6. CASE Receive
  <2>1. /\ suite'.pc = "answer" /\ suite'.receipts = suite.receipts + 1 /\ Attempt' = Attempt
        /\ suite # NoSuite /\ suite.pc = "receive" /\ ledgers' = ledgers
        /\ served' = [served EXCEPT ![Attempt] = @ + 1]
    BY <1>c, <1>6, AttemptSteps DEF AttemptStep, Receive, Running
  <2>2. Attempt \in ledgers /\ served[Attempt] = suite.receipts
    BY <1>a, <2>1 DEF AttemptSays
  <2>3. served'[Attempt] = suite.receipts + 1
    BY <1>b, <2>1, <2>2 DEF SuiteTypeOK
  <2> QED
    BY <2>1, <2>2, <2>3 DEF AttemptSays
<1>7. CASE AnswerBack
  <2>1. /\ suite'.pc = "fixture" /\ suite'.receipts = suite.receipts /\ Attempt' = Attempt
        /\ suite # NoSuite /\ suite.pc = "answer" /\ UNCHANGED <<ledgers, served>>
    BY <1>c, <1>7, AttemptSteps DEF AttemptStep, AnswerBack, SuiteGoto, Running
  <2> QED
    BY <1>a, <2>1 DEF AttemptSays
<1>8. CASE AllSent
  <2>1. /\ suite'.pc = "cleanup" /\ suite'.receipts = suite.receipts /\ Attempt' = Attempt
        /\ suite # NoSuite /\ suite.pc = "fixture" /\ suite'.status = "Executed"
        /\ UNCHANGED <<ledgers, served>> /\ suite.receipts = Messages(Slot, Kind)
    BY <1>c, <1>8, AttemptSteps DEF AttemptStep, AllSent, AttemptEnds, Running
  <2> QED
    BY <1>a, <1>b, <2>1 DEF AttemptSays, Expected
<1>9. CASE NextVariant
  <2>1. suite'.pc \in {"next", "reserve"}
    BY <1>9, NextVariantMoves, RecordSteps, RecordGrows DEF AttemptStep
  <2> QED
    BY <2>1 DEF AttemptSays
<1>10. CASE ReserveRefused \/ OwnRefused \/ \E removed \in BOOLEAN : CleanupAttempt(removed)
  <2>1. suite'.pc = "next"
    BY <1>10, RecordSteps, RecordGrows
  <2> QED
    BY <2>1 DEF AttemptSays
<1>11. CASE \E s \in Suites : BeginSuite(s)
  BY <1>11 DEF BeginSuite, AttemptSays
<1>12. CASE Report \/ CrashSuite
  BY <1>12 DEF Report, CrashSuite
<1>13. CASE KillSwitch \/ UNCHANGED suiteVars
  <2>1. UNCHANGED <<suite, ledgers, served>>
    BY <1>13 DEF KillSwitch, suiteVars
  <2>2. Attempt' = Attempt
    BY <2>1, SameAttempt
  <2> QED
    BY <1>a, <2>1, <2>2 DEF AttemptSays
<1> QED
  BY <1>1, <1>2, <1>3, <1>4, <1>5, <1>6, <1>7, <1>8, <1>9, <1>10, <1>11, <1>12, <1>13
     DEF SuiteNext

-----------------------------------------------------------------------------
(* Entries *)

\* An entry that is true of an attempt the step does not touch stays true.
LEMMA EntryStaysTrue ==
    ASSUME NEW e, NEW a, EntryTrue(e, a), a \in dirs' => a \in dirs, served'[a] = served[a]
    PROVE  /\ e.status = "Executed" => served'[a] = Expected(a)
           /\ e.status = "Unsupported" => Corpus[a[2]] \notin Adapted
           /\ e.status \in {"Executed", "Unsupported"} /\ e.cleanup = "VERIFIED" => a \notin dirs'
BY DEF EntryTrue

\* The invariant after a step, entry by entry.
LEMMA EntriesAfter ==
    ASSUME suite' # NoSuite =>
              \A k \in 1..Len(suite'.entries) :
                  LET e == suite'.entries[k]
                      a == At(suite'.id, k - 1)
                  IN  /\ e.status = "Executed" => served'[a] = Expected(a)
                      /\ e.status = "Unsupported" => Corpus[a[2]] \notin Adapted
                      /\ e.status \in {"Executed", "Unsupported"} /\ e.cleanup = "VERIFIED" =>
                            a \notin dirs'
    PROVE  EntriesInv'
BY DEF EntriesInv, EntryTrue, At, Expected

\* Directories and messages of a step that goes on with an attempt, or begins one.
LEMMA WorkFrame ==
    ASSUME SuiteTypeOK, [SuiteNext]_suiteVars, NEW to, AttemptStep(to)
    PROVE  /\ dirs' \subseteq dirs \cup {Attempt}
           /\ \A a \in Attempts : a # Attempt => served'[a] = served[a]
<1>1. CASE Receive
  BY <1>1 DEF Receive, SuiteTypeOK
<1>2. CASE served' = served
  <2>1. dirs' \subseteq dirs \cup {Attempt}
    BY NextVariantMoves
       DEF SuiteNext, suiteVars, Reserve, ReserveRefused, Own, OwnRefused, AttemptStopped,
           NoAdapter, SendMessage, Receive, AnswerBack, AllSent, CleanupAttempt, BeginSuite,
           Report, KillSwitch, CrashSuite
  <2> QED
    BY <1>2, <2>1
<1> QED
  BY <1>1, <1>2, ReceivedFrame

\* Going on leaves the entries true.
LEMMA EntriesWhileWorking ==
    ASSUME SuiteTypeOK, EntriesInv, [SuiteNext]_suiteVars, NEW to, AttemptStep(to)
    PROVE  EntriesInv'
<1>1. suite # NoSuite /\ suite'.entries = suite.entries /\ suite'.id = suite.id
  BY DEF AttemptStep
<1>2. ASSUME NEW k \in 1..Len(suite.entries)
      PROVE  LET e == suite.entries[k]
                 a == At(suite.id, k - 1)
             IN  /\ EntryTrue(e, a) /\ served'[a] = served[a] /\ (a \in dirs' => a \in dirs)
  <2>1. At(suite.id, k - 1) # Attempt
    BY <1>1, <1>2, PlaceIsNew
  <2>2. At(suite.id, k - 1) \in Attempts
    BY <1>1, <1>2, RunningFields, PlaceIsAttempt, CorpusLength DEF SuiteTypeOK
  <2> QED
    BY <1>1, <1>2, <2>1, <2>2, WorkFrame DEF EntriesInv
<1>3. ASSUME NEW k \in 1..Len(suite.entries)
      PROVE  LET e == suite.entries[k]
                 a == At(suite.id, k - 1)
             IN  /\ e.status = "Executed" => served'[a] = Expected(a)
                 /\ e.status = "Unsupported" => Corpus[a[2]] \notin Adapted
                 /\ e.status \in {"Executed", "Unsupported"} /\ e.cleanup = "VERIFIED" =>
                       a \notin dirs'
  BY <1>2, <1>3, EntryStaysTrue
<1> QED
  BY <1>1, <1>3, EntriesAfter

\* A new entry that is true keeps all of them true, when nothing is made.
LEMMA EntriesWhileRecording ==
    ASSUME SuiteTypeOK, EntriesInv, NEW entry \in Entry, RecordStep(entry),
           dirs' \subseteq dirs, served' = served,
           entry.status = "Executed" => served[Attempt] = Expected(Attempt),
           entry.status = "Unsupported" => Slot \notin Adapted,
           entry.cleanup = "VERIFIED" => Attempt \notin dirs'
    PROVE  EntriesInv'
<1> DEFINE e(k) == suite'.entries[k]
           a(k) == At(suite'.id, k - 1)
<1>1. /\ suite # NoSuite /\ Place \in Nat /\ Place = Len(suite.entries)
      /\ Attempt = At(suite.id, Place) /\ Corpus[Attempt[2]] = Slot
  BY RunningFields, AttemptAtHand DEF RecordStep
<1>2. /\ suite'.id = suite.id /\ Len(suite'.entries) = Place + 1 /\ e(Place + 1) = entry
      /\ \A k \in 1..Len(suite.entries) : e(k) = suite.entries[k]
  BY RecordGrows
<1>3. ASSUME NEW k \in 1..(Place + 1)
      PROVE  /\ e(k).status = "Executed" => served'[a(k)] = Expected(a(k))
             /\ e(k).status = "Unsupported" => Corpus[a(k)[2]] \notin Adapted
             /\ e(k).status \in {"Executed", "Unsupported"} /\ e(k).cleanup = "VERIFIED" =>
                   a(k) \notin dirs'
  <2>1. CASE k = Place + 1
    <3>1. e(k) = entry /\ a(k) = Attempt
      BY <1>1, <1>2, <2>1
    <3> QED
      BY <1>1, <3>1
  <2>2. CASE k # Place + 1
    <3>1. k \in 1..Len(suite.entries)
      BY <1>1, <2>2
    <3>2. e(k) = suite.entries[k] /\ a(k) = At(suite.id, k - 1)
      BY <1>2, <3>1
    <3>3. EntryTrue(suite.entries[k], At(suite.id, k - 1))
      BY <1>1, <3>1 DEF EntriesInv
    <3> QED
      BY <3>2, <3>3 DEF EntryTrue
  <2> QED
    BY <2>1, <2>2
<1> QED
  BY <1>2, <1>3, EntriesAfter

\* Every entry stays true of its attempt.
LEMMA EntriesStep ==
    ASSUME SuiteTypeOK, ServedInv, AttemptInv, EntriesInv, [SuiteNext]_suiteVars
    PROVE  EntriesInv'
<1>1. CASE \E to : AttemptStep(to)
  BY <1>1, EntriesWhileWorking
<1>2. CASE NextVariant /\ RecordStep(NotRunEntry)
  BY <1>2, NextVariantMoves, RecordSteps, EntriesWhileRecording DEF NotRunEntry
<1>3. CASE ReserveRefused
  <2>1. RecordStep(RejectedEntry) /\ dirs' = dirs /\ served' = served
    BY <1>3, RecordSteps DEF ReserveRefused
  <2> QED
    BY <2>1, RecordSteps, EntriesWhileRecording DEF RejectedEntry
<1>4. CASE OwnRefused
  <2>1. RecordStep(RejectedEntry) /\ dirs' \subseteq dirs /\ served' = served
    BY <1>4, RecordSteps DEF OwnRefused
  <2> QED
    BY <2>1, RecordSteps, EntriesWhileRecording DEF RejectedEntry
<1>5. CASE \E removed \in BOOLEAN : CleanupAttempt(removed)
  <2>1. PICK removed \in BOOLEAN : CleanupAttempt(removed)
    BY <1>5
  <2>2. /\ suite.pc = "cleanup" /\ suite # NoSuite /\ RecordStep(CleanupEntry(removed))
        /\ CleanupEntry(removed) \in Entry
    BY <2>1, RecordSteps DEF RecordStep
  <2>3. /\ suite.status = "Executed" => served[Attempt] = Expected(Attempt)
        /\ suite.status = "Unsupported" => Slot \notin Adapted
    BY <2>2 DEF AttemptInv
  <2>4. dirs' \subseteq dirs /\ served' = served /\ (removed => Attempt \notin dirs')
    BY <2>1 DEF CleanupAttempt
  <2>5. /\ CleanupEntry(removed).status = "Executed" => suite.status = "Executed"
        /\ CleanupEntry(removed).status = "Unsupported" => suite.status = "Unsupported"
        /\ CleanupEntry(removed).cleanup = "VERIFIED" => removed
    BY DEF CleanupEntry
  <2> QED
    BY <2>2, <2>3, <2>4, <2>5, EntriesWhileRecording
<1>6. CASE \E s \in Suites : BeginSuite(s)
  <2>1. suite'.entries = <<>>
    BY <1>6 DEF BeginSuite
  <2>2. \A k \in 1..Len(suite'.entries) : FALSE
    BY <2>1
  <2> QED
    BY <2>2, EntriesAfter
<1>7. CASE Report \/ CrashSuite
  BY <1>7 DEF Report, CrashSuite, EntriesInv
<1>8. CASE KillSwitch \/ UNCHANGED suiteVars
  <2>1. UNCHANGED <<suite, dirs, served>>
    BY <1>8 DEF KillSwitch, suiteVars
  <2> QED
    BY <2>1 DEF EntriesInv, EntryTrue, At, Expected
<1> QED
  BY <1>1, <1>2, <1>3, <1>4, <1>5, <1>6, <1>7, <1>8, AttemptSteps, NextVariantMoves DEF SuiteNext

-----------------------------------------------------------------------------
(* The kill switch *)

\* One message at most is on its way when the switch is thrown.
LEMMA KillStep ==
    ASSUME SuiteTypeOK, KillInv, [SuiteNext]_suiteVars, AttemptInv
    PROVE  KillInv'
<1> DEFINE After == /\ suite'.pc = "receive" => overdue' = 0
                    /\ suite'.pc = "cleanup" /\ suite'.status = "Cancelled" => kill' = "on"
<1>0. ASSUME kill' = "off" => overdue' = 0, overdue' <= 1, suite' # NoSuite => After PROVE KillInv'
  BY <1>0 DEF KillInv
<1>a. suite.pc # "idle" => suite # NoSuite /\ suite \in Running
  BY IdleHasNoStep, RunningFields
<1>1. CASE Receive
  <2>1. overdue = 0 /\ suite'.pc = "answer"
    BY <1>a, <1>1, AttemptSteps DEF KillInv, AttemptStep
  <2>2. kill' = kill /\ overdue' = IF kill = "on" THEN overdue + 1 ELSE overdue
    BY <1>1 DEF Receive
  <2> QED
    BY <1>0, <2>1, <2>2
<1>2. CASE SendMessage
  <2>1. overdue' = 0 /\ suite'.pc = "receive"
    BY <1>2, AttemptSteps DEF SendMessage, KillInv, AttemptStep
  <2> QED
    BY <1>0, <2>1
<1>3. CASE AttemptStopped
  <2>1. suite'.pc = "cleanup" /\ suite'.status = "Cancelled" => kill' = "on"
    BY <1>a, <1>3 DEF AttemptStopped, AttemptEnds, Running
  <2>2. overdue' = overdue /\ kill' = kill /\ suite'.pc = "cleanup"
    BY <1>3, AttemptSteps DEF AttemptStopped, AttemptStep
  <2> QED
    BY <1>0, <2>1, <2>2 DEF KillInv
<1>4. CASE NoAdapter \/ AllSent
  <2>1. suite'.pc = "cleanup" /\ suite'.status # "Cancelled"
    BY <1>a, <1>4 DEF NoAdapter, AllSent, AttemptEnds, Running
  <2>2. overdue' = overdue /\ kill' = kill
    BY <1>4 DEF NoAdapter, AllSent
  <2> QED
    BY <1>0, <2>1, <2>2 DEF KillInv
<1>5. CASE Reserve \/ Own \/ AnswerBack
  <2>1. suite'.pc \in {"ledger", "fixture"}
    BY <1>5, AttemptSteps DEF AttemptStep
  <2>2. overdue' = overdue /\ kill' = kill
    BY <1>5 DEF Reserve, Own, AnswerBack
  <2> QED
    BY <1>0, <2>1, <2>2 DEF KillInv
<1>6. CASE NextVariant
  <2>1. suite'.pc \in {"next", "reserve"} /\ overdue' = overdue /\ kill' = kill
    BY <1>6, NextVariantMoves, RecordSteps, RecordGrows DEF AttemptStep
  <2> QED
    BY <1>0, <2>1 DEF KillInv
<1>7. CASE ReserveRefused \/ OwnRefused \/ \E removed \in BOOLEAN : CleanupAttempt(removed)
  <2>1. suite'.pc = "next"
    BY <1>7, RecordSteps, RecordGrows
  <2>2. overdue' = overdue /\ kill' = kill
    BY <1>7 DEF ReserveRefused, OwnRefused, CleanupAttempt
  <2> QED
    BY <1>0, <2>1, <2>2 DEF KillInv
<1>8. CASE \E s \in Suites : BeginSuite(s)
  <2>1. overdue' = 0 /\ suite'.pc = "next"
    BY <1>8 DEF BeginSuite
  <2> QED
    BY <1>0, <2>1
<1>9. CASE Report \/ CrashSuite
  BY <1>0, <1>9 DEF Report, CrashSuite, KillInv
<1>10. CASE KillSwitch
  <2>1. kill' = "on" /\ overdue = 0 /\ overdue' = 0 /\ suite' = suite
    BY <1>10 DEF KillSwitch, KillInv
  <2> QED
    BY <1>0, <2>1
<1>11. CASE UNCHANGED suiteVars
  BY <1>11 DEF suiteVars, KillInv
<1> QED
  BY <1>1, <1>2, <1>3, <1>4, <1>5, <1>6, <1>7, <1>8, <1>9, <1>10, <1>11 DEF SuiteNext

\* The invariant after a step, from what the entries say.
LEMMA CutAfter ==
    ASSUME suite' # NoSuite =>
              \A i \in 1..Len(suite'.entries) : suite'.entries[i].status = "Cancelled" =>
                  /\ kill' = "on" /\ suite'.pc = "next"
                  /\ \A j \in (i + 1)..Len(suite'.entries) : suite'.entries[j].status = "NOT_RUN"
    PROVE  CutInv'
BY DEF CutInv

\* Where an attempt is open nothing was cancelled, and an entry of it is the last.
LEMMA CutWhileRecording ==
    ASSUME SuiteTypeOK, CutInv, NEW entry \in Entry, RecordStep(entry),
           entry.status = "Cancelled" => kill' = "on",
           suite.pc = "next" => entry.status = "NOT_RUN" /\ kill' = kill
    PROVE  CutInv'
<1>1. suite # NoSuite /\ Place \in Nat /\ Place = Len(suite.entries)
  BY RunningFields DEF RecordStep
<1>2. /\ Len(suite'.entries) = Place + 1 /\ suite'.entries[Place + 1] = entry
      /\ \A k \in 1..Len(suite.entries) : suite'.entries[k] = suite.entries[k]
      /\ suite'.pc = "next"
  BY RecordGrows
<1> SUFFICES ASSUME NEW i \in 1..(Place + 1), suite'.entries[i].status = "Cancelled"
             PROVE  /\ kill' = "on"
                    /\ \A j \in (i + 1)..(Place + 1) : suite'.entries[j].status = "NOT_RUN"
  BY <1>2, CutAfter
<1>3. CASE i = Place + 1
  <2>1. kill' = "on"
    BY <1>2, <1>3
  <2>2. \A j \in (i + 1)..(Place + 1) : FALSE
    BY <1>1, <1>3
  <2> QED
    BY <2>1, <2>2
<1>4. CASE i # Place + 1
  <2>1. i \in 1..Len(suite.entries) /\ suite.entries[i].status = "Cancelled"
    BY <1>1, <1>2, <1>4
  <2>2. /\ kill = "on" /\ suite.pc = "next"
        /\ \A j \in (i + 1)..Len(suite.entries) : suite.entries[j].status = "NOT_RUN"
    BY <1>1, <2>1 DEF CutInv
  <2>3. kill' = "on" /\ entry.status = "NOT_RUN"
    BY <2>2
  <2>4. ASSUME NEW j \in (i + 1)..(Place + 1) PROVE suite'.entries[j].status = "NOT_RUN"
    <3>1. CASE j = Place + 1
      BY <1>2, <2>3, <3>1
    <3>2. CASE j # Place + 1
      <4>1. j \in (i + 1)..Len(suite.entries) /\ j \in 1..Len(suite.entries)
        BY <1>1, <2>1, <3>2
      <4> QED
        BY <1>2, <2>2, <4>1
    <3> QED
      BY <3>1, <3>2
  <2> QED
    BY <2>3, <2>4
<1> QED
  BY <1>3, <1>4

\* After a cancelled variant no other is begun.
LEMMA CutStep ==
    ASSUME SuiteTypeOK, AttemptInv, KillInv, CutInv, [SuiteNext]_suiteVars
    PROVE  CutInv'
<1>1. ASSUME NEW to, AttemptStep(to), suite.pc # "next" \/ kill = "off"
      PROVE  CutInv'
  <2>1. suite # NoSuite /\ suite'.entries = suite.entries
    BY <1>1 DEF AttemptStep
  <2>2. \A i \in 1..Len(suite.entries) : suite.entries[i].status # "Cancelled"
    BY <1>1, <2>1 DEF CutInv
  <2> QED
    BY <2>1, <2>2, CutAfter
<1>2. CASE Reserve \/ Own \/ AttemptStopped \/ NoAdapter \/ SendMessage \/ Receive \/ AnswerBack
           \/ AllSent
  <2>1. suite.pc # "next" /\ \E to : AttemptStep(to)
    BY <1>2, AttemptSteps
  <2> QED
    BY <1>1, <2>1
<1>3. CASE NextVariant
  <2>1. CASE AttemptStep("reserve") /\ kill = "off"
    BY <1>1, <2>1
  <2>2. CASE RecordStep(NotRunEntry) /\ kill = "on"
    BY <1>3, <2>2, NextVariantMoves, RecordSteps, CutWhileRecording DEF NotRunEntry
  <2> QED
    BY <1>3, <2>1, <2>2, NextVariantMoves
<1>4. CASE ReserveRefused \/ OwnRefused
  <2>1. RecordStep(RejectedEntry) /\ suite.pc \in {"reserve", "ledger"} /\ RejectedEntry \in Entry
    BY <1>4, RecordSteps
  <2>2. RejectedEntry.status # "Cancelled"
    BY DEF RejectedEntry
  <2> QED
    BY <2>1, <2>2, CutWhileRecording
<1>5. CASE \E removed \in BOOLEAN : CleanupAttempt(removed)
  <2>1. PICK removed \in BOOLEAN : CleanupAttempt(removed)
    BY <1>5
  <2>2. /\ suite.pc = "cleanup" /\ suite # NoSuite /\ RecordStep(CleanupEntry(removed))
        /\ CleanupEntry(removed) \in Entry /\ kill' = kill
    BY <2>1, RecordSteps DEF RecordStep, CleanupAttempt
  <2>3. CleanupEntry(removed).status = "Cancelled" => suite.status = "Cancelled"
    BY DEF CleanupEntry
  <2>4. CleanupEntry(removed).status = "Cancelled" => kill' = "on"
    BY <2>2, <2>3 DEF KillInv
  <2> QED
    BY <2>2, <2>4, CutWhileRecording
<1>6. CASE \E s \in Suites : BeginSuite(s)
  <2>1. \A i \in 1..Len(suite'.entries) : FALSE
    BY <1>6 DEF BeginSuite
  <2> QED
    BY <2>1, CutAfter
<1>7. CASE Report \/ CrashSuite
  BY <1>7 DEF Report, CrashSuite, CutInv
<1>8. CASE KillSwitch
  BY <1>8 DEF KillSwitch, CutInv
<1>9. CASE UNCHANGED suiteVars
  BY <1>9 DEF suiteVars, CutInv
<1> QED
  BY <1>2, <1>3, <1>4, <1>5, <1>6, <1>7, <1>8, <1>9 DEF SuiteNext

-----------------------------------------------------------------------------
(* The gate *)

\* A report stays until the next suite, and nothing it is about changes.
LEMMA ReportStays ==
    ASSUME SuiteTypeOK, ReportInv, [SuiteNext]_suiteVars, ~Report
    PROVE  ReportInv'
<1>1. CASE suite # NoSuite
  <2>1. report' = NoReport
    BY <1>1, NextVariantMoves
       DEF SuiteTypeOK, SuiteNext, suiteVars, Reserve, ReserveRefused, Own, OwnRefused,
           AttemptStopped, NoAdapter, SendMessage, Receive, AnswerBack, AllSent, CleanupAttempt,
           BeginSuite, KillSwitch, CrashSuite
  <2> QED
    BY <2>1 DEF ReportInv, GateIsHonest
<1>2. CASE \E s \in Suites : BeginSuite(s)
  BY <1>2 DEF BeginSuite, ReportInv, GateIsHonest
<1>3. CASE suite = NoSuite /\ ~\E s \in Suites : BeginSuite(s)
  <2>1. UNCHANGED suiteVars
    BY <1>3 DEF SuiteNext, NoSuite, Reserve, ReserveRefused, Own, OwnRefused, AttemptStopped,
                NoAdapter, SendMessage, Receive, AnswerBack, AllSent, CleanupAttempt,
                NextVariant, Report, KillSwitch, CrashSuite
  <2> QED
    BY <2>1 DEF suiteVars, ReportInv, GateIsHonest
<1> QED
  BY <1>1, <1>2, <1>3

\* The gate counts pairs of entries: as many as slots only if all are complete.
LEMMA AllPairsComplete ==
    ASSUME NEW list, Len(list) = 2 * Len(Corpus), CompletePairs(list) = Len(Corpus)
    PROVE  \A i \in DOMAIN Corpus : Complete(list[2 * i - 1]) /\ Complete(list[2 * i])
<1> DEFINE L == Len(Corpus)
           Pairs == {i \in 1..L : Complete(list[2 * i - 1]) /\ Complete(list[2 * i])}
<1>1. L \in Nat /\ Len(list) \div 2 = L
  BY CorpusLength
<1>2. Cardinality(Pairs) = L
  BY <1>1 DEF CompletePairs
<1>3. IsFiniteSet(1..L) /\ Cardinality(1..L) = L
  <2>1. 1 \in Int /\ L \in Int /\ L - 1 + 1 = L /\ (1 > L => L = 0)
    BY <1>1
  <2>2. IsFiniteSet(1..L) /\ Cardinality(1..L) = IF 1 > L THEN 0 ELSE L - 1 + 1
    BY <2>1, FS_Interval
  <2> QED
    BY <2>1, <2>2
<1>4. Pairs \subseteq 1..L
  OBVIOUS
<1>5. Pairs = 1..L
  BY <1>2, <1>3, <1>4, FS_Subset
<1> QED
  BY <1>5, CorpusLength

\* What the gate of the entries at the end means for the attempts.
LEMMA GateOfEntries ==
    ASSUME SuiteTypeOK, EntriesInv, suite # NoSuite, Place = 2 * Len(Corpus),
           NEW i \in DOMAIN Corpus, NEW v \in {"positive", "benign"}
    PROVE  LET e == suite.entries[IF v = "positive" THEN 2 * i - 1 ELSE 2 * i]
               a == <<suite.id, i, v>>
           IN  /\ Complete(e) => served[a] = Messages(Corpus[i], v) /\ e.status = "Executed"
               /\ FixtureGate(suite.entries) # "Failed" =>
                     /\ Complete(e) \/ Corpus[i] \notin Adapted
                     /\ a \notin dirs
               /\ FixtureGate(suite.entries) = "Pass" => Complete(e)
<1> DEFINE k == IF v = "positive" THEN 2 * i - 1 ELSE 2 * i
           e == suite.entries[k]
           a == <<suite.id, i, v>>
<1>1. /\ i \in Nat \ {0} /\ i <= Len(Corpus) /\ Len(suite.entries) = 2 * Len(Corpus)
      /\ DOMAIN suite.entries = 1..Len(suite.entries)
  BY CorpusLength, RunningFields, LenProperties
<1>2. k \in 1..Len(suite.entries) /\ k - 1 = IF v = "positive" THEN 2 * i - 2 ELSE 2 * i - 1
  BY <1>1, CorpusLength
<1>3. At(suite.id, k - 1) = a
  <2>1. CASE v = "positive"
    BY <1>1, <1>2, <2>1, PlacesOfSlot
  <2>2. CASE v = "benign"
    BY <1>1, <1>2, <2>2, PlacesOfSlot
  <2> QED
    BY <2>1, <2>2
<1>4. EntryTrue(e, a)
  BY <1>2, <1>3 DEF EntriesInv
<1>5. Complete(e) => served[a] = Messages(Corpus[i], v) /\ e.status = "Executed"
  BY <1>4 DEF EntryTrue, Complete, Expected
<1>6. ASSUME FixtureGate(suite.entries) # "Failed"
      PROVE  /\ Complete(e) \/ Corpus[i] \notin Adapted
             /\ a \notin dirs
  <2>1. ~Fails(e)
    BY <1>1, <1>2, <1>6 DEF FixtureGate
  <2> QED
    BY <1>4, <2>1 DEF Fails, Complete, EntryTrue
<1>7. ASSUME FixtureGate(suite.entries) = "Pass"
      PROVE  Complete(e)
  <2>1. CompletePairs(suite.entries) = Len(Corpus)
    BY <1>7 DEF FixtureGate
  <2> QED
    BY <1>1, <2>1, AllPairsComplete
<1> QED
  BY <1>5, <1>6, <1>7

\* A report says what happened on the host.
LEMMA ReportStep ==
    ASSUME SuiteTypeOK, EntriesInv, CutInv, ReportInv, [SuiteNext]_suiteVars
    PROVE  ReportInv'
<1>1. CASE Report
  <2>1. /\ suite.pc = "next" /\ suite # NoSuite /\ Place = 2 * Len(Corpus) /\ served' = served
        /\ report'.id = suite.id /\ report'.entries = suite.entries
        /\ report'.gate = FixtureGate(suite.entries)
        /\ report'.left = {a \in dirs : a[1] = suite.id}
    BY <1>1, IdleHasNoStep DEF Report
  <2>2. /\ Len(report'.entries) = 2 * Len(Corpus) /\ suite.entries \in Seq(Entry)
        /\ DOMAIN suite.entries = 1..Len(suite.entries) /\ Len(suite.entries) \in Nat
    BY <2>1, RunningFields, LenProperties
  <2>3. ASSUME FixtureGate(suite.entries) # "Failed"
        PROVE  report'.left = {}
    <3> SUFFICES ASSUME NEW a \in dirs, a[1] = suite.id
                 PROVE  FALSE
      BY <2>1
    <3>1. a = <<a[1], a[2], a[3]>> /\ a[2] \in DOMAIN Corpus /\ a[3] \in {"positive", "benign"}
      BY CorpusLength DEF SuiteTypeOK, Attempts
    <3> QED
      BY <2>1, <2>3, <3>1, GateOfEntries
  <2>4. GateIsHonest'
    <3>1. ASSUME report'.gate = "Pass", NEW i \in DOMAIN Corpus, NEW v \in {"positive", "benign"}
          PROVE  /\ served'[<<report'.id, i, v>>] = Messages(Corpus[i], v)
                 /\ report'.entries[IF v = "positive" THEN 2 * i - 1 ELSE 2 * i].status = "Executed"
      BY <2>1, <3>1, GateOfEntries
    <3>2. ASSUME report'.gate # "Failed", NEW i \in DOMAIN Corpus, NEW v \in {"positive", "benign"}
          PROVE  \/ /\ served'[<<report'.id, i, v>>] = Messages(Corpus[i], v)
                    /\ report'.entries[IF v = "positive" THEN 2 * i - 1 ELSE 2 * i].status = "Executed"
                 \/ Corpus[i] \notin Adapted
      BY <2>1, <3>2, GateOfEntries
    <3> QED
      BY <2>1, <2>2, <2>3, <3>1, <3>2 DEF GateIsHonest
  <2>5. \A i, j \in DOMAIN report'.entries :
            i < j /\ report'.entries[i].status = "Cancelled" => report'.entries[j].status = "NOT_RUN"
    <3> SUFFICES ASSUME NEW i \in 1..Len(suite.entries), NEW j \in 1..Len(suite.entries),
                        i < j, suite.entries[i].status = "Cancelled"
                 PROVE  suite.entries[j].status = "NOT_RUN"
      BY <2>1, <2>2
    <3>1. j \in (i + 1)..Len(suite.entries)
      OBVIOUS
    <3> QED
      BY <2>1, <3>1 DEF CutInv
  <2> QED
    BY <2>4, <2>5 DEF ReportInv
<1>2. CASE ~Report
  BY <1>2, ReportStays
<1> QED
  BY <1>1, <1>2

-----------------------------------------------------------------------------
(* Theorems *)

\* At the start no suite has run.
LEMMA SuiteInitInv == SuiteInit => SuiteInv
<1> SUFFICES ASSUME SuiteInit PROVE SuiteInv
  OBVIOUS
<1>1. SuiteTypeOK
  BY DEF SuiteInit, SuiteTypeOK
<1>2. ServedInv
  <2>1. \A a \in Attempts : served[a] = 0
    BY DEF SuiteInit
  <2> QED
    BY <2>1, SomeMessages DEF ServedInv
<1>3. AttemptInv /\ EntriesInv /\ KillInv /\ CutInv
  BY DEF SuiteInit, AttemptInv, EntriesInv, KillInv, CutInv
<1>4. ReportInv
  BY DEF SuiteInit, ReportInv, GateIsHonest
<1> QED
  BY <1>1, <1>2, <1>3, <1>4 DEF SuiteInv

\* Every step keeps the invariant.
LEMMA SuiteStepInv == SuiteInv /\ [SuiteNext]_suiteVars => SuiteInv'
BY TypeStep, ServedStep, AttemptStepKeeps, EntriesStep, KillStep, CutStep, ReportStep DEF SuiteInv

\* SuitesAreHonest: an attempt's id is used up by one execution, a gate that
\* passes or is inconclusive is what the receivers and the directories show, and
\* the kill switch lets one message through and no variant begin (run_in_root,
\* run_suite).
THEOREM SuitesCorrect == SuiteSpec => []SuitesAreHonest
<1>1. SuiteInv => SuitesAreHonest
  BY DEF SuiteInv, ServedInv, KillInv, ReportInv, SuitesAreHonest, AttemptsRunOnce,
         KillSwitchHolds, Expected
<1> QED
  BY <1>1, SuiteInitInv, SuiteStepInv, PTL DEF SuiteSpec
=============================================================================
