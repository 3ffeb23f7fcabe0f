----------------------------- MODULE RunnerHost -----------------------------
(***************************************************************************)
(* What a run does to its runner's host: the injection closure of          *)
(* run_worker (service.rs), the sandbox directory, the injectors and the   *)
(* network fault sessions, over a file system and a kernel.                *)
(*                                                                         *)
(* RunnerService has the calls, the lease and the choice between several   *)
(* reasons to stop; here one reason comes up at any moment.  Pacing (the   *)
(* CPU budget, the rate of files) only delays a check.  An error of the    *)
(* file system or of the kernel may come at any call that can meet it,     *)
(* and the process may die anywhere; a filter attached to an interface     *)
(* outlives the process.                                                   *)
(*                                                                         *)
(* Assumed of aya: of the two ways out of a rule, disarming it and         *)
(* detaching the program, one works.  The code looks at neither result.    *)
(***************************************************************************)
EXTENDS ScenarioLanguage

CONSTANTS
    HostRuns,  \* run ids
    Plans,     \* admitted execution plans
    Packets,   \* frames on the interface
    MaxStarts  \* bound: executions, of the same or of several ids

\* What parsing makes of a plan and of a frame: counts, and addresses of four octets.
ASSUME PlansAssumption ==
    \A plan \in Plans :
        /\ plan.action \in Actions
        /\ plan.numbers.file_count \in Nat /\ plan.numbers.loss_percent \in Nat
        /\ plan.cidr.octets \in [1..4 -> 0..255] /\ plan.cidr.prefix \in Nat

ASSUME PacketsAssumption == \A packet \in Packets : packet.dst \in [1..4 -> 0..255]

VARIABLES
    base,      \* the plan's target directory: "absent", "real" or "unsafe"
    tree,      \* tree[r]: the entry named r below it
    rule,      \* rule[r]: the program of r on the interface, and its map
    backend,   \* default_backend(): "sim" or "aya"
    worker,    \* the worker that holds the slot, and its locals
    starts,    \* executions so far
    late,      \* files begun by the worker since it had a reason to stop
    unclean,   \* runs that were cut off, or whose event admitted a failed cleanup
    evidence   \* evidence[r]: the terminal event of its last execution

hostVars == <<base, tree, rule, backend, starts, late, unclean, evidence>>
runVars == <<worker, hostVars>>

NoEntry == [owner |-> "none", files |-> {}]
Foreign == [owner |-> "other", files |-> {<<"precious">>}]
NoRule  == [program |-> "none"]
Zeroed  == [program |-> "attached", armed |-> "no"]
NoEvidence == [state |-> "none"]
NoWorker == [pc |-> "idle"]

HostInit ==
    /\ base \in {"absent", "real", "unsafe"}
    /\ tree \in [HostRuns -> IF base = "real" THEN {NoEntry, Foreign} ELSE {NoEntry}]
    /\ rule = [r \in HostRuns |-> NoRule]
    /\ backend \in {"sim", "aya"}
    /\ worker = NoWorker
    /\ starts = 0
    /\ late = 0
    /\ unclean = {}
    /\ evidence = [r \in HostRuns |-> NoEvidence]

-----------------------------------------------------------------------------
(* Injectors: the files each writes, in order, and removes again; a name is *)
(* its text, and after it its number                                       *)

K8sEscapeInjector        == <<<<"docker.sock.probe">>, <<"k8s_ns_escape.canary">>>>
C2BeaconInjector         == <<<<"c2_beacon_events.log">>>>
CredentialAccessInjector == <<<<"honeytoken_credentials.json">>>>
LogTamperInjector        == <<<<"canary_audit.log">>>>
PersistenceCronInjector  == <<<<"canary_cron_task.job">>>>
DataExfiltrationInjector == <<<<"staged_canary_data.tar.gz">>>>
DefenseImpairmentInjector == <<<<"watchdog_recovery.pulse">>>>
CanaryInjector(count)    == [i \in 1..count |-> <<"canary", i>>]

\* create_injector, by way of the id run_worker gives for the action.
Files(plan) ==
    CASE plan.action = "synthetic_canary_encrypt" -> CanaryInjector(plan.numbers.file_count)
      [] plan.action = "k8s_escape_probe"    -> K8sEscapeInjector
      [] plan.action = "c2_beacon"           -> C2BeaconInjector
      [] plan.action = "credential_canary"   -> CredentialAccessInjector
      [] plan.action = "log_tamper_canary"   -> LogTamperInjector
      [] plan.action = "persistence_canary"  -> PersistenceCronInjector
      [] plan.action = "exfiltration_canary" -> DataExfiltrationInjector
      [] plan.action = "watchdog_probe"      -> DefenseImpairmentInjector

Checked(plan) == plan.action = "synthetic_canary_encrypt"
IsNetwork(plan) == plan.action = "latency_spike"

-----------------------------------------------------------------------------
(* The worker *)

Goto(pc) == worker' = [worker EXCEPT !.pc = pc]

\* The closure's result is known: what undoes its effects comes next.
Ends(result, pc) == worker' = [worker EXCEPT !.result = result, !.pc = pc]

\* run_worker takes a request that validate admitted.
BeginRun(r, plan) ==
    /\ worker = NoWorker
    /\ starts < MaxStarts
    /\ starts' = starts + 1
    /\ worker' = [pc |-> "create", run |-> r, plan |-> plan, stop |-> "no", done |-> 0,
                  result |-> "none", error |-> "no", simulated |-> "no"]
    /\ late' = 0
    /\ evidence' = [evidence EXCEPT ![r] = NoEvidence]
    /\ UNCHANGED <<base, tree, rule, backend, unclean>>

\* Mutant: an existing directory is taken over.
FreeAny(r) == base # "unsafe"

\* No component is a link or a file, and the run's own does not exist yet.
Free(r) == base # "unsafe" /\ tree[r] = NoEntry

\* Sandbox::create; the parents it made stay when it fails.
Create ==
    /\ worker.pc = "create" /\ Free(worker.run)
    /\ base' = "real"
    /\ tree' = [tree EXCEPT ![worker.run] = [owner |-> "runner", files |-> @.files]]
    /\ Goto("armed")
    /\ UNCHANGED <<rule, backend, starts, late, unclean, evidence>>

CreateRefused ==
    /\ worker.pc = "create"
    /\ base' \in {base, IF base = "absent" THEN "real" ELSE base}
    /\ evidence' = [evidence EXCEPT ![worker.run] =
                       [state |-> "REJECTED", cleaned |-> "no", plan |-> worker.plan]]
    /\ worker' = NoWorker
    /\ UNCHANGED <<tree, rule, backend, starts, late, unclean>>

\* Cancel, the deadline, the lease, or the client's end of the stream.
Stop(reason) ==
    /\ worker.pc \in {"armed", "inject", "write", "start", "arm", "wait"}
    /\ worker.stop = "no"
    /\ worker' = [worker EXCEPT !.stop = reason]
    /\ UNCHANGED hostVars

\* What undoes an action's effects: an injector's cleanup, the session's
\* revert, or the sandbox alone.
Undo(plan) ==
    IF Checked(plan) THEN "cleanup" ELSE IF IsNetwork(plan) THEN "revert" ELSE "undo"

\* check: the reason to stop, or the thread's clock cannot be read.
CheckFails(pc) ==
    /\ \/ Ends("FAILED", pc)
       \/ worker.stop # "no" /\ Ends(worker.stop, pc)
    /\ UNCHANGED hostVars

\* Mutant: the reason is not looked at.
CheckPassesAlways(pc) ==
    /\ Goto(pc)
    /\ UNCHANGED hostVars

CheckPasses(pc) ==
    /\ worker.stop = "no"
    /\ Goto(pc)
    /\ UNCHANGED hostVars

\* The check before anything is injected.
FirstCheck ==
    /\ worker.pc = "armed"
    /\ \/ CheckFails("cleanup")
       \/ CheckPasses(CASE Checked(worker.plan)   -> "inject"
                        [] IsNetwork(worker.plan) -> "start"
                        [] OTHER                  -> "write")

-----------------------------------------------------------------------------
(* Files *)

\* inject_checked checks before each file, and while it waits for its rate;
\* the other injectors never do.
CanaryCheck ==
    /\ worker.pc = "inject"
    /\ \/ CheckFails("cleanup")
       \/ worker.done < Len(Files(worker.plan)) /\ CheckPasses("write")

\* A file is created, and written in full or not.
WriteFile ==
    /\ worker.pc = "write"
    /\ worker.done < Len(Files(worker.plan))
    /\ tree' = [tree EXCEPT ![worker.run].files = @ \cup {Files(worker.plan)[worker.done + 1]}]
    /\ late' = IF worker.stop = "no" THEN late ELSE late + 1
    /\ \/ worker' = [worker EXCEPT !.done = @ + 1,
                                   !.pc = IF Checked(worker.plan) THEN "inject" ELSE "write"]
       \/ Ends("FAILED", Undo(worker.plan))
    /\ UNCHANGED <<base, rule, backend, starts, unclean, evidence>>

\* The file system does not let a file be made.
FileFails ==
    /\ worker.pc = "write"
    /\ Ends("FAILED", Undo(worker.plan))
    /\ UNCHANGED hostVars

AllWritten ==
    /\ worker.pc \in {"inject", "write"}
    /\ worker.done = Len(Files(worker.plan))
    /\ Goto("wait")
    /\ UNCHANGED hostVars

\* wait: its last check passes, or one before it does not.
Wait ==
    /\ worker.pc = "wait"
    /\ \/ CheckFails(Undo(worker.plan))
       \/ /\ worker.stop = "no"
          /\ Ends("COMPLETED", Undo(worker.plan))
          /\ UNCHANGED hostVars

\* ScenarioInjector::cleanup removes the injector's files and, once it is
\* empty, the directory; the error of a file is kept.
UndoFiles ==
    /\ worker.pc = "undo"
    /\ \/ /\ Goto("cleanup")
          /\ tree' \in {[tree EXCEPT ![worker.run].files = {}],
                        [tree EXCEPT ![worker.run] = NoEntry]}
       \/ /\ worker' = [worker EXCEPT !.pc = "cleanup", !.error = "yes"]
          /\ UNCHANGED tree
    /\ UNCHANGED <<base, rule, backend, starts, late, unclean, evidence>>

-----------------------------------------------------------------------------
(* Network faults *)

IsLoopback(iface) == iface = "lo"

\* iface_in_scope
IfaceInScope(iface) == iface \in {"lo", "veth0"}

\* NetChaosSpec::validate; a duration of zero is passed as one.
SpecValid(plan) ==
    /\ NetTargetInScope(plan.cidr)
    /\ IfaceInScope(plan.iface)
    /\ plan.numbers.latency_ms <= 5000 /\ plan.numbers.jitter_ms <= 1000
    /\ plan.numbers.loss_percent <= 50
    /\ plan.numbers.duration_ms <= 120000

\* Mutant: the network keeps its host bits.
RuleUnmasked(plan) ==
    [net |-> plan.cidr.octets, prefix |-> plan.cidr.prefix, permille |-> 10 * plan.numbers.loss_percent]

\* The rule for the map: parse_cidr_be, and the loss in thousandths.
RuleOf(plan) ==
    [net |-> Network(plan.cidr.octets, plan.cidr.prefix), prefix |-> plan.cidr.prefix,
     permille |-> 10 * plan.numbers.loss_percent]

\* NetChaosSession::start is refused, by the spec or by a backend that could
\* not load its object or add the queue discipline.
StartRefused ==
    /\ worker.pc = "start"
    /\ SpecValid(worker.plan) => backend = "aya"
    /\ Ends("FAILED", "cleanup")
    /\ UNCHANGED hostVars

\* The simulator takes a rule down; nothing on the host changes.
StartSimulated ==
    /\ worker.pc = "start"
    /\ SpecValid(worker.plan) /\ backend = "sim"
    /\ worker' = [worker EXCEPT !.pc = "wait", !.simulated = "yes"]
    /\ UNCHANGED hostVars

\* The program is attached: its map is zero, it passes every packet.
Attach ==
    /\ worker.pc = "start"
    /\ SpecValid(worker.plan) /\ backend = "aya" /\ ~IsLoopback(worker.plan.iface)
    /\ rule' = [rule EXCEPT ![worker.run] = Zeroed]
    /\ Goto("arm")
    /\ UNCHANGED <<base, tree, backend, starts, late, unclean, evidence>>

\* write_rule arms it last, or fails: the dropped program is detached.
Arm ==
    /\ worker.pc = "arm"
    /\ \/ /\ rule' = [rule EXCEPT ![worker.run] = [program |-> "attached", armed |-> "yes",
                                                   map |-> RuleOf(worker.plan)]]
          /\ Goto("wait")
       \/ /\ rule' \in {[rule EXCEPT ![worker.run] = NoRule], rule}
          /\ Ends("FAILED", "cleanup")
    /\ UNCHANGED <<base, tree, backend, starts, late, unclean, evidence>>

\* Mutant: the program is only dropped.
RevertedDetached(armed) == {NoRule, armed}

\* revert: a zeroed map, then the dropped program; either may silently fail.
Reverted(armed) == {NoRule, Zeroed}

\* NetChaosSession::revert takes its handle, so that Drop finds none.
Revert ==
    /\ worker.pc = "revert"
    /\ rule' \in IF worker.simulated = "yes" THEN {rule}
                 ELSE {[rule EXCEPT ![worker.run] = left] : left \in Reverted(rule[worker.run])}
    /\ Goto("cleanup")
    /\ UNCHANGED <<base, tree, backend, starts, late, unclean, evidence>>

-----------------------------------------------------------------------------
(* The end of the run *)

\* Mutant: the sandbox's own error is only logged.
CleanedInjector(error, removed) == error = "no"

\* cleanup_error is still none.
Cleaned(error, removed) == error = "no" /\ removed

\* Mutant: the injection's error is lost once the host is clean.
OutcomeOfCleanup(cleaned) == IF cleaned THEN "COMPLETED" ELSE "CLEANUP_FAILED"

\* A failed cleanup wins over how the injection ended.
Outcome(cleaned) == IF cleaned THEN worker.result ELSE "CLEANUP_FAILED"

\* Sandbox::cleanup, the terminal state and its event; a directory that is
\* gone already is fine.
Cleanup(removed) ==
    LET cleaned == Cleaned(worker.error, removed)
    IN  /\ worker.pc = "cleanup"
        /\ ~removed => tree[worker.run] # NoEntry
        /\ tree' = IF removed THEN [tree EXCEPT ![worker.run] = NoEntry] ELSE tree
        /\ evidence' = [evidence EXCEPT ![worker.run] =
                           [state |-> Outcome(cleaned), cleaned |-> IF cleaned THEN "yes" ELSE "no",
                            plan |-> worker.plan, simulated |-> worker.simulated,
                            done |-> worker.done]]
        /\ unclean' = IF cleaned THEN unclean ELSE unclean \cup {worker.run}
        /\ Goto("drop")
        /\ UNCHANGED <<base, rule, backend, starts, late>>

\* Sandbox::drop tries once more, and the slot is free.
Drop ==
    /\ worker.pc = "drop"
    /\ worker' = NoWorker
    /\ \/ tree' = [tree EXCEPT ![worker.run] = NoEntry]
       \/ tree[worker.run] # NoEntry /\ UNCHANGED tree
    /\ UNCHANGED <<base, rule, backend, starts, late, unclean, evidence>>

\* The process dies, and is started again.
CrashRun ==
    /\ worker # NoWorker
    /\ worker' = NoWorker
    /\ unclean' = unclean \cup {worker.run}
    /\ UNCHANGED <<base, tree, rule, backend, starts, late, evidence>>

HostNext ==
    \/ \E r \in HostRuns, plan \in Plans : BeginRun(r, plan)
    \/ \E reason \in {"CANCELLED", "TIMED_OUT", "CONTROL_LOST"} : Stop(reason)
    \/ \E removed \in BOOLEAN : Cleanup(removed)
    \/ Create \/ CreateRefused \/ FirstCheck \/ CanaryCheck
    \/ WriteFile \/ FileFails \/ AllWritten \/ Wait
    \/ UndoFiles \/ StartRefused \/ StartSimulated \/ Attach \/ Arm \/ Revert
    \/ Drop \/ CrashRun

HostSpec == HostInit /\ [][HostNext]_runVars

-----------------------------------------------------------------------------
(* The classifier *)

\* matches_dst: the masked destination is the rule's network.
MatchesDst(map, dst) == Network(dst, map.prefix) = map.net

\* Mutant: an unarmed map is looked up like any other.
MayDropUnarmed(installed, packet) ==
    /\ installed.program = "attached"
    /\ installed.armed = "no" \/ (packet.ipv4 = "yes" /\ MatchesDst(installed.map, packet.dst))

\* decide: armed, an IPv4 frame, a destination inside, and an unlucky draw.
MayDrop(installed, packet) ==
    /\ installed.program = "attached"
    /\ installed.armed = "yes"
    /\ packet.ipv4 = "yes"
    /\ MatchesDst(installed.map, packet.dst)
    /\ installed.map.permille > 0

-----------------------------------------------------------------------------
(* Properties *)

\* Evidence that says the run was cleaned up (service.rs:276) is true of the
\* host: nothing of the run is left in the canary root and no rule of it can
\* drop a packet, even when an earlier execution under the same id was cut off.
CleanedMeansClean ==
    \A r \in HostRuns : evidence[r].state \notin {"none", "REJECTED"} /\ evidence[r].cleaned = "yes" =>
        /\ tree[r] = NoEntry
        /\ \A packet \in Packets : ~MayDrop(rule[r], packet)

\* What stays behind has a story: the process was cut off, or the run itself
\* reported that it could not clean up (and what is attached then drops nothing).
LeftoversAreReported ==
    \A r \in HostRuns :
        r \notin unclean /\ ("run" \in DOMAIN worker => worker.run # r) =>
            /\ tree[r].owner # "runner"
            /\ \A packet \in Packets : ~MayDrop(rule[r], packet)

\* A directory somebody else made in the canary root is never entered or written,
\* whatever run has its name (sandbox.rs:68), and nothing is made below a link or
\* a file.
ForeignUntouched ==
    /\ \A r \in HostRuns : <<"precious">> \in tree[r].files => tree[r] = Foreign
    /\ base # "real" => \A r \in HostRuns : tree[r] = NoEntry

\* After a cancellation, the deadline or a lost lease at most the canary that
\* was let through before is written (canary.rs:97); an injector that is never
\* asked writes its own few.
StopsInjecting ==
    worker # NoWorker /\ ~IsNetwork(worker.plan) =>
        late <= IF Checked(worker.plan) THEN 1 ELSE Len(Files(worker.plan))

\* COMPLETED means that every file of the plan was written, or that the rule
\* was in force unless the event says it was simulated, and that all is undone.
CompletedDidAll ==
    \A r \in HostRuns : evidence[r].state = "COMPLETED" =>
        /\ evidence[r].cleaned = "yes"
        /\ IsNetwork(evidence[r].plan) => evidence[r].simulated = "yes" \/ ~IsLoopback(evidence[r].plan.iface)
        /\ ~IsNetwork(evidence[r].plan) => evidence[r].done = Len(Files(evidence[r].plan))

\* While a rule is waited on, and the backend is real, it hits exactly the
\* IPv4 packets towards the block its manifest named; any rule, the one of a
\* dead process too, stays within the reserved blocks (netchaos.rs:8).
DropsAreConfined ==
    /\ worker.pc = "wait" /\ IsNetwork(worker.plan) /\ worker.simulated = "no" =>
          \A packet \in Packets :
              MayDrop(rule[worker.run], packet) <=>
                  /\ packet.ipv4 = "yes" /\ worker.plan.numbers.loss_percent > 0
                  /\ AtMost(First(worker.plan.cidr), packet.dst)
                  /\ AtMost(packet.dst, Last(worker.plan.cidr))
    /\ \A r \in HostRuns, packet \in Packets :
          MayDrop(rule[r], packet) => Reserved([octets |-> packet.dst, prefix |-> 32])

\* A cleanup that is reported left nothing behind, what is left was reported or
\* its process died, and COMPLETED means that all was done (run_worker).
EvidenceMatchesHost ==
    /\ CleanedMeansClean
    /\ LeftoversAreReported
    /\ CompletedDidAll

\* What was on the host before is never touched, a worker that must stop writes at
\* most the file it is at, and a rule drops packets of its plan's networks only
\* (Sandbox::create, check, netchaos_egress).
InjectionIsConfined ==
    /\ ForeignUntouched
    /\ StopsInjecting
    /\ DropsAreConfined
=============================================================================
