----------------------------- MODULE MCLiveness -----------------------------
(***************************************************************************)
(* Progress of the runner registry and of a runner, one at a time: `part`  *)
(* says which, and the other stays as it started.                          *)
(***************************************************************************)
EXTENDS Naturals

CONSTANTS e1, e2, e3, e4, Endpoints, Pingers, Runs, NoRun

\* One runner; liveness is checked without symmetry.
Ids     == {1}
TagSets == {{}}
Targets == {1}
Epochs  == {e1, e2, e3, e4}

VARIABLES
    part,  \* "registry" or "runner"
    runners, requireRunner, disk, writer, probe, todo, round, ready, vouched,
    slot, worker, cancelled, expired, healthy, residue, receiver, event, net,
    client, aborting, sent, audit

Registry == INSTANCE RunnerRegistry
Service  == INSTANCE RunnerService

registryVars == <<runners, requireRunner, disk, writer, probe, todo, round, ready, vouched>>
serviceVars  == <<slot, worker, cancelled, expired, healthy, residue, receiver, event, net,
                  client, aborting, sent, audit>>
vars == <<part, registryVars, serviceVars>>

Init == part \in {"registry", "runner"} /\ Registry!Init /\ Service!Init

InRegistry(A) == part = "registry" /\ A /\ UNCHANGED <<part, serviceVars>>
InRunner(A)   == part = "runner" /\ A /\ UNCHANGED <<part, registryVars>>

Next == InRegistry(Registry!Next) \/ InRunner(Service!Next)

\* Fairness of both modules, each for its part.
RegistryFairness ==
    /\ WF_vars(InRegistry(Registry!UpdatePersist))
    /\ WF_vars(InRegistry(Registry!UpdatePublish))
    /\ WF_vars(InRegistry(Registry!WatchdogTick))
    /\ WF_vars(InRegistry(Registry!WatchdogProbe))
    /\ WF_vars(InRegistry(Registry!WatchdogRoundEnd))
    /\ \A p \in Registry!Probers :
          WF_vars(InRegistry(\E reply \in Registry!Replies : Registry!Answer(p, reply)))

RunnerFairness ==
    \A r \in Runs :
        /\ WF_vars(InRunner(Service!WorkerStep(r)))
        /\ WF_vars(InRunner(Service!Stops(r) /\ Service!InjectionEnds(r)))
        /\ WF_vars(InRunner(Service!Abandoned(r) /\ Service!LeaseExpires(r)))
        /\ WF_vars(InRunner(Service!Handle(r)))
        /\ SF_vars(InRunner(Service!SendCancel(r)))
        /\ SF_vars(InRunner(Service!Receive(r)))
        /\ SF_vars(InRunner(Service!CutOff(r) /\ Service!ClientFails(r)))

FairSpec == Init /\ [][Next]_vars /\ RegistryFairness /\ RunnerFairness

\* A registered runner that is not drained and answers well from some time on
\* is routed to from some time on (watchdog, update_heartbeat).
HealthyRunnerIsRouted == part = "registry" => Registry!HealthyRunnerIsRouted

\* A run whose dispatch task is gone stops on its runner (check(), LEASE).
OrphanStops == part = "runner" => Service!OrphanStops

\* A cancellation that was taken comes to an end (dispatch).
CancelEnds == part = "runner" => Service!CancelEnds
=============================================================================
