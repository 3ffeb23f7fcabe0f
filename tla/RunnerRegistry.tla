--------------------------- MODULE RunnerRegistry ---------------------------
(***************************************************************************)
(* The runner registry of the control plane: registry.rs with its durable  *)
(* snapshot (registry_store.rs), the watchdog that probes every runner     *)
(* (watchdog.rs) and the administrative handlers (runner_http.rs).         *)
(*                                                                         *)
(* A configuration request runs in three steps, because only the first and *)
(* the last hold the data lock: clone and mutate, write the snapshot, then *)
(* apply the same mutation to the live data.  A probe runs in two: take    *)
(* the record and a fresh epoch token, and, once the ping has answered or  *)
(* failed, apply the answer if the token is still the runner's.            *)
(***************************************************************************)
EXTENDS Naturals

CONSTANTS
    Ids,        \* runner identifiers; ordered, because routing breaks ties by id
    Endpoints,  \* runner addresses
    TagSets,    \* the tag lists an operator registers a runner with
    Targets,    \* the targets a caller may name: runner ids and tags
    Epochs,     \* addresses an epoch token (Arc<()>) can be allocated at
    Pingers     \* concurrent POST /runners/{id}/ping requests

ASSUME IdsAssumption == Ids \subseteq Nat

VARIABLES
    runners,        \* RegistryData.runners: the live records
    requireRunner,  \* RegistryData.require_runner
    disk,           \* the snapshot file
    writer,         \* the request that holds the writer lock
    probe,          \* probe[p]: the ping that prober p waits for
    todo,           \* the runners the watchdog's round has not come to
    round,          \* a watchdog round is under way
    ready,          \* the first round is over: the scheduler may start
    vouched         \* history: the endpoint whose healthy answer counts for a runner

regVars == <<runners, requireRunner>>
wdVars  == <<todo, round, ready>>
vars    == <<runners, requireRunner, disk, writer, probe, todo, round, ready,
             vouched>>

Cfg == INSTANCE RunnerConfig WITH config <- disk

-----------------------------------------------------------------------------
(* Data *)

Watchdog == "watchdog"
Probers  == Pingers \cup {Watchdog}

Absent == [status |-> "absent"]
Known(r) == r.status # "absent"

\* RegisteredRunner.  heartbeat: whether last_heartbeat_utc is Some.
RegisteredRunner ==
    [endpoint: Endpoints, tags: TagSets,
     status: {"active", "unresponsive", "draining"},
     heartbeat: {"none", "some"}, epoch: Epochs]

Request ==
    [kind: {"register"}, id: Ids, endpoint: Endpoints, tags: TagSets]
        \cup [kind: {"drain", "resume", "deregister"}, id: Ids]

NoRequest == [phase |-> "idle"]

NoProbe == [state |-> "idle"]
Pinging(p) == probe[p].state = "pinging"

\* RunnerProbe.  valid is history: no event has voided the runner's health
\* since the probe began.
RunnerProbe ==
    [state: {"pinging"}, id: Ids, endpoint: Endpoints, epoch: Epochs, valid: BOOLEAN]

-----------------------------------------------------------------------------
(* RegistryData: what a request does to one record *)

\* Mutant: a re-registration under a new address ends maintenance.
RegisterEndsDraining(old, q, e) ==
    LET same == Known(old) /\ old.endpoint = q.endpoint
    IN  [endpoint |-> q.endpoint, tags |-> q.tags,
         status |-> IF same /\ old.status # "draining" THEN old.status ELSE "unresponsive",
         heartbeat |-> IF same THEN old.heartbeat ELSE "none", epoch |-> e]

\* RegistryData::register, after RunnerRegistry::register cleared the health.
Register(old, q, e) ==
    LET same == Known(old) /\ old.endpoint = q.endpoint
    IN  [endpoint  |-> q.endpoint,
         tags      |-> q.tags,
         status    |-> IF same \/ old.status = "draining"
                       THEN old.status
                       ELSE "unresponsive",
         heartbeat |-> IF same THEN old.heartbeat ELSE "none",
         epoch     |-> e]

\* RegistryData::set_draining: a new token only when the state changes.
SetDraining(old, draining, e) ==
    IF ~Known(old) \/ (old.status = "draining") = draining
    THEN old
    ELSE IF draining
    THEN [old EXCEPT !.status = "draining", !.epoch = e]
    ELSE [old EXCEPT !.status = "unresponsive", !.heartbeat = "none", !.epoch = e]

Mutate(old, q, e) ==
    CASE q.kind = "register"   -> Register(old, q, e)
      [] q.kind = "drain"      -> SetDraining(old, TRUE, e)
      [] q.kind = "resume"     -> SetDraining(old, FALSE, e)
      [] q.kind = "deregister" -> Absent

\* Mutant: the flag follows the registered runners instead of sticking.
RequiresWhilePresent(q) ==
    \/ q.kind = "register"
    \/ \E i \in Ids : Known(runners[i]) /\ (q.kind = "deregister" => i # q.id)

Requires(q) == requireRunner \/ q.kind = "register"

-----------------------------------------------------------------------------
(* RegistrySnapshot *)

\* RegistrySnapshot::from_data
ToEntry(r) ==
    IF ~Known(r)
    THEN Cfg!NoEntry
    ELSE [state |-> IF r.status = "draining" THEN "draining" ELSE "serving",
          endpoint |-> r.endpoint, tags |-> r.tags]

Entries(rs) == [i \in Ids |-> ToEntry(rs[i])]

FromData(rs, require) == [require |-> require, runners |-> Entries(rs)]

\* Mutant: a runner restored from disk is taken for healthy.
RestoredActive(c, e) ==
    IF c = Cfg!NoEntry
    THEN Absent
    ELSE [endpoint |-> c.endpoint, tags |-> c.tags,
          status |-> IF c.state = "draining" THEN "draining" ELSE "active",
          heartbeat |-> "none", epoch |-> e]

\* RegistrySnapshot::into_data: health is unknown, maintenance is retained.
Restored(c, e) ==
    IF c = Cfg!NoEntry
    THEN Absent
    ELSE [endpoint |-> c.endpoint, tags |-> c.tags,
          status |-> IF c.state = "draining" THEN "draining" ELSE "unresponsive",
          heartbeat |-> "none", epoch |-> e]

IntoData(snapshot, e) == [i \in Ids |-> Restored(snapshot.runners[i], e)]

-----------------------------------------------------------------------------
(* Routing: RunnerRegistry::find_for_target and its use in                 *)
(* start_scenario_identified                                               *)

Active(i) == Known(runners[i]) /\ runners[i].status = "active"

\* want holds the target that the caller named, or nothing.
Wants == {{}} \cup {{t} : t \in Targets}

\* A named id that is registered never falls back to tags.
Candidates(want) ==
    LET exact == {i \in want \cap Ids : Known(runners[i])}
    IN  IF exact # {}
        THEN {i \in exact : Active(i)}
        ELSE {i \in Ids : Active(i) /\ want \subseteq runners[i].tags}

FindForTarget(want) ==
    {i \in Candidates(want) : \A j \in Candidates(want) : i <= j}

Mode(want) ==
    CASE FindForTarget(want) # {} -> "runner"
      [] FindForTarget(want) = {} /\ want # {} -> "target_not_found"
      [] FindForTarget(want) = {} /\ want = {} /\ requireRunner -> "no_active_runner"
      [] OTHER -> "simulated"

-----------------------------------------------------------------------------
(* Start and restart of the control plane: with_default, with_persistence  *)

\* Mutant: an in-flight probe does not keep its token alive.
FreshEpochsReused(i) ==
    {e \in Epochs : Known(runners[i]) => runners[i].epoch # e}

\* Epoch tokens are compared only between a runner and the probes of that
\* runner, and Arc::new returns an address that no live token has.
FreshEpochs(i) ==
    {e \in Epochs : /\ Known(runners[i]) => runners[i].epoch # e
                    /\ \A p \in Probers : (Pinging(p) /\ probe[p].id = i)
                                             => probe[p].epoch # e}

Boot(snapshot, e) ==
    /\ runners = IntoData(snapshot, e)
    /\ requireRunner = snapshot.require
    /\ writer = NoRequest
    /\ probe = [p \in Probers |-> NoProbe]
    /\ todo = {}
    /\ round = FALSE
    /\ ready = FALSE
    /\ vouched = [i \in Ids |-> {}]

Init ==
    /\ Cfg!Init
    /\ \E e \in Epochs : Boot(disk, e)

\* The process dies at any point, a snapshot write included (the rename is
\* atomic), and starts again from the file.
Crash ==
    /\ \E e \in Epochs :
          /\ runners' = IntoData(disk, e)
          /\ requireRunner' = disk.require
    /\ writer' = NoRequest
    /\ probe' = [p \in Probers |-> NoProbe]
    /\ todo' = {}
    /\ round' = FALSE
    /\ ready' = FALSE
    /\ vouched' = [i \in Ids |-> {}]
    /\ UNCHANGED disk

-----------------------------------------------------------------------------
(* RunnerRegistry::update *)

\* The token that the mutated clone carries; a snapshot has none.
CloneEpoch == CHOOSE e \in Epochs : TRUE

\* Under the writer lock: clone the live data and mutate the clone.
UpdateBegin(q) ==
    LET before == FromData(runners, requireRunner)
        next   == [runners EXCEPT ![q.id] = Mutate(@, q, CloneEpoch)]
        after  == FromData(next, Requires(q))
    IN  /\ writer = NoRequest
        /\ writer' = [phase |-> "persist", request |-> q,
                      after |-> after, changed |-> before # after]
        /\ UNCHANGED <<regVars, disk, probe, wdVars, vouched>>

\* RegistrySnapshot::write, when the configuration changed.
UpdatePersist ==
    /\ writer.phase = "persist"
    /\ disk' = IF writer.changed THEN writer.after ELSE disk
    /\ writer' = [writer EXCEPT !.phase = "publish"]
    /\ UNCHANGED <<regVars, probe, wdVars, vouched>>

\* The write failed: nothing is published, the caller gets the error.
UpdateFail ==
    /\ writer.phase = "persist"
    /\ writer.changed
    /\ writer' = NoRequest
    /\ UNCHANGED <<regVars, disk, probe, wdVars, vouched>>

\* The events after which an earlier answer says nothing about the runner.
Voids(old, new) ==
    \/ ~Known(old)
    \/ ~Known(new)
    \/ old.status = "draining" /\ new.status # "draining"

\* The same mutation on the live data.
UpdatePublish ==
    LET q == writer.request
        i == q.id
    IN  /\ writer.phase = "publish"
        /\ \E e \in FreshEpochs(i) :
              LET new == Mutate(runners[i], q, e)
              IN  /\ runners' = [runners EXCEPT ![i] = new]
                  /\ IF Voids(runners[i], new)
                     THEN /\ vouched' = [vouched EXCEPT ![i] = {}]
                          /\ probe' = [p \in Probers |->
                                         IF Pinging(p) /\ probe[p].id = i
                                         THEN [probe[p] EXCEPT !.valid = FALSE]
                                         ELSE probe[p]]
                     ELSE UNCHANGED <<vouched, probe>>
        /\ requireRunner' = Requires(q)
        /\ writer' = NoRequest
        /\ UNCHANGED <<disk, wdVars>>

-----------------------------------------------------------------------------
(* Probes *)

\* Mutant: a probe takes the runner's token instead of a new one.
BeginProbeSameToken(p, i) ==
    /\ probe' = [probe EXCEPT ![p] =
                   [state |-> "pinging", id |-> i, endpoint |-> runners[i].endpoint,
                    epoch |-> runners[i].epoch, valid |-> TRUE]]
    /\ UNCHANGED runners

\* RunnerRegistry::begin_probe: a new token fences every earlier probe.
BeginProbe(p, i) ==
    \E e \in FreshEpochs(i) :
        /\ runners' = [runners EXCEPT ![i].epoch = e]
        /\ probe' = [probe EXCEPT ![p] =
                       [state |-> "pinging", id |-> i, endpoint |-> runners[i].endpoint,
                        epoch |-> e, valid |-> TRUE]]

\* Mutant: an answer is matched to the runner by id alone.
FreshById(p) == Known(runners[probe[p].id])

\* Arc::ptr_eq on the tokens of the runner and of the probe.
Fresh(p) ==
    LET r == runners[probe[p].id]
    IN  Known(r) /\ r.epoch = probe[p].epoch

\* Mutant: an answer ends maintenance.
HeartbeatEndsDraining(r, healthy) ==
    [r EXCEPT !.status = IF healthy THEN "active" ELSE "unresponsive",
              !.heartbeat = "some"]

\* RunnerRegistry::update_heartbeat
Heartbeat(r, healthy) ==
    [r EXCEPT !.status = IF @ = "draining" THEN @
                         ELSE IF healthy THEN "active" ELSE "unresponsive",
              !.heartbeat = "some"]

\* Mutant: a failed ping leaves a status that no other code knows.
MarkUnknown(r) == [r EXCEPT !.status = "unknown"]

\* RunnerRegistry::mark_unresponsive
MarkUnresponsive(r) ==
    [r EXCEPT !.status = IF @ = "draining" THEN @ ELSE "unresponsive"]

\* ping_runner_handler up to the await
PingBegin(p, i) ==
    /\ ~Pinging(p)
    /\ Known(runners[i])
    /\ BeginProbe(p, i)
    /\ UNCHANGED <<requireRunner, disk, writer, wdVars, vouched>>

\* What a ping ends with: an answer, or an error or its deadline.
Replies == {"healthy", "unhealthy", "error"}

\* The ping of prober p ends, and what it learned is applied.
\* history: a healthy answer that counts names its endpoint.
Answer(p, reply) ==
    LET i     == probe[p].id
        new   == IF reply = "error"
                 THEN MarkUnresponsive(runners[i])
                 ELSE Heartbeat(runners[i], reply = "healthy")
    IN  /\ Pinging(p)
        /\ IF Fresh(p)
           THEN /\ runners' = [runners EXCEPT ![i] = new]
                /\ vouched' = [vouched EXCEPT ![i] =
                                 IF reply = "healthy" /\ probe[p].valid
                                 THEN {probe[p].endpoint}
                                 ELSE {}]
           ELSE UNCHANGED <<runners, vouched>>
        /\ probe' = [probe EXCEPT ![p] = NoProbe]
        /\ UNCHANGED <<requireRunner, disk, writer, wdVars>>

\* Mutant: a round takes only the runners in rotation.
WatchdogTickActive ==
    /\ ~round
    /\ round' = TRUE
    /\ todo' = {i \in Ids : Active(i)}
    /\ UNCHANGED <<regVars, disk, writer, probe, ready, vouched>>

\* spawn_watchdog: the interval ticks and the round takes the list of runners.
WatchdogTick ==
    /\ ~round
    /\ round' = TRUE
    /\ todo' = {i \in Ids : Known(runners[i])}
    /\ UNCHANGED <<regVars, disk, writer, probe, ready, vouched>>

\* The next runner of the list; one deregistered meanwhile is skipped.
WatchdogProbe ==
    /\ ~Pinging(Watchdog)
    /\ \E i \in todo :
          /\ \A j \in todo : i <= j
          /\ todo' = todo \ {i}
          /\ IF Known(runners[i])
             THEN BeginProbe(Watchdog, i)
             ELSE UNCHANGED <<runners, probe>>
    /\ UNCHANGED <<requireRunner, disk, writer, round, ready, vouched>>

\* The list is done; the first time, the scheduler is told.
WatchdogRoundEnd ==
    /\ round
    /\ todo = {}
    /\ ~Pinging(Watchdog)
    /\ round' = FALSE
    /\ ready' = TRUE
    /\ UNCHANGED <<regVars, disk, writer, probe, todo, vouched>>

-----------------------------------------------------------------------------
Next ==
    \/ Crash
    \/ \E q \in Request : UpdateBegin(q)
    \/ UpdatePersist
    \/ UpdateFail
    \/ UpdatePublish
    \/ \E p \in Pingers, i \in Ids : PingBegin(p, i)
    \/ \E p \in Probers, reply \in Replies : Answer(p, reply)
    \/ WatchdogTick
    \/ WatchdogProbe
    \/ WatchdogRoundEnd

Spec == Init /\ [][Next]_vars

\* The tokio tasks run, and a ping ends at the latest at its deadline.
\* Nothing is assumed of operators, callers, endpoints or crashes.
Fairness ==
    /\ WF_vars(UpdatePersist) /\ WF_vars(UpdatePublish)
    /\ WF_vars(WatchdogTick) /\ WF_vars(WatchdogProbe) /\ WF_vars(WatchdogRoundEnd)
    /\ \A p \in Probers : WF_vars(\E reply \in Replies : Answer(p, reply))

FairSpec == Spec /\ Fairness

-----------------------------------------------------------------------------
(* Properties *)

\* Every variable holds a value of its Rust type.
TypeOK ==
    /\ runners \in [Ids -> RegisteredRunner \cup {Absent}]
    /\ requireRunner \in BOOLEAN
    /\ disk \in Cfg!Config
    /\ writer \in {NoRequest}
          \cup [phase: {"persist", "publish"}, request: Request,
                after: Cfg!Config, changed: BOOLEAN]
    /\ probe \in [Probers -> RunnerProbe \cup {NoProbe}]
    /\ todo \in SUBSET Ids
    /\ round \in BOOLEAN
    /\ ready \in BOOLEAN
    /\ vouched \in [Ids -> SUBSET Endpoints]

\* "Resume requires a fresh healthy probe" (registry.rs:239) and "Its private
\* token prevents delayed replies from changing a replacement or resumed node"
\* (registry.rs:66): whatever target a caller names, the runner it is routed to
\* last answered healthy, from the address it has now, to a ping sent since it
\* was created, restored from disk or returned from maintenance.
RouteIsVouched ==
    \A want \in Wants : \A i \in FindForTarget(want) :
        /\ vouched[i] = {runners[i].endpoint}
        /\ runners[i].heartbeat = "some"

\* "Reapplying to live data preserves heartbeats received during the write"
\* (registry.rs:201): between two requests the live configuration is the file's,
\* and while one commits the file is never behind the live data, however probes,
\* failed writes and restarts interleave.
LiveMatchesDisk ==
    LET live == FromData(runners, requireRunner)
    IN  IF writer.phase = "publish" THEN disk = writer.after
        ELSE /\ disk = live
             /\ writer.phase = "persist" => (writer.changed <=> writer.after # live)

\* Of all the pings of one runner that are in flight, from the watchdog and
\* from callers, at most one can still change its record.
OneLiveProbe ==
    \A p, q \in Probers :
        /\ Pinging(p) /\ Pinging(q) /\ probe[p].id = probe[q].id
        /\ Fresh(p) /\ Fresh(q)
        => p = q

\* An overtaken ping stays overtaken: reuse of a freed token's address must not
\* bring it back to life.
StaleStaysStale ==
    [][\A p \in Probers :
          (/\ Pinging(p) /\ Pinging(p)'
           /\ probe'[p].epoch = probe[p].epoch /\ probe'[p].id = probe[p].id
           /\ ~Fresh(p)) => ~Fresh(p)']_vars

\* Maintenance ends by a resume or deregister request and by nothing else: not by
\* a probe's answer, a re-registration, a failed write or a restart.
MaintenanceIsSticky ==
    [][\A i \in Ids :
          (/\ Known(runners[i]) /\ runners[i].status = "draining"
           /\ ~(Known(runners'[i]) /\ runners'[i].status = "draining"))
          => /\ writer.phase = "publish"
             /\ writer.request.id = i
             /\ writer.request.kind \in {"resume", "deregister"}]_vars

\* "Sticky once configured: removing the final runner must not re-enable
\* simulation ..., including after restart" (registry.rs:83): after a runner was
\* registered no request is ever executed in the in-process simulation again.
NoSimulationFallback ==
    [][requireRunner => \A want \in Wants : Mode(want)' # "simulated"]_vars

\* The file follows the atomic configuration machine: probes, health, failed
\* writes and crashes at any point are invisible to it.
ConfigurationIsAtomic == Cfg!Spec

\* The process stays up, and nobody reconfigures or pings runners by hand.
Settled(i) ==
    /\ Known(runners[i])
    /\ runners[i].status # "draining"
    /\ writer = NoRequest
    /\ ready
    /\ \A p \in Pingers : ~Pinging(p)

AnswersWell(i) ==
    \A p \in Probers : (Pinging(p) /\ probe[p].id = i /\ ~Pinging(p)')
                         => Answer(p, "healthy")

\* A runner that is in service and from some time on answers healthy becomes and
\* stays routable: the watchdog comes back to it, and its own probes do not fence
\* each other out.
HealthyRunnerIsRouted ==
    \A i \in Ids :
        (<>[]Settled(i) /\ <>[][AnswersWell(i)]_vars) => <>[]Active(i)

=============================================================================
