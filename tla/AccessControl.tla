---------------------------- MODULE AccessControl ----------------------------
(***************************************************************************)
(* Who may launch and stop what: caller_role of api.rs, the matrix of      *)
(* Role::can, and the authorization of every handler that registers,       *)
(* schedules, launches, resumes or cancels an exercise.  Permissions are   *)
(* checked when a request arrives, but campaigns and schedules outlive it, *)
(* keep a role or take another one, and after a restart meet a catalog     *)
(* whose scenarios may have other categories or be gone.                   *)
(*                                                                         *)
(* CampaignExecution and Scheduler have the workers in detail; here a      *)
(* stage or a scheduled job is admitted in one step.                       *)
(***************************************************************************)
EXTENDS Naturals, Sequences, FiniteSets

CONSTANTS
    Catalogs,     \* what a start may load: scenario -> category
    Seeded,       \* CampaignCatalog::seeded(): campaign -> stages
    Payloads,     \* stages a caller may register, in any order
    RunIds,       \* bound: campaign runs kept
    Credentials,  \* what callers present
    Deployments,  \* "bearer", or "header" where ASMODEUS_ALLOW_ROLE_HEADER is set
    Times,        \* seconds the clock may show
    Scheduled,    \* bound: scenarios that get a schedule
    MaxActive     \* bound: exercises at a time

IsSequence(s) == s \in Seq({s[i] : i \in DOMAIN s})

\* Stages come in sequences, a bearer is well formed, malformed or missing, and
\* no campaign run is called like the other owners of exercises.
ASSUME InputsAssumption ==
    /\ \A n \in DOMAIN Seeded : IsSequence(Seeded[n])
    /\ \A p \in Payloads : IsSequence(p)
    /\ \A c \in Credentials : c.bearer \in {"token", "malformed", "none"}
    /\ RunIds \cap {"scheduler", "api"} = {}

VARIABLES
    deployment,
    catalog,    \* ScenarioCatalog of this process
    campaigns,  \* the campaigns registered, persistent
    job,        \* a schedule, persistent, or <<>>
    runs,       \* campaign runs, persistent; a worker is not
    active,     \* exercises in AppState::runs
    caller      \* the authenticated caller of the request at hand

accessVars == <<deployment, catalog, campaigns, job, runs, active, caller>>

-----------------------------------------------------------------------------
(* Identity *)

Roles == {"admin", "red_team", "devsecops", "ciso", "secops", "auditor"}
Leeway == 60

\* verified_apex_claims, then the role the claims name.
Verified(token, now) ==
    /\ token.alg = "HS256"
    /\ token.signer = "apex"
    /\ token.issuer = "apex"
    /\ token.audience = "apex"
    /\ token.claims = "complete"
    /\ token.iat <= now + Leeway
    /\ token.nbf <= now + Leeway
    /\ token.exp > now
    /\ token.role \in Roles

\* Without a bearer the header counts, where the deployment allows it.
CallerRoleElseHeader(credential, now) ==
    IF credential.bearer = "token" /\ Verified(credential.token, now)
    THEN credential.token.role
    ELSE IF deployment = "header" /\ credential.header \in Roles THEN credential.header
    ELSE "refused"
CallerRole(credential, now) ==
    CASE credential.bearer = "token" ->
            IF Verified(credential.token, now) THEN credential.token.role ELSE "refused"
      [] credential.bearer = "malformed" -> "refused"
      [] OTHER ->
            IF deployment = "header" /\ credential.header \in Roles
            THEN credential.header ELSE "refused"

\* Role::can.
Can(role, capability) ==
    \/ role = "admin"
    \/ role = "red_team" /\ capability \in {"RunRedTeam", "ViewReports", "ManageScenarios"}
    \/ role = "devsecops" /\ capability \in {"InjectChaos", "ViewReports", "ManageScenarios"}
    \/ capability = "ViewReports"

RequiredCapability(category) == IF category = "red_team" THEN "RunRedTeam" ELSE "InjectChaos"

MayLaunch(role, scenario) ==
    scenario \in DOMAIN catalog /\ Can(role, RequiredCapability(catalog[scenario]))

CanLaunchSome(role) == Can(role, "RunRedTeam") \/ Can(role, "InjectChaos")

-----------------------------------------------------------------------------
(* State *)

NoJob == <<>>
NoCaller == [role |-> "none"]
NoRun == [status |-> "NONE"]

\* One exercise per campaign worker, one of the scheduler and one of the API.
Owners == RunIds \cup {"scheduler", "api"}
NoExercise == [role |-> "none"]

InitWith(allowed, loaded) ==
    /\ deployment = allowed
    /\ catalog = loaded
    /\ campaigns = Seeded
    /\ job = NoJob
    /\ runs = [r \in RunIds |-> NoRun]
    /\ active = [o \in Owners |-> NoExercise]
    /\ caller = NoCaller

AccessInit == \E allowed \in Deployments, loaded \in Catalogs : InitWith(allowed, loaded)

Live(r) == runs[r] # NoRun /\ runs[r].worker # "none"
Busy == {o \in Owners : active[o] # NoExercise}

\* The head of every handler.
Authenticate(credential, now) ==
    /\ caller = NoCaller
    /\ CallerRole(credential, now) # "refused"
    /\ caller' = [role |-> CallerRole(credential, now), credential |-> credential, now |-> now]
    /\ UNCHANGED <<deployment, catalog, campaigns, job, runs, active>>

\* The end of a handler; one that refuses changes nothing else.
Answer == caller # NoCaller /\ caller' = NoCaller /\ UNCHANGED <<deployment, catalog>>

Refused == Answer /\ UNCHANGED <<campaigns, job, runs, active>>

-----------------------------------------------------------------------------
(* Campaigns *)

MayManageCampaigns(role) == Can(role, "ManageScenarios") \/ Can(role, "RunRedTeam")

\* The sort of the stages: at place n is the one that n - 1 others come before.
InOrder(payload) ==
    LET Before(i) == {j \in DOMAIN payload : payload[j].order < payload[i].order}
    IN  [n \in DOMAIN payload |->
            payload[CHOOSE i \in DOMAIN payload : Cardinality(Before(i)) = n - 1]]

\* CampaignCatalog::register and deregister.
Registered(name, steps) ==
    [n \in DOMAIN campaigns \cup {name} |-> IF n = name THEN steps ELSE campaigns[n]]
Deregistered(name) == [n \in DOMAIN campaigns \ {name} |-> campaigns[n]]

\* register_campaign: sorted by order, which is positive and unique.
RegisterCampaign(name, payload) ==
    /\ Answer
    /\ MayManageCampaigns(caller.role)
    /\ payload # <<>>
    /\ \A i \in DOMAIN payload :
          /\ payload[i].order > 0
          /\ \A j \in DOMAIN payload : payload[j].order = payload[i].order => j = i
          /\ MayLaunch(caller.role, payload[i].scenario)
    /\ campaigns' = Registered(name, [n \in DOMAIN payload |-> InOrder(payload)[n].scenario])
    /\ UNCHANGED <<job, runs, active>>

\* delete_campaign asks for no category.
DeleteCampaign(name) ==
    /\ Answer
    /\ MayManageCampaigns(caller.role)
    /\ name \in DOMAIN campaigns
    /\ campaigns' = Deregistered(name)
    /\ UNCHANGED <<job, runs, active>>

AuthorizeSome(steps, role) == CanLaunchSome(role)
Authorize(steps, role) == CanLaunchSome(role) /\ \A i \in DOMAIN steps : MayLaunch(role, steps[i])

\* A run keeps the stages as they were when it was requested.
RunCampaign(r, name) ==
    /\ Answer
    /\ runs[r] = NoRun
    /\ name \in DOMAIN campaigns
    /\ Authorize(campaigns[name], caller.role)
    /\ runs' = [runs EXCEPT ![r] = [campaign |-> name, steps |-> campaigns[name], next |-> 1,
                                    status |-> "RUNNING", worker |-> caller.role, cancel |-> "no"]]
    /\ UNCHANGED <<campaigns, job, active>>

\* resume_campaign_run: the worker takes the role of who resumes.
ResumeUnasked(r) ==
    /\ Answer
    /\ runs[r] # NoRun /\ ~Live(r)
    /\ runs[r].status \in {"INTERRUPTED", "CANCELLED"}
    /\ CanLaunchSome(caller.role)
    /\ runs' = [runs EXCEPT ![r] = [@ EXCEPT !.status = "RUNNING", !.worker = caller.role, !.cancel = "no"]]
    /\ UNCHANGED <<campaigns, job, active>>
ResumeCampaignRun(r) ==
    /\ Answer
    /\ runs[r] # NoRun /\ ~Live(r)
    /\ runs[r].status \in {"INTERRUPTED", "CANCELLED"}
    /\ Authorize(runs[r].steps, caller.role)
    /\ runs' = [runs EXCEPT ![r] = [@ EXCEPT !.status = "RUNNING", !.worker = caller.role, !.cancel = "no"]]
    /\ UNCHANGED <<campaigns, job, active>>

\* The stages the worker goes through: next_step of run.steps.
StepsNow(r) == IF runs[r].campaign \in DOMAIN campaigns THEN campaigns[runs[r].campaign] ELSE <<>>
Steps(r) == runs[r].steps

\* ActiveRun::cancel by a role, the last that asked, on the exercises of some owners.
CancelActive(owners) ==
    active' = [o \in Owners |->
                 IF o \in owners /\ active[o] # NoExercise
                 THEN [active[o] EXCEPT !.cancelled = caller.role] ELSE active[o]]

Flag(rs) == runs' = [r \in RunIds |-> IF r \in rs THEN [runs[r] EXCEPT !.cancel = "yes"] ELSE runs[r]]

\* request_cancel: the worker's control, and its exercise.
CancelCampaignRun(r) ==
    /\ Answer
    /\ runs[r] # NoRun /\ Live(r)
    /\ Authorize(runs[r].steps, caller.role)
    /\ Flag({r})
    /\ CancelActive({r})
    /\ UNCHANGED <<campaigns, job>>

-----------------------------------------------------------------------------
(* Schedules *)

MayManageSchedules(role) == Can(role, "ManageScenarios") \/ CanLaunchSome(role)

\* create_schedule: the job runs under the role of who creates it.  `consent`
\* records for the properties who last enabled it, and for what category.
Consent(enabled, scenario) ==
    IF enabled = "yes" THEN [by |-> caller.role, category |-> catalog[scenario]] ELSE [by |-> "none"]

CreateSchedule(scenario, enabled) ==
    /\ Answer
    /\ job = NoJob
    /\ MayManageSchedules(caller.role)
    /\ MayLaunch(caller.role, scenario)
    /\ job' = [scenario |-> scenario, role |-> caller.role, enabled |-> enabled,
               consent |-> Consent(enabled, scenario)]
    /\ UNCHANGED <<campaigns, runs, active>>

\* delete_schedule asks for no category.
DeleteSchedule ==
    /\ Answer
    /\ job # NoJob
    /\ MayManageSchedules(caller.role)
    /\ job' = NoJob
    /\ UNCHANGED <<campaigns, runs, active>>

\* toggle_schedule.
ToggleUnasked(enabled) ==
    /\ Answer
    /\ job # NoJob
    /\ MayManageSchedules(caller.role)
    /\ job.scenario \in DOMAIN catalog
    /\ job' = [job EXCEPT !.enabled = enabled, !.consent = Consent(enabled, job.scenario)]
    /\ UNCHANGED <<campaigns, runs, active>>
ToggleSchedule(enabled) ==
    /\ Answer
    /\ job # NoJob
    /\ MayManageSchedules(caller.role)
    /\ MayLaunch(caller.role, job.scenario)
    /\ job' = [job EXCEPT !.enabled = enabled, !.consent = Consent(enabled, job.scenario)]
    /\ UNCHANGED <<campaigns, runs, active>>

-----------------------------------------------------------------------------
(* Exercises *)

\* start_scenario_identified checks the role again, whoever asks.
AdmitsListed(role, scenario) == scenario \in DOMAIN catalog
Admits(role, scenario) == MayLaunch(role, scenario)

StartScenario(owner, scenario, role) ==
    /\ active[owner] = NoExercise
    /\ Cardinality(Busy) < MaxActive
    /\ Admits(role, scenario)
    /\ active' = [active EXCEPT ![owner] =
                     [role |-> role, scenario |-> scenario, category |-> catalog[scenario], cancelled |-> "none"]]

\* run_scenario.
RunScenario(scenario) ==
    /\ Answer
    /\ MayLaunch(caller.role, scenario)
    /\ StartScenario("api", scenario, caller.role)
    /\ UNCHANGED <<campaigns, job, runs>>

\* spawn_scheduler, for a job that is due and still enabled; a job that is
\* not admitted is recorded as FAILED.
FireSchedule ==
    /\ job # NoJob
    /\ job.enabled = "yes"
    /\ StartScenario("scheduler", job.scenario, job.role)
    /\ UNCHANGED <<deployment, catalog, campaigns, job, runs, caller>>

Finish(r, status) == runs' = [runs EXCEPT ![r] = [@ EXCEPT !.status = status, !.worker = "none"]]

\* execute: the next stage, or the end.  A stage may fail to start for reasons
\* that have nothing to do with permissions.
Stage(r) ==
    /\ Live(r)
    /\ active[r] = NoExercise
    /\ UNCHANGED <<deployment, catalog, campaigns, job, caller>>
    /\ \/ /\ runs[r].next > Len(Steps(r))
          /\ Finish(r, "COMPLETED")
          /\ UNCHANGED active
       \/ /\ runs[r].next <= Len(Steps(r))
          /\ runs[r].cancel = "yes"
          /\ Finish(r, "CANCELLED")
          /\ UNCHANGED active
       \/ /\ runs[r].next <= Len(Steps(r))
          /\ runs[r].cancel = "no"
          /\ StartScenario(r, Steps(r)[runs[r].next], runs[r].worker)
          /\ UNCHANGED runs
       \/ /\ runs[r].next <= Len(Steps(r))
          /\ runs[r].cancel = "no"
          /\ Finish(r, "FAILED")
          /\ UNCHANGED active

\* A stage that completed; a cancellation that came too late for it still
\* ends the campaign.
Passed(run) ==
    IF run.cancel = "yes"
    THEN [run EXCEPT !.next = @ + 1, !.status = "CANCELLED", !.worker = "none"]
    ELSE [run EXCEPT !.next = @ + 1]

\* The exercise ends: completed, cancelled, failed, or its record could not be
\* committed (INTERRUPTED); its campaign goes on
\* only after a stage that completed.
ExerciseEnds(o, status) ==
    /\ active[o] # NoExercise
    /\ status = "CANCELLED" => active[o].cancelled # "none"
    /\ active' = [active EXCEPT ![o] = NoExercise]
    /\ IF o \notin RunIds THEN UNCHANGED runs
       ELSE IF status # "COMPLETED" THEN Finish(o, status)
       ELSE runs' = [runs EXCEPT ![o] = Passed(@)]
    /\ UNCHANGED <<deployment, catalog, campaigns, job, caller>>

\* Of the exercise's category, as its record and its ActiveRun name it.
MayCancelAny(o) == CanLaunchSome(caller.role)
MayCancel(o) == Can(caller.role, RequiredCapability(active[o].category))

\* cancel_run.
CancelRun(o) ==
    /\ Answer
    /\ active[o] # NoExercise
    /\ MayCancel(o)
    /\ CancelActive({o})
    /\ UNCHANGED <<campaigns, job, runs>>

\* abort_all: the exercises of the caller's categories, then the campaigns it
\* could have launched, with their exercises.
AbortAll ==
    LET mine == {o \in Busy : MayCancel(o)}
        whole == {r \in RunIds : Live(r) /\ Authorize(runs[r].steps, caller.role)}
    IN  /\ Answer
        /\ CanLaunchSome(caller.role)
        /\ Flag(whole)
        /\ CancelActive(mine \cup whole)
        /\ UNCHANGED <<campaigns, job>>

-----------------------------------------------------------------------------
\* The process dies and starts again over another catalog; CampaignRunStore
\* loads a run that was under way as INTERRUPTED.
Restart ==
    /\ catalog' \in Catalogs
    /\ runs' = [r \in RunIds |->
                  IF runs[r] = NoRun THEN NoRun
                  ELSE [runs[r] EXCEPT !.status = IF @ = "RUNNING" THEN "INTERRUPTED" ELSE @,
                                       !.worker = "none", !.cancel = "no"]]
    /\ active' = [o \in Owners |-> NoExercise]
    /\ caller' = NoCaller
    /\ UNCHANGED <<deployment, campaigns, job>>

\* A request is answered before anything else moves: its authentication reads
\* nothing that the rest could change.
Handler ==
    \/ Refused
    \/ \E name \in DOMAIN Seeded, payload \in Payloads : RegisterCampaign(name, payload)
    \/ \E name \in DOMAIN Seeded : DeleteCampaign(name)
    \/ \E r \in RunIds, name \in DOMAIN Seeded : RunCampaign(r, name)
    \/ \E r \in RunIds : ResumeCampaignRun(r) \/ CancelCampaignRun(r)
    \/ \E scenario \in DOMAIN catalog \cap Scheduled, enabled \in {"yes", "no"} :
          CreateSchedule(scenario, enabled)
    \/ DeleteSchedule
    \/ \E enabled \in {"yes", "no"} : ToggleSchedule(enabled)
    \/ \E scenario \in DOMAIN catalog : RunScenario(scenario)
    \/ \E o \in Owners : CancelRun(o)
    \/ AbortAll

Between ==
    \/ \E credential \in Credentials, now \in Times : Authenticate(credential, now)
    \/ \E r \in RunIds : Stage(r)
    \/ FireSchedule
    \/ \E o \in Owners, status \in {"COMPLETED", "CANCELLED", "FAILED", "INTERRUPTED"} :
          ExerciseEnds(o, status)
    \/ Restart

AccessNext ==
    \/ caller # NoCaller /\ Handler
    \/ caller = NoCaller /\ Between

AccessSpec == AccessInit /\ [][AccessNext]_accessVars

-----------------------------------------------------------------------------
\* The role a request acts under is one that apex signed for this service and
\* that is valid now; it is the header's only where the deployment says so and
\* no bearer came with it, not even one that was refused (caller_role).
IdentityIsAuthentic ==
    caller # NoCaller =>
        LET c == caller.credential
        IN  \/ /\ c.bearer = "token"
               /\ c.token.signer = "apex" /\ c.token.alg = "HS256" /\ c.token.audience = "apex"
               /\ c.token.exp > caller.now
               /\ caller.role = c.token.role
            \/ /\ c.bearer = "none"
               /\ deployment = "header"
               /\ caller.role = c.header

\* Every exercise runs for a role that may launch its scenario under the
\* catalog in force, though its schedule or its campaign run was admitted
\* under an earlier one: a job whose scenario has changed category since is
\* not started under the role it kept (start_scenario_identified).
LaunchIsPermitted ==
    \A o \in Busy : /\ MayLaunch(active[o].role, active[o].scenario)
                    /\ catalog[active[o].scenario] = active[o].category

\* Campaigns are all or nothing: a worker has the permission for every stage
\* that is left, so none stops half way for want of it - also when another
\* role resumes the run, after a restart, or while its campaign is replaced
\* or deleted (authorize, and the stages that a run keeps).
CampaignAllOrNothing ==
    \A r \in RunIds : Live(r) =>
        \A i \in DOMAIN Steps(r) : i >= runs[r].next => MayLaunch(runs[r].worker, Steps(r)[i])

\* An exercise is cancelled only by roles that may launch its category,
\* whichever of cancel_run, cancel_campaign_run and abort_all they use.
CancelIsAuthorized ==
    \A o \in Busy : active[o].cancelled # "none" =>
        Can(active[o].cancelled, RequiredCapability(active[o].category))

\* A schedule that is enabled was enabled by a role that could launch its
\* scenario's category as it was then (create_schedule, toggle_schedule).
EnabledByPermission ==
    (job # NoJob /\ job.enabled = "yes") =>
        Can(job.consent.by, RequiredCapability(job.consent.category))

\* What is launched, resumed, cancelled and scheduled is so for a caller of this
\* service who may (caller_role, authorize, start_scenario_identified).
ExercisesArePermitted ==
    /\ IdentityIsAuthentic
    /\ LaunchIsPermitted
    /\ CampaignAllOrNothing
    /\ CancelIsAuthorized
    /\ EnabledByPermission
=============================================================================
