------------------------- MODULE AccessControlProofs -------------------------
(***************************************************************************)
(* Theorems about AccessControl, for every set of catalogs, credentials,   *)
(* payloads, campaign runs and moments.  Of the constants they assume that *)
(* what a caller registers and what is seeded are sequences of stages,     *)
(* that a credential comes with a bearer token, with a malformed one or    *)
(* with none, and that no campaign run is called like the other owners.    *)
(*                                                                         *)
(* The catalogs a restart loads come from snapshot files: the end of the   *)
(* module has the theorems about PersistentStore, for every set of         *)
(* updates, whichever of them leave the value as it is.                    *)
(***************************************************************************)
EXTENDS AccessControl, PersistentStore, SequenceTheorems, TLAPS

-----------------------------------------------------------------------------
(* The inductive invariant *)

\* Scenarios and categories that some start may know.
Known == UNION {DOMAIN c : c \in Catalogs}
Categories == UNION {{c[s] : s \in DOMAIN c} : c \in Catalogs}

Caller == [role : Roles, credential : Credentials, now : Times]
Exercise == [role : Roles, scenario : Known, category : Categories,
             cancelled : Roles \cup {"none"}]
Run == [campaign : DOMAIN Seeded, steps : Seq(Known), next : Nat \ {0},
        status : {"RUNNING", "COMPLETED", "CANCELLED", "FAILED", "INTERRUPTED"},
        worker : Roles \cup {"none"}, cancel : {"yes", "no"}]
Consents == [by : Roles, category : Categories] \cup {[by |-> "none"]}
Job == [scenario : Known, role : Roles, enabled : {"yes", "no"}, consent : Consents]

TypeOK ==
    /\ catalog \in Catalogs
    /\ \A n \in DOMAIN campaigns : n \in DOMAIN Seeded /\ IsSequence(campaigns[n])
    /\ job \in Job \cup {NoJob}
    /\ runs \in [RunIds -> Run \cup {NoRun}]
    /\ active \in [Owners -> Exercise \cup {NoExercise}]
    /\ caller \in Caller \cup {NoCaller}

\* LaunchIsPermitted and CancelIsAuthorized, of one exercise.
Permitted(o) ==
    active[o] # NoExercise =>
        /\ MayLaunch(active[o].role, active[o].scenario)
        /\ catalog[active[o].scenario] = active[o].category

Authorized(o) ==
    active[o] # NoExercise /\ active[o].cancelled # "none" =>
        Can(active[o].cancelled, RequiredCapability(active[o].category))

\* The exercise of a campaign run is the stage its worker is at: this is what
\* relates a permission for the campaign to its exercise.
AtStage(r) ==
    active[r] # NoExercise =>
        /\ Live(r)
        /\ runs[r].next \in DOMAIN runs[r].steps
        /\ active[r].scenario = runs[r].steps[runs[r].next]

\* CampaignAllOrNothing, of one campaign run.
AllOrNothing(r) ==
    Live(r) =>
        \A i \in DOMAIN runs[r].steps : i >= runs[r].next => MayLaunch(runs[r].worker, runs[r].steps[i])

ExerciseInv == \A o \in Owners : Permitted(o) /\ Authorized(o)
RunInv == \A r \in RunIds : AtStage(r) /\ AllOrNothing(r)

AccessInv ==
    /\ TypeOK
    /\ IdentityIsAuthentic
    /\ ExerciseInv
    /\ RunInv
    /\ EnabledByPermission

-----------------------------------------------------------------------------
(* Sequences of stages *)

\* The places of a sequence of stages.
LEMMA SequenceHas ==
    ASSUME NEW s, IsSequence(s)
    PROVE  Len(s) \in Nat /\ DOMAIN s = 1..Len(s)
BY DEF IsSequence

\* What has the places of a sequence is a sequence.
LEMMA PlacesMakeSequence ==
    ASSUME NEW s, IsSequence(s), NEW t, t = [n \in DOMAIN s |-> t[n]]
    PROVE  IsSequence(t)
<1> DEFINE T == {t[i] : i \in DOMAIN t}
<1>1. Len(s) \in Nat /\ DOMAIN s = 1..Len(s)
  BY SequenceHas
<1>2. t \in [1..Len(s) -> T]
  BY <1>1
<1>3. t \in Seq(T)
  BY <1>1, <1>2, SeqDef
<1> QED
  BY <1>3 DEF IsSequence

\* A sequence of stages that a caller may launch is one of known scenarios.
LEMMA LaunchableIsKnown ==
    ASSUME catalog \in Catalogs, NEW s, IsSequence(s), NEW role,
           \A i \in DOMAIN s : MayLaunch(role, s[i])
    PROVE  s \in Seq(Known)
<1>1. \A i \in DOMAIN s : s[i] \in Known
  BY DEF MayLaunch, Known
<1>2. Len(s) \in Nat /\ DOMAIN s = 1..Len(s)
  BY SequenceHas
<1>3. s \in [1..Len(s) -> Known]
  <2>1. s \in Seq({s[i] : i \in DOMAIN s})
    BY DEF IsSequence
  <2> QED
    BY <2>1, <1>1, <1>2
<1> QED
  BY <1>2, <1>3, SeqDef

-----------------------------------------------------------------------------
(* The records of the state *)

\* Whoever is not idle runs an exercise, for a role.
LEMMA NotIdle ==
    ASSUME TypeOK, NEW o \in Owners, active[o] # NoExercise
    PROVE  /\ active[o] \in Exercise
           /\ active[o].role \in Roles /\ active[o].cancelled \in Roles \cup {"none"}
BY DEF TypeOK, Exercise

\* An exercise is never taken for none.
LEMMA ExerciseIsNotIdle ==
    ASSUME NEW e \in Exercise
    PROVE  e # NoExercise
BY DEF Exercise, NoExercise, Roles

\* A stored campaign run has known stages and a place among them.
LEMMA KnownRun ==
    ASSUME TypeOK, NEW r \in RunIds, runs[r] # NoRun
    PROVE  /\ runs[r] \in Run /\ runs[r].steps \in Seq(Known) /\ runs[r].next \in Nat \ {0}
           /\ runs[r].worker \in Roles \cup {"none"}
           /\ DOMAIN runs[r].steps = 1..Len(runs[r].steps) /\ Len(runs[r].steps) \in Nat
<1>1. runs[r] \in Run
  BY DEF TypeOK
<1>2. /\ runs[r].steps \in Seq(Known) /\ runs[r].next \in Nat \ {0}
      /\ runs[r].worker \in Roles \cup {"none"}
  BY <1>1 DEF Run
<1> QED
  BY <1>1, <1>2

\* A campaign run is never taken for none.
LEMMA RunIsARun ==
    ASSUME NEW run \in Run
    PROVE  run # NoRun
BY DEF Run, NoRun

\* A request that was authenticated carries a role.
LEMMA RequesterHasRole ==
    ASSUME TypeOK, caller # NoCaller
    PROVE  caller \in Caller /\ caller.role \in Roles
BY DEF TypeOK, Caller

\* A scenario that may be launched is one of the catalog in force.
LEMMA LaunchableIsListed ==
    ASSUME catalog \in Catalogs, NEW role, NEW scenario, MayLaunch(role, scenario)
    PROVE  /\ scenario \in DOMAIN catalog /\ scenario \in Known
           /\ catalog[scenario] \in Categories
           /\ Can(role, RequiredCapability(catalog[scenario]))
<1>1. scenario \in DOMAIN catalog /\ Can(role, RequiredCapability(catalog[scenario]))
  BY DEF MayLaunch
<1>2. catalog[scenario] \in {catalog[s] : s \in DOMAIN catalog}
  BY <1>1
<1> QED
  BY <1>1, <1>2 DEF Known, Categories

-----------------------------------------------------------------------------
(* Parts of the invariant that a step does not touch *)

\* What a step leaves alone keeps its part of the invariant: exercises,
LEMMA ExercisesKept ==
    ASSUME ExerciseInv, UNCHANGED <<catalog, active>>
    PROVE  ExerciseInv'
BY DEF ExerciseInv, Permitted, Authorized, MayLaunch

\* campaign runs,
LEMMA RunsKept ==
    ASSUME RunInv, UNCHANGED <<catalog, active, runs>>
    PROVE  RunInv'
BY DEF RunInv, AtStage, AllOrNothing, Live, MayLaunch

\* the schedule,
LEMMA EnabledKept ==
    ASSUME EnabledByPermission, UNCHANGED job
    PROVE  EnabledByPermission'
BY DEF EnabledByPermission

\* Every handler ends with its answer.
LEMMA AnsweredIsAuthentic ==
    ASSUME caller' = NoCaller
    PROVE  IdentityIsAuthentic'
BY DEF IdentityIsAuthentic

\* and the caller.
LEMMA IdentityKept ==
    ASSUME IdentityIsAuthentic, UNCHANGED <<caller, deployment>>
    PROVE  IdentityIsAuthentic'
BY DEF IdentityIsAuthentic

-----------------------------------------------------------------------------
(* The first state *)

\* The invariant holds at the start, with the seeded campaigns.
LEMMA InitAccess ==
    ASSUME AccessInit
    PROVE  AccessInv
<1>1. PICK allowed \in Deployments, loaded \in Catalogs : InitWith(allowed, loaded)
  BY DEF AccessInit
<1>2. TypeOK
  BY InputsAssumption, <1>1 DEF InitWith, TypeOK
<1>3. IdentityIsAuthentic
  BY <1>1 DEF InitWith, IdentityIsAuthentic
<1>4. \A o \in Owners : active[o] = NoExercise
  BY <1>1 DEF InitWith
<1>5. \A r \in RunIds : r \in Owners /\ runs[r] = NoRun
  BY <1>1 DEF InitWith, Owners
<1>6. ExerciseInv
  BY <1>4 DEF ExerciseInv, Permitted, Authorized
<1>7. RunInv
  BY <1>4, <1>5 DEF RunInv, AtStage, AllOrNothing, Live
<1>8. EnabledByPermission
  BY <1>1 DEF InitWith, EnabledByPermission
<1> QED
  BY <1>2, <1>3, <1>6, <1>7, <1>8 DEF AccessInv

-----------------------------------------------------------------------------
(* Requests *)

\* The role of a request is the token's, of apex, or the header's.
LEMMA AuthenticateAccess ==
    ASSUME AccessInv, NEW credential \in Credentials, NEW now \in Times,
           Authenticate(credential, now)
    PROVE  AccessInv'
<1>1. /\ CallerRole(credential, now) # "refused"
      /\ caller' = [role |-> CallerRole(credential, now), credential |-> credential, now |-> now]
      /\ UNCHANGED <<deployment, catalog, campaigns, job, runs, active>>
  BY DEF Authenticate
<1>2. \/ /\ credential.bearer = "token" /\ Verified(credential.token, now)
         /\ CallerRole(credential, now) = credential.token.role
      \/ /\ credential.bearer # "token" /\ credential.bearer # "malformed"
         /\ deployment = "header" /\ credential.header \in Roles
         /\ CallerRole(credential, now) = credential.header
  BY <1>1 DEF CallerRole
<1> QED
  <2>1. TypeOK'
    <3>1. caller' \in Caller
      BY <1>1, <1>2 DEF Caller, Verified
    <3> QED
      BY <3>1, <1>1 DEF AccessInv, TypeOK
  <2>2. IdentityIsAuthentic'
    <3>1. caller'.credential = credential /\ caller'.now = now /\ deployment' = deployment
      BY <1>1
    <3>2. caller'.role = CallerRole(credential, now)
      BY <1>1
    <3> QED
      BY InputsAssumption, <3>1, <3>2, <1>2 DEF IdentityIsAuthentic, Verified
  <2> QED
    BY <2>1, <2>2, <1>1, ExercisesKept, RunsKept, EnabledKept DEF AccessInv

\* A handler that refuses.
LEMMA RefusedAccess ==
    ASSUME AccessInv, Refused
    PROVE  AccessInv'
<1>1. caller' = NoCaller /\ UNCHANGED <<deployment, catalog, campaigns, job, runs, active>>
  BY DEF Refused, Answer
<1>2. TypeOK'
  BY <1>1 DEF AccessInv, TypeOK
<1> QED
  BY <1>1, <1>2, ExercisesKept, RunsKept, EnabledKept, AnsweredIsAuthentic DEF AccessInv

-----------------------------------------------------------------------------
(* Campaigns *)

\* Campaigns that are registered are sequences of stages; runs have their own.
LEMMA RegisterAccess ==
    ASSUME AccessInv, NEW name \in DOMAIN Seeded, NEW payload \in Payloads,
           RegisterCampaign(name, payload)
    PROVE  AccessInv'
<1> DEFINE stages == [n \in DOMAIN payload |-> InOrder(payload)[n].scenario]
<1>1. /\ caller' = NoCaller /\ UNCHANGED <<deployment, catalog, job, runs, active>>
      /\ campaigns' = Registered(name, stages)
  BY DEF RegisterCampaign, Answer
<1>2. IsSequence(stages)
  <2>1. IsSequence(payload) /\ stages = [n \in DOMAIN payload |-> stages[n]]
    BY InputsAssumption
  <2> HIDE DEF stages
  <2> QED
    BY <2>1, PlacesMakeSequence
<1> HIDE DEF stages
<1>3. \A n \in DOMAIN campaigns' : n \in DOMAIN Seeded /\ IsSequence(campaigns'[n])
  BY <1>1, <1>2 DEF Registered, AccessInv, TypeOK
<1>4. TypeOK'
  BY <1>1, <1>3 DEF AccessInv, TypeOK
<1> QED
  BY <1>1, <1>4, ExercisesKept, RunsKept, EnabledKept, AnsweredIsAuthentic DEF AccessInv

\* Deleting a definition leaves the runs that started from it alone.
LEMMA DeleteCampaignAccess ==
    ASSUME AccessInv, NEW name \in DOMAIN Seeded, DeleteCampaign(name)
    PROVE  AccessInv'
<1>1. /\ caller' = NoCaller /\ UNCHANGED <<deployment, catalog, job, runs, active>>
      /\ campaigns' = Deregistered(name)
  BY DEF DeleteCampaign, Answer
<1>2. \A n \in DOMAIN campaigns' : n \in DOMAIN Seeded /\ IsSequence(campaigns'[n])
  BY <1>1 DEF Deregistered, AccessInv, TypeOK
<1>3. TypeOK'
  BY <1>1, <1>2 DEF AccessInv, TypeOK
<1> QED
  BY <1>1, <1>3, ExercisesKept, RunsKept, EnabledKept, AnsweredIsAuthentic DEF AccessInv


-----------------------------------------------------------------------------
(* Schedules *)

\* The consent recorded is that of a role which may launch the scenario.
LEMMA ConsentGiven ==
    ASSUME TypeOK, caller # NoCaller, NEW enabled \in {"yes", "no"}, NEW scenario,
           MayLaunch(caller.role, scenario)
    PROVE  /\ Consent(enabled, scenario) \in Consents
           /\ enabled = "yes" =>
                 Can(Consent(enabled, scenario).by, RequiredCapability(Consent(enabled, scenario).category))
<1>1. caller.role \in Roles
  BY RequesterHasRole
<1>2. catalog[scenario] \in Categories /\ Can(caller.role, RequiredCapability(catalog[scenario]))
  BY LaunchableIsListed DEF TypeOK
<1>3. CASE enabled = "yes"
  <2>1. Consent(enabled, scenario) = [by |-> caller.role, category |-> catalog[scenario]]
    BY <1>3 DEF Consent
  <2> QED
    BY <2>1, <1>1, <1>2 DEF Consents
<1>4. CASE enabled = "no"
  BY <1>4 DEF Consent, Consents
<1> QED
  BY <1>3, <1>4

\* A job of which only the state and the consent may be new.
LEMMA JobAccess ==
    ASSUME AccessInv, caller' = NoCaller, job' \in Job \cup {NoJob}, EnabledByPermission',
           UNCHANGED <<deployment, catalog, campaigns, runs, active>>
    PROVE  AccessInv'
<1>1. TypeOK'
  BY DEF AccessInv, TypeOK
<1> QED
  BY <1>1, ExercisesKept, RunsKept, AnsweredIsAuthentic DEF AccessInv

\* A schedule is created enabled only for a role that may launch it
\* (create_schedule).
LEMMA CreateAccess ==
    ASSUME AccessInv, NEW scenario, NEW enabled \in {"yes", "no"},
           CreateSchedule(scenario, enabled)
    PROVE  AccessInv'
<1> DEFINE consent == Consent(enabled, scenario)
<1>1. /\ caller # NoCaller /\ caller' = NoCaller /\ MayLaunch(caller.role, scenario)
      /\ UNCHANGED <<deployment, catalog, campaigns, runs, active>>
      /\ job' = [scenario |-> scenario, role |-> caller.role, enabled |-> enabled, consent |-> consent]
  BY DEF CreateSchedule, Answer
<1>2. caller.role \in Roles /\ scenario \in Known
  BY <1>1, RequesterHasRole, LaunchableIsListed DEF AccessInv, TypeOK
<1>3. /\ consent \in Consents
      /\ enabled = "yes" => Can(consent.by, RequiredCapability(consent.category))
  BY <1>1, ConsentGiven DEF AccessInv
<1> HIDE DEF consent
<1>4. job' \in Job
  BY <1>1, <1>2, <1>3 DEF Job
<1>5. EnabledByPermission'
  BY <1>1, <1>3 DEF EnabledByPermission
<1> QED
  BY <1>1, <1>4, <1>5, JobAccess

\* Without a schedule there is nothing to be permitted.
LEMMA DeleteScheduleAccess ==
    ASSUME AccessInv, DeleteSchedule
    PROVE  AccessInv'
<1>1. /\ caller' = NoCaller /\ job' = NoJob
      /\ UNCHANGED <<deployment, catalog, campaigns, runs, active>>
  BY DEF DeleteSchedule, Answer
<1>2. EnabledByPermission'
  BY <1>1 DEF EnabledByPermission
<1> QED
  BY <1>1, <1>2, JobAccess

\* Enabling asks the role that enables, for the category of today
\* (toggle_schedule).
LEMMA ToggleAccess ==
    ASSUME AccessInv, NEW enabled \in {"yes", "no"}, ToggleSchedule(enabled)
    PROVE  AccessInv'
<1> DEFINE consent == Consent(enabled, job.scenario)
<1>1. /\ caller # NoCaller /\ caller' = NoCaller /\ MayLaunch(caller.role, job.scenario)
      /\ UNCHANGED <<deployment, catalog, campaigns, runs, active>>
      /\ job # NoJob /\ job' = [job EXCEPT !.enabled = enabled, !.consent = consent]
  BY DEF ToggleSchedule, Answer
<1>2. job \in Job
  BY <1>1 DEF AccessInv, TypeOK
<1>3. /\ consent \in Consents
      /\ enabled = "yes" => Can(consent.by, RequiredCapability(consent.category))
  BY <1>1, ConsentGiven DEF AccessInv
<1> HIDE DEF consent
<1>4. job' \in Job /\ job'.enabled = enabled /\ job'.consent = consent
  BY <1>1, <1>2, <1>3 DEF Job
<1>5. EnabledByPermission'
  BY <1>4, <1>3 DEF EnabledByPermission
<1> QED
  BY <1>1, <1>4, <1>5, JobAccess

-----------------------------------------------------------------------------
(* One exercise or one campaign run moves *)

\* A step that touches one owner has to show its invariant for that owner only.
LEMMA OneExercise ==
    ASSUME TypeOK, ExerciseInv, catalog' = catalog, NEW o \in Owners, NEW e,
           active' = [active EXCEPT ![o] = e], Permitted(o)', Authorized(o)'
    PROVE  ExerciseInv'
<1>1. \A q \in Owners : q # o => active'[q] = active[q]
  BY DEF TypeOK
<1>2. \A q \in Owners : q # o => Permitted(q)' /\ Authorized(q)'
  BY <1>1 DEF ExerciseInv, Permitted, Authorized, MayLaunch
<1> QED
  BY <1>2 DEF ExerciseInv

\* The same for one campaign run.
LEMMA OneRun ==
    ASSUME TypeOK, RunInv, catalog' = catalog, NEW r \in RunIds,
           \A q \in RunIds : q # r => runs'[q] = runs[q] /\ active'[q] = active[q],
           AtStage(r)', AllOrNothing(r)'
    PROVE  RunInv'
<1>1. \A q \in RunIds : q # r => AtStage(q)' /\ AllOrNothing(q)'
  BY DEF RunInv, AtStage, AllOrNothing, Live, MayLaunch
<1> QED
  BY <1>1 DEF RunInv

\* A run that stays what it is, or is flagged, while its exercise may end.
LEMMA RunsFollow ==
    ASSUME RunInv, catalog' = catalog,
           \A r \in RunIds :
              active'[r] # NoExercise => active[r] # NoExercise /\ active'[r].scenario = active[r].scenario,
           \A r \in RunIds :
              /\ runs'[r] # NoRun <=> runs[r] # NoRun
              /\ runs[r] # NoRun => /\ runs'[r].worker = runs[r].worker
                                    /\ runs'[r].steps = runs[r].steps
                                    /\ runs'[r].next = runs[r].next
    PROVE  RunInv'
<1> SUFFICES ASSUME NEW r \in RunIds PROVE AtStage(r)' /\ AllOrNothing(r)'
  BY DEF RunInv
<1>1. AtStage(r) /\ AllOrNothing(r)
  BY DEF RunInv
<1>2. Live(r)' <=> Live(r)
  BY DEF Live
<1>3. Live(r) => /\ runs'[r].worker = runs[r].worker /\ runs'[r].steps = runs[r].steps
                 /\ runs'[r].next = runs[r].next
  BY DEF Live
<1>4. AtStage(r)'
  BY <1>1, <1>2, <1>3 DEF AtStage
<1>5. AllOrNothing(r)'
  BY <1>1, <1>2, <1>3 DEF AllOrNothing, MayLaunch
<1> QED
  BY <1>4, <1>5

-----------------------------------------------------------------------------
(* Campaign runs are requested and resumed *)

\* A run that begins, or goes on under the role of who resumes it, with the
\* stages that its caller may launch.
LEMMA BeginRunAccess ==
    ASSUME AccessInv, NEW r \in RunIds, NEW run \in Run,
           caller' = NoCaller, UNCHANGED <<deployment, catalog, campaigns, job, active>>,
           ~Live(r), runs' = [runs EXCEPT ![r] = run], Authorize(run.steps, run.worker)
    PROVE  AccessInv'
<1>1. r \in Owners /\ active[r] = NoExercise
  BY DEF AccessInv, RunInv, AtStage, Owners
<1>2. runs' \in [RunIds -> Run \cup {NoRun}] /\ runs'[r] = run
      /\ \A q \in RunIds : q # r => runs'[q] = runs[q] /\ active'[q] = active[q]
  BY DEF AccessInv, TypeOK
<1>3. TypeOK'
  BY <1>2 DEF AccessInv, TypeOK
<1>4. AtStage(r)'
  BY <1>1 DEF AtStage
<1>5. AllOrNothing(r)'
  BY <1>2 DEF AllOrNothing, Authorize, MayLaunch
<1>6. RunInv'
  BY <1>2, <1>4, <1>5, OneRun DEF AccessInv
<1> QED
  BY <1>3, <1>6, ExercisesKept, EnabledKept, AnsweredIsAuthentic DEF AccessInv

\* run_campaign asks for every stage before the run exists.
LEMMA RunCampaignAccess ==
    ASSUME AccessInv, NEW r \in RunIds, NEW name, RunCampaign(r, name)
    PROVE  AccessInv'
<1> DEFINE run == [campaign |-> name, steps |-> campaigns[name], next |-> 1,
                   status |-> "RUNNING", worker |-> caller.role, cancel |-> "no"]
<1>1. /\ caller # NoCaller /\ caller' = NoCaller /\ runs[r] = NoRun
      /\ name \in DOMAIN campaigns /\ Authorize(campaigns[name], caller.role)
      /\ UNCHANGED <<deployment, catalog, campaigns, job, active>>
      /\ runs' = [runs EXCEPT ![r] = run]
  BY DEF RunCampaign, Answer
<1>2. caller.role \in Roles
  BY <1>1, RequesterHasRole DEF AccessInv
<1>3. name \in DOMAIN Seeded /\ IsSequence(campaigns[name]) /\ catalog \in Catalogs
  BY <1>1 DEF AccessInv, TypeOK
<1>4. campaigns[name] \in Seq(Known)
  BY <1>1, <1>3, LaunchableIsKnown DEF Authorize
<1>5. run \in Run
  BY <1>2, <1>3, <1>4 DEF Run
<1>6. run.steps = campaigns[name] /\ run.worker = caller.role /\ ~Live(r)
  BY <1>1 DEF Live
<1> HIDE DEF run
<1> QED
  BY <1>1, <1>5, <1>6, BeginRunAccess

\* resume_campaign_run asks for the stages that are left.
LEMMA ResumeAccess ==
    ASSUME AccessInv, NEW r \in RunIds, ResumeCampaignRun(r)
    PROVE  AccessInv'
<1> DEFINE run == [runs[r] EXCEPT !.status = "RUNNING", !.worker = caller.role, !.cancel = "no"]
<1>1. /\ caller # NoCaller /\ caller' = NoCaller /\ runs[r] # NoRun /\ ~Live(r)
      /\ Authorize(runs[r].steps, caller.role)
      /\ UNCHANGED <<deployment, catalog, campaigns, job, active>>
  BY DEF ResumeCampaignRun, Answer
<1>2. runs' = [runs EXCEPT ![r] = run]
  BY DEF ResumeCampaignRun
<1>3. caller.role \in Roles /\ runs[r] \in Run
  BY <1>1, RequesterHasRole, KnownRun DEF AccessInv
<1>4. run \in Run /\ run.steps = runs[r].steps /\ run.worker = caller.role
  BY <1>3 DEF Run
<1> HIDE DEF run
<1> QED
  BY <1>1, <1>2, <1>4, BeginRunAccess


-----------------------------------------------------------------------------
(* Exercises start and end *)

\* start_scenario_identified: the role may launch what it starts.
LEMMA StartExercise ==
    ASSUME TypeOK, ExerciseInv, catalog' = catalog, NEW o \in Owners, NEW scenario,
           NEW role \in Roles, StartScenario(o, scenario, role)
    PROVE  /\ active' \in [Owners -> Exercise \cup {NoExercise}]
           /\ ExerciseInv'
           /\ active'[o].scenario = scenario
           /\ \A q \in Owners : q # o => active'[q] = active[q]
<1> DEFINE e == [role |-> role, scenario |-> scenario, category |-> catalog[scenario],
                 cancelled |-> "none"]
<1>1. MayLaunch(role, scenario) /\ active' = [active EXCEPT ![o] = e]
  BY DEF StartScenario, Admits
<1>2. scenario \in Known /\ catalog[scenario] \in Categories
  BY <1>1, LaunchableIsListed DEF TypeOK
<1>3. e \in Exercise /\ e.role = role /\ e.scenario = scenario /\ e.cancelled = "none"
      /\ e.category = catalog[scenario]
  BY <1>2 DEF Exercise
<1> HIDE DEF e
<1>4. /\ active' \in [Owners -> Exercise \cup {NoExercise}] /\ active'[o] = e
      /\ \A q \in Owners : q # o => active'[q] = active[q]
  BY <1>1, <1>3 DEF TypeOK
<1>5. Permitted(o)'
  BY <1>1, <1>3, <1>4 DEF Permitted, MayLaunch
<1>6. Authorized(o)'
  BY <1>3, <1>4 DEF Authorized
<1>7. ExerciseInv'
  BY <1>1, <1>5, <1>6, OneExercise
<1> QED
  BY <1>3, <1>4, <1>7

\* An exercise of the API or the scheduler is no campaign's.
LEMMA OtherStartAccess ==
    ASSUME AccessInv, NEW o \in {"scheduler", "api"}, NEW scenario,
           NEW role \in Roles, StartScenario(o, scenario, role),
           UNCHANGED <<deployment, catalog, campaigns, job, runs>>,
           caller' \in {caller, NoCaller}
    PROVE  AccessInv'
<1>1. o \in Owners /\ o \notin RunIds /\ RunIds \subseteq Owners
  BY InputsAssumption DEF Owners
<1>2. /\ active' \in [Owners -> Exercise \cup {NoExercise}] /\ ExerciseInv'
      /\ \A q \in Owners : q # o => active'[q] = active[q]
  BY <1>1, StartExercise DEF AccessInv
<1>3. TypeOK'
  BY <1>2 DEF AccessInv, TypeOK
<1>4. RunInv'
  <2>1. \A r \in RunIds : active'[r] = active[r]
    BY <1>1, <1>2
  <2> QED
    BY <2>1, RunsFollow DEF AccessInv
<1>5. IdentityIsAuthentic'
  BY IdentityKept, AnsweredIsAuthentic DEF AccessInv
<1> QED
  BY <1>2, <1>3, <1>4, <1>5, EnabledKept DEF AccessInv

\* run_scenario asks before it starts.
LEMMA RunScenarioAccess ==
    ASSUME AccessInv, NEW scenario, RunScenario(scenario)
    PROVE  AccessInv'
<1>1. /\ caller # NoCaller /\ caller' = NoCaller /\ StartScenario("api", scenario, caller.role)
      /\ UNCHANGED <<deployment, catalog, campaigns, job, runs>>
  BY DEF RunScenario, Answer
<1>2. caller.role \in Roles
  BY <1>1, RequesterHasRole DEF AccessInv
<1> QED
  BY <1>1, <1>2, OtherStartAccess

\* The scheduler starts with the role that consented, if it still may.
LEMMA FireAccess ==
    ASSUME AccessInv, FireSchedule
    PROVE  AccessInv'
<1>1. /\ job # NoJob /\ StartScenario("scheduler", job.scenario, job.role)
      /\ UNCHANGED <<deployment, catalog, campaigns, job, runs, caller>>
  BY DEF FireSchedule
<1>2. job.role \in Roles
  BY <1>1 DEF AccessInv, TypeOK, Job
<1> QED
  BY <1>1, <1>2, OtherStartAccess

\* A run that ends has no worker and no exercise.
LEMMA FinishRun ==
    ASSUME TypeOK, NEW r \in RunIds, runs[r] # NoRun,
           NEW status \in {"COMPLETED", "CANCELLED", "FAILED", "INTERRUPTED"}, Finish(r, status)
    PROVE  /\ runs' \in [RunIds -> Run \cup {NoRun}]
           /\ ~Live(r)'
           /\ \A q \in RunIds : q # r => runs'[q] = runs[q]
<1> DEFINE run == [runs[r] EXCEPT !.status = status, !.worker = "none"]
<1>1. runs[r] \in Run /\ runs' = [runs EXCEPT ![r] = run]
  BY KnownRun DEF Finish
<1>2. run \in Run /\ run.worker = "none"
  BY <1>1 DEF Run
<1> HIDE DEF run
<1>3. /\ runs' \in [RunIds -> Run \cup {NoRun}] /\ runs'[r] = run
      /\ \A q \in RunIds : q # r => runs'[q] = runs[q]
  BY <1>1, <1>2 DEF TypeOK
<1> QED
  BY <1>2, <1>3 DEF Live

\* A stage starts under the role of the worker, which may launch all that is left;
\* or the run ends.
LEMMA StageAccess ==
    ASSUME AccessInv, NEW r \in RunIds, Stage(r)
    PROVE  AccessInv'
<1>1. /\ Live(r) /\ runs[r] # NoRun /\ active[r] = NoExercise
      /\ UNCHANGED <<deployment, catalog, campaigns, job, caller>>
  BY DEF Stage, Live
<1>2. /\ runs[r] \in Run /\ runs[r].worker \in Roles /\ runs[r].next \in Nat \ {0}
      /\ DOMAIN runs[r].steps = 1..Len(runs[r].steps) /\ Len(runs[r].steps) \in Nat
      /\ r \in Owners /\ RunIds \subseteq Owners
  BY <1>1, KnownRun DEF AccessInv, Live, Owners
<1>3. CASE /\ \E status \in {"COMPLETED", "CANCELLED", "FAILED"} : Finish(r, status)
           /\ UNCHANGED active
  <2>1. /\ runs' \in [RunIds -> Run \cup {NoRun}] /\ ~Live(r)'
        /\ \A q \in RunIds : q # r => runs'[q] = runs[q] /\ active'[q] = active[q]
    BY <1>1, <1>3, FinishRun DEF AccessInv
  <2>2. TypeOK'
    BY <1>1, <1>3, <2>1 DEF AccessInv, TypeOK
  <2>3. AtStage(r)' /\ AllOrNothing(r)'
    BY <1>1, <1>3, <2>1 DEF AtStage, AllOrNothing
  <2>4. RunInv'
    BY <1>1, <2>1, <2>3, OneRun DEF AccessInv
  <2> QED
    BY <1>1, <1>3, <2>2, <2>4, ExercisesKept, EnabledKept, IdentityKept DEF AccessInv
<1>4. CASE /\ runs[r].next <= Len(Steps(r)) /\ UNCHANGED runs
           /\ StartScenario(r, Steps(r)[runs[r].next], runs[r].worker)
  <2>1. /\ active' \in [Owners -> Exercise \cup {NoExercise}] /\ ExerciseInv'
        /\ active'[r].scenario = runs[r].steps[runs[r].next]
        /\ \A q \in Owners : q # r => active'[q] = active[q]
    BY <1>1, <1>2, <1>4, StartExercise DEF AccessInv, Steps
  <2>2. TypeOK'
    BY <1>1, <1>4, <2>1 DEF AccessInv, TypeOK
  <2>3. AtStage(r)'
    BY <1>1, <1>2, <1>4, <2>1 DEF AtStage, Live, Steps
  <2>4. AllOrNothing(r)'
    BY <1>1, <1>4 DEF AccessInv, RunInv, AllOrNothing, Live, MayLaunch
  <2>5. RunInv'
    BY <1>1, <1>2, <1>4, <2>1, <2>3, <2>4, OneRun DEF AccessInv
  <2> QED
    BY <1>1, <2>1, <2>2, <2>5, EnabledKept, IdentityKept DEF AccessInv
<1> QED
  BY <1>3, <1>4 DEF Stage

\* A stage that completed leaves fewer to permit.
LEMMA PassedRun ==
    ASSUME NEW run \in Run
    PROVE  /\ Passed(run) \in Run
           /\ Passed(run).steps = run.steps /\ Passed(run).next = run.next + 1
           /\ Passed(run).worker \in {run.worker, "none"}
<1>1. run.next \in Nat /\ run.next + 1 \in Nat \ {0}
  BY DEF Run
<1>2. CASE run.cancel = "yes"
  BY <1>1, <1>2 DEF Passed, Run
<1>3. CASE run.cancel # "yes"
  BY <1>1, <1>3 DEF Passed, Run
<1> QED
  BY <1>2, <1>3

\* The end of an exercise takes its campaign run to the next stage or to its
\* end.
LEMMA EndsAccess ==
    ASSUME AccessInv, NEW o \in Owners,
           NEW status \in {"COMPLETED", "CANCELLED", "FAILED", "INTERRUPTED"},
           ExerciseEnds(o, status)
    PROVE  AccessInv'
<1>1. /\ active[o] # NoExercise /\ active' = [active EXCEPT ![o] = NoExercise]
      /\ UNCHANGED <<deployment, catalog, campaigns, job, caller>>
  BY DEF ExerciseEnds
<1>2. /\ active' \in [Owners -> Exercise \cup {NoExercise}] /\ active'[o] = NoExercise
      /\ \A q \in Owners : q # o => active'[q] = active[q]
  BY <1>1 DEF AccessInv, TypeOK
<1>3. ExerciseInv'
  BY <1>1, <1>2, OneExercise DEF AccessInv, Permitted, Authorized
<1>4. runs' \in [RunIds -> Run \cup {NoRun}] /\ RunInv'
  <2>0. RunIds \subseteq Owners
    BY DEF Owners
  <2>1. CASE o \notin RunIds
    <3>1. runs' = runs /\ \A r \in RunIds : active'[r] = active[r]
      BY <2>0, <2>1, <1>2 DEF ExerciseEnds
    <3> QED
      BY <3>1, <1>1, RunsFollow DEF AccessInv, TypeOK
  <2>2. CASE o \in RunIds
    <3>1. AtStage(o)'
      BY <1>2 DEF AtStage
    <3>2. Live(o) /\ runs[o] # NoRun /\ runs[o] \in Run /\ AllOrNothing(o)
      BY <2>2, <1>1, KnownRun DEF AccessInv, RunInv, AtStage, Live
    <3>3. CASE status # "COMPLETED"
      <4>1. /\ runs' \in [RunIds -> Run \cup {NoRun}] /\ ~Live(o)'
            /\ \A q \in RunIds : q # o => runs'[q] = runs[q] /\ active'[q] = active[q]
        BY <2>0, <2>2, <3>2, <3>3, <1>2, FinishRun DEF AccessInv, ExerciseEnds
      <4>2. AllOrNothing(o)'
        BY <4>1 DEF AllOrNothing
      <4> QED
        BY <2>2, <3>1, <4>1, <4>2, <1>1, OneRun DEF AccessInv
    <3>4. CASE status = "COMPLETED"
      <4> DEFINE run == Passed(runs[o])
      <4>1. runs' = [runs EXCEPT ![o] = run]
        BY <2>2, <3>4 DEF ExerciseEnds
      <4>2. /\ run \in Run /\ run.steps = runs[o].steps /\ run.next = runs[o].next + 1
            /\ run.worker \in {runs[o].worker, "none"}
        BY <3>2, PassedRun
      <4> HIDE DEF run
      <4>3. /\ runs' \in [RunIds -> Run \cup {NoRun}] /\ runs'[o] = run
            /\ \A q \in RunIds : q # o => runs'[q] = runs[q] /\ active'[q] = active[q]
        BY <2>0, <2>2, <4>1, <4>2, <1>2 DEF AccessInv, TypeOK
      <4>4. AllOrNothing(o)'
        <5>1. /\ DOMAIN runs[o].steps = 1..Len(runs[o].steps) /\ runs[o].next \in Nat
              /\ Len(runs[o].steps) \in Nat
          BY <2>2, <3>2, KnownRun DEF AccessInv
        <5> SUFFICES ASSUME run.worker = runs[o].worker, NEW i \in DOMAIN runs[o].steps,
                            i >= runs[o].next + 1
                     PROVE  MayLaunch(runs[o].worker, runs[o].steps[i])'
          BY <4>2, <4>3 DEF AllOrNothing, Live, MayLaunch
        <5>2. i >= runs[o].next
          BY <5>1
        <5> QED
          BY <5>2, <3>2, <1>1, <4>2, <4>3 DEF AllOrNothing, MayLaunch
      <4> QED
        BY <2>2, <3>1, <4>3, <4>4, <1>1, OneRun DEF AccessInv
    <3> QED
      BY <3>3, <3>4
  <2> QED
    BY <2>1, <2>2
<1>5. TypeOK'
  BY <1>1, <1>2, <1>4 DEF AccessInv, TypeOK
<1> QED
  BY <1>1, <1>3, <1>4, <1>5, EnabledKept, IdentityKept DEF AccessInv


-----------------------------------------------------------------------------
(* Exercises and campaigns are cancelled *)

\* Cancelling what the caller may leaves every exercise what it was, but for who
\* asked for its end.
LEMMA CancelExercises ==
    ASSUME TypeOK, ExerciseInv, catalog' = catalog, caller # NoCaller,
           NEW owners, CancelActive(owners),
           \A o \in Owners : o \in owners /\ active[o] # NoExercise =>
              Can(caller.role, RequiredCapability(active[o].category))
    PROVE  /\ active' \in [Owners -> Exercise \cup {NoExercise}]
           /\ ExerciseInv'
           /\ \A o \in Owners : active'[o] # NoExercise =>
                 active[o] # NoExercise /\ active'[o].scenario = active[o].scenario
<1>1. caller.role \in Roles
  BY RequesterHasRole
<1> DEFINE new(o) == IF o \in owners /\ active[o] # NoExercise
                     THEN [active[o] EXCEPT !.cancelled = caller.role] ELSE active[o]
<1>2. active' = [o \in Owners |-> new(o)]
  BY DEF CancelActive
<1>3. ASSUME NEW o \in Owners, active[o] # NoExercise
      PROVE  /\ active'[o] \in Exercise
             /\ active'[o].role = active[o].role /\ active'[o].scenario = active[o].scenario
             /\ active'[o].category = active[o].category
             /\ IF o \in owners THEN active'[o].cancelled = caller.role
                ELSE active'[o].cancelled = active[o].cancelled
  <2>1. active[o] \in Exercise
    BY <1>3, NotIdle
  <2>2. CASE o \in owners
    <3>1. active'[o] = [active[o] EXCEPT !.cancelled = caller.role]
      BY <1>2, <1>3, <2>2
    <3> QED
      BY <3>1, <2>1, <2>2, <1>1 DEF Exercise
  <2>3. CASE o \notin owners
    BY <1>2, <1>3, <2>1, <2>3
  <2> QED
    BY <2>2, <2>3
<1>4. \A o \in Owners : active[o] = NoExercise => active'[o] = NoExercise
  BY <1>2
<1>5. active' \in [Owners -> Exercise \cup {NoExercise}]
  <2>1. \A o \in Owners : active'[o] \in Exercise \cup {NoExercise}
    BY <1>3, <1>4
  <2>2. active' = [o \in Owners |-> active'[o]]
    BY <1>2
  <2> QED
    BY <2>1, <2>2
<1>6. ASSUME NEW o \in Owners PROVE Permitted(o)' /\ Authorized(o)'
  <2>1. CASE active[o] = NoExercise
    BY <2>1, <1>4 DEF Permitted, Authorized
  <2>2. CASE active[o] # NoExercise
    <3>1. Permitted(o) /\ Authorized(o)
      BY DEF ExerciseInv
    <3>2. Permitted(o)'
      BY <3>1, <2>2, <1>3 DEF Permitted, MayLaunch
    <3>3. Authorized(o)'
      BY <3>1, <2>2, <1>3 DEF Authorized
    <3> QED
      BY <3>2, <3>3
  <2> QED
    BY <2>1, <2>2
<1>7. ExerciseInv'
  BY <1>6 DEF ExerciseInv
<1> QED
  BY <1>3, <1>4, <1>5, <1>7

\* A run that is flagged goes on as it was.
LEMMA FlagRuns ==
    ASSUME TypeOK, NEW rs, Flag(rs), \A r \in RunIds : r \in rs => runs[r] # NoRun
    PROVE  /\ runs' \in [RunIds -> Run \cup {NoRun}]
           /\ \A r \in RunIds :
                 /\ runs'[r] # NoRun <=> runs[r] # NoRun
                 /\ runs[r] # NoRun => /\ runs'[r].worker = runs[r].worker
                                       /\ runs'[r].steps = runs[r].steps
                                       /\ runs'[r].next = runs[r].next
<1>1. runs' = [r \in RunIds |-> IF r \in rs THEN [runs[r] EXCEPT !.cancel = "yes"] ELSE runs[r]]
  BY DEF Flag
<1>2. ASSUME NEW r \in RunIds
      PROVE  /\ runs'[r] \in Run \cup {NoRun}
             /\ runs'[r] # NoRun <=> runs[r] # NoRun
             /\ runs[r] # NoRun => /\ runs'[r].worker = runs[r].worker
                                   /\ runs'[r].steps = runs[r].steps
                                   /\ runs'[r].next = runs[r].next
  <2>1. CASE r \in rs
    <3> DEFINE run == [runs[r] EXCEPT !.cancel = "yes"]
    <3>1. runs[r] # NoRun /\ runs[r] \in Run /\ runs'[r] = run
      BY <1>1, <2>1, KnownRun
    <3>2. /\ run \in Run /\ run.worker = runs[r].worker
          /\ run.steps = runs[r].steps /\ run.next = runs[r].next
      BY <3>1 DEF Run
    <3> HIDE DEF run
    <3> QED
      BY <3>1, <3>2, RunIsARun
  <2>2. CASE r \notin rs
    BY <1>1, <2>2 DEF TypeOK
  <2> QED
    BY <2>1, <2>2
<1>3. runs' \in [RunIds -> Run \cup {NoRun}]
  <2>1. \A r \in RunIds : runs'[r] \in Run \cup {NoRun}
    BY <1>2
  <2>2. runs' = [r \in RunIds |-> runs'[r]]
    BY <1>1
  <2> QED
    BY <2>1, <2>2
<1> QED
  BY <1>2, <1>3

\* Who may launch every stage of a campaign may cancel the exercise it is at.
LEMMA MayCancelStage ==
    ASSUME AccessInv, NEW r \in RunIds, Authorize(runs[r].steps, caller.role), active[r] # NoExercise
    PROVE  Can(caller.role, RequiredCapability(active[r].category))
<1>1. runs[r].next \in DOMAIN runs[r].steps /\ active[r].scenario = runs[r].steps[runs[r].next]
  BY DEF AccessInv, RunInv, AtStage
<1>2. MayLaunch(caller.role, active[r].scenario)
  BY <1>1 DEF Authorize
<1>3. catalog[active[r].scenario] = active[r].category
  BY DEF AccessInv, ExerciseInv, Permitted, Owners
<1> QED
  BY <1>2, <1>3 DEF MayLaunch

\* A handler that flags campaigns and cancels exercises.
LEMMA CancelAccess ==
    ASSUME AccessInv, NEW rs, NEW owners, caller # NoCaller, caller' = NoCaller,
           UNCHANGED <<deployment, catalog, campaigns, job>>,
           \/ runs' = runs
           \/ Flag(rs) /\ \A r \in RunIds : r \in rs => runs[r] # NoRun,
           CancelActive(owners),
           \A o \in Owners : o \in owners /\ active[o] # NoExercise =>
              Can(caller.role, RequiredCapability(active[o].category))
    PROVE  AccessInv'
<1>1. /\ active' \in [Owners -> Exercise \cup {NoExercise}]
      /\ ExerciseInv'
      /\ \A o \in Owners : active'[o] # NoExercise =>
            active[o] # NoExercise /\ active'[o].scenario = active[o].scenario
  BY CancelExercises DEF AccessInv
<1>2. /\ runs' \in [RunIds -> Run \cup {NoRun}]
      /\ \A r \in RunIds :
            /\ runs'[r] # NoRun <=> runs[r] # NoRun
            /\ runs[r] # NoRun => /\ runs'[r].worker = runs[r].worker
                                  /\ runs'[r].steps = runs[r].steps
                                  /\ runs'[r].next = runs[r].next
  BY FlagRuns DEF AccessInv, TypeOK
<1>3. TypeOK'
  BY <1>1, <1>2 DEF AccessInv, TypeOK
<1>4. RunInv'
  BY <1>1, <1>2, RunsFollow DEF AccessInv, Owners
<1> QED
  BY <1>1, <1>3, <1>4, EnabledKept, AnsweredIsAuthentic DEF AccessInv

\* cancel_campaign_run cancels the stage that runs, for a role that may.
LEMMA CancelCampaignAccess ==
    ASSUME AccessInv, NEW r \in RunIds, CancelCampaignRun(r)
    PROVE  AccessInv'
<1>1. /\ caller # NoCaller /\ caller' = NoCaller
      /\ runs[r] # NoRun /\ Authorize(runs[r].steps, caller.role)
      /\ Flag({r}) /\ CancelActive({r})
      /\ UNCHANGED <<deployment, catalog, campaigns, job>>
  BY DEF CancelCampaignRun, Answer
<1>2. \A o \in Owners : o \in {r} /\ active[o] # NoExercise =>
         Can(caller.role, RequiredCapability(active[o].category))
  BY <1>1, MayCancelStage
<1>3. \A q \in RunIds : q \in {r} => runs[q] # NoRun
  BY <1>1
<1> QED
  BY <1>1, <1>2, <1>3, CancelAccess

\* cancel_run asks for the category of the exercise.
LEMMA CancelRunAccess ==
    ASSUME AccessInv, NEW o \in Owners, CancelRun(o)
    PROVE  AccessInv'
<1>1. /\ caller # NoCaller /\ caller' = NoCaller /\ CancelActive({o})
      /\ Can(caller.role, RequiredCapability(active[o].category))
      /\ UNCHANGED <<deployment, catalog, campaigns, job, runs>>
  BY DEF CancelRun, Answer, MayCancel
<1>2. \A q \in Owners : q \in {o} /\ active[q] # NoExercise =>
         Can(caller.role, RequiredCapability(active[q].category))
  BY <1>1
<1> QED
  BY <1>1, <1>2, CancelAccess

\* Aborting everything is cancelling what the caller may: exercises of its
\* categories, and campaigns it could launch.
LEMMA AbortAccess ==
    ASSUME AccessInv, AbortAll
    PROVE  AccessInv'
<1> DEFINE mine == {o \in Busy : MayCancel(o)}
           whole == {r \in RunIds : Live(r) /\ Authorize(runs[r].steps, caller.role)}
<1>1. /\ caller # NoCaller /\ caller' = NoCaller /\ Flag(whole) /\ CancelActive(mine \cup whole)
      /\ UNCHANGED <<deployment, catalog, campaigns, job>>
  BY DEF AbortAll, Answer
<1>2. ASSUME NEW o \in Owners, o \in mine \cup whole, active[o] # NoExercise
      PROVE  Can(caller.role, RequiredCapability(active[o].category))
  BY <1>2, MayCancelStage DEF MayCancel
<1>3. \A r \in RunIds : r \in whole => runs[r] # NoRun
  BY DEF Live
<1> HIDE DEF mine, whole
<1> QED
  BY <1>1, <1>2, <1>3, CancelAccess

-----------------------------------------------------------------------------
(* Restarts *)

\* No exercise and no worker outlives the process; runs keep their stages and
\* jobs their role and their consent.
LEMMA RestartAccess ==
    ASSUME AccessInv, Restart
    PROVE  AccessInv'
<1>1. /\ catalog' \in Catalogs /\ active' = [o \in Owners |-> NoExercise] /\ caller' = NoCaller
      /\ UNCHANGED <<deployment, campaigns, job>>
  BY DEF Restart
<1>2. ASSUME NEW r \in RunIds
      PROVE  runs'[r] \in Run \cup {NoRun} /\ ~Live(r)'
  <2>1. CASE runs[r] = NoRun
    <3>1. runs'[r] = NoRun
      BY <2>1 DEF Restart
    <3> QED
      BY <3>1 DEF Live
  <2>2. CASE runs[r] # NoRun
    <3>1. runs[r] \in Run
      BY <2>2, KnownRun DEF AccessInv
    <3>2. runs'[r] = [runs[r] EXCEPT
                        !.status = IF runs[r].status = "RUNNING" THEN "INTERRUPTED" ELSE runs[r].status,
                        !.worker = "none", !.cancel = "no"]
      BY <2>2 DEF Restart
    <3>3. runs'[r] \in Run /\ runs'[r].worker = "none"
      BY <3>1, <3>2 DEF Run
    <3> QED
      BY <3>3 DEF Live
  <2> QED
    BY <2>1, <2>2
<1>3. runs' \in [RunIds -> Run \cup {NoRun}]
  <2>1. runs' = [r \in RunIds |-> runs'[r]]
    BY DEF Restart
  <2>2. \A r \in RunIds : runs'[r] \in Run \cup {NoRun}
    BY <1>2
  <2> QED
    BY <2>1, <2>2
<1>4. TypeOK'
  BY <1>1, <1>3 DEF AccessInv, TypeOK
<1>5. \A o \in Owners : active'[o] = NoExercise
  BY <1>1
<1>6. ExerciseInv'
  BY <1>5 DEF ExerciseInv, Permitted, Authorized
<1>7. RunInv'
  BY <1>2, <1>5 DEF RunInv, AtStage, AllOrNothing, Owners
<1> QED
  BY <1>1, <1>4, <1>6, <1>7, EnabledKept, AnsweredIsAuthentic DEF AccessInv

-----------------------------------------------------------------------------
(* Permissions *)

\* Every handler keeps the invariant,
LEMMA HandlerAccess ==
    ASSUME AccessInv, Handler
    PROVE  AccessInv'
BY RefusedAccess, RegisterAccess, DeleteCampaignAccess, RunCampaignAccess, ResumeAccess,
   CancelCampaignAccess, CreateAccess, DeleteScheduleAccess, ToggleAccess, RunScenarioAccess,
   CancelRunAccess, AbortAccess DEF Handler

\* everything that happens between two requests does,
LEMMA BetweenAccess ==
    ASSUME AccessInv, Between
    PROVE  AccessInv'
BY AuthenticateAccess, StageAccess, FireAccess, EndsAccess, RestartAccess DEF Between

\* and so does every step.
LEMMA AccessIsInductive ==
    ASSUME AccessInv, [AccessNext]_accessVars
    PROVE  AccessInv'
<1>1. CASE AccessNext
  BY <1>1, HandlerAccess, BetweenAccess DEF AccessNext
<1>2. CASE UNCHANGED accessVars
  <2>1. UNCHANGED <<deployment, catalog, campaigns, job, runs, active, caller>>
    BY <1>2 DEF accessVars
  <2>2. TypeOK'
    BY <2>1 DEF AccessInv, TypeOK
  <2> QED
    BY <2>1, <2>2, ExercisesKept, RunsKept, EnabledKept, IdentityKept DEF AccessInv
<1> QED
  BY <1>1, <1>2

\* What is permitted of every exercise and of every campaign run.
LEMMA AccessIsPermitted ==
    ASSUME AccessInv
    PROVE  ExercisesArePermitted
<1>1. LaunchIsPermitted
  BY DEF AccessInv, ExerciseInv, Permitted, LaunchIsPermitted, Busy
<1>2. CancelIsAuthorized
  BY DEF AccessInv, ExerciseInv, Authorized, CancelIsAuthorized, Busy
<1>3. CampaignAllOrNothing
  BY DEF AccessInv, RunInv, AllOrNothing, CampaignAllOrNothing, Steps
<1> QED
  BY <1>1, <1>2, <1>3 DEF AccessInv, ExercisesArePermitted

\* Whatever requests, restarts over other catalogs and replaced campaigns come
\* between: every exercise runs, and is cancelled, for a caller of this service who
\* may, a campaign has the permission for all its stages, and a schedule was
\* enabled by one who could launch it (caller_role, authorize,
\* start_scenario_identified, cancel_run, abort_all, toggle_schedule).
THEOREM AccessCorrect == AccessSpec => []ExercisesArePermitted
<1>1. AccessInit => AccessInv
  BY InitAccess
<1>2. AccessInv /\ [AccessNext]_accessVars => AccessInv'
  BY AccessIsInductive
<1>3. AccessInv => ExercisesArePermitted
  BY AccessIsPermitted
<1> QED
  BY <1>1, <1>2, <1>3, PTL DEF AccessSpec

-----------------------------------------------------------------------------
(* Snapshots: the inductive invariant *)

Loadable == {Absent} \cup {Whole(v) : v \in SUBSET Updates}

Transaction ==
    [step: {"open", "write", "sync", "rename", "publish"}, next: SUBSET Updates, update: Updates]

\* The file is replaced only by a whole one, and so is what it may go back to.
FileInv ==
    /\ snapshot \in former /\ former \subseteq Loadable
    /\ value \in SUBSET Updates
    /\ program \in {"down", "up"}
    /\ transaction \in Transaction \cup {NoTransaction}
    /\ answer \in [Updates -> {"none", "waiting", "left", "done", "failed"}]

\* The transaction at work extends the value that is served by its own update.
WriterInv ==
    /\ program = "down" => value = {} /\ transaction = NoTransaction
    /\ program = "up" /\ transaction.step # "publish" => value = snapshot.value
    /\ transaction # NoTransaction =>
          /\ answer[transaction.update] \in {"waiting", "left"}
          /\ \/ transaction.next = value \cup {transaction.update}
             \/ transaction.update \in Ineffective /\ transaction.next = value
          /\ transaction.step \in {"sync", "rename"} => tmp = Whole(transaction.next)
          /\ transaction.step = "publish" => transaction.next = snapshot.value

\* No file, present or former, has update u.
Untouched(u) == u \notin value /\ \A f \in former : u \notin f.value

AnswerInv ==
    \A u \in Updates :
        /\ answer[u] = "waiting" => transaction # NoTransaction /\ transaction.update = u
        /\ answer[u] = "done" /\ u \notin Ineffective =>
              IF program = "up" THEN u \in value ELSE u \in snapshot.value
        /\ answer[u] \in {"none", "failed"} /\ u \notin Ineffective =>
              Untouched(u) /\ (transaction # NoTransaction => u \notin transaction.next)
        /\ /\ transaction # NoTransaction /\ transaction.update = u
           /\ transaction.step # "publish" /\ u \notin Ineffective
           => Untouched(u)

StoreInv == FileInv /\ WriterInv /\ AnswerInv

-----------------------------------------------------------------------------
(* Files and transactions *)

\* A file of Loadable is loaded, and gives a set of updates.
LEMMA LoadableIsLoaded ==
    ASSUME NEW f \in Loadable
    PROVE  f.state # "partial" /\ f.value \in SUBSET Updates
BY DEF Loadable, Absent, Whole

\* A transaction has a step of its own and says what it is about.
LEMMA TransactionFields ==
    ASSUME FileInv, transaction # NoTransaction
    PROVE  /\ transaction \in Transaction
           /\ transaction.step \in {"open", "write", "sync", "rename", "publish"}
           /\ transaction.next \in SUBSET Updates /\ transaction.update \in Updates
           /\ program \in {"down", "up"}
BY DEF FileInv, Transaction

\* A transaction at work has not been told to anyone yet, and an advance of it
\* changes nothing but its step.
LEMMA AdvanceMoves ==
    ASSUME FileInv, NEW from, NEW to \in {"open", "write", "sync", "rename", "publish"},
           from # "none", Advance(from, to)
    PROVE  /\ transaction # NoTransaction /\ transaction.step = from
           /\ transaction' \in Transaction /\ transaction' # NoTransaction
           /\ transaction'.step = to /\ transaction'.next = transaction.next
           /\ transaction'.update = transaction.update
<1>1. transaction # NoTransaction
  BY DEF Advance, NoTransaction
<1>2. transaction \in Transaction
  BY <1>1, TransactionFields
<1>3. transaction' \in Transaction /\ transaction'.step = to
  BY <1>2 DEF Advance, Transaction
<1>4. transaction' # NoTransaction
  BY <1>3 DEF NoTransaction
<1>5. transaction'.next = transaction.next /\ transaction'.update = transaction.update
  BY <1>2 DEF Advance, Transaction
<1> QED
  BY <1>1, <1>3, <1>4, <1>5 DEF Advance

-----------------------------------------------------------------------------
(* The first process finds no file *)

\* At the start there is no file and no process.
LEMMA InitStore == SnapshotInit => StoreInv
<1> SUFFICES ASSUME SnapshotInit PROVE StoreInv
  OBVIOUS
<1>1. FileInv
  BY DEF SnapshotInit, FileInv, Loadable, NoTransaction
<1>2. WriterInv
  BY DEF SnapshotInit, WriterInv
<1>3. AnswerInv
  BY DEF SnapshotInit, AnswerInv, Untouched, Absent
<1> QED
  BY <1>1, <1>2, <1>3 DEF StoreInv

-----------------------------------------------------------------------------
(* The steps of callers and of the transaction *)

\* An update takes the lock: nobody was told of it, no file has it.
LEMMA BeginStore ==
    ASSUME StoreInv, NEW u \in Updates, BeginUpdate(u)
    PROVE  StoreInv'
<1> DEFINE next == IF u \in Ineffective THEN value ELSE value \cup {u}
           step == IF NeedNotWrite(next) THEN "publish" ELSE "open"
<1>1. /\ program = "up" /\ transaction = NoTransaction /\ answer[u] = "none"
      /\ answer \in [Updates -> {"none", "waiting", "left", "done", "failed"}]
      /\ value \in SUBSET Updates
  BY DEF BeginUpdate, StoreInv, FileInv
<1>2. transaction' = [step |-> step, next |-> next, update |-> u]
  BY DEF BeginUpdate
<1>3. UNCHANGED <<snapshot, tmp, former, value, program>>
  BY DEF BeginUpdate
<1>4. answer' = [answer EXCEPT ![u] = "waiting"]
  BY DEF BeginUpdate
<1>5. value = snapshot.value
  BY <1>1 DEF StoreInv, WriterInv, NoTransaction
<1>6. next \in SUBSET Updates /\ step \in {"open", "publish"} /\ (step = "publish" => next = value)
  BY <1>1 DEF NeedNotWrite
<1>7. \/ next = value \cup {u}
      \/ u \in Ineffective /\ next = value
  OBVIOUS
<1> HIDE DEF next, step
<1>8. next \subseteq value \cup {u}
  BY <1>7
<1>9. /\ transaction'.step = step /\ transaction'.next = next /\ transaction'.update = u
      /\ transaction' # NoTransaction
  BY <1>2, <1>6 DEF NoTransaction
<1>10. FileInv'
  <2>1. transaction' \in Transaction
    BY <1>2, <1>6 DEF Transaction
  <2> QED
    BY <2>1, <1>1, <1>3, <1>4 DEF StoreInv, FileInv
<1>11. WriterInv'
  BY <1>1, <1>3, <1>4, <1>5, <1>6, <1>7, <1>9 DEF StoreInv, WriterInv
<1>12. AnswerInv'
  BY <1>1, <1>3, <1>4, <1>8, <1>9 DEF StoreInv, AnswerInv, Untouched
<1> QED
  BY <1>10, <1>11, <1>12 DEF StoreInv

\* An update is refused before it has done anything.
LEMMA RefuseStore ==
    ASSUME StoreInv, NEW u \in Updates, Refuse(u)
    PROVE  StoreInv'
<1>1. /\ transaction = NoTransaction /\ answer[u] = "none" /\ program = "up"
      /\ answer \in [Updates -> {"none", "waiting", "left", "done", "failed"}]
      /\ answer' = [answer EXCEPT ![u] = "failed"]
      /\ UNCHANGED <<snapshot, tmp, former, value, program, transaction>>
  BY DEF Refuse, StoreInv, FileInv
<1>2. FileInv'
  BY <1>1 DEF StoreInv, FileInv
<1>3. WriterInv'
  BY <1>1 DEF StoreInv, WriterInv
<1>4. AnswerInv'
  BY <1>1 DEF StoreInv, AnswerInv, Untouched
<1> QED
  BY <1>2, <1>3, <1>4 DEF StoreInv

\* A caller leaves; its transaction goes on.
LEMMA LeaveStore ==
    ASSUME StoreInv, NEW u \in Updates, Leave(u)
    PROVE  StoreInv'
<1>1. /\ answer[u] = "waiting"
      /\ answer \in [Updates -> {"none", "waiting", "left", "done", "failed"}]
      /\ answer' = [answer EXCEPT ![u] = "left"]
      /\ UNCHANGED <<snapshot, tmp, former, value, program, transaction>>
  BY DEF Leave, StoreInv, FileInv
<1>2. FileInv'
  BY <1>1 DEF StoreInv, FileInv
<1>3. WriterInv'
  <2>1. transaction # NoTransaction => answer'[transaction.update] \in {"waiting", "left"}
    BY <1>1, TransactionFields DEF StoreInv, WriterInv
  <2> QED
    BY <1>1, <2>1 DEF StoreInv, WriterInv
<1>4. AnswerInv'
  BY <1>1 DEF StoreInv, AnswerInv, Untouched
<1> QED
  BY <1>2, <1>3, <1>4 DEF StoreInv

\* Truncating, writing and syncing the other file change neither the snapshot nor
\* an answer.
LEMMA BesideStore ==
    ASSUME StoreInv, Open \/ Write \/ Sync
    PROVE  StoreInv'
<1>1. PICK from \in {"open", "write", "sync"}, to \in {"write", "sync", "rename"} :
          /\ Advance(from, to)
          /\ to \in {"sync", "rename"} => tmp' = Whole(transaction.next)
          /\ UNCHANGED <<snapshot, former, value, program, answer>>
  <2>1. CASE Open
    BY <2>1 DEF Open
  <2>2. CASE Write
    BY <2>2 DEF Write
  <2>3. CASE Sync
    <3>1. Advance("sync", "rename") /\ UNCHANGED <<snapshot, tmp, former, value, program, answer>>
      BY <2>3 DEF Sync
    <3>2. transaction # NoTransaction /\ transaction.step = "sync"
      BY <3>1, AdvanceMoves DEF StoreInv
    <3> QED
      BY <3>1, <3>2 DEF StoreInv, WriterInv
  <2> QED
    BY <2>1, <2>2, <2>3
<1>2. /\ transaction # NoTransaction /\ transaction.step = from
      /\ transaction' \in Transaction /\ transaction' # NoTransaction
      /\ transaction'.step = to /\ transaction'.next = transaction.next
      /\ transaction'.update = transaction.update
  BY <1>1, AdvanceMoves DEF StoreInv
<1>3. FileInv'
  BY <1>1, <1>2 DEF StoreInv, FileInv
<1>4. WriterInv'
  BY <1>1, <1>2 DEF StoreInv, WriterInv
<1>5. AnswerInv'
  BY <1>1, <1>2 DEF StoreInv, AnswerInv, Untouched
<1> QED
  BY <1>3, <1>4, <1>5 DEF StoreInv

\* The rename puts a whole, synced file in place, and is what may be lost.
LEMMA RenameStore ==
    ASSUME StoreInv, Rename
    PROVE  StoreInv'
<1>1. /\ Advance("rename", "publish") /\ snapshot' = tmp
      /\ former' = former \cup {tmp} \cup (IF transaction.step = "sync" THEN {Partial} ELSE {})
      /\ UNCHANGED <<value, program, answer>>
  BY DEF Rename, RenamesAfter
<1>2. /\ transaction # NoTransaction /\ transaction.step = "rename"
      /\ transaction' \in Transaction /\ transaction' # NoTransaction
      /\ transaction'.step = "publish" /\ transaction'.next = transaction.next
      /\ transaction'.update = transaction.update
  BY <1>1, AdvanceMoves DEF StoreInv
<1>3. tmp = Whole(transaction.next) /\ transaction.next \in SUBSET Updates
  BY <1>2, TransactionFields DEF StoreInv, WriterInv
<1>4. snapshot' = Whole(transaction.next) /\ former' = former \cup {Whole(transaction.next)}
  BY <1>1, <1>2, <1>3
<1>5. Whole(transaction.next) \in Loadable /\ Whole(transaction.next).value = transaction.next
  BY <1>3 DEF Loadable, Whole
<1>6. FileInv'
  BY <1>1, <1>2, <1>4, <1>5 DEF StoreInv, FileInv
<1>7. WriterInv'
  BY <1>1, <1>2, <1>4, <1>5, TransactionFields DEF StoreInv, WriterInv
<1>8. AnswerInv'
  <2>1. program = "up" /\ value \subseteq transaction.next
    BY <1>2, TransactionFields DEF StoreInv, WriterInv
  <2> QED
    BY <2>1, <1>1, <1>2, <1>4, <1>5 DEF StoreInv, AnswerInv, Untouched
<1> QED
  BY <1>6, <1>7, <1>8 DEF StoreInv


\* The copy is published and its caller told: the file has it.
LEMMA PublishStore ==
    ASSUME StoreInv, PublishValue
    PROVE  StoreInv'
<1> DEFINE w == transaction.update
<1>1. /\ transaction # NoTransaction /\ transaction.step = "publish"
      /\ value' = transaction.next /\ transaction' = NoTransaction
      /\ answer' = [answer EXCEPT ![w] = Told(w, "done")]
      /\ UNCHANGED <<snapshot, tmp, former, program>>
  BY DEF PublishValue, Answered, NoTransaction
<1>2. /\ transaction.next \in SUBSET Updates /\ w \in Updates
      /\ answer \in [Updates -> {"none", "waiting", "left", "done", "failed"}]
  BY <1>1, TransactionFields DEF StoreInv, FileInv
<1>3. /\ program = "up" /\ transaction.next = snapshot.value
      /\ answer[w] \in {"waiting", "left"}
      /\ \/ transaction.next = value \cup {w}
         \/ w \in Ineffective /\ transaction.next = value
  <2>1. program = "up"
    BY <1>1, TransactionFields DEF StoreInv, WriterInv
  <2> QED
    BY <2>1, <1>1 DEF StoreInv, WriterInv
<1>4. Told(w, "done") \in {"left", "done"}
  BY <1>3 DEF Told
<1>5. value \subseteq transaction.next /\ (w \notin Ineffective => w \in transaction.next)
  BY <1>3
<1> HIDE DEF w
<1>6. FileInv'
  BY <1>1, <1>2, <1>4 DEF StoreInv, FileInv
<1>7. WriterInv'
  BY <1>1, <1>3 DEF StoreInv, WriterInv, NoTransaction
<1>8. AnswerInv'
  <2> SUFFICES ASSUME NEW u \in Updates
               PROVE  /\ answer'[u] # "waiting"
                      /\ answer'[u] = "done" /\ u \notin Ineffective => u \in value'
                      /\ answer'[u] \in {"none", "failed"} /\ u \notin Ineffective => Untouched(u)'
    BY <1>1, <1>3 DEF AnswerInv
  <2>1. CASE u = w
    BY <2>1, <1>1, <1>2, <1>4, <1>5
  <2>2. CASE u # w
    <3>1. answer'[u] = answer[u]
      BY <2>2, <1>1, <1>2
    <3>2. answer[u] # "waiting"
      BY <2>2 DEF StoreInv, AnswerInv, w
    <3>3. answer[u] = "done" /\ u \notin Ineffective => u \in value'
      BY <1>1, <1>3, <1>5 DEF StoreInv, AnswerInv
    <3>4. answer[u] \in {"none", "failed"} /\ u \notin Ineffective => Untouched(u)'
      BY <1>1 DEF StoreInv, AnswerInv, Untouched
    <3> QED
      BY <3>1, <3>2, <3>3, <3>4
  <2> QED
    BY <2>1, <2>2
<1> QED
  BY <1>6, <1>7, <1>8 DEF StoreInv

\* A step of the transaction fails: no file has its update.
LEMMA FailStore ==
    ASSUME StoreInv, Fail
    PROVE  StoreInv'
<1> DEFINE w == transaction.update
<1>1. /\ transaction # NoTransaction /\ transaction.step # "publish"
      /\ value' = value /\ transaction' = NoTransaction
      /\ answer' = [answer EXCEPT ![w] = Told(w, "failed")]
      /\ UNCHANGED <<snapshot, former, program>>
  BY DEF Fail, Answered, KeptValue, NoTransaction
<1>2. /\ w \in Updates
      /\ answer \in [Updates -> {"none", "waiting", "left", "done", "failed"}]
  BY <1>1, TransactionFields DEF StoreInv, FileInv
<1>3. program = "up" /\ answer[w] \in {"waiting", "left"}
  BY <1>1, TransactionFields DEF StoreInv, WriterInv
<1>4. Told(w, "failed") \in {"left", "failed"}
  BY <1>3 DEF Told
<1>5. w \notin Ineffective => Untouched(w)
  BY <1>1, <1>2 DEF StoreInv, AnswerInv
<1> HIDE DEF w
<1>6. FileInv'
  BY <1>1, <1>2, <1>4 DEF StoreInv, FileInv
<1>7. WriterInv'
  BY <1>1, <1>3 DEF StoreInv, WriterInv, NoTransaction
<1>8. AnswerInv'
  <2> SUFFICES ASSUME NEW u \in Updates
               PROVE  /\ answer'[u] # "waiting"
                      /\ answer'[u] = "done" /\ u \notin Ineffective => u \in value'
                      /\ answer'[u] \in {"none", "failed"} /\ u \notin Ineffective => Untouched(u)'
    BY <1>1, <1>3 DEF AnswerInv
  <2>0. Untouched(u) => Untouched(u)'
    BY <1>1 DEF Untouched
  <2>1. CASE u = w
    BY <2>0, <2>1, <1>1, <1>2, <1>4, <1>5
  <2>2. CASE u # w
    <3>1. answer'[u] = answer[u]
      BY <2>2, <1>1, <1>2
    <3>2. answer[u] # "waiting"
      BY <2>2 DEF StoreInv, AnswerInv, w
    <3>3. answer[u] = "done" /\ u \notin Ineffective => u \in value'
      BY <1>1, <1>3 DEF StoreInv, AnswerInv
    <3>4. answer[u] \in {"none", "failed"} /\ u \notin Ineffective => Untouched(u)
      BY DEF StoreInv, AnswerInv
    <3> QED
      BY <2>0, <3>1, <3>2, <3>3, <3>4
  <2> QED
    BY <2>1, <2>2
<1> QED
  BY <1>6, <1>7, <1>8 DEF StoreInv

-----------------------------------------------------------------------------
(* The steps of the process *)

\* A start loads the file that is there.
LEMMA LoadStore ==
    ASSUME StoreInv, Load
    PROVE  StoreInv'
<1>1. snapshot \in former /\ snapshot \in Loadable /\ program = "down"
  BY DEF Load, StoreInv, FileInv
<1>2. snapshot.state # "partial" /\ snapshot.value \in SUBSET Updates
  BY <1>1, LoadableIsLoaded
<1>3. /\ program' = "up" /\ value' = snapshot.value
      /\ UNCHANGED <<snapshot, tmp, former, transaction, answer>>
  BY <1>2 DEF Load
<1>4. transaction = NoTransaction
  BY <1>1 DEF StoreInv, WriterInv
<1>5. FileInv'
  BY <1>2, <1>3 DEF StoreInv, FileInv
<1>6. WriterInv'
  BY <1>3, <1>4 DEF StoreInv, WriterInv
<1>7. AnswerInv'
  BY <1>1, <1>3, <1>4 DEF StoreInv, AnswerInv, Untouched
<1> QED
  BY <1>5, <1>6, <1>7 DEF StoreInv

\* What a stop leaves of the answers: nobody waits, and nobody is told more.
LEMMA ToldLeft ==
    ASSUME StoreInv, NEW u \in Updates
    PROVE  /\ Told(u, "left") \in {"none", "left", "done", "failed"}
           /\ Told(u, "left") # "left" => Told(u, "left") = answer[u]
  BY DEF StoreInv, FileInv, Told

\* The process dies: what it served is in the file.
LEMMA CrashStore ==
    ASSUME StoreInv, ProgramCrash
    PROVE  StoreInv'
<1>1. /\ program = "up" /\ program' = "down" /\ value' = {} /\ transaction' = NoTransaction
      /\ answer' = [u \in Updates |-> Told(u, "left")]
      /\ UNCHANGED <<snapshot, tmp, former>>
  BY DEF ProgramCrash, Stopped, StoreInv, FileInv
<1>2. value \subseteq snapshot.value
  BY <1>1 DEF StoreInv, WriterInv, FileInv, NoTransaction
<1>3. FileInv'
  BY <1>1, ToldLeft DEF StoreInv, FileInv
<1>4. WriterInv'
  BY <1>1 DEF WriterInv
<1>5. AnswerInv'
  BY <1>1, <1>2, ToldLeft DEF StoreInv, AnswerInv, Untouched
<1> QED
  BY <1>3, <1>4, <1>5 DEF StoreInv

\* The power fails: what comes back is a file that was whole.
LEMMA PowerStore ==
    ASSUME StoreInv, LosePower
    PROVE  StoreInv'
<1>1. /\ program' = "down" /\ value' = {} /\ transaction' = NoTransaction
      /\ snapshot' \in former /\ former' = {snapshot'}
      /\ answer' = [u \in Updates |-> IF answer[u] = "done" /\ u \notin snapshot'.value
                                      THEN "left" ELSE Told(u, "left")]
  BY DEF LosePower, Stopped
<1>2. FileInv'
  BY <1>1, ToldLeft DEF StoreInv, FileInv
<1>3. WriterInv'
  BY <1>1 DEF WriterInv
<1>4. AnswerInv'
  <2> SUFFICES ASSUME NEW u \in Updates
               PROVE  /\ answer'[u] # "waiting"
                      /\ answer'[u] = "done" /\ u \notin Ineffective => u \in snapshot'.value
                      /\ answer'[u] \in {"none", "failed"} /\ u \notin Ineffective => Untouched(u)'
    BY <1>1 DEF AnswerInv
  <2>1. answer'[u] \in {"none", "left", "done", "failed"} /\ (answer'[u] # "left" => answer'[u] = answer[u])
    BY <1>1, ToldLeft
  <2>2. answer'[u] = "done" => u \in snapshot'.value
    BY <1>1, <2>1
  <2>3. answer'[u] \in {"none", "failed"} /\ u \notin Ineffective => Untouched(u)'
    BY <1>1, <2>1 DEF StoreInv, AnswerInv, Untouched
  <2> QED
    BY <2>1, <2>2, <2>3
<1> QED
  BY <1>2, <1>3, <1>4 DEF StoreInv

-----------------------------------------------------------------------------
(* The promises *)

\* Every step, failure, crash and power loss keeps the invariant.
LEMMA StoreIsInductive == StoreInv /\ [SnapshotNext]_snapshotVars => StoreInv'
<1> SUFFICES ASSUME StoreInv, [SnapshotNext]_snapshotVars PROVE StoreInv'
  OBVIOUS
<1>1. CASE \E u \in Updates : BeginUpdate(u) \/ Refuse(u) \/ Leave(u)
  BY <1>1, BeginStore, RefuseStore, LeaveStore
<1>2. CASE Open \/ Write \/ Sync
  BY <1>2, BesideStore
<1>3. CASE Rename
  BY <1>3, RenameStore
<1>4. CASE PublishValue
  BY <1>4, PublishStore
<1>5. CASE Fail
  BY <1>5, FailStore
<1>6. CASE Load
  BY <1>6, LoadStore
<1>7. CASE ProgramCrash
  BY <1>7, CrashStore
<1>8. CASE LosePower
  BY <1>8, PowerStore
<1>9. CASE UNCHANGED snapshotVars
  BY <1>9 DEF snapshotVars, StoreInv, FileInv, WriterInv, AnswerInv, Untouched
<1> QED
  BY <1>1, <1>2, <1>3, <1>4, <1>5, <1>6, <1>7, <1>8, <1>9 DEF SnapshotNext

\* The invariant is more than what callers are promised.
LEMMA StorePromises == StoreInv => SnapshotKeepsPromises
<1> SUFFICES ASSUME StoreInv PROVE SnapshotKeepsPromises
  OBVIOUS
<1>1. SnapshotIsWhole
  <2>1. snapshot \in Loadable /\ program \in {"down", "up"}
    BY DEF StoreInv, FileInv
  <2> QED
    BY <2>1, LoadableIsLoaded DEF SnapshotIsWhole
<1>2. ServedIsStored
  BY DEF StoreInv, WriterInv, ServedIsStored
<1>3. AnswersAreTrue
  BY DEF StoreInv, AnswerInv, Untouched, AnswersAreTrue
<1> QED
  BY <1>1, <1>2, <1>3 DEF SnapshotKeepsPromises

\* The next start loads a whole snapshot, readers see what it would load, and
\* what the caller of an update was told stays true, over failed writes, crashes
\* and power losses, for any number of updates (update, load).
THEOREM PromisesCorrect == SnapshotSpec => []SnapshotKeepsPromises
  BY InitStore, StoreIsInductive, StorePromises, PTL DEF SnapshotSpec
=============================================================================
