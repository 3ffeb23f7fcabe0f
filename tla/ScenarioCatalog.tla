-------------------------- MODULE ScenarioCatalog --------------------------
(***************************************************************************)
(* The signed scenario catalog: the built-in scenarios and the manifests   *)
(* of a directory, read at startup in whatever order the directory lists   *)
(* them; what is told of its entries; and the requests a runner gets.      *)
(***************************************************************************)
EXTENDS ScenarioLanguage

CONSTANTS
    ManifestFiles, \* manifest files of ASMODEUS_SCENARIOS_DIR
    Drafts,        \* file -> what its author may put there; <<>> cannot be read or parsed
    RunnerKey      \* the key that the runners trust

ASSUME DraftsAssumption ==
    \A f \in ManifestFiles : \A draft \in Drafts[f] : Given(draft) => IsManifest(draft[1])

VARIABLES
    disk,       \* file -> its manifest, or <<>>
    phase,      \* "down", "loading", "serving" or "refused"
    catalogKey, \* the key that entries are signed with
    entries,    \* id -> entry
    unread      \* files that the directory has yet to list

catalogVars == <<disk, phase, catalogKey, entries, unread>>

\* Keys: the configured one, or one generated at startup, which no runner knows.
Generated == "generated"

Min2(a, b) == IF a < b THEN a ELSE b

-----------------------------------------------------------------------------
(* Built-in scenarios *)

\* PROFILES: fidelity and techniques, the first of them primary.
Profile ==
    [RANSOMWARE_CANARY_SPIKE  |-> [fidelity |-> "behavioral",  techniques |-> <<"T1486">>],
     K8S_ESCAPE_SIMULATION    |-> [fidelity |-> "marker_only", techniques |-> <<"T1611">>],
     C2_BEACONING_SIMULATION  |-> [fidelity |-> "marker_only",
                                   techniques |-> <<"T1071", "T1071.001", "T1071.004", "T1568">>],
     CREDENTIAL_ACCESS_CANARY |-> [fidelity |-> "marker_only", techniques |-> <<"T1003">>],
     LOG_TAMPER_CANARY        |-> [fidelity |-> "marker_only", techniques |-> <<"T1070">>],
     PERSISTENCE_CRON_CANARY  |-> [fidelity |-> "marker_only", techniques |-> <<"T1053">>],
     DATA_EXFILTRATION_CANARY |-> [fidelity |-> "marker_only", techniques |-> <<"T1041">>],
     DEFENSE_IMPAIRMENT_CANARY |-> [fidelity |-> "marker_only",
                                   techniques |-> <<"T1562", "T1562.001">>],
     AGENT_CRASH_ENDPOINT     |-> [fidelity |-> "marker_only", techniques |-> <<"T1562">>],
     LATENCY_SPIKE_VM         |-> [fidelity |-> "behavioral",  techniques |-> <<>>],
     DNS_RPZ_SINKHOLE_DROP    |-> [fidelity |-> "behavioral",  techniques |-> <<>>]]

BuiltIn == DOMAIN Profile

\* The manifest of a built-in scenario names its primary technique only.
Primary(id) == SubSeq(Profile[id].techniques, 1, Min2(1, Len(Profile[id].techniques)))

SeededManifest(id) ==
    [SyntheticManifest(id, <<"", "tmp", "asmodeus-canary", "">>, 20, 64) EXCEPT !.technique = Primary(id)]

\* seeded: fidelity and references are those of the profile.
SeededEntry(id, k) ==
    LET m == SeededManifest(id)
        profile == Profile[id]
    IN  [manifest |-> m, signature |-> [of |-> m, by |-> k],
         dir |-> TargetDir(m), technique |-> PrimaryTechnique(m), fidelity |-> profile.fidelity,
         refs |-> [i \in DOMAIN profile.techniques |->
                      [technique |-> profile.techniques[i], fidelity |-> profile.fidelity]]]

-----------------------------------------------------------------------------
(* Manifests of the directory *)

\* Fidelity and references are those that the manifest has earned.
LoadedEntry(m, k) ==
    [manifest |-> m, signature |-> [of |-> m, by |-> k],
     dir |-> TargetDir(m), technique |-> PrimaryTechnique(m), fidelity |-> EffectiveFidelity(m),
     refs |-> ResolvedRefs(m)]

Put(id, entry) == [i \in DOMAIN entries \cup {id} |-> IF i = id THEN entry ELSE entries[i]]

-----------------------------------------------------------------------------
(* Startup *)

CatalogInit ==
    /\ disk = [f \in ManifestFiles |-> <<>>]
    /\ phase = "down" /\ catalogKey = Generated
    /\ entries = [i \in {} |-> <<>>] /\ unread = {}

\* The author changes a file; a running catalog does not look again.
WriteManifest(f) ==
    /\ phase = "down"
    /\ \E draft \in Drafts[f] : disk' = [disk EXCEPT ![f] = draft]
    /\ UNCHANGED <<phase, catalogKey, entries, unread>>

\* Mutant: entries keep the signature they were made with.
SignerOf(configured) == Generated

\* With a configured key the built-in entries are signed again.
Signer(configured) == configured

\* from_env.  A configured runner without a configured key stops the startup:
\* it could trust no request.
StartCatalog(configured, endpoint) ==
    /\ phase \in {"down", "refused"}
    /\ catalogKey' = configured
    /\ IF configured = Generated /\ endpoint = "set"
       THEN phase' = "refused" /\ entries' = [i \in {} |-> <<>>] /\ unread' = {}
       ELSE /\ phase' = "loading"
            /\ entries' = [id \in BuiltIn |-> SeededEntry(id, Signer(configured))]
            /\ unread' = ManifestFiles
    /\ UNCHANGED disk

\* Mutant: what cannot be executed is listed all the same.
LoadsAny(draft) == Given(draft)

\* What is not a valid manifest is skipped.
Loads(draft) == Given(draft) /\ Valid(draft[1])

\* One file, in any order; an id that is there already gets the new entry.
LoadFile(f) ==
    /\ phase = "loading"
    /\ f \in unread
    /\ unread' = unread \ {f}
    /\ entries' = IF Loads(disk[f])
                  THEN Put(disk[f][1].id, LoadedEntry(disk[f][1], catalogKey))
                  ELSE entries
    /\ UNCHANGED <<disk, phase, catalogKey>>

\* A directory that cannot be listed to its end stops the startup.
ListingFails ==
    /\ phase = "loading" /\ unread # {}
    /\ phase' = "refused"
    /\ entries' = [i \in {} |-> <<>>] /\ unread' = {}
    /\ UNCHANGED <<disk, catalogKey>>

Serve ==
    /\ phase = "loading" /\ unread = {}
    /\ phase' = "serving"
    /\ UNCHANGED <<disk, catalogKey, entries, unread>>

StopCatalog ==
    /\ phase \in {"loading", "serving"}
    /\ phase' = "down"
    /\ catalogKey' = Generated /\ entries' = [i \in {} |-> <<>>] /\ unread' = {}
    /\ UNCHANGED disk

CatalogNext ==
    \/ \E f \in ManifestFiles : WriteManifest(f) \/ LoadFile(f)
    \/ \E configured \in {RunnerKey, Generated}, endpoint \in {"set", "unset"} :
          StartCatalog(configured, endpoint)
    \/ ListingFails \/ Serve \/ StopCatalog

CatalogSpec == CatalogInit /\ [][CatalogNext]_catalogVars

-----------------------------------------------------------------------------
(* A launch, and the runner that gets it *)

\* start_scenario: the entry is verified and compiled again; the deadline may
\* be shortened, never extended.
Launches(entry, timeout) ==
    /\ entry.signature = [of |-> entry.manifest, by |-> catalogKey]
    /\ Valid(entry.manifest)
    /\ Or(timeout, entry.manifest.duration) \in 1..entry.manifest.duration

Request(id, timeout) ==
    LET entry == entries[id]
        plan == Plan(entry.manifest)
    IN  [id |-> id, manifest |-> entry.manifest, signature |-> entry.signature,
         key |-> catalogKey, dir |-> plan.dir, files |-> plan.numbers.file_count,
         chunk |-> plan.numbers.chunk_size_kb, timeout |-> Or(timeout, plan.seconds)]

\* The runner's validate: who signed, whether the manifest is admitted, and
\* whether the request says what the manifest says.
Accepts(request) ==
    /\ request.key = RunnerKey
    /\ request.signature = [of |-> request.manifest, by |-> RunnerKey]
    /\ Valid(request.manifest)
    /\ LET plan == Plan(request.manifest)
       IN  /\ request.manifest.id = request.id
           /\ plan.dir = request.dir
           /\ plan.numbers.file_count = request.files
           /\ plan.numbers.chunk_size_kb = request.chunk
           /\ request.timeout <= plan.seconds

-----------------------------------------------------------------------------
(* What is told of the entries *)

\* claims_behavioral_coverage of list_scenarios and get_scenario
ClaimsCoverage(entry) ==
    IF entry.refs = <<>> THEN ClaimsBehavioral(entry.fidelity)
    ELSE \E i \in DOMAIN entry.refs : ClaimsBehavioral(entry.refs[i].fidelity)

\* Mutant: a technique is covered as its scenario is.
RefsOfScenario(id) ==
    {[technique |-> entries[id].refs[i].technique, fidelity |-> entries[id].fidelity] :
        i \in DOMAIN entries[id].refs}

RefsOf(id) == {entries[id].refs[i] : i \in DOMAIN entries[id].refs}

\* mitre_matrix: rows, and the techniques by the best any scenario does.
Rows == UNION {RefsOf(id) : id \in DOMAIN entries}
Referenced == {ref.technique : ref \in Rows}
Best(t) ==
    CHOOSE fidelity \in {ref.fidelity : ref \in {row \in Rows : row.technique = t}} :
        \A ref \in Rows : ref.technique = t => Trust[ref.fidelity] <= Trust[fidelity]
Behavioral == {t \in Referenced : ClaimsBehavioral(Best(t))}

\* get_compliance_report: what a control is judged by.
ScenarioMetas ==
    {[technique |-> entries[id].technique, fidelity |-> entries[id].fidelity,
      refs |-> RefsOf(id)] : id \in DOMAIN entries}

-----------------------------------------------------------------------------
(* Properties *)

Timeouts(entry) ==
    {<<>>} \cup {<<n>> : n \in {0, 1, entry.manifest.duration, entry.manifest.duration + 1}}

\* A scenario that is listed can be launched, and a runner that trusts the key
\* accepts the request; one that does not refuses it.  What is refused for its
\* deadline never leaves the control plane.
ListedIsAccepted ==
    phase = "serving" =>
        \A id \in DOMAIN entries : \A timeout \in Timeouts(entries[id]) :
            LET seconds == Or(timeout, entries[id].manifest.duration)
            IN  /\ Launches(entries[id], timeout) <=>
                      seconds \in 1..entries[id].manifest.duration
                /\ Launches(entries[id], timeout) =>
                      (Accepts(Request(id, timeout)) <=> catalogKey = RunnerKey)

\* In whatever order files are read, the catalog has the built-in ids and
\* those of the valid files and no other, and each entry is one of the texts
\* that claim its id.  A file that is not valid removes nothing.
CatalogIsDirectory ==
    phase = "serving" =>
        LET valid == {f \in ManifestFiles : Given(disk[f]) /\ Valid(disk[f][1])}
            texts(id) == {disk[f][1] : f \in {g \in valid : disk[g][1].id = id}}
        IN  /\ DOMAIN entries = BuiltIn \cup {disk[f][1].id : f \in valid}
            /\ \A id \in DOMAIN entries :
                  /\ entries[id].manifest.id = id
                  /\ IF texts(id) = {} THEN entries[id].manifest = SeededManifest(id)
                                       ELSE entries[id].manifest \in texts(id)

\* What the catalog, the matrix and the compliance report claim is what the
\* signed manifest has executed (scenario_profile.rs:96): behaviour only where
\* canaries are encrypted or a network rule is applied, T1486 as the only
\* technique so covered, and an entry's primary technique among its references.
ClaimsAreExecuted ==
    phase = "serving" =>
        /\ \A id \in DOMAIN entries :
              LET action == entries[id].manifest.action
              IN  /\ ClaimsCoverage(entries[id]) =>
                        action \in {"synthetic_canary_encrypt", "latency_spike"}
                  /\ \A ref \in RefsOf(id) :
                        ClaimsBehavioral(ref.fidelity) => action = "synthetic_canary_encrypt"
                  /\ entries[id].refs # <<>> =>
                        Canonical(entries[id].refs[1].technique) = entries[id].technique
        /\ {Canonical(t) : t \in Behavioral} \subseteq {"T1486"}
        /\ \A meta \in ScenarioMetas : \A ref \in meta.refs :
              ClaimsBehavioral(ref.fidelity) => Canonical(ref.technique) = "T1486"

\* The catalog is the built-in scenarios and what the directory adds, in any order
\* of the files; a runner with the key accepts all of it, and what the matrix and
\* compliance claim, some listed scenario executes (load_from_dir, mitre_matrix).
CatalogIsExecutable ==
    /\ CatalogIsDirectory
    /\ ListedIsAccepted
    /\ ClaimsAreExecuted
=============================================================================
