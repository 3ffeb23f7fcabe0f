------------------------------- MODULE MCParts -------------------------------
(***************************************************************************)
(* The parts that keep records and apply rules, one at a time: `part` says *)
(* which one moves, and the others stay as they started.  They share no    *)
(* state: what one hands to another (an admitted plan, a signed entry, a   *)
(* committed revision) is an input of the module that takes it.            *)
(***************************************************************************)
EXTENDS AuditStore, AccessControl, PersistentStore, RunnerHost, ProcedureSuite,
        ScenarioManifest, ScenarioCatalog, TLC

CONSTANTS
    r1, r2, r3,                  \* run ids
    Indents, TextKeys, MaxLines  \* ManifestText

VARIABLES
    part,
    log, totals,  \* AuditReports
    lines         \* ManifestText

reportVars == <<log, totals>>

-----------------------------------------------------------------------------
(* Audit: either nothing fails and the file is longer, or everything may *)

NoFailure == [failures |-> {}, lines |-> 5]
Failures  == [failures |-> {"crash", "write", "rollback", "key"}, lines |-> 4]

AuditRuns     == {r1, r2}
AuditSettings == {NoFailure, Failures}

-----------------------------------------------------------------------------
(* Reports: two techniques, one of them protected, and chaos *)

Reference(technique, fidelity) == [technique |-> technique, fidelity |-> fidelity]

ReportScenario ==
    (r1 :> [technique |-> "T1486", tactic |-> "Impact", category |-> "red_team"])
    @@ (r2 :> [technique |-> "T1003", tactic |-> "Credential Access", category |-> "red_team"])
    @@ (r3 :> [technique |-> "", tactic |-> "", category |-> "chaos"])

ReportCatalog ==
    {[technique |-> "T1486", fidelity |-> "behavioral",
      refs |-> {Reference("T1486", "behavioral")}],
     [technique |-> "T1003", fidelity |-> "marker_only", refs |-> {}]}

Reports == INSTANCE AuditReports WITH
    Runs <- {r1, r2, r3}, Modes <- {"runner", "simulated"},
    Statuses <- {"COMPLETED", "INTERRUPTED"},
    Scenario <- ReportScenario, Catalog <- ReportCatalog, aggregate <- totals

-----------------------------------------------------------------------------
(* Manifests: text of a few lines, and scenarios with a few fields changed *)

Text == INSTANCE ManifestText WITH Keys <- TextKeys

Canary(file_name) == <<"", "tmp", "asmodeus-canary", file_name>>
Built(id, count, size) == SyntheticManifest(id, Canary(""), count, size)
New(id) == [Built(id, 20, 64) EXCEPT !.api = "v1alpha2", !.fidelity = <<"behavioral">>]

ManifestBases ==
    {Built(id, 20, 64) : id \in DOMAIN ActionFor}
    \cup {New(id) : id \in {"RANSOMWARE_CANARY_SPIKE", "LATENCY_SPIKE_VM",
                            "C2_BEACONING_SIMULATION"}}

\* Inside the canary roots, on their edge, and out of them in every way.
WrittenPaths ==
    {<<>>} \cup {<<path>> : path \in {
        <<"", "tmp", "asmodeus-canary">>, Canary("a"), Canary("ab"),
        <<"", "tmp", "asmodeus-canary", ".", "a">>,
        <<"", "tmp", "asmodeus-canary", "..", "etc">>, <<"", "tmp", "asmodeus-canary2">>,
        <<"", "var", "tmp", "asmodeus-canary", "", "a">>, <<"tmp", "asmodeus-canary", "a">>,
        <<"", "etc">>}}

Block(a, b, c, d, length) == [octets |-> <<a, b, c, d>>, prefix |-> length]

\* Test networks and loopback, a little wider, next to them, malformed.
Blocks ==
    {<<>>, <<Loopback>>} \cup {<<block>> : block \in {
        Block(127, 0, 0, 0, 8), Block(126, 0, 0, 0, 7), Block(127, 0, 0, 0, 7),
        Block(127, 1, 2, 3, 0), Block(192, 0, 2, 130, 25), Block(192, 0, 2, 0, 23),
        Block(198, 51, 101, 0, 24), Block(203, 0, 113, 0, 33)}}

\* Around every limit of the numbers.
Parameters ==
    {[x \in {} |-> 0]}
    \cup [{"file_count"} -> {0, 1, 100, 101, 200, 201}]
    \cup [{"chunk_size_kb"} -> {0, 102, 103, 256, 257}]
    \cup [{"file_count", "chunk_size_kb"} -> {80, 200, 256}]
    \cup [{"duration_ms"} -> {-1, 0, 60000, 60001, 120000, 120001}]
    \cup [{"latency_ms"} -> {5000, 5001}] \cup [{"jitter_ms"} -> {1000, 1001}]
    \cup [{"loss_percent"} -> {50, 51}] \cup [{"io_rate_per_sec"} -> {0, 1, 1001}]

ManifestValues ==
    [api |-> {"v1alpha1", "v1alpha2", "v2"}, nature |-> {"synthetic", "operational"},
     action |-> Actions \cup {"unsupported"},
     duration |-> {0, 1, 60, 300, 301}, cpu |-> {0, 1, 85, 86},
     canary |-> WrittenPaths, target |-> WrittenPaths, breaker |-> {"on", "off"},
     selector |-> {{}, {"host"}}, cidr |-> Blocks,
     iface |-> {<<>>, <<"lo">>, <<"eth0">>, <<"">>, <<"much-too-long-name">>},
     params |-> Parameters,
     technique |-> {<<>>, <<"T1486">>, <<"t1486">>, <<"T1071">>, <<"T9999">>},
     refs |-> {<<>>, <<<<>>>>, <<<<Reference("t1486", "behavioral")>>>>,
               <<<<Reference("T1071", "behavioral"), Reference("T1486", "marker_only")>>>>,
               <<<<Reference("T9999", "unspecified")>>>>},
     fidelity |-> {<<>>, <<"behavioral">>, <<"marker_only">>, <<"bogus">>}]

-----------------------------------------------------------------------------
(* Catalog: two files, which may carry one id, or one of the built-in ones *)

Replaced == Built("RANSOMWARE_CANARY_SPIKE", 20, 64)
Mine == [Replaced EXCEPT !.id = "OWN", !.api = "v1alpha2", !.fidelity = <<"behavioral">>]

FileDrafts ==
    [f1 |-> {<<>>, <<Replaced>>, <<Mine>>, <<[Mine EXCEPT !.duration = 301]>>,
             <<[Mine EXCEPT !.refs = <<<<Reference("t1486", "behavioral"),
                                        Reference("T1071", "behavioral")>>>>]>>,
             <<[Mine EXCEPT !.canary = <<Canary("a")>>]>>,
             <<[Mine EXCEPT !.action = "c2_beacon", !.params = [x \in {"file_count"} |-> 20],
                           !.technique = <<"T1486">>]>>,
             <<[Mine EXCEPT !.action = "latency_spike",
                           !.params = [x \in {"duration_ms"} |-> 60000],
                           !.technique = <<"T1486">>]>>},
     f2 |-> {<<>>, <<[Replaced EXCEPT !.duration = 5]>>, <<[Mine EXCEPT !.cpu = 86]>>,
             <<[Mine EXCEPT !.cpu = 85, !.technique = <<"T1486">>]>>,
             <<[Replaced EXCEPT !.id = "OWN"]>>}]

-----------------------------------------------------------------------------
(* Host: a canary spike, one more injector, and spikes on three interfaces *)

Spike(octets, length, iface, loss) ==
    [Built("LATENCY_SPIKE_VM", 2, 1) EXCEPT
        !.cidr = <<[octets |-> octets, prefix |-> length]>>, !.iface = <<iface>>,
        !.params = [x \in {"loss_percent"} |-> loss]]

HostManifests ==
    {Built(id, 2, 1) : id \in {"RANSOMWARE_CANARY_SPIKE", "C2_BEACONING_SIMULATION"}}
    \cup {Spike(<<203, 0, 113, 7>>, 24, "veth0", 25), Spike(<<127, 0, 0, 1>>, 32, "lo", 50),
          Spike(<<203, 0, 113, 7>>, 32, "eth0", 0)}

\* What the control plane dispatches.  TLC computes a definition once, unless a
\* constant stands for it: hence two names each for the plans and the frames.
Admitted == {Plan(m) : m \in {m \in HostManifests : Valid(m)}}
HostPlans == Admitted

Frames ==
    {[ipv4 |-> "yes", dst |-> dst] :
        dst \in {<<203, 0, 113, 0>>, <<203, 0, 113, 255>>, <<203, 0, 112, 255>>,
                 <<203, 0, 114, 7>>, <<127, 0, 0, 1>>, <<10, 0, 113, 7>>}}
    \cup {[ipv4 |-> "no", dst |-> <<203, 0, 113, 7>>]}
HostPackets == Frames

-----------------------------------------------------------------------------
(* Procedures: a slot that has an adapter, and one that has none *)

SuiteCorpus == <<"dns-pattern", "container-exec">>

-----------------------------------------------------------------------------
(* Access: at second 141; tokens that are good, and bad in one respect each *)

Token(role) ==
    [alg |-> "HS256", signer |-> "apex", issuer |-> "apex", audience |-> "apex",
     claims |-> "complete", iat |-> 100, nbf |-> 100, exp |-> 200, role |-> role]

CallerCredentials ==
    {[bearer |-> "token", token |-> Token(role), header |-> "none"] :
        role \in {"admin", "red_team", "auditor", "nobody"}}
    \cup {[bearer |-> "token", token |-> token, header |-> "admin"] :
        token \in {[Token("admin") EXCEPT !.signer = "other"],
                   [Token("red_team") EXCEPT !.alg = "none"],
                   [Token("admin") EXCEPT !.audience = "other"],
                   [Token("red_team") EXCEPT !.exp = 141],
                   [Token("devsecops") EXCEPT !.nbf = 202],
                   [Token("admin") EXCEPT !.iat = 202],
                   [Token("admin") EXCEPT !.claims = "partial"],
                   [Token("admin") EXCEPT !.issuer = "other"]}}
    \cup {[bearer |-> bearer, token |-> Token("admin"), header |-> header] :
        bearer \in {"none", "malformed"}, header \in {"none", "devsecops", "nobody"}}

Placed(order, scenario) == [order |-> order, scenario |-> scenario]
CampaignPayloads ==
    {<<Placed(2, "t"), Placed(1, "s")>>, <<Placed(1, "s")>>, <<>>, <<Placed(0, "s")>>,
     <<Placed(1, "s"), Placed(1, "t")>>}

\* After a restart s may be chaos, and t gone.
RestartCatalogs == {("s" :> "red_team") @@ ("t" :> "chaos"), "s" :> "chaos"}

SeededCampaigns == "c" :> <<"s", "t">>

-----------------------------------------------------------------------------
\* "callers" is the access part of a deployment without the role header, where
\* only the authentication differs.
Parts == {"audit", "reports", "text", "manifest", "catalog", "host", "procedures", "access",
          "callers", "snapshots"}

\* What is in the editor while another part moves: validation refuses it at once.
Outdated == [Replaced EXCEPT !.api = "v2"]

\* The parts that do not move are where they start; which key, deployment, catalog or
\* host they start with makes a difference only to the part that moves, the key not
\* even to it.
Init ==
    /\ part \in Parts
    /\ AuditInit /\ key = (CHOOSE k \in Keys : TRUE) /\ (part # "audit" => setting = NoFailure)
    /\ AccessInit
    /\ deployment = IF part = "callers" THEN "bearer" ELSE "header"
    /\ part \in {"access", "callers"} \/ "t" \in DOMAIN catalog
    /\ SnapshotInit /\ CatalogInit /\ SuiteInit
    /\ HostInit /\ (part # "host" => base = "absent" /\ backend = "sim")
    /\ IF part = "manifest" THEN ManifestInit ELSE manifest = Outdated /\ edits = {}
    /\ IF part = "reports" THEN Reports!Init ELSE log = "idle" /\ totals = "idle"
    /\ IF part = "text" THEN Text!Init ELSE lines = "idle"

Next ==
    \/ /\ part = "audit" /\ AuditNext
       /\ UNCHANGED <<part, reportVars, lines, manifestVars, catalogVars, runVars,
                      suiteVars, accessVars, snapshotVars>>
    \/ /\ part = "reports" /\ Reports!Next
       /\ UNCHANGED <<part, auditVars, lines, manifestVars, catalogVars, runVars,
                      suiteVars, accessVars, snapshotVars>>
    \/ /\ part = "text" /\ Text!Next
       /\ UNCHANGED <<part, auditVars, reportVars, manifestVars, catalogVars, runVars,
                      suiteVars, accessVars, snapshotVars>>
    \/ /\ part = "manifest" /\ ManifestNext
       /\ UNCHANGED <<part, auditVars, reportVars, lines, catalogVars, runVars,
                      suiteVars, accessVars, snapshotVars>>
    \/ /\ part = "catalog" /\ CatalogNext
       /\ UNCHANGED <<part, auditVars, reportVars, lines, manifestVars, runVars,
                      suiteVars, accessVars, snapshotVars>>
    \/ /\ part = "host" /\ HostNext
       /\ UNCHANGED <<part, auditVars, reportVars, lines, manifestVars, catalogVars,
                      suiteVars, accessVars, snapshotVars>>
    \/ /\ part = "procedures" /\ SuiteNext
       /\ UNCHANGED <<part, auditVars, reportVars, lines, manifestVars, catalogVars, runVars,
                      accessVars, snapshotVars>>
    \/ /\ \/ part = "access" /\ AccessNext
          \/ /\ part = "callers"
             /\ \/ Refused
                \/ \E credential \in Credentials, now \in Times :
                      Authenticate(credential, now)
       /\ UNCHANGED <<part, auditVars, reportVars, lines, manifestVars, catalogVars, runVars,
                      suiteVars, snapshotVars>>
    \/ /\ part = "snapshots" /\ SnapshotNext
       /\ UNCHANGED <<part, auditVars, reportVars, lines, manifestVars, catalogVars, runVars,
                      suiteVars, accessVars>>

vars == <<part, auditVars, reportVars, lines, manifestVars, catalogVars, runVars,
          suiteVars, accessVars, snapshotVars>>

Spec == Init /\ [][Next]_vars

-----------------------------------------------------------------------------
(* Properties: those of the modules, which hold whichever part moves; and those
   of the two that compute *)

\* No line of a manifest is dropped without an error (parse_yaml_map).  Reports,
\* metrics and campaign reports do not contradict each other; there is no score
\* and no met control without confirmed evidence, and simulated, open and unanswered
\* runs move none (EcosystemResilienceReport::build, telemetry_mttd).
NothingLostOrInvented ==
    /\ part = "text" => Text!EveryLineIsASetting
    /\ part = "reports" =>
          Reports!ReportsAgree /\ Reports!MeritIsEarned /\ Reports!OnlyEvidenceCounts
=============================================================================
