-------------------------- MODULE ScenarioLanguage --------------------------
(***************************************************************************)
(* The scenario language, asmodeus-dsl: what a manifest says, which ones   *)
(* are admitted, the execution plan that one compiles to, and the fidelity *)
(* its results may be trusted at.  Control plane and runner share it.      *)
(*                                                                         *)
(* An optional field is a sequence of at most one value.  A path is its    *)
(* text split at "/": "/tmp/x" is <<"", "tmp", "x">>.                       *)
(***************************************************************************)
EXTENDS Integers, FiniteSets, Sequences

Given(option) == option # <<>>
Or(option, default) == IF Given(option) THEN option[1] ELSE default

-----------------------------------------------------------------------------
(* Manifests as they come out of the parser *)

Fidelities == {"unspecified", "marker_only", "behavioral"}

Optional(S) == {option \in Seq(S) : Len(option) <= 1}
Paths == Seq(STRING) \ {<<>>}
Targets == [octets : [1..4 -> 0..255], prefix : Nat]
References == Seq([technique : STRING, fidelity : Fidelities])

Fields == {"api", "nature", "action", "duration", "cpu", "canary", "breaker", "selector",
           "target", "cidr", "iface", "params", "technique", "refs", "fidelity"}

\* What serde leaves in a field; the others hold any text.
Parsed(field, value) ==
    /\ field \in {"duration", "cpu"} => value \in Nat
    /\ field \in {"canary", "target"} => value \in Optional(Paths)
    /\ field = "cidr" => value \in Optional(Targets)
    /\ field = "params" => \A name \in DOMAIN value : value[name] \in Int
    /\ field \in {"technique", "fidelity"} => value \in Optional(STRING)
    /\ field = "refs" => value \in Optional(References)

IsManifest(m) ==
    Fields \subseteq DOMAIN m /\ \A field \in Fields : Parsed(field, m[field])

-----------------------------------------------------------------------------
(* Blast radius *)

CanaryRoots == {<<"", "tmp", "asmodeus-canary">>, <<"", "var", "tmp", "asmodeus-canary">>}

Begins(path, prefix) ==
    Len(prefix) <= Len(path) /\ SubSeq(path, 1, Len(prefix)) = prefix

\* trim_end_matches('/')
Trimmed(path) ==
    SubSeq(path, 1, CHOOSE n \in 0..Len(path) :
                        /\ n = 0 \/ path[n] # ""
                        /\ \A i \in (n + 1)..Len(path) : path[i] = "")

\* Mutant: the prefix alone decides.
PathPrefixed(path) ==
    \E root \in CanaryRoots :
        Trimmed(path) = root \/ (Begins(path, root) /\ Len(path) > Len(root))

\* path_in_scope
PathInScope(path) ==
    /\ \A i \in DOMAIN path : path[i] # ".."
    /\ \E root \in CanaryRoots :
          Trimmed(path) = root \/ (Begins(path, root) /\ Len(path) > Len(root))

\* Path::starts_with compares names.
Names(path) ==
    LET names[n \in 0..Len(path)] ==
            IF n = 0 THEN <<>>
            ELSE IF path[n] \in {"", "."} THEN names[n - 1] ELSE Append(names[n - 1], path[n])
    IN  names[Len(path)]

\* loopback and the three test nets
NetTestBlocks == {[octets |-> <<127, 0, 0, 0>>,    prefix |-> 8],
                  [octets |-> <<192, 0, 2, 0>>,    prefix |-> 24],
                  [octets |-> <<198, 51, 100, 0>>, prefix |-> 24],
                  [octets |-> <<203, 0, 113, 0>>,  prefix |-> 24]}

\* How many values octet i of a block takes.
Spread(prefix, i) ==
    LET free == 8 * i - prefix
    IN  2 ^ (IF free < 0 THEN 0 ELSE IF free > 8 THEN 8 ELSE free)

\* The address under the mask of the prefix.
Network(octets, prefix) ==
    [i \in 1..4 |-> octets[i] - (octets[i] % Spread(prefix, i))]

\* Mutant: a target wider than the block passes.
NetOverlaps(cidr) ==
    /\ cidr.prefix <= 32
    /\ \E block \in NetTestBlocks :
          Network(Network(cidr.octets, cidr.prefix), block.prefix) = block.octets

\* net_target_in_scope; a prefix above 32 does not parse.
NetTargetInScope(cidr) ==
    /\ cidr.prefix <= 32
    /\ \E block \in NetTestBlocks :
          /\ cidr.prefix >= block.prefix
          /\ Network(Network(cidr.octets, cidr.prefix), block.prefix) = block.octets

\* What a block means: its addresses, from the first to the last.
First(cidr) == Network(cidr.octets, cidr.prefix)
Last(cidr) == [i \in 1..4 |-> First(cidr)[i] + Spread(cidr.prefix, i) - 1]

AtMost(a, b) ==
    a = b \/ \E i \in 1..4 : a[i] < b[i] /\ \A j \in 1..(i - 1) : a[j] = b[j]

Reserved(cidr) ==
    \E block \in NetTestBlocks :
        AtMost(First(block), First(cidr)) /\ AtMost(Last(cidr), Last(block))

-----------------------------------------------------------------------------
(* Techniques and fidelity *)

\* The pinned taxonomy; ids are compared without case.
Canonical(id) == IF id = "t1486" THEN "T1486" ELSE id
KnownTechniques == {"T1486", "T1611", "T1059", "T1071", "T1568", "T1003", "T1070", "T1053",
                    "T1041", "T1562", "T1609", "T1059.004", "T1071.001", "T1071.004",
                    "T1562.001"}
Known(id) == Canonical(id) \in KnownTechniques

Trust == [unspecified |-> 0, marker_only |-> 1, behavioral |-> 2]
Weaker(a, b) == IF Trust[a] <= Trust[b] THEN a ELSE b
ClaimsBehavioral(fidelity) == fidelity = "behavioral"

\* What the executor of an action really does.
Implemented(action) ==
    IF action \in {"synthetic_canary_encrypt", "latency_spike"} THEN "behavioral"
                                                                ELSE "marker_only"

\* Mutant: an old manifest is believed.
EffectiveAsDeclared(m) ==
    Weaker(IF Given(m.fidelity) THEN m.fidelity[1] ELSE "unspecified", Implemented(m.action))

\* effective_fidelity: never more than the executor does, nothing for v1alpha1.
EffectiveFidelity(m) ==
    IF m.api = "v1alpha1" THEN "unspecified"
    ELSE Weaker(IF Given(m.fidelity) /\ m.fidelity[1] \in Fidelities
                THEN m.fidelity[1] ELSE "unspecified", Implemented(m.action))

\* Mutant: a technique is trusted as much as the scenario.
TechniqueCeiling(m, id) == EffectiveFidelity(m)

\* technique_fidelity: only the encryption of canaries behaves, and as T1486.
TechniqueFidelity(m, id) ==
    IF m.action = "synthetic_canary_encrypt" /\ Canonical(id) = "T1486"
    THEN EffectiveFidelity(m)
    ELSE Weaker(EffectiveFidelity(m), "marker_only")

\* primary_technique
PrimaryTechnique(m) ==
    LET named == IF Given(m.refs) /\ m.refs[1] # <<>> THEN <<m.refs[1][1].technique>>
                                                      ELSE m.technique
    IN  IF Given(named) /\ Known(named[1]) THEN Canonical(named[1]) ELSE ""

\* resolved_technique_refs
ResolvedRefs(m) ==
    IF Given(m.refs)
    THEN [i \in DOMAIN m.refs[1] |->
             LET ref == m.refs[1][i]
             IN  [technique |-> ref.technique,
                  fidelity |-> Weaker(ref.fidelity, TechniqueFidelity(m, ref.technique))]]
    ELSE [i \in DOMAIN m.technique |->
             [technique |-> m.technique[i],
              fidelity |-> TechniqueFidelity(m, m.technique[i])]]

-----------------------------------------------------------------------------
(* Execution plan *)

Actions == {"synthetic_canary_encrypt", "k8s_escape_probe", "c2_beacon", "credential_canary",
            "log_tamper_canary", "persistence_canary", "exfiltration_canary",
            "watchdog_probe", "latency_spike"}

\* The numbers an action takes.
Allowed(action) ==
    {"duration_ms"} \cup
    CASE action = "synthetic_canary_encrypt" -> {"file_count", "chunk_size_kb", "io_rate_per_sec"}
      [] action = "c2_beacon"                -> {"file_count"}
      [] action = "exfiltration_canary"      -> {"chunk_size_kb"}
      [] action = "latency_spike"            -> {"latency_ms", "jitter_ms", "loss_percent"}
      [] OTHER                               -> {}

Bounds(action) ==
    [file_count |-> 1..(IF action = "c2_beacon" THEN 100 ELSE 200), chunk_size_kb |-> 1..256,
     io_rate_per_sec |-> 1..1000, duration_ms |-> 0..120000,
     latency_ms |-> 0..5000, jitter_ms |-> 0..1000, loss_percent |-> 0..50]

Default == [file_count |-> 20, chunk_size_kb |-> 64, io_rate_per_sec |-> 0, duration_ms |-> 0,
            latency_ms |-> 100, jitter_ms |-> 0, loss_percent |-> 0]

Number(m, name) == IF name \in DOMAIN m.params THEN m.params[name] ELSE Default[name]

Loopback == [octets |-> <<127, 0, 0, 1>>, prefix |-> 32]

TargetDir(m) ==
    IF Given(m.target) THEN m.target[1] ELSE Or(m.canary, <<"", "tmp", "asmodeus-canary">>)

\* Mutant: a target beside the declared canary directory is taken.
CompilesAnywhere(m) ==
    /\ m.action \in Actions
    /\ DOMAIN m.params \subseteq Allowed(m.action)
    /\ Given(m.iface) => m.action = "latency_spike" /\ m.iface[1] \notin {"", "much-too-long-name"}
    /\ m.duration > 0 /\ m.cpu > 0
    /\ m.selector = {} /\ m.breaker = "on"
    /\ \A name \in DOMAIN m.params : m.params[name] \in Bounds(m.action)[name]
    /\ Number(m, "file_count") * Number(m, "chunk_size_kb") <= 20 * 1024
    /\ Number(m, "duration_ms") <= 1000 * m.duration
    /\ Given(m.cidr) => m.action = "latency_spike"

\* from_manifest refuses what it cannot bound.
Compiles(m) ==
    /\ m.action \in Actions
    /\ DOMAIN m.params \subseteq Allowed(m.action)
    /\ Given(m.iface) => m.action = "latency_spike" /\ m.iface[1] \notin {"", "much-too-long-name"}
    /\ m.duration > 0 /\ m.cpu > 0
    /\ m.selector = {} /\ m.breaker = "on"
    /\ Given(m.canary) => Begins(Names(TargetDir(m)), Names(m.canary[1]))
    /\ \A name \in DOMAIN m.params : m.params[name] \in Bounds(m.action)[name]
    /\ Number(m, "file_count") * Number(m, "chunk_size_kb") <= 20 * 1024
    /\ Number(m, "duration_ms") <= 1000 * m.duration
    /\ Given(m.cidr) => m.action = "latency_spike"

Plan(m) ==
    [action |-> m.action, dir |-> TargetDir(m), seconds |-> m.duration, cpu |-> m.cpu,
     cidr |-> Or(m.cidr, Loopback), iface |-> Or(m.iface, "lo"),
     numbers |-> [name \in DOMAIN Default |-> Number(m, name)]]

-----------------------------------------------------------------------------
(* Validation *)

\* validate_manifest
Valid(m) ==
    /\ m.api \in {"v1alpha1", "v1alpha2"}
    /\ m.nature = "synthetic"
    /\ m.duration <= 300 /\ m.cpu <= 85
    /\ Given(m.canary) => PathInScope(m.canary[1])
    /\ Given(m.target) => PathInScope(m.target[1])
    /\ Given(m.cidr) => NetTargetInScope(m.cidr[1])
    /\ Given(m.technique) => Known(m.technique[1])
    /\ Given(m.refs) => \A i \in DOMAIN m.refs[1] : Known(m.refs[1][i].technique)
    /\ Given(m.technique) /\ Given(m.refs) =>
          /\ m.refs[1] # <<>>
          /\ Canonical(m.refs[1][1].technique) = Canonical(m.technique[1])
    /\ Given(m.fidelity) => m.fidelity[1] \in Fidelities
    /\ Compiles(m)

\* action_for_scenario
ActionFor ==
    [RANSOMWARE_CANARY_SPIKE  |-> "synthetic_canary_encrypt",
     K8S_ESCAPE_SIMULATION    |-> "k8s_escape_probe",
     C2_BEACONING_SIMULATION  |-> "c2_beacon",
     CREDENTIAL_ACCESS_CANARY |-> "credential_canary",
     LOG_TAMPER_CANARY        |-> "log_tamper_canary",
     PERSISTENCE_CRON_CANARY  |-> "persistence_canary",
     DATA_EXFILTRATION_CANARY |-> "exfiltration_canary",
     DEFENSE_IMPAIRMENT_CANARY |-> "watchdog_probe",
     AGENT_CRASH_ENDPOINT     |-> "watchdog_probe",
     LATENCY_SPIKE_VM         |-> "latency_spike",
     DNS_RPZ_SINKHOLE_DROP    |-> "latency_spike"]

\* synthetic_manifest: with the defaults of the safety section.
SyntheticManifest(id, target, fileCount, chunk) ==
    LET action == ActionFor[id]
        files == IF action \in {"synthetic_canary_encrypt", "c2_beacon"}
                 THEN {"file_count"} ELSE {}
        chunks == IF action \in {"synthetic_canary_encrypt", "exfiltration_canary"}
                  THEN {"chunk_size_kb"} ELSE {}
    IN  [id |-> id, api |-> "v1alpha1", nature |-> "synthetic", action |-> action,
         duration |-> 60, cpu |-> 25, canary |-> <<>>, breaker |-> "on", selector |-> {},
         target |-> <<target>>, cidr |-> <<>>, iface |-> <<>>,
         params |-> [name \in files \cup chunks |->
                        IF name = "file_count" THEN fileCount ELSE chunk],
         technique |-> <<>>, refs |-> <<>>, fidelity |-> <<>>]
=============================================================================
