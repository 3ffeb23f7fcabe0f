-------------------------- MODULE ScenarioManifest --------------------------
(***************************************************************************)
(* An author writes a manifest, field by field from one that is good, and  *)
(* asks the control plane what it makes of it (POST scenarios/validate).   *)
(***************************************************************************)
EXTENDS ScenarioLanguage

CONSTANTS
    Bases,    \* manifests to start from
    Values,   \* field -> what the author may write there
    MaxEdits  \* bound: fields that differ from the base

ASSUME BasesAssumption == \A m \in Bases : IsManifest(m)
ASSUME ValuesAssumption ==
    \A field \in DOMAIN Values : \A value \in Values[field] : Parsed(field, value)

VARIABLES
    manifest, \* as it stands
    edits     \* fields changed so far

manifestVars == <<manifest, edits>>

ManifestInit == manifest \in Bases /\ edits = {}

Edit(field) ==
    /\ Cardinality(edits) < MaxEdits
    /\ field \notin edits
    /\ \E value \in Values[field] \ {manifest[field]} :
          manifest' = [manifest EXCEPT ![field] = value]
    /\ edits' = edits \cup {field}

ManifestNext == \E field \in DOMAIN Values : Edit(field)

ManifestSpec == ManifestInit /\ [][ManifestNext]_manifestVars

\* validate_scenario_manifest: refused, or what the scenario will count as.
Validation(m) ==
    IF Valid(m)
    THEN [valid |-> "yes", technique |-> PrimaryTechnique(m),
          fidelity |-> EffectiveFidelity(m), refs |-> ResolvedRefs(m)]
    ELSE [valid |-> "no"]

-----------------------------------------------------------------------------
(* What a path means, whatever the checks look at *)

\* Where the kernel ends up: "." and empty names stay, ".." goes up.
Resolved(path) ==
    LET walk[n \in 0..Len(path)] ==
            IF n = 0 THEN <<>>
            ELSE CASE path[n] \in {"", "."} -> walk[n - 1]
                   [] path[n] = ".."        -> SubSeq(walk[n - 1], 1, Len(walk[n - 1]) - 1)
                   [] OTHER                 -> Append(walk[n - 1], path[n])
    IN  walk[Len(path)]

\* Absolute, and inside a root or the root itself.
Confined(path) ==
    path[1] = "" /\ \E root \in CanaryRoots : Begins(Resolved(path), Tail(root))

-----------------------------------------------------------------------------
(* Properties *)

\* Numbers n that end a plan within its deadline and keep every limit that the
\* runner's injectors and network rules have of their own, so that none of them has
\* to clamp.
WithinLimits(plan, n) ==
    /\ plan.seconds \in 1..300 /\ plan.cpu \in 1..85
    /\ n.duration_ms <= 1000 * plan.seconds
    /\ n.file_count * n.chunk_size_kb * 1024 <= 20 * 1024 * 1024
    /\ plan.action = "c2_beacon" => n.file_count \in 1..100
    /\ n.chunk_size_kb \in 1..1024
    /\ n.latency_ms <= 5000 /\ n.jitter_ms <= 1000 /\ n.loss_percent <= 50

\* A plan that writes below a canary root and inside the directory the author
\* named, reaches reserved addresses only and stays within the limits.
IsConfined(m, plan) ==
    /\ Confined(plan.dir) /\ Reserved(plan.cidr)
    /\ Given(m.canary) => Begins(Resolved(plan.dir), Resolved(m.canary[1]))
    /\ WithinLimits(plan, plan.numbers)

\* INV-0 (lib.rs:5): whatever is admitted, its plan is confined.
AdmittedIsConfined == Valid(manifest) => IsConfined(manifest, Plan(manifest))

\* A manifest that declares more than its executor does is not believed, an
\* old one never, and a technique counts as exercised only where canaries are
\* encrypted (manifest.rs:176): no spelling, list or default promotes it.
NeverPromoted ==
    LET answer == Validation(manifest)
    IN  answer.valid = "yes" =>
            /\ answer.fidelity # "unspecified" =>
                  /\ manifest.api = "v1alpha2"
                  /\ Trust[answer.fidelity] <= Trust[manifest.fidelity[1]]
            /\ ClaimsBehavioral(answer.fidelity) =>
                  manifest.action \in {"synthetic_canary_encrypt", "latency_spike"}
            /\ \A i \in DOMAIN answer.refs :
                  /\ Trust[answer.refs[i].fidelity] <= Trust[answer.fidelity]
                  /\ ClaimsBehavioral(answer.refs[i].fidelity) =>
                        /\ manifest.action = "synthetic_canary_encrypt"
                        /\ Canonical(answer.refs[i].technique) = "T1486"
            /\ answer.refs # <<>> => Canonical(answer.refs[1].technique) = answer.technique

\* What is admitted stays in the canary roots, test networks and limits, and
\* claims no more fidelity than its action has (plan, technique_fidelity).
ManifestsAreConfined ==
    /\ AdmittedIsConfined
    /\ NeverPromoted
=============================================================================
