-------------------------- MODULE MCRunnerRegistry --------------------------
(***************************************************************************)
(* Instances of RunnerRegistry.  A runner and the probes that know it hold *)
(* at most one epoch token each, so one token more than probers + 1 always *)
(* leaves a free address, and freed ones are reused.                       *)
(***************************************************************************)
EXTENDS RunnerRegistry, TLC

CONSTANTS e1, e2, e3, e4, e5

\* Two runners: routing.  Tag 1 is also the id of a runner, so that a target
\* can mean either.
RoutingIds     == {1, 2}
RoutingTagSets == {{1}}
RoutingTargets == {1, 2}
RoutingEpochs  == {e1, e2, e3, e4}

\* One runner that moves between two addresses: fencing of late answers.
FencingIds     == {1}
FencingTagSets == {{}}
FencingTargets == {1}
FencingEpochs  == {e1, e2, e3, e4, e5}

RoutingSymmetry == Permutations(RoutingEpochs)
FencingSymmetry == Permutations(FencingEpochs) \cup Permutations(Pingers)
=============================================================================
