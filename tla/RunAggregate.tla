---------------------------- MODULE RunAggregate ----------------------------
(***************************************************************************)
(* What one audit record counts for: Aggregate of asmodeus-telemetry.      *)
(***************************************************************************)
EXTENDS Integers, Sequences

CONSTANT NoFeedback

\* What an operator says of a run: detection and containment times (ms).
Feedback == [missed    |-> <<0, 0>>,  detected |-> <<120, 0>>,
             contained |-> <<80, 200>>, late     |-> <<120, 700>>]
Feedbacks == DOMAIN Feedback
Containing == {"contained", "late"}

IsTerminal(revision) == revision.status # "QUEUED"

\* has_confirmed_feedback
Confirmed(revision) == revision.mode = "runner" /\ revision.feedback # NoFeedback

Counters == {"executed", "simulated", "pending", "feedback", "detected", "contained",
             "sumMttd", "sumMttr"}

\* Mutant: a simulated run with feedback counts as both.
ContributionBoth(revision) ==
    LET live == revision.feedback # NoFeedback
        figures == IF live THEN Feedback[revision.feedback] ELSE <<0, 0>>
        One(condition) == IF condition THEN 1 ELSE 0
        counted == IsTerminal(revision)
    IN  [executed  |-> One(counted),
         simulated |-> One(counted /\ revision.mode = "simulated"),
         pending   |-> One(counted /\ ~live /\ revision.mode # "simulated"),
         feedback  |-> One(counted /\ live),
         detected  |-> One(counted /\ live /\ revision.feedback # "missed"),
         contained |-> One(counted /\ live /\ revision.feedback \in Containing),
         sumMttd   |-> IF counted /\ live THEN figures[1] ELSE 0,
         sumMttr   |-> IF counted /\ live THEN figures[2] ELSE 0]

\* contribution: only live runs with feedback count for the defence.
Contribution(revision) ==
    LET live == Confirmed(revision)
        figures == IF live THEN Feedback[revision.feedback] ELSE <<0, 0>>
        One(condition) == IF condition THEN 1 ELSE 0
        counted == IsTerminal(revision)
    IN  [executed  |-> One(counted),
         simulated |-> One(counted /\ revision.mode = "simulated"),
         pending   |-> One(counted /\ ~live /\ revision.mode # "simulated"),
         feedback  |-> One(counted /\ live),
         detected  |-> One(counted /\ live /\ revision.feedback # "missed"),
         contained |-> One(counted /\ live /\ revision.feedback \in Containing),
         sumMttd   |-> IF counted /\ live THEN figures[1] ELSE 0,
         sumMttr   |-> IF counted /\ live THEN figures[2] ELSE 0]

Nothing == [c \in Counters |-> 0]

\* combine: sums, or saturating differences.
Plus(a, b) == [c \in Counters |-> a[c] + b[c]]
Minus(a, b) == [c \in Counters |-> IF b[c] > a[c] THEN 0 ELSE a[c] - b[c]]

\* from_records: what startup computes.
FromRecords(revisions) ==
    [c \in Counters |->
        LET sum[n \in 0..Len(revisions)] ==
                IF n = 0 THEN 0 ELSE sum[n - 1] + Contribution(revisions[n])[c]
        IN  sum[Len(revisions)]]
=============================================================================
