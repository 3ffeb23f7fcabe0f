---------------------------- MODULE AuditReports ----------------------------
(***************************************************************************)
(* What is told of the audit of AuditLog: the metrics endpoint, from running*)
(* totals, and the resilience and compliance reports, which are computed   *)
(* again from the records.                                                 *)
(***************************************************************************)
EXTENDS RunAggregate, FiniteSets, Functions

CONSTANTS
    Runs, Modes, Statuses, NoRecord,
    Scenario,  \* run -> technique, tactic and category that its record names
    Catalog    \* the scenarios of the catalog: primary technique and references

VARIABLES
    log,       \* the audit
    aggregate  \* the running totals

Audit == INSTANCE AuditLog

TargetMttr == 300

\* The records of the audit, with their run ids, in some order.
RunOrder == CHOOSE order \in [1..Cardinality(Runs) -> Runs] : IsInjective(order)
Records ==
    LET known == SelectSeq(RunOrder, LAMBDA r : log[r] # NoRecord)
    IN  [i \in DOMAIN known |->
            [run |-> known[i], status |-> log[known[i]].status,
             mode |-> log[known[i]].mode, feedback |-> log[known[i]].feedback]]
Get(r) == CHOOSE record \in {Records[i] : i \in DOMAIN Records} : record.run = r

Lesser(a, b) == IF a < b THEN a ELSE b
Count(P(_), revisions) == Cardinality({i \in DOMAIN revisions : P(revisions[i])})

-----------------------------------------------------------------------------
(* Figures of an aggregate.  Percentages are cross-multiplied, never rounded. *)

Mean(sum, samples) == IF samples = 0 THEN 0 ELSE sum \div samples

MeanMttd(a) == Mean(a.sumMttd, a.detected)
MeanMttr(a) == Mean(a.sumMttr, a.contained)

\* Recovery speed is this over Lesser(1, mean): 100 at the target and below.
RecoverySpeed(a) ==
    CASE a.contained = 0  -> <<0, 1>>
      [] MeanMttr(a) = 0  -> <<100, 1>>
      [] OTHER            -> <<Lesser(100 * MeanMttr(a), 100 * TargetMttr), MeanMttr(a)>>

\* Mutant: a run that nobody answered for counts as repelled.
ResilienceScoreOfExecuted(a) ==
    LET speed == RecoverySpeed(a)
    IN  IF a.executed = 0 THEN speed[1] \div (2 * speed[2])
        ELSE (100 * (a.executed - a.feedback + a.detected) * speed[2] + speed[1] * a.executed)
                \div (2 * a.executed * speed[2])

\* resilience_score: half the detection rate, half the recovery speed.
ResilienceScore(a) ==
    LET speed == RecoverySpeed(a)
    IN  IF a.feedback = 0 THEN speed[1] \div (2 * speed[2])
        ELSE (100 * a.detected * speed[2] + speed[1] * a.feedback)
                \div (2 * a.feedback * speed[2])

\* prometheus_text
Metrics(a) ==
    [score |-> ResilienceScore(a), mttd |-> MeanMttd(a), mttr |-> MeanMttr(a),
     executed |-> a.executed, feedback |-> a.feedback, simulated |-> a.simulated,
     pending |-> a.pending]

\* telemetry_mttd
Telemetry(a) ==
    [completed |-> a.executed, confirmed |-> a.feedback, simulated |-> a.simulated,
     pending |-> a.pending, detected |-> a.detected, contained |-> a.contained,
     mttd |-> MeanMttd(a), mttr |-> MeanMttr(a)]

\* report of campaign_execution.rs: the stages' records as they are now, where
\* there are any.
CampaignReport(stages) ==
    LET a == FromRecords(SelectSeq(Records, LAMBDA rev : rev.run \in stages))
    IN  [confirmed |-> a.feedback, simulated |-> a.simulated, pending |-> a.pending,
         mttd |-> MeanMttd(a), mttr |-> MeanMttr(a), score |-> ResilienceScore(a)]

-----------------------------------------------------------------------------
(* Resilience report *)

Detected(revision) == revision.feedback # "missed"
Contained(revision) == revision.feedback \in Containing
\* The runner confirms the cleanup of what it completes.
Cleaned(revision) == revision.status = "COMPLETED"

\* Mutant: simulated runs are evidence.
EvidenceAnyMode(revisions) ==
    SelectSeq(revisions, LAMBDA rev : IsTerminal(rev) /\ rev.feedback # NoFeedback)

Evidence(revisions) == SelectSeq(revisions, LAMBDA rev : IsTerminal(rev) /\ Confirmed(rev))

Tactic(revision) ==
    IF Scenario[revision.run].tactic = "" THEN "Infrastructure Chaos"
                                          ELSE Scenario[revision.run].tactic

TacticsBreakdown(evidence) ==
    [tactic \in {Tactic(evidence[i]) : i \in DOMAIN evidence} |->
        FromRecords(SelectSeq(evidence, LAMBDA rev : Tactic(rev) = tactic))]

\* One NIST function: how many, how many well, and the verdict.
Assessment(total, good, bar, names) ==
    [total |-> total, good |-> good,
     status |-> IF total = 0 THEN "NO DATA"
                ELSE IF 100 * good >= bar * total THEN names[1] ELSE names[2]]

Protected == {"T1003", "T1053", "T1562", "T1562.001"}

NistFunctions(evidence) ==
    LET Known(rev) == TRUE
        Attack(rev) == Scenario[rev.run].category = "red_team"
        Hardening(rev) == Scenario[rev.run].technique \in Protected
        InTime(rev) == Contained(rev) /\ Feedback[rev.feedback][2] <= 2 * TargetMttr
        Both(P(_), Q(_)) == Count(LAMBDA rev : P(rev) /\ Q(rev), evidence)
    IN  [protect |-> Assessment(Both(Hardening, Known), Both(Hardening, Detected), 80,
                                <<"STRONG", "ATTENTION_REQUIRED">>),
         detect  |-> Assessment(Both(Attack, Known), Both(Attack, Detected), 90,
                                <<"OPTIMAL", "IMPROVEMENT_NEEDED">>),
         respond |-> Assessment(Both(Detected, Known), Both(Detected, InTime), 80,
                                <<"AGILE", "LATENCY_RISK">>),
         recover |-> Assessment(Both(Known, Known), Both(Known, Cleaned), 100,
                                <<"VERIFIED", "CLEANUP_UNCONFIRMED">>)]

MttrStatus(a) ==
    CASE a.contained = 0              -> "NO DATA"
      [] MeanMttr(a) <= TargetMttr    -> "COMPLIANT"
      [] OTHER                        -> "DEGRADED"

Recommendations(a) ==
    LET wanted == {n \in {"tune playbooks", "enhance sensors", "collect feedback"} :
            CASE n = "tune playbooks"   -> MeanMttr(a) > TargetMttr
              [] n = "enhance sensors"  -> a.feedback > 0 /\ 100 * a.detected < 90 * a.feedback
              [] n = "collect feedback" -> a.feedback = 0}
    IN  IF wanted = {} THEN {"continue"} ELSE wanted

\* EcosystemResilienceReport::build
ResilienceReport(revisions) ==
    LET a == FromRecords(revisions)
        evidence == Evidence(revisions)
    IN  [metrics |-> Metrics(a), sla |-> MttrStatus(a), functions |-> NistFunctions(evidence),
         tactics |-> TacticsBreakdown(evidence), advice |-> Recommendations(a)]

\* get_resilience_report: the totals are counted again.
ResilienceNow == ResilienceReport(Records)

-----------------------------------------------------------------------------
(* Compliance report *)

Controls ==
    [NistMonitoring  |-> {"T1071", "T1568", "T1041"},
     NistDataAtRest  |-> {"T1486"},
     NistCredentials |-> {"T1003"},
     NistResponse    |-> {"T1486", "T1611", "T1053", "T1562.001"},
     PciTesting      |-> {"T1486", "T1611", "T1071", "T1003", "T1041"},
     PciDetection    |-> {"T1070", "T1053", "T1562.001"}]

\* matches_any
Matches(meta, techniques) ==
    meta.technique \in techniques \/ \E ref \in meta.refs : ref.technique \in techniques

\* is_behavioral_for_any: by the reference that matches, never by the ceiling.
IsBehavioralFor(meta, techniques) ==
    IF meta.refs # {}
    THEN \E ref \in meta.refs : ref.fidelity = "behavioral" /\ ref.technique \in techniques
    ELSE meta.fidelity = "behavioral" /\ meta.technique \in techniques

\* Mutant: every run of the technique is taken for evidence.
ControlRunsAny(techniques, revisions) ==
    SelectSeq(revisions, LAMBDA rev : Scenario[rev.run].technique \in techniques)

\* A record counts by the one technique it names.
ControlRuns(techniques, revisions) ==
    SelectSeq(revisions, LAMBDA rev : Confirmed(rev) /\ Scenario[rev.run].technique \in techniques)

Control(techniques, revisions) ==
    LET matching == {meta \in Catalog : Matches(meta, techniques)}
        runs == ControlRuns(techniques, revisions)
        total == Len(runs)
        detected == Count(Detected, runs)
    IN  [matching |-> matching,
         behavioral |-> {meta \in matching : IsBehavioralFor(meta, techniques)},
         total |-> total, detected |-> detected,
         status |-> CASE matching = {}                    -> "NOT_TESTED"
                      [] matching # {} /\ total = 0       -> "NO_EVIDENCE"
                      [] matching # {} /\ total > 0       ->
                            IF 100 * detected >= 80 * total THEN "COMPLIANT"
                            ELSE IF 100 * detected >= 40 * total THEN "PARTIAL"
                            ELSE "NON_COMPLIANT"]

\* ComplianceReport::generate
ComplianceReport(revisions) ==
    LET controls == [id \in DOMAIN Controls |-> Control(Controls[id], revisions)]
        With(status) == Cardinality({id \in DOMAIN Controls : controls[id].status = status})
        total == Cardinality(DOMAIN Controls)
    IN  [controls |-> controls, compliant |-> With("COMPLIANT"), partial |-> With("PARTIAL"),
         score |-> (100 * With("COMPLIANT") + 50 * With("PARTIAL")) \div total]

\* get_compliance_report
ComplianceNow == ComplianceReport(Records)

-----------------------------------------------------------------------------
(* Single run *)

\* What the report says of the Blue Team.
RunReport(r) ==
    CASE ~Confirmed(Get(r))                     -> "AWAITING"
      [] Confirmed(Get(r)) /\ Detected(Get(r))  -> "DETECTED"
      [] Confirmed(Get(r)) /\ ~Detected(Get(r)) -> "NOT DETECTED"

-----------------------------------------------------------------------------
(* The audit as it grows *)

vars == <<log, aggregate>>

Init == Audit!Init /\ aggregate = Nothing

\* update_run: the record that is replaced is taken out.
Next ==
    \E r \in Runs :
        /\ Audit!Admit(r) \/ Audit!End(r) \/ Audit!TakeFeedback(r)
        /\ aggregate' = Plus(IF log[r] = NoRecord THEN aggregate
                                                 ELSE Minus(aggregate, Contribution(log[r])),
                             Contribution(log[r]'))

Spec == Init /\ [][Next]_vars

-----------------------------------------------------------------------------
(* Properties *)

\* Two ways of counting, from running totals and from the records, and five
\* places that show the result: they cannot contradict each other.  Tactics
\* partition the evidence, single-run verdicts add up to the totals, and so do
\* campaigns that share out the runs.
ReportsAgree ==
    LET report == ResilienceNow
        shown == Telemetry(aggregate)
        tactics == DOMAIN report.tactics
        SumOver(c) == FoldFunction(LAMBDA x, y : x + y, 0,
                                   [t \in tactics |-> report.tactics[t][c]])
        Verdicts(v) == Cardinality({r \in Runs : /\ log[r] # NoRecord
                                                 /\ IsTerminal(Get(r))
                                                 /\ RunReport(r) = v})
        one == CampaignReport({RunOrder[1]})
        rest == CampaignReport(Runs \ {RunOrder[1]})
    IN  /\ report.metrics = Metrics(aggregate)
        /\ report.functions.recover.total = shown.confirmed
        /\ report.functions.respond.total = shown.detected
        /\ \A c \in {"feedback", "detected", "contained", "sumMttd", "sumMttr"} :
                SumOver(c) = aggregate[c]
        /\ SumOver("executed") = shown.confirmed
        /\ Verdicts("DETECTED") = shown.detected
        /\ Verdicts("AWAITING") = shown.simulated + shown.pending
        /\ \A c \in {"confirmed", "simulated", "pending"} : one[c] + rest[c] = shown[c]
        /\ CampaignReport(Runs).score = Metrics(aggregate).score

\* No figure of merit without evidence (lib.rs:73): any score takes a detection
\* that an operator confirmed for a runner's run, more than half of it takes a
\* confirmed containment too, and a control is met only by such detections.
MeritIsEarned ==
    LET Live(P(_)) == \E i \in DOMAIN Records : /\ Records[i].mode = "runner"
                                                /\ Records[i].feedback # NoFeedback
                                                /\ P(Records[i])
        score == ResilienceScore(aggregate)
        controls == ComplianceNow.controls
    IN  /\ score > 0 => Live(Detected)
        /\ score > 50 => Live(Contained)
        /\ \A id \in DOMAIN Controls :
                controls[id].status \in {"COMPLIANT", "PARTIAL"} =>
                    Live(LAMBDA rev : Detected(rev) /\ Scenario[rev.run].technique \in Controls[id])

\* Runs that only started, ended, were simulated, or were never answered for
\* move no figure of merit in any report, whatever is said of a simulated one:
\* without them every report is the same.
OnlyEvidenceCounts ==
    LET evidence == Evidence(Records)
        full == ResilienceNow
        bare == ResilienceReport(evidence)
    IN  /\ ResilienceScore(aggregate) = bare.metrics.score
        /\ full.sla = bare.sla /\ full.functions = bare.functions
        /\ full.tactics = bare.tactics /\ full.advice = bare.advice
        /\ ComplianceNow = ComplianceReport(evidence)
=============================================================================
