--------------------------- MODULE ProcedureSuite ---------------------------
(***************************************************************************)
(* The local procedure experiment of a runner's host: run_suite of         *)
(* procedure_suite.rs over run_in_root of procedure_local.rs.  Each slot   *)
(* of the corpus is tried in two variants against receivers on loopback;   *)
(* a kill switch, a deadline, the network or the file system may end an    *)
(* attempt, and the process may die in it.  A report never attests         *)
(* protection: protection_result is the constant INCONCLUSIVE.             *)
(*                                                                         *)
(* Payloads are left out: a receiver owned by the attempt gets what was    *)
(* sent, or the fixture fails.  RunnerHost has the sandbox itself.         *)
(***************************************************************************)
EXTENDS Naturals, Sequences, FiniteSets

CONSTANTS
    Corpus,    \* the slots, in order
    Suites,    \* suite ids
    MaxSuites  \* bound: suites run, under the same id or others

\* A list of slots.
ASSUME CorpusAssumption == Corpus \in Seq(STRING)

VARIABLES
    dirs,      \* attempts whose ephemeral directory exists
    ledgers,   \* attempts whose ownership record exists
    suite,     \* the suite that runs, and its locals
    kill,      \* the cancellation flag of the call
    served,    \* served[a]: messages the receivers of attempt a ever got
    overdue,   \* messages received since the kill switch
    report,    \* what the last suite returned, and which directories it left
    started    \* suites this call was asked for (bounds the model)

suiteVars == <<dirs, ledgers, suite, kill, served, overdue, report, started>>

Variants == <<"positive", "benign">>
Attempts == Suites \X (1..Len(Corpus)) \X {"positive", "benign"}

\* Slots that have a local adapter.
Adapted == {"http-beacon", "synthetic-transfer", "dns-pattern"}

\* The messages a fixture sends: tcp_fixture and dns_fixture.
Messages(slot, variant) ==
    IF variant = "positive" /\ slot \in {"http-beacon", "dns-pattern"} THEN 4 ELSE 1

NoSuite == [pc |-> "idle"]
NoReport == [id |-> "none"]

SuiteInit ==
    /\ dirs = {}
    /\ ledgers = {}
    /\ suite = NoSuite
    /\ kill = "off"
    /\ served = [a \in Attempts |-> 0]
    /\ overdue = 0
    /\ report = NoReport
    /\ started = 0

\* The entry at hand is the next one: the variants of a slot follow each other.
Place  == Len(suite.entries)
Slot   == Corpus[(Place \div 2) + 1]
Kind   == Variants[(Place % 2) + 1]
Attempt == <<suite.id, (Place \div 2) + 1, Kind>>

\* Where the worker goes next.
SuiteGoto(pc) == suite' = [suite EXCEPT !.pc = pc]

-----------------------------------------------------------------------------
(* One attempt: run_in_root *)

\* Nothing is executed: the directory is not there for this call alone.
RejectedEntry == [kind |-> "gap", status |-> "REJECTED", cleanup |-> "none", receipts |-> 0]

Record(entry) ==
    suite' = [suite EXCEPT !.entries = Append(@, entry), !.pc = "next"]

\* Sandbox::create, exclusive.
Reserve ==
    /\ suite.pc = "reserve"
    /\ Attempt \notin dirs
    /\ dirs' = dirs \cup {Attempt}
    /\ SuiteGoto("ledger")
    /\ UNCHANGED <<ledgers, kill, served, overdue, report, started>>

\* It exists, or the file system fails.
ReserveRefused ==
    /\ suite.pc = "reserve"
    /\ Record(RejectedEntry)
    /\ UNCHANGED <<dirs, ledgers, kill, served, overdue, report, started>>

\* Mutant: an older record is overwritten.
LedgerReusable == TRUE

\* create_new
LedgerFree == Attempt \notin ledgers

\* The ownership record is written, and stays for good.
Own ==
    /\ suite.pc = "ledger"
    /\ LedgerFree
    /\ ledgers' = ledgers \cup {Attempt}
    /\ suite' = [suite EXCEPT !.pc = "fixture", !.receipts = 0]
    /\ UNCHANGED <<dirs, kill, served, overdue, report, started>>

\* It exists, or cannot be written in full; the dropped sandbox is removed, or
\* that fails silently.
OwnRefused ==
    /\ suite.pc = "ledger"
    /\ ledgers' \in {ledgers, ledgers \cup {Attempt}}
    /\ dirs' \in {dirs, dirs \ {Attempt}}
    /\ Record(RejectedEntry)
    /\ UNCHANGED <<kill, served, overdue, report, started>>

AttemptEnds(status) == suite' = [suite EXCEPT !.pc = "cleanup", !.status = status]

\* Guard::check stops at the kill switch or at the deadline; or the fixture
\* meets an error of its own.
AttemptStopped ==
    /\ suite.pc \in {"fixture", "receive", "answer"}
    /\ \/ AttemptEnds("Failed")
       \/ kill = "on" /\ AttemptEnds("Cancelled")
    /\ UNCHANGED <<dirs, ledgers, kill, served, overdue, report, started>>

\* No adapter: the guard is asked once, and nothing is opened.
NoAdapter ==
    /\ suite.pc = "fixture"
    /\ Slot \notin Adapted
    /\ kill = "off"
    /\ AttemptEnds("Unsupported")
    /\ UNCHANGED <<dirs, ledgers, kill, served, overdue, report, started>>

\* A check lets the next message through.
SendMessage ==
    /\ suite.pc = "fixture"
    /\ Slot \in Adapted
    /\ suite.receipts < Messages(Slot, Kind)
    /\ kill = "off"
    /\ SuiteGoto("receive")
    /\ UNCHANGED <<dirs, ledgers, kill, served, overdue, report, started>>

\* The owned receiver has the whole message: a receipt.
Receive ==
    /\ suite.pc = "receive"
    /\ suite' = [suite EXCEPT !.pc = "answer", !.receipts = @ + 1]
    /\ served' = [served EXCEPT ![Attempt] = @ + 1]
    /\ overdue' = IF kill = "on" THEN overdue + 1 ELSE overdue
    /\ UNCHANGED <<dirs, ledgers, kill, report, started>>

\* Its answer is read back; a pause, and the check that ends it.
AnswerBack ==
    /\ suite.pc = "answer"
    /\ kill = "off"
    /\ SuiteGoto("fixture")
    /\ UNCHANGED <<dirs, ledgers, kill, served, overdue, report, started>>

\* The last check of a fixture.
AllSent ==
    /\ suite.pc = "fixture"
    /\ Slot \in Adapted
    /\ suite.receipts = Messages(Slot, Kind)
    /\ kill = "off"
    /\ AttemptEnds("Executed")
    /\ UNCHANGED <<dirs, ledgers, kill, served, overdue, report, started>>

\* A cleanup that does not work fails the attempt, whatever it was.
CleanupAttempt(removed) ==
    /\ suite.pc = "cleanup"
    /\ dirs' = IF removed THEN dirs \ {Attempt} ELSE dirs
    /\ Record([kind |-> "evidence", receipts |-> suite.receipts,
               status |-> IF removed THEN suite.status ELSE "Failed",
               cleanup |-> IF removed THEN "VERIFIED" ELSE "FAILED"])
    /\ UNCHANGED <<ledgers, kill, served, overdue, report, started>>

-----------------------------------------------------------------------------
(* The suite *)

BeginSuite(s) ==
    /\ suite = NoSuite
    /\ started < MaxSuites
    /\ started' = started + 1
    /\ suite' = [pc |-> "next", id |-> s, entries |-> <<>>, receipts |-> 0, status |-> "none"]
    /\ kill' = "off"
    /\ overdue' = 0
    /\ report' = NoReport
    /\ UNCHANGED <<dirs, ledgers, served>>

\* Mutant: only the attempts look at the flag.
GoesOnKilled == TRUE

GoesOn == kill = "off"

NextVariant ==
    /\ suite.pc = "next"
    /\ Place < 2 * Len(Corpus)
    /\ \/ GoesOn /\ SuiteGoto("reserve")
       \/ /\ kill = "on"
          /\ Record([kind |-> "gap", status |-> "NOT_RUN", cleanup |-> "none", receipts |-> 0])
    /\ UNCHANGED <<dirs, ledgers, kill, served, overdue, report, started>>

Complete(entry) ==
    entry.status = "Executed" /\ entry.cleanup = "VERIFIED" /\ entry.receipts > 0

\* Mutant: what did not run does not count.
FailsExecuted(entry) ==
    entry.kind = "evidence" /\ ~Complete(entry)
        /\ ~(entry.status = "Unsupported" /\ entry.cleanup = "VERIFIED")

\* Only a missing adapter that left nothing behind is no failure.
Fails(entry) ==
    ~Complete(entry) /\ ~(entry.status = "Unsupported" /\ entry.cleanup = "VERIFIED")

CompletePairs(entries) ==
    Cardinality({i \in 1..(Len(entries) \div 2) :
                    Complete(entries[2 * i - 1]) /\ Complete(entries[2 * i])})

\* Mutant: the pairs are counted among those that have an adapter.
FixtureGateOfRun(entries) ==
    IF \E i \in DOMAIN entries : Fails(entries[i]) THEN "Failed" ELSE "Pass"

FixtureGate(entries) ==
    IF \E i \in DOMAIN entries : Fails(entries[i]) THEN "Failed"
    ELSE IF CompletePairs(entries) = Len(Corpus) THEN "Pass" ELSE "Inconclusive"

Report ==
    /\ suite.pc = "next"
    /\ Place = 2 * Len(Corpus)
    /\ report' = [id |-> suite.id, entries |-> suite.entries, gate |-> FixtureGate(suite.entries),
                  left |-> {a \in dirs : a[1] = suite.id}]
    /\ suite' = NoSuite
    /\ UNCHANGED <<dirs, ledgers, kill, served, overdue, started>>

KillSwitch ==
    /\ suite # NoSuite
    /\ kill = "off"
    /\ kill' = "on"
    /\ UNCHANGED <<dirs, ledgers, suite, served, overdue, report, started>>

\* What a dead process owned on the file system stays.
CrashSuite ==
    /\ suite # NoSuite
    /\ suite' = NoSuite
    /\ UNCHANGED <<dirs, ledgers, kill, served, overdue, report, started>>

SuiteNext ==
    \/ \E s \in Suites : BeginSuite(s)
    \/ \E removed \in BOOLEAN : CleanupAttempt(removed)
    \/ Reserve \/ ReserveRefused \/ Own \/ OwnRefused \/ AttemptStopped \/ NoAdapter
    \/ SendMessage \/ Receive \/ AnswerBack \/ AllSent
    \/ NextVariant \/ Report \/ KillSwitch \/ CrashSuite

SuiteSpec == SuiteInit /\ [][SuiteNext]_suiteVars

-----------------------------------------------------------------------------
(* Properties *)

\* "immutable ownership record retained for reuse rejection"
\* (procedure_local.rs:267): no attempt id is ever used for a second execution,
\* by a rerun of its suite, after a crash or after its directory was removed,
\* so its receivers get no more than one execution's messages.
AttemptsRunOnce ==
    \A a \in Attempts :
        /\ served[a] <= Messages(Corpus[a[2]], a[3])
        /\ served[a] > 0 => a \in ledgers

\* The gate of a report is what happened on the host: PASS only with every
\* message of every slot in both variants (procedure_suite.rs:176), FAILED as
\* soon as a variant did not run, was cut short or left something, and a
\* cancelled suite keeps all its entries.
GateIsHonest ==
    report # NoReport =>
        LET entry(i, v) == report.entries[IF v = "positive" THEN 2 * i - 1 ELSE 2 * i]
            done(i, v)  == /\ served[<<report.id, i, v>>] = Messages(Corpus[i], v)
                           /\ entry(i, v).status = "Executed"
            skipped(i)  == Corpus[i] \notin Adapted
        IN  /\ Len(report.entries) = 2 * Len(Corpus)
            /\ report.gate = "Pass" =>
                  \A i \in DOMAIN Corpus, v \in {"positive", "benign"} : done(i, v)
            /\ report.gate # "Failed" =>
                  /\ \A i \in DOMAIN Corpus, v \in {"positive", "benign"} : done(i, v) \/ skipped(i)
                  /\ report.left = {}

\* The kill switch ends the suite (procedure_suite.rs:107): one message at most
\* still arrives, the attempt at hand is cut short, and no later variant is
\* begun, so that no further id is used up.
KillSwitchHolds ==
    /\ overdue <= 1
    /\ report # NoReport => \A i, j \in DOMAIN report.entries :
          i < j /\ report.entries[i].status = "Cancelled" => report.entries[j].status = "NOT_RUN"

\* No attempt of a suite runs twice, over crashes and restarts; the gate passes only
\* for pairs that ran and agreed; after the kill switch the fixtures send at most
\* what was on its way (run_in_root, run_suite).
SuitesAreHonest ==
    /\ AttemptsRunOnce
    /\ GateIsHonest
    /\ KillSwitchHolds
=============================================================================
