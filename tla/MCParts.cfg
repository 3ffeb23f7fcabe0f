\* Records and rules: audit, reports, manifests, catalog, host, procedures,
\* access, snapshots.  Every part may stop: bounds, and processes that do not restart.
SPECIFICATION Spec
CONSTANTS
    r1 = r1
    r2 = r2
    r3 = r3
    Operators = {o1}
    Runs <- AuditRuns
    Keys = {k1, k2}
    Settings <- AuditSettings
    NoRecord = NoRecord
    NoFeedback = NoFeedback
    HostRuns = {"a", "b"}
    Plans <- HostPlans
    Packets <- HostPackets
    Indents = {0, 2, 4}
    TextKeys = {"a", "b"}
    MaxLines = 4
    Bases <- ManifestBases
    Values <- ManifestValues
    MaxEdits = 2
    ManifestFiles = {"f1", "f2"}
    Drafts <- FileDrafts
    RunnerKey = "lead"
    MaxStarts = 2
    Corpus <- SuiteCorpus
    Suites = {"s"}
    MaxSuites = 2
    RunIds = {"c1"}
    Seeded <- SeededCampaigns
    Deployments = {"bearer", "header"}
    Catalogs <- RestartCatalogs
    Credentials <- CallerCredentials
    Payloads <- CampaignPayloads
    Times = {141}
    Scheduled = {"s"}
    MaxActive = 1
    Updates = {1, 2, 3}
    Ineffective = {3}
INVARIANTS
    AuditIsDurable MetricsAreRecords OpenIsExecuting NothingLostOrInvented ManifestsAreConfined
    CatalogIsExecutable EvidenceMatchesHost InjectionIsConfined
    SuitesAreHonest ExercisesArePermitted SnapshotKeepsPromises
PROPERTIES FileIsAuditLog
CHECK_DEADLOCK FALSE
