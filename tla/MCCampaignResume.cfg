SPECIFICATION Spec
CONSTANTS
    Runs = {r1}
    Steps = 2
    MaxSids = 3
    MaxTerminalRuns = 1
    Workers = {w1, w2}
    Cancellers = {c1}
    Modes = {"runner", "simulated"}
SYMMETRY CampaignSymmetry
INVARIANTS SnapshotLoads SoleExecutor NoUnsafeRetry AttemptsAccounted CancelNotMissed OrphanOnlyAfterFailure
PROPERTIES FinishedIsFinal
