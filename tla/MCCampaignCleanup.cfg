SPECIFICATION Spec
CONSTANTS
    Runs = {r1}
    Steps = 1
    MaxSids = 2
    MaxTerminalRuns = 1
    Workers = {w1}
    Cancellers = {}
    Modes = {"runner"}
INVARIANTS RetryNeedsCleanup
