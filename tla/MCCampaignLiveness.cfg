SPECIFICATION FairSpec
CONSTANTS
    Runs = {r1, r2}
    Steps = 2
    MaxSids = 2
    MaxTerminalRuns = 1
    Workers = {w1}
    Cancellers = {c1}
    Modes = {"simulated"}
PROPERTIES CancelStops ResumableIsKept
