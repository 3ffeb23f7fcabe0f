SPECIFICATION FairSpec
CONSTANTS
    Jobs = {1, 2}
    Mttds = {}
    MaxSids = 1
    MaxGens = 2
    MaxHistory = 2
    MaxAlerts = 1
    Operators = {}
    Failures = {"write"}
INVARIANTS AttemptHasHistory HistoryIsOwn
PROPERTIES RunningEnds
