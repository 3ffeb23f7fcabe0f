SPECIFICATION Spec
CONSTANTS
    Jobs = {1}
    Mttds = {1, 2}
    MaxSids = 2
    MaxGens = 1
    MaxHistory = 2
    MaxAlerts = 1
    Operators = {o1}
    Failures = {"crash", "write"}
INVARIANTS LatestRunDecides RunningIsTracked
