SPECIFICATION Spec
CONSTANTS
    Jobs = {1}
    Mttds = {1}
    MaxSids = 1
    MaxGens = 1
    MaxHistory = 2
    MaxAlerts = 1
    Operators = {o1}
    Failures = {}
INVARIANTS FeedbackReachesHistory
