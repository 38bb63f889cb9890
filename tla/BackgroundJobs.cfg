SPECIFICATION FairSpec
CONSTANTS
    Jobs = {j1, j2}
    Streams = {j1}
    Callers = {c1}
    NoJob = NoJob
    MaxConcurrentJobs = 2
    RetainBytes = 2
    SettledRetainBytes = 1
    WakeBudget = 1
    MaxBytes = 3
    Outcomes = {"completed", "killed"}
    MaxLost = 1
INVARIANTS JobsInv OutputPrecedesSettlement ReadsNeverRepeat
PROPERTIES SettlingKeepsUnread FollowsProtocol JobsEnd
CHECK_DEADLOCK FALSE
