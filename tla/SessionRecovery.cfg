SPECIFICATION Spec
CONSTANTS
    Requests <- MCRequests
    MaxParallelCalls = 2
    MaxTurns = 2
    MaxSteps = 2
    MaxCrashes = 1
INVARIANTS
    RecoveryInv
    AnsweredOnce
    HonestOutcome
    RepairResumes
    ForkIsClosed
PROPERTIES
    NeverRunTwice
    RefinesTrace
CHECK_DEADLOCK FALSE
