SPECIFICATION FairSpec
CONSTANTS
    Messages = {m1, m2}
    Calls = {c1}
    Causes = {"user", "disposed"}
    MaxSteps = 3
    MaxAttempts = 2
INVARIANTS LatchedWakeIsReplayed WhenIdleIsQuiescent AdmittedOnce DriverInv
PROPERTIES StepsAreAccountedFor RefinesTrace AbortConverges LatchedWakeIsServed
