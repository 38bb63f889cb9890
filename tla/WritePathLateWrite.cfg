SPECIFICATION Spec
CONSTANTS
    Procs = {p, q}
    Windows <- QuietWindows
    Faults <- CleanFaults
    PromptReopen = TRUE
    MaxEvents = 2
    MaxFaults = 1
    MaxCrashes = 0
INVARIANT LogContiguous
