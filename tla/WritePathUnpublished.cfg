SPECIFICATION Spec
CONSTANTS
    Procs = {p, q}
    Windows <- EarlyWindows
    Faults <- CleanFaults
    PromptReopen = FALSE
    MaxEvents = 2
    MaxFaults = 0
    MaxCrashes = 0
INVARIANT RoutedIsNext
