SPECIFICATION FairSpec
CONSTANTS
    Procs = {p, q}
    Windows <- SoundWindows
    Faults <- CleanFaults
    PromptReopen = FALSE
    MaxEvents = 2
    MaxFaults = 2
    MaxCrashes = 2
INVARIANTS WriteInv MemoryMatchesDisk
PROPERTIES RefinesLog RoutedIsWritten CloseEnds
