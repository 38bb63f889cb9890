SPECIFICATION FairSpec
CONSTANTS
    Count = 3
    MaxParallel = 2
    MaxDelegations <- FirstRetries
INVARIANTS ToolInv OutcomeTellsWhatRan
PROPERTIES AbortStopsTools RefinesAnswers StepReports
