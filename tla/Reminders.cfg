SPECIFICATION FairSpec
CONSTANTS
    once = once
    often = often
    seldom = seldom
    Tasks <- MCTasks
    Recurring <- MCRecurring
    SessionOf <- MCSessionOf
    IntervalOf <- MCIntervalOf
    MaxTime = 2
    MaxRollbacks = 1
    MaxStops = 1
INVARIANTS RemindersInv ObligationHeld ReceiptMeansDelivered
PROPERTIES NeverAnnouncedAgain DueIsAttempted
CHECK_DEADLOCK FALSE
