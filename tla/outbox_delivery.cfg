SPECIFICATION FairSpec
CONSTANTS
    OneShot = {a}
    Reminders = {r}
    Workers = {w}
    BatchSize = 2
    MaxRetries = 2
    BackoffCap = 1
    RateDelay = 1
    Retention = 2
    Lookback = 1
    MaxDelay = 1
    MaxGen = 2
    Overdue = 0
    MaxCrashes = 1
    MaxDbFaults = 1
INVARIANTS NoSpuriousDuplicate ReminderLostOnlyByRace ProcessedWasDelivered
PROPERTIES ImplementsDelivery WithdrawnWhileQueuedIsSilent EventuallySettled
