\* Two signals are enough for one to come during the cleanup another one began; three
\* attempts allow every limit below, at and above the number of failures before a success.
SPECIFICATION FairSpec
CONSTANTS
    MaxAttempt = 3
    MaxSignals = 2
INVARIANTS
    RetryBudget
    GracefulClose
PROPERTIES
    ShutdownCompletes
    FailureEndsProcess
\* The process ends.
CHECK_DEADLOCK FALSE
