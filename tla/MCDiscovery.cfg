\* Splits, batches, retries, a launch in the range and a chain that changes.
SPECIFICATION Spec
CONSTANTS
    Tokens = {1, 2, 3}
    From = 2
    To = 6
    Forks <- MCForks
    BatchSize = 1
    MaxRetries = 1
    MaxLogs = 1
    Errors <- MCErrors
INVARIANTS
    LogsOnceInOrder
    SplitsUntilAccepted
PROPERTY PassEnds
CHECK_DEADLOCK FALSE
