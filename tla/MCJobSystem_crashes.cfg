\* Every fault but failing or misreported database calls.
SPECIFICATION FairSpec
CONSTANTS
    Jobs = {j1, j2}
    Workers = {w1, w2}
    Results = {r1, r2}
    EmptyFiles = {j2}
    NoJob = NoJob
    NoWorker = NoWorker
    NoResult = NoResult
    FaultKinds = {"crash", "apicrash", "disk", "broker", "visibility"}
    MaxFaults = 3
INVARIANT PendingHasMessage
PROPERTIES
    CompletedIsFinal
    QueueDrains
    AcceptedIsClaimed
