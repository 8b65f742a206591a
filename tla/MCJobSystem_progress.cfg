\* Slow tasks and failing file writes; workers and database work.
SPECIFICATION FairSpec
CONSTANTS
    Jobs = {j1, j2}
    Workers = {w1, w2}
    Results = {r1}
    EmptyFiles = {j2}
    NoJob = NoJob
    NoWorker = NoWorker
    NoResult = NoResult
    FaultKinds = {"disk", "visibility"}
    MaxFaults = 3
INVARIANT ProcessingHasRunner
PROPERTIES
    AcceptedTerminates
    ImplementsFairLifecycle
