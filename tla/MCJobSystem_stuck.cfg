\* One worker crashes once; its message is redelivered.
SPECIFICATION FairSpec
CONSTANTS
    Jobs = {j1}
    Workers = {w1, w2}
    Results = {r1}
    EmptyFiles = {}
    NoJob = NoJob
    NoWorker = NoWorker
    NoResult = NoResult
    FaultKinds = {"crash"}
    MaxFaults = 1
PROPERTY ProcessingEnds
