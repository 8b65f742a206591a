\* Every kind of fault, four of them anywhere: two jobs, two workers.
SPECIFICATION Spec
CONSTANTS
    Jobs = {j1, j2}
    Workers = {w1, w2}
    Results = {r1, r2}
    EmptyFiles = {j2}
    NoJob = NoJob
    NoWorker = NoWorker
    NoResult = NoResult
    FaultKinds = {"crash", "apicrash", "db", "lostack", "disk", "broker", "visibility"}
    MaxFaults = 4
SYMMETRY Symmetry
INVARIANTS
    IInv
    AtMostOneRunner
    RunnerHasClaim
    ErrorIffFailed
    ResultsAtomic
    ClaimCheck
PROPERTY ImplementsLifecycle
