\* Two jobs, one with an empty file, two workers and a polling client; no misreported commits.
SPECIFICATION QSpec
CONSTANTS
    Jobs = {j1, j2}
    Workers = {w1, w2}
    Results = {r1, r2}
    EmptyFiles = {j2}
    Clients = {c1}
    NoJob = NoJob
    NoWorker = NoWorker
    NoResult = NoResult
    FaultKinds = {"crash", "db", "visibility"}
    MaxFaults = 3
SYMMETRY Symmetry
INVARIANTS
    CompletedHasSummary
    ResultsFromOneRun
PROPERTY PollingIsMonotonic
