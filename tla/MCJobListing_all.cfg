\* Three jobs, every filter, pages of one or two.
SPECIFICATION ListingFairSpec
CONSTANTS
    Jobs = {j1, j2, j3}
    Results = {r1}
    NoResult = NoResult
    AckLoss = FALSE
    MaxLimit = 2
INVARIANTS
    WalkMissesNothing
    PageKeepsItsPromise
PROPERTY WalkEnds
