\* Any number of starts, stops and outages; up to two messages.
SPECIFICATION FairSpec
CONSTANTS
    Jobs = {j1, j2}
INVARIANTS
    ServesMigratedOnly
    TaskFindsSchema
    ReadinessIsJustified
PROPERTY StackComesUp
