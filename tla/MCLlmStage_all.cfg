\* Every kind of setting; the stage is over when it is done or has raised.
SPECIFICATION FairSpec
CONSTANTS
    Settings <- AllSettings
    LongestSleep = 5
INVARIANTS
    EveryTargetDecided
    
    BackoffBounded
PROPERTY Terminates
CHECK_DEADLOCK FALSE
