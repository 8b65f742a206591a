\* Three records of seventeen kinds, any columns under another spelling.
SPECIFICATION Spec
CONSTANTS
    Words <- AllWords
    Upper <- UpperCase
    Currencies = {"INR", "USD"}
    Statuses = {"SUCCESS"}
    UncategorisedWord = "Uncategorised"
    Null = Null
    MaxCents = 1000
    Records <- AllRecords
    MaxRecords = 3
INVARIANTS
    KeepsFirsts
    CountsAddUp
    SpellingIsIrrelevant
    OneFormatMatches
CHECK_DEADLOCK FALSE
