\* One good record, under a header with any columns spelled another way.
SPECIFICATION Spec
CONSTANTS
    Words <- AllWords
    Upper <- UpperCase
    Currencies = {"INR", "USD"}
    Statuses = {"SUCCESS"}
    UncategorisedWord = "Uncategorised"
    Null = Null
    MaxCents = 1000
    Records <- GoodRecord
    MaxRecords = 1
INVARIANT AcceptedColumnsAreRead
CHECK_DEADLOCK FALSE
