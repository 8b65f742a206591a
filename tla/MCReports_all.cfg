\* Some ten thousand files of up to five rows, with and without an LLM.
SPECIFICATION Spec
CONSTANTS
    Merchants = {"Amazon", "Flipkart", "Ola", "IRCTC", "Long"}
    Domestic = {"Ola", "IRCTC"}
    Overlong = {"Long"}
    Accounts = {"a1", "a2"}
    Uncategorised = "Uncategorised"
    Categories = {"Food", "Other"}
    NaN = NaN
    MaxAmount = 12
    MaxTotal = 20
    Inputs <- AllInputs
INVARIANTS
    OutliersAreFew
    SpendConserved
    TopThreeComplete
    UncategorisedSpendIsFailures
    FailsOnUnstorableOnly
