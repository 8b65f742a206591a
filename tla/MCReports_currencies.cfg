\* Files in both currencies.
SPECIFICATION Spec
CONSTANTS
    Merchants = {"Amazon", "Flipkart", "Ola", "IRCTC", "Long"}
    Domestic = {"Ola", "IRCTC"}
    Overlong = {"Long"}
    Accounts = {"a1", "a2"}
    Uncategorised = "Uncategorised"
    Categories = {"Food", "Other"}
    NaN = NaN
    MaxAmount = 12
    MaxTotal = 20
    Inputs <- CategoryInputs
INVARIANT CurrenciesNotMixed
