CONSTANTS
    References <- MCReferences
    Trim <- MCTrim
    Blank = ""
    Amounts = {0, 1, 2}
    Currencies <- MCCurrencies
    Normalize <- MCNormalize
    Upper <- MCUpper
    Unknown = "unknown"
    Operators <- MCOperators
    MaxMarks = 3
    MaxOld = 1
SPECIFICATION Spec
INVARIANT EveryOrderCanBeMarked
