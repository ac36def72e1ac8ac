SPECIFICATION Spec
CONSTANTS
    SymbolList <- MCSymbolList
    Epochs = {1, 2}
    Limit = 2
    Capacity = 2
    MaxRows = 2
    MaxFailures = 0
INVARIANT FirstPollTakesAll
