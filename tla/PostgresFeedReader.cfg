SPECIFICATION FairSpec
CONSTANTS
    SymbolList <- MCSymbolList
    Epochs = {1, 2}
    Limit = 2
    Capacity = 1
    MaxRows = 3
    MaxFailures = 1
INVARIANTS TypeOK PublishedOnceInOrder MissedOnlyIfOvertaken
PROPERTIES ImplementsFeed EveryRowSettles StopEnds
