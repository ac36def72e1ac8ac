CONSTANTS
    Items = {a, b}
    N = 4
    IndexRange = 12
    NoItem = NoItem
SPECIFICATION FairSpec
CHECK_DEADLOCK TRUE
INVARIANTS TypeOK RingOrder Handover NoDataRace
PROPERTIES ImplementsQueue EventuallyPopped
