CONSTANTS
    Symbols = {s1}
    Prices = {1, 10, 19, 20, 30}
    MinValidPrice = 2
    MaxValidPrice = 20
    Volumes = {1, 2}
    QueueCapacity = 2
    MaxTicks = 5
    Scale = 3200000
SPECIFICATION Spec
CHECK_DEADLOCK FALSE
INVARIANTS NeverCrossed ViewIsCurrent
PROPERTIES LockedIsFrozen TwoSidedNeverRejects
