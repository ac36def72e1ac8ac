CONSTANTS
    Symbols = {s1}
    Prices = {10, 19, 20}
    MinValidPrice = 2
    MaxValidPrice = 20
    Volumes = {2}
    QueueCapacity = 2
    MaxTicks = 5
    Scale = 3200000
SPECIFICATION Spec
CHECK_DEADLOCK FALSE
INVARIANT ResetPreventsRejection
