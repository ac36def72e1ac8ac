SPECIFICATION Spec
CONSTANTS
    NoTick = NoTick
    NoSymbol = "none"
    Symbols <- MCSymbols
    Cut <- MCCut
    TickKinds <- MCTickKinds
    ParserCapacity = 2
    NormCapacity = 1
    BookCapacity = 1
    MaxTicks = 4
INVARIANTS TypeOK OrderPreserved FilterCorrect LossOnlyAtStop CounterIntegrity NothingStranded
