SPECIFICATION FairCheckSpec
CONSTANTS
    NoTick = NoTick
    NoReport = NoReport
    NoSymbol = "none"
    Symbols <- MCSymbols
    SymbolList <- MCSymbolList
    Cut <- MCCut
    TickKinds <- MCTickKinds
    Mids <- MCMids
    HalfSpreads <- MCHalfSpreads
    Times = {1}
    TickRate = 1
    ParserCapacity = 2
    NormCapacity = 1
    BookCapacity = 1
    MaxTicks = 4
INVARIANTS ReportAddsUp HealthyIsEarned
PROPERTIES ImplementsPipeline EveryTickSettles ReportComes
