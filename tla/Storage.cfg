SPECIFICATION FairSpec
CONSTANTS
    SnapKinds <- MCSnapKinds
    Symbols = {"A", "X"}
    KnownSymbols = {"A"}
    NoSignal = NoSignal
    NoRow = NoRow
    DbCapacity = 1
    SignalCapacity = 1
    AlertCapacity = 1
    BatchSize = 2
    Period = 3
    Scale = 64
    MaxSnaps = 2
    MaxFailures = 1
INVARIANTS TypeOK WrittenOnceInOrder NothingVanishes EngineLosesOnlyAtStop SignalDirection
PROPERTIES ShutdownCompletes EventuallyWritten
