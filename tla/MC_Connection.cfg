CONSTANTS
    BufferSize = 2
    MaxBorrowed = 1
    Chunks = {c1, c2, c3, c4}
    MaxSend = 5
    MaxStorages = 3
SPECIFICATION ConnectionSpec
INVARIANTS
    AlwaysReturned
    NeverCorrupted
    UsedExact
    CirculationBounded
    PortsMeet
    NothingLeftBehind
PROPERTIES
    SendReturns
    ConnectsInTheEnd
CHECK_DEADLOCK FALSE
