CONSTANTS
    Configs <- Services
    Subscribers = {s1, s2}
    None = None
SPECIFICATION Spec
INVARIANTS
    ReferencesExact
    InOrderUpToNewest
    NoWriteWhileRead
    NeverOutOfMemory
PROPERTIES
    KeptUntilReceived
CHECK_DEADLOCK FALSE
