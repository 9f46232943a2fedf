CONSTANTS
    Configs <- SmallService
    Subscribers = {s1}
    None = None
SPECIFICATION Spec
INVARIANTS
    HeldSampleStable
CHECK_DEADLOCK FALSE
