CONSTANTS
    c1 = c1
    c2 = c2
    Clients = {c1, c2}
    None = None
    Kinds <- NoKinds
    UsedSettings <- NoSettings
    MaxInput = 2
    MaxCalls = 2
SPECIFICATION FairSpec
INVARIANTS NobodyWaitsInVain ReadInOrder
PROPERTIES ImplementsInputStream DetachNoticed
CHECK_DEADLOCK FALSE
