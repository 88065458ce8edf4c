CONSTANTS
    c1 = c1
    c2 = c2
    c3 = c3
    Clients = {c1, c2, c3}
    MaxEvents = 4
    MaxSemaphores = 2
    MaxCalls = 6
    Loads <- MCRing
    None = None
SPECIFICATION FairSpec
INVARIANTS
    SemaphoreRefs
PROPERTIES
    ImplementsQueues
    EveryCallServed
CHECK_DEADLOCK FALSE
