CONSTANTS
    c1 = c1
    c2 = c2
    c3 = c3
    Clients = {c1, c2}
    MaxEvents = 4
    MaxSemaphores = 2
    MaxCalls = 2
    Loads <- MCPair
    None = None
SPECIFICATION Spec
INVARIANTS
    TypeOK
    DispatcherFindsEvents
    WokenByOwnEvent
    PeerNeverAborts
SYMMETRY Symmetry
