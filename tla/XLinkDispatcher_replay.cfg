CONSTANTS
    c1 = c1
    c2 = c2
    c3 = c3
    Clients = {c1, c2}
    MaxEvents = 3
    MaxSemaphores = 2
    MaxCalls = 4
    Loads <- MCFour
    None = None
SPECIFICATION Spec
INVARIANT PeerNeverAborts
SYMMETRY Symmetry
CHECK_DEADLOCK FALSE
