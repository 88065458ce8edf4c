SPECIFICATION FairSpec
CONSTANTS
    p1 = p1
    p2 = p2
    Processes = {p1, p2}
    Core = core
    None = None
    Makes <- MCMakes
    WRITES_IN_FLIGHT = 2
INVARIANTS TypeOK PermitsConserved ReadAlone LastClose
PROPERTY UnplugEndsCalls
