CONSTANTS
    Host = host
    Device = device
    x = x
    y = y
    Peers = {host, device}
    Names = {x, y}
    ThreadsOf <- MCThreadsOf
    FirstOpeners = {host}
    Applications <- MCApplications
    None = None
SPECIFICATION FairSpec
INVARIANTS
    TypeOK
    
    StreamsAgree
    ClosedStreamEmpty
    
    AnswerOnItsWay
PROPERTY CloseReturns
CHECK_DEADLOCK FALSE
