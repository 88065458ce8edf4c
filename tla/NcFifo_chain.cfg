CONSTANTS
    a = a
    b = b
    c = c
    In = in
    Mid = mid
    Out = out
    Threads <- MCThreads
    Fifos = {in, mid, out}
    ReadAccess = {mid, out}
    Chained = {mid}
    NumElem = 2
    None = None
    Applications <- MCChain
SPECIFICATION FairSpec
PROPERTY QueueReturns
CHECK_DEADLOCK FALSE
