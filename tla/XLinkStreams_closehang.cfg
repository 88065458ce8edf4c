CONSTANTS
    Host = host
    Device = device
    x = x
    y = y
    Peers = {host, device}
    Names = {x, y}
    ThreadsOf <- MCThreadsOf
    FirstOpeners = {host}
    Applications <- MCApplicationsBothWays
    None = None
SPECIFICATION Spec
INVARIANT CloseNotForgotten
CHECK_DEADLOCK FALSE
