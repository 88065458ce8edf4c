CONSTANTS
    GraphThread = g
    FifoThread = f
    Threads = {g, f}
    Devices = {d1}
    Graphs = {g1, g2}
    Fifos = {f1, f2}
    Uses <- MCUses
    Faults = {"boot", "graphStream", "graphNack", "fifoStream", "fifoSend", "fifoNack", "fifoDestroyNack"}
    DestroyRefused = FALSE
    None = None
SPECIFICATION FairSpec
INVARIANTS
    TypeOK
    
    MonitorInStep
    
 
