SPECIFICATION Spec
CONSTANTS
    GraphDescriptors <- MCGraphDescriptors
    HostDescriptors <- MCHostDescriptors
    Careless = {}
INVARIANTS TypeOK  
