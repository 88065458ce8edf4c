\* Packets of one and two bytes, room for three bytes or two packets, so that either
\* limit may be the one that blocks. No symmetry: liveness is checked.
CONSTANTS
    Writers = {w1, w2}
    Readers = {r1, r2}
    Sizes = {1, 2}
    WriteSize = 3
    MaxPackets = 2
SPECIFICATION FairSpec
INVARIANTS
    TypeOK
    Accounted
    ByteCredit
    NoStreamOverflow
    NoLostWakeups
PROPERTIES
    ImplementsPipe
    Progress
