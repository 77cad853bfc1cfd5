CONSTANTS
    NumOut = 1
    Peers = {p1}
    MinTime = 5
    PacketTime = 3
    Randoms = {41, 123}
    MaxLost = 3
    Never = 26
    None = None
SPECIFICATION FairSpec
INVARIANTS TypeOK SendersAccounted
PROPERTIES  ReportsSpaced 
