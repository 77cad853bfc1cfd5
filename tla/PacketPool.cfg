CONSTANTS
    DataPackets = {d1, d2, d3}
    CtrlPackets = {c1}
    Buffers = {b1, b2, b3, b4}
    DataReaders = {reader}
    AppTasks = {app}
    CtrlTasks = {ctrl}
    ListLength <- Lengths
    ChanLength = 1
    FreesAgain = FALSE
    None = None
SPECIFICATION Spec
SYMMETRY Symmetry
INVARIANTS TypeOK InUseNotMarked
PROPERTIES PacketsAreOwned BuffersAreOwned
