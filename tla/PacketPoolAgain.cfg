CONSTANTS
    DataPackets = {d1, d2, d3}
    CtrlPackets = {}
    Buffers = {b1, b2, b3}
    DataReaders = {reader}
    AppTasks = {app}
    CtrlTasks = {}
    ListLength <- Lengths
    ChanLength = 1
    FreesAgain = TRUE
    None = None
SPECIFICATION SpecAgain
SYMMETRY Symmetry
INVARIANTS OneUser
