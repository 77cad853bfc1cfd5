CONSTANTS
    InStreams = {i1}
    OutStreams = {o1}
    Writers = {w1}
    CloseEarly = TRUE
    CtrlCap = 1
    Bound = 1
SPECIFICATION FairSpec
CHECK_DEADLOCK FALSE
INVARIANTS TypeOK SendersCounted ClosedMeansStopped ByesUnlessStopped
PROPERTIES CloseReturns
