CONSTANTS
    InStreams = {i1, i2}
    OutStreams = {}
    Writers = {}
    CloseEarly = FALSE
    CtrlCap = 1
    Bound = 2
SPECIFICATION FairSpec
CHECK_DEADLOCK FALSE
PROPERTIES ReportsAtIntervals
