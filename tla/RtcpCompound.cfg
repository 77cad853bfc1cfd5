CONSTANTS
    OutStreams <- Streams
    InStreams <- Heard
    ItemTypes = {1, 6}
    Texts <- Names
    defaultCname <- Go
    Reason <- GoodBye
    Receptions <- Statistics
    PayloadLen = 160
    initialStamp = 70000
    Samples = 8
    maxReports = 1
    MaxNumberInStreams = 30
    BufferLen = 1500
    Stale = 238
    ClosesTwice = FALSE
    Foreign <- Others
    StartClock = 1
    MaxCalls = 2
    MaxCompounds = 2
    Second = 3
    Word = 16
    HalfWord = 4
    ntpEpochOffset = 3
SPECIFICATION Spec
INVARIANTS TypeOK CompoundReadBack HoldsWhatWasSaid 
 
CHECK_DEADLOCK FALSE
