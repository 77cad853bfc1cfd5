CONSTANTS
    SeqMod = 6
    MaxDropout = 3
    MaxMisorder = 2
    MinSequential = 0
    WordMod = 65536
    Starts = {0, 3}
    MaxSent = 8
    MaxCount = 5
SPECIFICATION ReceptionSpec
CHECK_DEADLOCK FALSE
INVARIANTS ReceptionTypeOK TracksHighest LossAccounting FractionExact 
 
