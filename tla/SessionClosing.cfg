CONSTANTS
    Ssrcs = {s1, s2}
    Ips = {own, a}
    Ports = {1}
    OwnIp = own
    OwnPort = 1
    NoAddr = NoAddr
    MaxNumberInStreams = 0
    MaxNumberOutStreams = 1
    MaxObjs = 3
    MaxArrivals = 1
    NoSsrc = NoSsrc
SPECIFICATION FairSpec
CHECK_DEADLOCK FALSE
PROPERTIES ClosingStreamsLeave
