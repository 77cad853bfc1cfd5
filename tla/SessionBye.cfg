CONSTANTS
    Ssrcs = {s1, s2, s3}
    Ips = {own, a}
    Ports = {1}
    OwnIp = own
    OwnPort = 1
    NoAddr = NoAddr
    MaxNumberInStreams = 0
    MaxNumberOutStreams = 1
    MaxObjs = 3
    MaxArrivals = 2
    NoSsrc = NoSsrc
SPECIFICATION Spec
SYMMETRY Symmetry
CHECK_DEADLOCK FALSE
PROPERTIES OutputIndexKept
