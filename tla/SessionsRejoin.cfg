SPECIFICATION Spec
CONSTANTS
    a1 = a1
    a2 = a2
    b1 = b1
    ipA = ipA
    ipB = ipB
    NoAddr = NoAddr
    Addrs = {a1}
    Ips = {ipA}
    IpOf <- MCIpOf
    MaxId = 2
    OverflowId = 255
    ClientOps = {"Game"}
    MaxSessions = 2
    MaxQueue = 1
    Timeout = 2
    Diffs = {1, 2}
INVARIANT
    JoinedClientHeard
CHECK_DEADLOCK FALSE
