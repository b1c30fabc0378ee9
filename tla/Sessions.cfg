SPECIFICATION Spec
CONSTANTS
    a1 = a1
    a2 = a2
    b1 = b1
    ipA = ipA
    ipB = ipB
    NoAddr = NoAddr
    Addrs = {a1, a2}
    Ips = {ipA}
    IpOf <- MCIpOf
    MaxId = 1
    OverflowId = 255
    ClientOps = {"PlayerJoin", "OutgoingClient"}
    MaxSessions = 3
    MaxQueue = 1
    Timeout = 1
    Diffs = {1}
INVARIANTS
    TypeOK
    IdsExclusive
    
    UpdatedSessionLive
    BindingUnique
    
SYMMETRY MCSymmetry
CHECK_DEADLOCK FALSE
