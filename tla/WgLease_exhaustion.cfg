SPECIFICATION FairSpec
CONSTANTS
    Handlers = {h1}
    PeerCount = 2
    Keys = {k1, k2, k3}
    Seconds = {1}
    MaxTime = 2
    Faults = {}
    Absent = Absent
    NoKey = NoKey
    NoHandler = NoHandler
PROPERTY
    ExpiredPeersLeaveKernel
