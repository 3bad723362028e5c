SPECIFICATION Spec
CONSTANTS
    Handlers = {h1, h2}
    PeerCount = 1
    Keys = {k1, k2}
    Seconds = {1, 2}
    MaxTime = 3
    Faults = {}
    Absent = Absent
    NoKey = NoKey
    NoHandler = NoHandler
PROPERTY
    DaemonRemovesOnlyExpired
