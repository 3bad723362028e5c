SPECIFICATION FairSpec
CONSTANTS
    Handlers = {h1, h2}
    PeerCount = 1
    Keys = {k1, k2}
    Seconds = {1}
    MaxTime = 2
    Faults = {"disconnect"}
    Absent = Absent
    NoKey = NoKey
    NoHandler = NoHandler
PROPERTIES
    RequestsFinish
    ExpiredRowsFreed
