SPECIFICATION Spec
CONSTANTS
    Handlers = {h1, h2}
    PeerCount = 2
    Keys = {k1, k2, k3}
    Seconds = {1}
    MaxTime = 2
    Faults = {"crash", "disconnect"}
    Absent = Absent
    NoKey = NoKey
    NoHandler = NoHandler
SYMMETRY Symmetry
INVARIANTS
    NoSharedSlot
    LeaseRestorable
PROPERTIES
    RestartServesLeases
    
