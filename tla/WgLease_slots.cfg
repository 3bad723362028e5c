SPECIFICATION Spec
CONSTANTS
    Handlers = {h1, h2}
    PeerCount = 1
    Keys = {k1, k2}
    Seconds = {1, 2}
    MaxTime = 2
    Faults = {"crash", "disconnect", "kernel", "db", "slow"}
    Absent = Absent
    NoKey = NoKey
    NoHandler = NoHandler
SYMMETRY Symmetry
INVARIANTS
    TypeOK
    
    LeaseKeepsSlot
PROPERTY
    ImplementsLeaseTable
