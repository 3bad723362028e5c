SPECIFICATION Spec
CONSTANTS
    Handlers = {h1, h2}
    RowCount = 4
    PrioritySlots = {0, 1}
    Used = {2}
    Seconds = {1, 2}
    MaxTime = 3
    MaxLeases = 3
    Faults = {"crash", "disconnect"}
    NoHandler = NoHandler
SYMMETRY Symmetry
INVARIANTS
    TypeOK
    SharedRowsAvailable
    
    ExclusiveKeepsRow
    PoolsDisjoint
PROPERTIES
    ImplementsLeaseTable
    RefusedOnlyWhenFull
