SPECIFICATION Spec
CONSTANTS
    Users = {u1, u2, u3}
    TotalSlots = 2
    Versions = {1, 2}
    Hosts = {8, 9}
    Empty = Empty
    Faults = {"crash", "db", "edit"}
SYMMETRY Symmetry
INVARIANTS
    MapMatchesTable
    
    LeaseSurvivesRestart
    
