SPECIFICATION Spec
CONSTANTS
    Handlers = {h1, h2}
    Addrs = {p1, p2}
    Local = {lo}
    TTL = 2
    MaxLag = 1
    MaxTime = 6
    None = None
    Never = Never
SYMMETRY Symmetry
PROPERTIES
    AdmittedWasPool
    PoolNotRefused
