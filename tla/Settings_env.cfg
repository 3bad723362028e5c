SPECIFICATION Spec
CONSTANTS
    a = a
    b = b
    Handlers = {h1}
    Values = {a, b}
    Generated = {g1, g2}
    Files <- ShortFiles
    MaxUpdates = 2
    Faults = {}
    Unset = Unset
    Empty = Empty
    Zero = Zero
    Default = Default
    Remote = Remote
    Unparsable = Unparsable
    NoFile = NoFile
SYMMETRY Symmetry
INVARIANTS
    FixedTokensSurvive
    SessionMatchesPassword

    
