SPECIFICATION Spec
CONSTANTS
    Conns = {c1}
    MaxSend = 6
    MaxReply = 2
    MaxHeader = 4
INVARIANTS
    DialOnlyEntitled
    RepliesInProtocol
    PayloadIntact
    

    
CHECK_DEADLOCK FALSE
