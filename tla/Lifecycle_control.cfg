SPECIFICATION FairSpec
CONSTANTS
    Instances = {i1, i2, i3}
    ProxyPorts = {s, c}
    MaxKills = 1
    MaxDisk = 1
    Faults = {}
    NoKey = NoKey
INVARIANTS
    ServingHasProxies
    ClientsKeepServerKey
    ServingIsRouted
    RulesOnce
    BinaryRecoverable

    
CHECK_DEADLOCK FALSE
