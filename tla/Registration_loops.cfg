SPECIFICATION FairSpec
CONSTANTS
    LeaseTicks = 2
    RetryTicks = 1
    PostTicks = 1
    DaemonTicks = 3
    Keep = 2
    MaxDbFails = 1
INVARIANTS
    ProbesBounded
    LogKeepsNewest
PROPERTY
    EventuallyRegistered
