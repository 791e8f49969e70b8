SPECIFICATION Spec
CONSTANTS
    m1 = m1
    m2 = m2
    laptop = laptop
    id2 = id2
    Ip = {ip1, ip2}
    Mac = {m1, m2}
    HostOf <- MCHostOf
    CidOf <- MCCidOf
    None = None
    Empty = Empty
    PerSecond = 3
    LeaseTime = 3
    MaxTime = 5
    MaxOps = 3
    MaxCrashes = 1
INVARIANTS StoreIsSound ScriptSeesTheTable NamesFollowLeases
PROPERTIES RestartKeepsSaved EveryOperationEnds
CHECK_DEADLOCK FALSE
