SPECIFICATION MCSpec
CONSTANTS
    Key = {k1, k2, k3}
    Addr = {a1}
    NoAddr = NoAddr
    NoEntry = NoEntry
    Capacity = 2
    MaxTtl = 1
    HostsTtl = 9
    MaxTime = 1
    MaxLookups = 2
    MaxInserts = 4
SYMMETRY Symmetric
INVARIANTS TablesAgree Accounting
PROPERTIES EvictsLeastRecentlyUsed PromiseKept
CHECK_DEADLOCK FALSE
