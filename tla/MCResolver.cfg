SPECIFICATION MCSpec
CONSTANTS
    Client = {c1, c2}
    Key = {k1, host}
    HostKeys = {host}
    ZoneKeys = {host}
    Addr = {a1, a2}
    NoDomain = NoDomain
    NoAddr = NoAddr
    Never = Never
    None = None
    Timeout = 1
    MaxAttempts = 2
    StopRebind = TRUE
    HostTtl = 1
    MaxTtl = 1
    NegTtl = 1
    Name = {k1, host}
    Pattern = {}
    Chain <- MCChain
    Cooldown = 1
    MaxServers = 2
    MaxTime = 3
    Names <- MCNames
    MaxNames = 3
    Packets <- MCPackets
    HeaderLength = 12
    PointerLimit = 17
    MaxHops = 2
    MAXDNAME = 60
    MAX_NAME_LEN = 3
    QueryName <- MCQueryName
    Anchors <- MCAnchors
    MaxWork = 5
    MaxCrypto = 2
    MaxSigFail = 3
    MaxDepth = 2
    MaxSignatures = 5
    Serial = 8
    MaxPoint = 6
    Canonical <- MCCanonical
INVARIANTS AttemptsAreSound RebindIsStopped ZoneNamesStayHome WireIsRight ValidationIsSound
PROPERTY EveryQueryEnds
CHECK_DEADLOCK FALSE
