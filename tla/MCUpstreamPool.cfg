SPECIFICATION MCSpec
CONSTANTS
    Addr = {a1, a2}
    Name <- MCName
    Pattern <- MCPattern
    Chain <- MCChain
    NoDomain = NoDomain
    NoAddr = NoAddr
    Never = Never
    Cooldown = 1
    MaxServers = 2
    MaxTime = 1
    Wildcard = "*"
    LabelSize <- MCLabelSize
    Query <- MCQuery
    Patterns <- MCPatterns
    Zones <- MCZones
    MaxPatterns = 3
    MaxZones = 3
    LetterOf <- MCLetterOf
    Digits = {"1"}
    Texts <- MCTexts
    GlobValues <- MCGlobValues
    MaxGlob = 5
    LocalLabel <- MCLocalLabel
    MAX_LABEL_LENGTH = 2
    MAX_HOSTNAME_LENGTH = 5
    MIN_LABELS = 2
    MAX_WILDCARDS_PER_LABEL = 2
INVARIANTS SelectionIsSound LookupsAreRight PatternsAreRight
PROPERTY TakesTurns
CHECK_DEADLOCK FALSE
