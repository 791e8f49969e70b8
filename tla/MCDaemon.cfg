SPECIFICATION Spec
CONSTANTS
    Config = {a, b, bad}
    Valid = {a, b}
    Signal = {"HUP", "TERM", "USR1", "CHLD"}
    Script = {s1, s2}
    None = None
    MaxEdits = 1
    MaxSignals = 2
INVARIANT DaemonIsSound
PROPERTIES LastReloadWins ChildrenAreCleared
CHECK_DEADLOCK FALSE
