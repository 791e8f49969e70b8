SPECIFICATION LockSpec
CONSTANTS
    V4Messages = {"discover", "request", "decline", "release"}
    MaxScan = 2
INVARIANT NoDeadlock
