SPECIFICATION LockSpec
CONSTANTS
    V4Messages = {"request", "decline", "release"}
    MaxScan = 2
PROPERTY EveryHandlerEnds
