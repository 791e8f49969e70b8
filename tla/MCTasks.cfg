SPECIFICATION MCSpec
CONSTANTS
    p1 = p1
    p2 = p2
    b1 = b1
    eth0 = eth0
    Periodic = {p1, p2}
    Background = {b1}
    Backoff <- MCBackoff
    Initial = 1
    MaxDelay = 3
    MaxExponent = 2
    Iface = {eth0}
    Interval <- MCInterval
    IsRouter <- MCIsRouter
    Contexts <- MCContexts
    NoAdvert = NoAdvert
    ShortPause = 6
    ShortCount = 4
    Millis = 5
    Modulus = 16
    MaxLifetime = 9
    MaxMisses = 3
INVARIANTS LoopsAreSound WaitCoversTasks RouterIsKept
PROPERTY TasksEnd
CHECK_DEADLOCK FALSE
