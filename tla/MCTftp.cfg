SPECIFICATION Spec
CONSTANTS
    Client = {c1}
    MaxSock = 3
    Request <- MCRequest
    File = {"image", "text"}
    Content <- MCContent
    LF = "LF"
    CR = "CR"
    None = None
    M = 3
    DefaultBlk = 2
    MinBlk = 1
    MaxBlk = 2
    MaxWindow = 2
    MaxConn = 2
    MaxTries = 2
INVARIANTS FileArrives TransfersAreSound
PROPERTY EveryTransferEnds
CHECK_DEADLOCK FALSE
