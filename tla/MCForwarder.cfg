SPECIFICATION Spec
CONSTANTS
    Client = {c1, c2}
    Name = {n1, n2}
    Server = {s1}
    Id = {i1, i2}
    None = None
    MaxRetry = 1
INVARIANTS OutstandingIsAwaited RightAnswerOnce
PROPERTY EveryQueryEnds
CHECK_DEADLOCK FALSE
