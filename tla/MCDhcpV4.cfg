SPECIFICATION Spec
CONSTANTS
    m1 = m1
    m2 = m2
    ip1 = ip1
    ip2 = ip2
    ip3 = ip3
    Mac = {m1, m2}
    Ip = {ip1, ip2, ip3}
    Range <- MCRange
    Static <- MCStatic
    Host = {laptop}
    None = None
    LeaseTime <- MCLeaseTime
    DeclineTime = 1
    MaxLease = 2
    MaxTime = 3
INVARIANTS OneHolder HeldIsRecorded IndexPointsHome
PROPERTY DeclinedIsNotOffered
CHECK_DEADLOCK FALSE
