SPECIFICATION Spec
CONSTANTS
    s1 = s1  w1 = w1  p1 = p1  k1 = k1
    Sse = {s1}
    Ws = {w1}
    Pub = {p1}
    Key = {k1}
    KeyOf <- OneKey
    Loaded = {}
    Limit = 1
    MaxFaults = 2
    MaxMail = 2
INVARIANTS TypeOK OverLimitOnlyRaced NothingAfterRevocation SubscribersKnown
PROPERTIES RevokedStaysRevoked RevokedEnds
CHECK_DEADLOCK FALSE
