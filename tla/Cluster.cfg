SPECIFICATION Spec
CONSTANTS
    n1 = n1  n2 = n2  c1 = c1  c2 = c2  u1 = u1  u2 = u2
    Node = {n1, n2}
    Client = {c1, c2}
    User = {u1, u2}
    NoUser = NoUser
    NoMsg = NoMsg
    NodeOf <- MCNodeOf
    UserOf <- MCUserOf
    SendCap = 1
    MaxSend <- MCMaxSend
    MaxFaults = 1
INVARIANT TypeOK
PROPERTIES FeedKept BroadcastHeard
CHECK_DEADLOCK FALSE
