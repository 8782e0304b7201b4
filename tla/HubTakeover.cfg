SPECIFICATION Spec
CONSTANTS
    c1 = c1
    c2 = c2
    u1 = u1
    u2 = u2
    k1 = k1
    r1 = r1
    Conn = {c1, c2}
    User = {u1, u2}
    Key = {k1}
    Room = {r1}
    NoConn = NoConn
    NoRoom = NoRoom
    UserID <- OneUser
    APIKey <- OneKey
INVARIANTS
    TakeoverHarmless
CHECK_DEADLOCK FALSE
