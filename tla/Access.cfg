SPECIFICATION Spec
CONSTANTS
    c1 = c1  c2 = c2  r1 = r1  k1 = k1  k2 = k2  u1 = u1  u2 = u2  u3 = u3
    Conn = {c1, c2}
    Room = {r1}
    ACLs <- MCACLs
    Tokens <- MCTokens
    APIKey <- MCAPIKey
    ClientID <- MCClientID
    Star = Star
    NoRoom = NoRoom
    NoACL = NoACL
    NoToken = NoToken
INVARIANTS TypeOK OverfullOnlyRaced MembersAdmitted
