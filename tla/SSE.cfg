SPECIFICATION FairSpec
CONSTANTS
    s1 = s1
    m1 = m1
    m2 = m2
    m3 = m3
    a1 = a1
    ch = ch
    k = k
    Sub = {s1}
    Msg = {m1, m2, a1}
    Channel = {ch}
    Key = {k}
    NoMsg = NoMsg
    Everyone = Everyone
    ChannelOf <- OneChannel
    KeyOf <- OneKey
    Target <- ToChannel
    ReplayLimit = 1
    QueueCap = 2
INVARIANTS
    TypeOK
    NoGap
    GaugeExact
    ClientsOpen
    RevokedOnlyLate
PROPERTIES
    DisconnectedEnds
CHECK_DEADLOCK FALSE
