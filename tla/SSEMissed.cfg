SPECIFICATION Spec
CONSTANTS
    s1 = s1
    m1 = m1
    m2 = m2
    m3 = m3
    a1 = a1
    ch = ch
    k = k
    Sub = {s1}
    Msg = {m1, m2, m3}
    Channel = {ch}
    Key = {k}
    NoMsg = NoMsg
    Everyone = Everyone
    ChannelOf <- OneChannel
    KeyOf <- OneKey
    Target <- ToChannel
    ReplayLimit = 3
    QueueCap = 3
INVARIANTS
    MissedReplayed
CHECK_DEADLOCK FALSE
