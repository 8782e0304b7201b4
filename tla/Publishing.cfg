SPECIFICATION Spec
CONSTANTS
    p1 = p1  p2 = p2  e1 = e1  e2 = e2  ch1 = ch1  ch2 = ch2  w1 = w1  s1 = s1
    Pub = {p1, p2}
    Id = {i1}
    Event = {e1, e2}
    Channel = {ch1, ch2}
    Star = Star
    AnyChannel = AnyChannel
    NoHook = NoHook  NoJob = NoJob
    Ask <- MCAsk
    Filter <- MCFilter
    Member = {w1}
    Subscriber = {s1}
    ChannelOf <- MCChannelOf
    Cap = 1
    MaxChanges = 2
INVARIANTS TypeOK DispatchedRight CountersExact
PROPERTY RequestsEnd
CHECK_DEADLOCK FALSE
