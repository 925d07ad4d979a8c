\* A question asked after a restart, before anything else has touched the instrument.
SPECIFICATION Spec
CONSTANTS
    c1 = c1
    c2 = c2
    c3 = c3
    t1 = t1
    t2 = t2
    OrderId = {c1, c2, c3}
    NoId = NoId
    Token = {t1, t2}
    NoToken = NoToken
    Asks <- SomeAsks
    Stream <- Streams
    InboxCap = 1
    Impatient = {c1}
    MaxEnds = 1
    MaxRefused = 0
INVARIANTS
    PositionIsTold
CHECK_DEADLOCK FALSE
