\* Two refused transactions around a minute boundary.
SPECIFICATION Spec
CONSTANTS
    Price <- Prices
    Minute <- Minutes
    SeqNo <- Sequence
    QueueCap = 2
    MaxCrashes = 0
    MaxDisconnects = 0
    MaxFailedWrites = 2
INVARIANTS
    AllCounted
