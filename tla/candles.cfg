\* Kills, a lost connection, replays and a refused transaction.
\* The stream of an instance ends, and then nothing is left to do.
SPECIFICATION FairSpec
CONSTANTS
    Price <- Prices
    Minute <- Minutes
    SeqNo <- Sequence
    QueueCap = 2
    MaxCrashes = 2
    MaxDisconnects = 1
    MaxFailedWrites = 1
INVARIANTS
    PipeTypeOK
    AllCounted
    DeliveredIsRecorded
PROPERTIES
    BarsAreExact
    BarsOnlyGrow
    StreamIsConsumed
CHECK_DEADLOCK FALSE
