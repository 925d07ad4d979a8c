\* Two connections, one of which only reads.
\* Updates are bounded, and when the peers are gone nothing is left to do.
SPECIFICATION FairSpec
CONSTANTS
    a = a
    b = b
    Client = {c1, c2}
    Unruly = {c1}
    Token <- Instruments
    NoClient = NoClient
    MaxUpdates <- Updates
INVARIANTS
    HubTypeOK
    NewestWins
    FilterHolds
CHECK_DEADLOCK FALSE
PROPERTIES
    PublishReturns
    LatestArrives
    GoneIsForgotten
