\* A bracket and a standalone order, or up to four standalone orders, in one process
\* lifetime, while Postgres refuses one write.
SPECIFICATION BookedSpec
CONSTANTS
    OrderId = {o1, o2, o3, o4}
    NoId = NoId
    Price <- Prices
    Requests <- Orders1
    Brackets <- Brackets1
    MaxCrashes = 0
    MaxStops = 0
    MaxFailedWrites = 1
SYMMETRY Symmetry
INVARIANTS
    OneCancelsOther
    NoStrandedChild
    NoMarketableOrderRests
    ToldIsTrue
    PublishedIsCurrent
PROPERTIES
    MessagesAreAtomic
