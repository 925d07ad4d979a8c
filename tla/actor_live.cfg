\* A graceful shutdown, under which writes fail, and a restart.
SPECIFICATION FairSpec
CONSTANTS
    OrderId = {o1, o2, o3}
    NoId = NoId
    Price <- Prices
    Requests <- Orders2
    Brackets <- Brackets2
    MaxCrashes = 0
    MaxStops = 1
    MaxFailedWrites = 0
INVARIANTS
    TypeOK
PROPERTIES
    DurableFinality
    TickTriggers
    HandlerReturns
