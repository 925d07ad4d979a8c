\* Kills between any two writes and restarts from the rows; Postgres never
\* refuses a write.
SPECIFICATION Spec
CONSTANTS
    OrderId = {o1, o2, o3, o4}
    NoId = NoId
    Price <- Prices
    Requests <- Orders1
    Brackets <- Brackets1
    MaxCrashes = 2
    MaxStops = 0
    MaxFailedWrites = 0
SYMMETRY Symmetry
INVARIANTS
    ToldIsDurable
    PositionMatchesFills
    ChildrenFollowEntry
PROPERTIES
    ExactlyOnce
    NoFabricatedFill
