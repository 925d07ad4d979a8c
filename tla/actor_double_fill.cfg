\* The write of one fill is refused, that of a later fill is not, then a kill.
SPECIFICATION Spec
CONSTANTS
    OrderId = {o1, o2}
    NoId = NoId
    Price <- Prices
    Requests <- Orders1
    Brackets <- NoBodies
    MaxCrashes = 1
    MaxStops = 0
    MaxFailedWrites = 1
SYMMETRY Symmetry
INVARIANTS
    PositionMatchesFills
