\* A kill between the write of a filled leg and that of its cancelled sibling.
SPECIFICATION Spec
CONSTANTS
    OrderId = {o1, o2, o3}
    NoId = NoId
    Price <- Prices
    Requests <- NoBodies
    Brackets <- Brackets1
    MaxCrashes = 1
    MaxStops = 0
    MaxFailedWrites = 0
SYMMETRY Symmetry
INVARIANTS
    NeverBothFilled
