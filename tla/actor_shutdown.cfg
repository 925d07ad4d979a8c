\* A graceful shutdown under which the actor still handles a cancel.
SPECIFICATION Spec
CONSTANTS
    OrderId = {o1, o2}
    NoId = NoId
    Price <- Prices
    Requests <- Orders1
    Brackets <- NoBodies
    MaxCrashes = 0
    MaxStops = 1
    MaxFailedWrites = 0
SYMMETRY Symmetry
INVARIANTS
    CancelIsFinal
