------------------------------ MODULE MCEngine ------------------------------
EXTENDS Engine
CONSTANTS c1, c2, c3, t1, t2

Body(side, type, qty, limit) ==
    NewOrder([side |-> side, type |-> type, qty |-> qty, limit |-> limit])

(* A limit buy and a market sell of more on one instrument; what a second  *)
(* and a third caller may ask meanwhile, of another instrument too.        *)
SomeAsks ==
    (c1 :> {Place(t1, Body("buy", "limit", 2, 60)),
            Place(t2, Body("buy", "limit", 0, 60))} @@
     c2 :> {Place(t1, Body("sell", "market", 3, 0)), Cancel(c1)} @@
     c3 :> {Get(t1)})

Streams == (t1 :> <<60, 120>> @@ t2 :> <<>>)
=============================================================================
