------------------------------- MODULE Ledger -------------------------------
(***************************************************************************)
(* The position of one instrument and what a fill does to it               *)
(* (internal/instrument/ledger.go).  Money is counted in a unit fine       *)
(* enough for every average price to be a whole number; the code uses      *)
(* floating point, whose rounding is left out.  A fill is a signed         *)
(* quantity and a price.                                                   *)
(***************************************************************************)
EXTENDS Integers

Position == [qty: Int, avg: Int, realized: Int]

Flat == [qty |-> 0, avg |-> 0, realized |-> 0]

Magnitude(n) == IF n < 0 THEN -n ELSE n
SameSign(m, n) == (m > 0 /\ n > 0) \/ (m < 0 /\ n < 0)

(* What is paid for the quantities of p and of a fill in the same          *)
(* direction; their average price is this over the total quantity.         *)
Paid(p, delta, price) == Magnitude(p.qty) * p.avg + Magnitude(delta) * price

Average(p, delta, price) ==
    Paid(p, delta, price) \div (Magnitude(p.qty) + Magnitude(delta))

Add(p, delta, price) ==
    [qty |-> p.qty + delta, avg |-> Average(p, delta, price), realized |-> p.realized]

(* The quantity that a fill in the other direction closes.                 *)
Closed(p, delta) == IF Magnitude(delta) < Magnitude(p.qty) THEN Magnitude(delta)
                                                           ELSE Magnitude(p.qty)

PnLPerUnit(p, price) == IF p.qty > 0 THEN price - p.avg ELSE p.avg - price

(* Slip: what is left after a flip keeps the price of what was closed.     *)
KeepsAvg(p, delta, price) == p.avg

(* A flip opens what is left at the fill price, a partial close keeps the  *)
(* average price.                                                          *)
AvgAfterClose(p, delta, price) ==
    IF Magnitude(delta) > Magnitude(p.qty) THEN price
    ELSE IF Magnitude(delta) = Magnitude(p.qty) THEN 0
    ELSE p.avg

Close(p, delta, price) ==
    [qty      |-> p.qty + delta,
     avg      |-> AvgAfterClose(p, delta, price),
     realized |-> p.realized + Closed(p, delta) * PnLPerUnit(p, price)]

ApplyFill(p, delta, price) ==
    IF delta = 0 THEN p
    ELSE IF p.qty = 0 THEN [p EXCEPT !.qty = delta, !.avg = price]
    ELSE IF SameSign(p.qty, delta) THEN Add(p, delta, price)
    ELSE Close(p, delta, price)

UnrealizedPnL(p, ltp) == p.qty * (ltp - p.avg)

(* All that has been gained or lost, with the open quantity valued at      *)
(* mark.                                                                   *)
TotalPnL(p, mark) == p.realized + UnrealizedPnL(p, mark)
=============================================================================
