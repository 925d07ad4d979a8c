---------------------------- MODULE Ledger_proofs ----------------------------
(***************************************************************************)
(* What ApplyFill does to a position, for every position, quantity and     *)
(* price.                                                                  *)
(***************************************************************************)
EXTENDS Ledger, TLAPS

(* The unit of money is fine enough for the average that a fill leads to.  *)
WholeAverage(p, delta, price) ==
    SameSign(p.qty, delta) =>
        Average(p, delta, price) * (Magnitude(p.qty) + Magnitude(delta))
            = Paid(p, delta, price)

(* The unrealized P&L of a sum of quantities splits over the sum.          *)
LEMMA Distribute ==
    ASSUME NEW a \in Int, NEW b \in Int, NEW m \in Int, NEW v \in Int
    PROVE  /\ (a + b) * (m - v) = a * (m - v) + b * (m - v)
           /\ a * (m - v) = a * m - a * v
           /\ a * v \in Int
BY SMT

(* A magnitude is the quantity, or its opposite.                           *)
LEMMA MagnitudeIs ==
    ASSUME NEW n \in Int
    PROVE  /\ Magnitude(n) \in Nat
           /\ n > 0 => Magnitude(n) = n
           /\ n < 0 => Magnitude(n) = -n
           /\ n # 0 => Magnitude(n) > 0
BY DEF Magnitude

(* The average price is a whole number (Ledger's \div).                    *)
LEMMA AverageType ==
    ASSUME NEW p \in Position, NEW delta \in Int, NEW price \in Int,
           delta # 0
    PROVE  Average(p, delta, price) \in Int
<1>1. Magnitude(p.qty) \in Nat /\ Magnitude(delta) \in Nat /\ Magnitude(delta) > 0
    BY MagnitudeIs DEF Position
<1>2. Magnitude(p.qty) * p.avg \in Int /\ Magnitude(delta) * price \in Int
    BY <1>1 DEF Position
<1> QED BY <1>1, <1>2 DEF Average, Paid

(* A fill leads from a position to a position (ApplyFill, ledger.go).      *)
THEOREM ApplyFillType ==
    ASSUME NEW p \in Position, NEW delta \in Int, NEW price \in Int
    PROVE  ApplyFill(p, delta, price) \in Position
<1>1. CASE delta = 0 \/ p.qty = 0
    BY <1>1 DEF ApplyFill, Position
<1>2. CASE delta # 0 /\ p.qty # 0 /\ SameSign(p.qty, delta)
    <2>1. Average(p, delta, price) \in Int
        BY <1>2, AverageType
    <2>2. Add(p, delta, price) \in Position
        BY <2>1 DEF Add, Position
    <2> QED BY <1>2, <2>2 DEF ApplyFill
<1>3. CASE delta # 0 /\ p.qty # 0 /\ ~SameSign(p.qty, delta)
    <2>1. Closed(p, delta) \in Int /\ PnLPerUnit(p, price) \in Int
        BY MagnitudeIs DEF Closed, PnLPerUnit, Position
    <2>2. Closed(p, delta) * PnLPerUnit(p, price) \in Int
        BY <2>1
    <2>3. AvgAfterClose(p, delta, price) \in Int
        BY DEF AvgAfterClose, Position
    <2>4. Close(p, delta, price) \in Position
        BY <2>2, <2>3 DEF Close, Position
    <2> QED BY <1>3, <2>4 DEF ApplyFill
<1> QED BY <1>1, <1>2, <1>3

(* A fill moves the quantity held by the quantity filled, whether it adds, *)
(* closes or flips (ApplyFill, ledger.go).                                 *)
THEOREM QtyMovesByFill ==
    ASSUME NEW p \in Position, NEW delta \in Int, NEW price \in Int
    PROVE  ApplyFill(p, delta, price).qty = p.qty + delta
BY DEF ApplyFill, Add, Close, Position

(* Adding to a position gains nothing but the mark's distance from the     *)
(* fill price.                                                             *)
LEMMA AddingGains ==
    ASSUME NEW p \in Position, NEW delta \in Int, NEW price \in Int, NEW mark \in Int,
           SameSign(p.qty, delta), WholeAverage(p, delta, price)
    PROVE  TotalPnL(Add(p, delta, price), mark)
               = TotalPnL(p, mark) + delta * (mark - price)
<1> DEFINE avg == Average(p, delta, price)
           q == p.qty
<1>1. q \in Int /\ p.avg \in Int /\ p.realized \in Int
    BY DEF Position
<1>2. avg \in Int
    BY AverageType DEF SameSign
<1>3. avg * (Magnitude(q) + Magnitude(delta)) = Magnitude(q) * p.avg + Magnitude(delta) * price
    BY DEF WholeAverage, Paid
<1>4. (q + delta) * avg = q * p.avg + delta * price
    <2>1. CASE q > 0 /\ delta > 0
        BY <2>1, <1>1, <1>2, <1>3, MagnitudeIs
    <2>2. CASE q < 0 /\ delta < 0
        <3>1. avg * ((-q) + (-delta)) = (-q) * p.avg + (-delta) * price
            BY <2>2, <1>1, <1>3, MagnitudeIs
        <3> QED BY <3>1, <1>1, <1>2
    <2> QED BY <1>1, <2>1, <2>2 DEF SameSign
<1>5. TotalPnL(Add(p, delta, price), mark) = p.realized + (q + delta) * (mark - avg)
    BY <1>1, <1>2 DEF TotalPnL, UnrealizedPnL, Add, Position
<1>6. TotalPnL(p, mark) = p.realized + q * (mark - p.avg)
    BY DEF TotalPnL, UnrealizedPnL
<1>7. /\ (q + delta) * (mark - avg) = (q + delta) * mark - (q + delta) * avg
      /\ (q + delta) * mark = q * mark + delta * mark
      /\ q * (mark - p.avg) = q * mark - q * p.avg
      /\ delta * (mark - price) = delta * mark - delta * price
    BY <1>1, <1>2
<1> QED BY <1>1, <1>2, <1>4, <1>5, <1>6, <1>7

(* Closing turns unrealized P&L into realized P&L, and a flip opens what   *)
(* is left at the fill price.                                              *)
LEMMA ClosingGains ==
    ASSUME NEW p \in Position, NEW delta \in Int, NEW price \in Int, NEW mark \in Int,
           delta # 0, p.qty # 0, ~SameSign(p.qty, delta)
    PROVE  TotalPnL(Close(p, delta, price), mark)
               = TotalPnL(p, mark) + delta * (mark - price)
<1> DEFINE q == p.qty
           v == p.avg
           after == AvgAfterClose(p, delta, price)
           gain == Closed(p, delta) * PnLPerUnit(p, price)
<1>1. q \in Int /\ v \in Int /\ p.realized \in Int
    BY DEF Position
<1>2. (q > 0 /\ delta < 0) \/ (q < 0 /\ delta > 0)
    BY <1>1 DEF SameSign
<1>3. TotalPnL(p, mark) = p.realized + q * (mark - v)
    BY DEF TotalPnL, UnrealizedPnL
<1>4. TotalPnL(Close(p, delta, price), mark)
          = (p.realized + gain) + (q + delta) * (mark - after)
    BY DEF TotalPnL, UnrealizedPnL, Close
<1>5. CASE Magnitude(delta) < Magnitude(q)
    <2>1. after = v
        BY <1>1, <1>5, MagnitudeIs DEF AvgAfterClose
    <2>2. gain = (-delta) * (price - v)
        <3>1. CASE q > 0 /\ delta < 0
            BY <1>1, <1>5, <3>1, MagnitudeIs DEF Closed, PnLPerUnit
        <3>2. CASE q < 0 /\ delta > 0
            <4>1. gain = delta * (v - price)
                BY <1>1, <1>5, <3>2, MagnitudeIs DEF Closed, PnLPerUnit
            <4> QED BY <4>1, <1>1
        <3> QED BY <1>2, <3>1, <3>2
    <2>3. (q + delta) * (mark - v) + (-delta) * (price - v)
              = q * (mark - v) + delta * (mark - price)
        BY <1>1
    <2> QED BY <1>1, <1>3, <1>4, <2>1, <2>2, <2>3
<1>6. CASE ~(Magnitude(delta) < Magnitude(q))
    <2>1. gain = q * (price - v)
        <3>1. CASE q > 0 /\ delta < 0
            BY <1>1, <1>6, <3>1, MagnitudeIs DEF Closed, PnLPerUnit
        <3>2. CASE q < 0 /\ delta > 0
            <4>1. gain = (-q) * (v - price)
                BY <1>1, <1>6, <3>2, MagnitudeIs DEF Closed, PnLPerUnit
            <4> QED BY <4>1, <1>1
        <3> QED BY <1>2, <3>1, <3>2
    <2>2. (q + delta) * (mark - after) = (q + delta) * (mark - price)
        <3>1. CASE Magnitude(delta) > Magnitude(q)
            BY <3>1 DEF AvgAfterClose
        <3>2. CASE Magnitude(delta) = Magnitude(q)
            <4>1. q + delta = 0
                BY <1>1, <1>2, <3>2, MagnitudeIs
            <4>2. after \in Int
                BY <1>1 DEF AvgAfterClose
            <4> QED BY <4>1, <4>2
        <3> QED BY <1>1, <1>6, <3>1, <3>2, MagnitudeIs
    <2>3. (q + delta) * (mark - price) + q * (price - v)
              = q * (mark - v) + delta * (mark - price)
        BY <1>1
    <2> HIDE DEF gain, after
    <2>4. gain \in Int /\ (q + delta) * (mark - price) \in Int
          /\ q * (mark - v) \in Int /\ delta * (mark - price) \in Int
        BY <1>1, <2>1
    <2> QED BY <1>1, <1>3, <1>4, <2>1, <2>2, <2>3, <2>4
<1> QED BY <1>5, <1>6

(* No fill makes money appear or disappear: at every mark, realized plus   *)
(* unrealized P&L moves by what the fill itself has gained, whether it     *)
(* opens, adds, closes in part, closes or flips (ApplyFill, ledger.go).    *)
(* It is the step of BooksBalance in Engine.                               *)
THEOREM NoMoneyAppears ==
    ASSUME NEW p \in Position, NEW delta \in Int, NEW price \in Int, NEW mark \in Int,
           WholeAverage(p, delta, price)
    PROVE  TotalPnL(ApplyFill(p, delta, price), mark)
               = TotalPnL(p, mark) + delta * (mark - price)
<1>1. CASE delta = 0
    <2>1. delta * (mark - price) = 0
        BY <1>1
    <2>2. TotalPnL(p, mark) \in Int
        <3>1. p.qty * (mark - p.avg) \in Int
            BY DEF Position
        <3> QED BY <3>1 DEF TotalPnL, UnrealizedPnL, Position
    <2> QED BY <1>1, <2>1, <2>2 DEF ApplyFill
<1>2. CASE delta # 0 /\ p.qty = 0
    <2>1. TotalPnL(p, mark) = p.realized
        BY <1>2 DEF TotalPnL, UnrealizedPnL, Position
    <2>2. TotalPnL(ApplyFill(p, delta, price), mark) = p.realized + delta * (mark - price)
        BY <1>2 DEF ApplyFill, TotalPnL, UnrealizedPnL, Position
    <2> QED BY <2>1, <2>2
<1>3. CASE delta # 0 /\ SameSign(p.qty, delta)
    <2>1. p.qty # 0
        BY <1>3 DEF SameSign, Position
    <2> QED BY <1>3, <2>1, AddingGains DEF ApplyFill
<1>4. CASE delta # 0 /\ p.qty # 0 /\ ~SameSign(p.qty, delta)
    BY <1>4, ClosingGains DEF ApplyFill
<1> QED BY <1>1, <1>2, <1>3, <1>4
=============================================================================
