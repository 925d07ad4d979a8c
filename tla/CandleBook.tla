----------------------------- MODULE CandleBook -----------------------------
(***************************************************************************)
(* What the durable candles promise (README.md, Idempotency): the ticks of *)
(* the stream enter the one-minute bars in order, each exactly once, and   *)
(* the watermark says how far the bars have got.                           *)
(***************************************************************************)
EXTENDS Candles

VARIABLES
    prices,     \* the stream: the price of each sequence number
    watermark,  \* the last sequence number in the bars, 0 before the first
    candles     \* the bar of each minute

bookVars == <<prices, watermark, candles>>

Init ==
    /\ prices \in [SeqNo -> Price]
    /\ watermark = 0
    /\ candles = [b \in Minute |-> NoCandle]

(* Bar c of minute b after the ticks with sequence numbers in batch.       *)
With(c, b, batch) ==
    LET seen == {prices[n] : n \in batch}
        was  == IF c = NoCandle THEN {} ELSE {c.high, c.low}
    IN  IF batch = {} THEN c
        ELSE [ts    |-> b,
              open  |-> IF c = NoCandle THEN prices[Min(batch)] ELSE c.open,
              high  |-> Max(seen \cup was),
              low   |-> Min(seen \cup was),
              close |-> prices[Max(batch)],
              count |-> c.count + Cardinality(batch)]

(* The next ticks of the stream, usually one, enter the bars of the        *)
(* minutes given by at: in order, and never before a bar that exists.      *)
ApplyTicks(batch, at) ==
    /\ \A m, n \in batch : m <= n => at[m] <= at[n]
    /\ \A b \in Minute : candles[b] # NoCandle => \A n \in batch : at[n] >= b
    /\ candles' = [b \in Minute |-> With(candles[b], b, {n \in batch : at[n] = b})]
    /\ watermark' = watermark + Cardinality(batch)
    /\ UNCHANGED prices

Next ==
    \E last \in SeqNo :
        LET batch == watermark + 1 .. last
        IN  batch # {} /\ \E at \in [batch -> Minute] : ApplyTicks(batch, at)

Spec == Init /\ [][Next]_bookVars
=============================================================================
