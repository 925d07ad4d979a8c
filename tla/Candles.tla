------------------------------- MODULE Candles -------------------------------
(* One-minute OHLC bars of one instrument (internal/candle).               *)
EXTENDS Integers, FiniteSetsExt

CONSTANTS
    Price,      \* last traded prices
    Minute,     \* one-minute buckets, the values of BucketFor
    SeqNo       \* sequence numbers of the instrument's ticks

ASSUME CandleConstants ==
    Price \subseteq Nat \ {0} /\ Minute \subseteq Nat \ {0} /\ SeqNo \subseteq Nat \ {0}

Candle == [ts: Minute, open: Price, high: Price, low: Price, close: Price,
           count: Nat \ {0}]

(* The zero value of the Go type; also what a minute without a row has.    *)
NoCandle == [ts |-> 0, open |-> 0, high |-> 0, low |-> 0, close |-> 0, count |-> 0]

MaybeCandle == Candle \cup {NoCandle}

(* A bar's first tick, and every later one.                                *)
Start(b, ltp)  == [ts |-> b, open |-> ltp, high |-> ltp, low |-> ltp,
                   close |-> ltp, count |-> 1]
Extend(c, ltp) == [c EXCEPT !.high  = IF ltp > @ THEN ltp ELSE @,
                            !.low   = IF ltp < @ THEN ltp ELSE @,
                            !.close = ltp,
                            !.count = @ + 1]
=============================================================================
