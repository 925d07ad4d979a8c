------------------------ MODULE CandlePipeline_proofs ------------------------
(***************************************************************************)
(* What the rows of the candles promise, for every stream of ticks, every  *)
(* set of minutes and any number of kills, replays and lost connections:   *)
(* bars only grow whatever Postgres refuses, and if it refuses nothing     *)
(* the rows implement CandleBook.                                          *)
(***************************************************************************)
EXTENDS CandlePipeline, Sums_proofs, TLAPS

(* No bar is stored after minute m.                                        *)
NoneAfter(m) == \A b \in Minute : b > m => candles[b] = NoCandle

(* Bar new is bar old, or has the ticks of old and some more.              *)
Grown(old, new) ==
    old = new \/ /\ new.count > old.count
                 /\ old # NoCandle => /\ new.open = old.open
                                      /\ new.high >= old.high
                                      /\ new.low <= old.low

(* Bar c is the latest one stored, grown, or a later one.                  *)
Ahead(c) == NoneAfter(c.ts) /\ (c # NoCandle => Grown(candles[c.ts], c))

IsLatest(c) == NoneAfter(c.ts) /\ (c # NoCandle => candles[c.ts] = c)

(* What Apply has handed to the loop, and what is in memory with it.       *)
Handed ==
    IF result.dup THEN result = NoResult
    ELSE /\ tick \in Tick /\ result.current = current /\ current # NoCandle
         /\ result.closed # NoCandle =>
               result.closed.ts < current.ts /\ Ahead(result.closed)

RowsInv ==
    /\ \A b \in Minute : candles[b] # NoCandle => candles[b].ts = b
    /\ \E c \in MaybeCandle : IsLatest(c)
    /\ watermark = 0 => NoneAfter(0)
    /\ up => Ahead(current)
    /\ ~up => pc = "take"
    /\ pc = "persist" => Handed
    /\ pc = "deliver" => tick.seq <= watermark
    /\ actorSeq <= watermark

PipeInv == PipeTypeOK /\ RowsInv

-----------------------------------------------------------------------------
(* Prices, minutes and sequence numbers are positive.                      *)
LEMMA Positive ==
    /\ Price \subseteq Nat /\ Minute \subseteq Nat /\ SeqNo \subseteq Nat
    /\ 0 \notin Price /\ 0 \notin Minute /\ 0 \notin SeqNo
BY CandleConstants

(* A tick starts a bar.                                                    *)
LEMMA StartType ==
    ASSUME NEW b \in Minute, NEW p \in Price
    PROVE  Start(b, p) \in Candle /\ Start(b, p).ts = b /\ Start(b, p).count = 1
BY CandleConstants DEF Start, Candle

(* A tick extends a bar.                                                   *)
LEMMA ExtendType ==
    ASSUME NEW c \in Candle, NEW p \in Price
    PROVE  /\ Extend(c, p) \in Candle
           /\ Extend(c, p).ts = c.ts /\ Extend(c, p).open = c.open
           /\ Extend(c, p).high = (IF p > c.high THEN p ELSE c.high)
           /\ Extend(c, p).low = (IF p < c.low THEN p ELSE c.low)
           /\ Extend(c, p).close = p
           /\ Extend(c, p).count = c.count + 1
<1>1. /\ (IF p > c.high THEN p ELSE c.high) \in Price
      /\ (IF p < c.low THEN p ELSE c.low) \in Price
      /\ c.count + 1 \in Nat \ {0}
    BY CandleConstants DEF Candle
<1>2. Extend(c, p) \in Candle
    BY <1>1 DEF Extend, Candle
<1>3. Extend(c, p).ts = c.ts /\ Extend(c, p).open = c.open
    BY DEF Extend, Candle
<1>4. Extend(c, p).close = p /\ Extend(c, p).count = c.count + 1
    BY DEF Extend, Candle
<1>5. Extend(c, p).high = (IF p > c.high THEN p ELSE c.high)
    BY DEF Extend, Candle
<1>6. Extend(c, p).low = (IF p < c.low THEN p ELSE c.low)
    BY DEF Extend, Candle
<1> QED BY <1>2, <1>3, <1>4, <1>5, <1>6

(* A bar has a minute and ticks in it, the zero bar has neither.           *)
LEMMA BarIs ==
    ASSUME NEW c \in MaybeCandle
    PROVE  /\ c.ts \in Nat /\ c.count \in Nat /\ c.open \in Nat
           /\ c.high \in Nat /\ c.low \in Nat
           /\ c # NoCandle => c \in Candle /\ c.ts \in Minute /\ c.count > 0
           /\ c = NoCandle => c.ts = 0 /\ c.ts \notin Minute
<1>1. CASE c \in Candle
    <2>1. /\ c.ts \in Minute /\ c.open \in Price /\ c.high \in Price /\ c.low \in Price
          /\ c.count \in Nat \ {0}
        BY <1>1 DEF Candle
    <2>2. c # NoCandle
        BY <2>1 DEF NoCandle
    <2>3. Minute \subseteq Nat /\ Price \subseteq Nat
        BY CandleConstants
    <2>4. c.count \in Nat /\ c.count > 0
        BY <2>1
    <2>5. c.ts \in Nat /\ c.open \in Nat /\ c.high \in Nat /\ c.low \in Nat
        BY <2>1, <2>3
    <2> QED BY <1>1, <2>1, <2>2, <2>4, <2>5
<1>2. CASE c = NoCandle
    BY <1>2, CandleConstants DEF NoCandle
<1> QED BY <1>1, <1>2 DEF MaybeCandle

(* A stored bar that grows into c is replaced by c, its open included, and *)
(* the zero bar replaces none.                                             *)
LEMMA UpsertIs ==
    ASSUME NEW t \in [Minute -> MaybeCandle], NEW c \in MaybeCandle,
           c # NoCandle => Grown(t[c.ts], c)
    PROVE  /\ UpsertCandle(t, c) = [b \in Minute |-> IF b = c.ts THEN c ELSE t[b]]
           /\ UpsertCandle(t, c) \in [Minute -> MaybeCandle]
<1>1. CASE c = NoCandle
    BY <1>1, BarIs DEF UpsertCandle
<1>2. CASE c # NoCandle
    <2>1. c \in Candle /\ c.ts \in Minute
        BY <1>2, BarIs
    <2>2. t[c.ts] # NoCandle => [c EXCEPT !.open = t[c.ts].open] = c
        BY <1>2, <2>1 DEF Grown, Candle
    <2> QED BY <2>1, <2>2 DEF UpsertCandle
<1> QED BY <1>1, <1>2

(* A bar that has grown from another has grown when it gets one more tick. *)
LEMMA ExtendGrows ==
    ASSUME NEW old \in MaybeCandle, NEW c \in Candle, NEW p \in Price, Grown(old, c)
    PROVE  Grown(old, Extend(c, p))
<1>1. /\ old.count \in Nat /\ old.high \in Nat /\ old.low \in Nat
      /\ c.count \in Nat /\ c.high \in Nat /\ c.low \in Nat /\ p \in Nat
    BY BarIs, CandleConstants DEF MaybeCandle
<1> QED BY <1>1, ExtendType DEF Grown

(* The loop holds a tick or nothing.                                       *)
LEMMA SeqIs == ASSUME PipeInv PROVE tick.seq \in Nat
<1>1. CASE tick \in Tick
    <2>1. tick.seq \in SeqNo
        BY <1>1 DEF Tick
    <2> QED BY <2>1, Positive
<1>2. CASE tick = NoTick
    BY <1>2 DEF NoTick
<1> QED BY <1>1, <1>2 DEF PipeInv, PipeTypeOK

(* The seeding query returns the latest bar.                               *)
LEMMA LatestIs ==
    ASSUME PipeInv
    PROVE  LatestCandle \in MaybeCandle /\ IsLatest(LatestCandle)
<1> DEFINE Stored == {b \in Minute : candles[b] # NoCandle}
<1>1. PICK c \in MaybeCandle : IsLatest(c)
    BY DEF PipeInv, RowsInv
<1>2. candles \in [Minute -> MaybeCandle]
    BY DEF PipeInv, PipeTypeOK
<1>3. CASE c = NoCandle
    <2>1. c.ts = 0 /\ \A b \in Minute : b > 0
        BY <1>3, BarIs, CandleConstants
    <2>2. Stored = {}
        BY <1>1, <2>1 DEF IsLatest, NoneAfter
    <2> QED BY <1>1, <1>3, <2>2 DEF LatestCandle, MaybeCandle
<1>4. CASE c # NoCandle
    <2>1. c.ts \in Stored /\ \A b \in Stored : c.ts >= b
        BY <1>1, <1>4, BarIs, CandleConstants DEF IsLatest, NoneAfter
    <2> HIDE DEF Stored
    <2>2. Max(Stored) \in Stored /\ \A b \in Stored : Max(Stored) >= b
        BY <2>1 DEF Max
    <2>3. Max(Stored) = c.ts
        <3>1. c.ts \in Nat /\ Max(Stored) \in Nat
            BY <2>1, <2>2, CandleConstants DEF Stored
        <3>2. Max(Stored) >= c.ts /\ c.ts >= Max(Stored)
            BY <2>1, <2>2
        <3> QED BY <3>1, <3>2
    <2>4. LatestCandle = c
        BY <1>1, <1>4, <2>1, <2>3 DEF LatestCandle, IsLatest, Stored
    <2> QED BY <1>1, <2>4
<1> QED BY <1>3, <1>4

-----------------------------------------------------------------------------
(* The initial state.                                                      *)
LEMMA PipeInit == Init => PipeInv
<1> SUFFICES ASSUME Init PROVE PipeInv
    OBVIOUS
<1>1. NoCandle \in MaybeCandle /\ NoResult \in Result
    BY DEF MaybeCandle, Result, NoResult
<1>2. PipeTypeOK
    BY <1>1, CandleConstants, PipelineConstants DEF Init, PipeTypeOK
<1>3. RowsInv
    BY <1>1 DEF Init, RowsInv, IsLatest, Ahead, NoneAfter, NoCandle
<1> QED BY <1>2, <1>3 DEF PipeInv

(* What is said of the rows is still true when they and the loop are as    *)
(* they were.                                                              *)
LEMMA RowsStay ==
    ASSUME RowsInv, UNCHANGED <<rows, up, memory, loop, actorSeq>>
    PROVE  RowsInv'
<1>1. UNCHANGED <<watermark, candles, up, lastSeq, current, pc, tick, result, actorSeq>>
    BY DEF rows, memory, loop
<1> QED BY <1>1 DEF RowsInv, Handed, IsLatest, Ahead, NoneAfter

(* Time passes.                                                            *)
LEMMA AdvanceStep == ASSUME PipeInv, Advance PROVE PipeInv'
<1>1. RowsInv'
    BY RowsStay DEF PipeInv, Advance
<1>2. PipeTypeOK'
    BY DEF PipeInv, PipeTypeOK, Advance, memory, loop, rows
<1> QED BY <1>1, <1>2 DEF PipeInv

(* A tick enters the channel.                                              *)
LEMMA EmitStep == ASSUME PipeInv, Emit PROVE PipeInv'
<1>1. RowsInv'
    BY RowsStay DEF PipeInv, Emit
<1>2. [seq |-> next, ltp |-> prices[next], ts |-> clock] \in Tick
    BY DEF PipeInv, PipeTypeOK, Emit, Tick
<1>3. ticks \in Seq(Tick) /\ Len(ticks) < QueueCap /\ QueueCap \in Nat
    BY PipelineConstants DEF PipeInv, PipeTypeOK, Emit, Room
<1>4. ticks' \in Seq(Tick) /\ Len(ticks') <= QueueCap
    BY <1>2, <1>3 DEF Emit
<1>5. PipeTypeOK'
    BY <1>4 DEF PipeInv, PipeTypeOK, Emit, memory, loop, rows
<1> QED BY <1>1, <1>5 DEF PipeInv

(* The connection is lost.                                                 *)
LEMMA DisconnectStep == ASSUME PipeInv, Disconnect PROVE PipeInv'
<1>1. RowsInv'
    BY RowsStay DEF PipeInv, Disconnect
<1>2. PipeTypeOK'
    BY DEF PipeInv, PipeTypeOK, Disconnect, memory, loop, rows
<1> QED BY <1>1, <1>2 DEF PipeInv

(* The head of the channel is a tick, and the channel shrinks.             *)
LEMMA HeadIsTick ==
    ASSUME PipeInv, Take
    PROVE  /\ tick' = ticks[1] /\ tick' \in Tick
           /\ ticks' \in Seq(Tick) /\ Len(ticks') = Len(ticks) - 1
           /\ \A n \in 1 .. Len(ticks') : ticks'[n] = ticks[n + 1]
BY DEF PipeInv, PipeTypeOK, Take

(* What Apply makes of a new tick: the bar in memory, one tick longer, or  *)
(* a new one and the one before it closed.                                 *)
LEMMA ApplyIs ==
    ASSUME PipeInv, Take, ~Duplicate(tick')
    PROVE  /\ result' = [dup |-> FALSE, current |-> current', closed |-> Closed(tick')]
           /\ lastSeq' = tick'.seq /\ current' = Folded(tick')
           /\ current' \in Candle /\ result' \in Result
           /\ Ahead(current')
           /\ Closed(tick') # NoCandle =>
                 Closed(tick').ts < current'.ts /\ Ahead(Closed(tick'))
<1>1. /\ result' = [dup |-> FALSE, current |-> Folded(tick'), closed |-> Closed(tick')]
      /\ lastSeq' = tick'.seq /\ current' = Folded(tick')
    BY DEF Take, ApplyResult
<1>2. /\ tick'.ts \in Minute /\ tick'.ltp \in Price
      /\ tick'.ts \in Nat /\ tick'.ts > 0 /\ tick'.ltp \in Nat
    <2>1. tick'.ts \in Minute /\ tick'.ltp \in Price
        BY HeadIsTick DEF Tick
    <2>2. tick'.ts \in Nat /\ tick'.ts # 0 /\ tick'.ltp \in Nat
        BY <2>1, Positive
    <2> QED BY <2>1, <2>2
<1>3. current \in MaybeCandle /\ Ahead(current) /\ NoCandle \in MaybeCandle
    BY DEF PipeInv, PipeTypeOK, RowsInv, Take, MaybeCandle
<1>4. candles \in [Minute -> MaybeCandle]
    BY DEF PipeInv, PipeTypeOK
<1>5. CASE StartsNewBar(tick')
    <2>1. Folded(tick') = Start(tick'.ts, tick'.ltp) /\ Closed(tick') = current
        BY <1>5 DEF Folded, Closed
    <2>2. current.ts < tick'.ts /\ current.ts \in Nat
        BY <1>2, <1>3, <1>5, BarIs DEF StartsNewBar
    <2>3. NoneAfter(tick'.ts) /\ candles[tick'.ts] = NoCandle
        <3>1. \A b \in Minute : b \in Nat
            BY Positive
        <3>2. \A b \in Minute : b > current.ts => candles[b] = NoCandle
            BY <1>3 DEF Ahead, NoneAfter
        <3> QED BY <1>2, <2>2, <3>1, <3>2 DEF NoneAfter
    <2>4. Ahead(current')
        BY <1>1, <1>2, <2>1, <2>3, StartType DEF Ahead, Grown, NoCandle
    <2>5. current' \in Candle /\ current'.ts = tick'.ts
        BY <1>1, <1>2, <2>1, StartType
    <2>6. result' \in Result
        BY <1>1, <1>3, <2>1, <2>5 DEF Result, MaybeCandle
    <2> QED BY <1>1, <1>3, <2>1, <2>2, <2>4, <2>5, <2>6
<1>6. CASE ~StartsNewBar(tick')
    <2>1. Folded(tick') = Extend(current, tick'.ltp) /\ Closed(tick') = NoCandle
        BY <1>6 DEF Folded, Closed
    <2>2. current \in Candle /\ current # NoCandle /\ current.ts \in Minute
        BY <1>3, <1>6, BarIs DEF StartsNewBar
    <2>3. current' \in Candle /\ current'.ts = current.ts
        BY <1>1, <1>2, <2>1, <2>2, ExtendType
    <2>4. Grown(candles[current.ts], current')
        BY <1>1, <1>2, <1>3, <1>4, <2>1, <2>2, ExtendGrows DEF Ahead
    <2>5. Ahead(current')
        BY <1>3, <2>3, <2>4 DEF Ahead
    <2>6. result' \in Result
        BY <1>1, <1>3, <2>1, <2>3 DEF Result, MaybeCandle
    <2> QED BY <1>1, <2>1, <2>3, <2>5, <2>6
<1> QED BY <1>5, <1>6

(* The loop takes a tick and folds it.                                     *)
LEMMA TakeStep == ASSUME PipeInv, Take PROVE PipeInv'
<1>1. /\ UNCHANGED <<prices, clock, next, up, actorSeq, watermark, candles, faults>>
      /\ pc = "take" /\ pc' = "persist" /\ up
    BY DEF Take, feed, rows
<1>2. /\ tick' \in Tick /\ ticks' \in Seq(Tick) /\ Len(ticks') <= QueueCap
      /\ tick'.seq \in Nat
    <2>1. tick'.seq \in SeqNo /\ tick' \in Tick
        BY HeadIsTick DEF Tick
    <2>2. /\ ticks' \in Seq(Tick) /\ Len(ticks') = Len(ticks) - 1
          /\ ticks \in Seq(Tick) /\ Len(ticks) <= QueueCap
        BY HeadIsTick DEF PipeInv, PipeTypeOK
    <2>3. QueueCap \in Nat /\ tick'.seq \in Nat
        BY <2>1, PipelineConstants, Positive
    <2>4. Len(ticks') <= QueueCap
        BY <2>2, <2>3
    <2> QED BY <2>1, <2>2, <2>3, <2>4
<1>3. NoCandle # current' \/ Duplicate(tick')
    BY ApplyIs, CandleConstants DEF NoCandle, Candle
<1>4. /\ lastSeq' \in Nat /\ current' \in MaybeCandle /\ result' \in Result
      /\ Handed' /\ Ahead(current)' /\ Ahead(current')
    <2>1. CASE Duplicate(tick')
        <3>1. result' = NoResult /\ UNCHANGED <<lastSeq, current>>
            BY <2>1 DEF Take, ApplyResult, memory, NoResult
        <3> QED BY <1>1, <3>1 DEF PipeInv, PipeTypeOK, RowsInv, Handed, Ahead, NoneAfter,
                                  NoResult, Result, MaybeCandle
    <2>2. CASE ~Duplicate(tick')
        BY <1>1, <1>2, <1>3, <2>2, ApplyIs DEF Handed, Ahead, NoneAfter, MaybeCandle
    <2> QED BY <2>1, <2>2
<1>5. PipeTypeOK'
    BY <1>1, <1>2, <1>4 DEF PipeInv, PipeTypeOK
<1>6. RowsInv'
    BY <1>1, <1>4 DEF PipeInv, RowsInv, IsLatest, Ahead, NoneAfter
<1> QED BY <1>5, <1>6 DEF PipeInv

(* What a write that the watermark does not stop does to the bars.         *)
LEMMA PersistIs ==
    ASSUME PipeInv, PersistTick, ~Recorded(tick.seq)
    PROVE  /\ candles' = [b \in Minute |->
                   IF b = result.current.ts THEN result.current
                   ELSE IF b = result.closed.ts THEN result.closed ELSE candles[b]]
           /\ candles' \in [Minute -> MaybeCandle]
           /\ watermark' = tick.seq /\ Handed
           /\ result.current \in MaybeCandle /\ result.closed \in MaybeCandle
<1>1. Handed /\ up /\ Ahead(current) /\ candles \in [Minute -> MaybeCandle]
    BY DEF PersistTick, PipeInv, PipeTypeOK, RowsInv
<1>2. result.current \in MaybeCandle /\ result.closed \in MaybeCandle
    BY DEF PipeInv, PipeTypeOK, Result
<1>3. result.closed # NoCandle => Grown(candles[result.closed.ts], result.closed)
    BY <1>1 DEF Handed, Ahead, NoResult
<1>4. result.current # NoCandle =>
          /\ Grown(candles[result.current.ts], result.current)
          /\ result.closed.ts # result.current.ts
    <2> SUFFICES ASSUME result.current # NoCandle
                 PROVE  /\ Grown(candles[result.current.ts], result.current)
                        /\ result.closed.ts # result.current.ts
        OBVIOUS
    <2>1. result.current = current /\ ~result.dup
        BY <1>1 DEF Handed, NoResult
    <2>2. result.closed # NoCandle => result.closed.ts < current.ts
        BY <1>1, <2>1 DEF Handed
    <2>3. current.ts \in Minute
        BY <1>2, <2>1, BarIs
    <2> QED BY <1>1, <1>2, <2>1, <2>2, <2>3, BarIs DEF Ahead
<1> DEFINE first == UpsertCandle(candles, result.closed)
<1>5. /\ first = [b \in Minute |-> IF b = result.closed.ts THEN result.closed ELSE candles[b]]
      /\ first \in [Minute -> MaybeCandle]
    BY <1>1, <1>2, <1>3, UpsertIs
<1>6. result.current # NoCandle => Grown(first[result.current.ts], result.current)
    BY <1>2, <1>4, <1>5, BarIs
<1>7. candles' = UpsertCandle(first, result.current) /\ watermark' = tick.seq
    BY DEF PersistTick
<1> HIDE DEF first
<1>8. /\ candles' = [b \in Minute |-> IF b = result.current.ts THEN result.current
                                      ELSE first[b]]
      /\ candles' \in [Minute -> MaybeCandle]
    BY <1>2, <1>5, <1>6, <1>7, UpsertIs
<1>9. candles' = [b \in Minute |->
                   IF b = result.current.ts THEN result.current
                   ELSE IF b = result.closed.ts THEN result.closed ELSE candles[b]]
    BY <1>5, <1>8
<1> QED BY <1>1, <1>2, <1>7, <1>8, <1>9

(* The bar in memory is then the latest one stored.                        *)
LEMMA NewLatest ==
    ASSUME PipeInv, PersistTick, ~Recorded(tick.seq), ~result.dup
    PROVE  /\ result.current = current /\ current \in Candle /\ current.ts \in Minute
           /\ candles'[current.ts] = current
           /\ \A b \in Minute : b # current.ts =>
                  candles'[b] = IF b = result.closed.ts THEN result.closed ELSE candles[b]
           /\ NoneAfter(current.ts) /\ NoneAfter(current.ts)'
<1>1. /\ result.current = current /\ current # NoCandle /\ Ahead(current)
      /\ result.closed # NoCandle => result.closed.ts < current.ts
      /\ current' = current
    BY DEF PipeInv, RowsInv, Handed, PersistTick, memory
<1>2. /\ current \in Candle /\ current.ts \in Minute /\ current.ts \in Nat
      /\ result.closed.ts \in Nat
      /\ result.closed = NoCandle => result.closed.ts \notin Minute
    BY <1>1, PersistIs, BarIs
<1>3. /\ candles'[current.ts] = current
      /\ \A b \in Minute : b # current.ts =>
            candles'[b] = IF b = result.closed.ts THEN result.closed ELSE candles[b]
    BY <1>1, <1>2, PersistIs
<1>4. NoneAfter(current.ts)'
    <2>1. SUFFICES ASSUME NEW b \in Minute, b > current.ts PROVE candles'[b] = NoCandle
        BY <1>1 DEF NoneAfter
    <2>2. b \in Nat /\ b # current.ts /\ b # result.closed.ts
        BY <1>1, <1>2, <2>1, Positive
    <2> QED BY <1>1, <1>3, <2>1, <2>2 DEF Ahead, NoneAfter
<1> QED BY <1>1, <1>2, <1>3, <1>4 DEF Ahead

(* The loop writes a tick.                                                 *)
LEMMA PersistStep == ASSUME PipeInv, PersistTick PROVE PipeInv'
<1>1. /\ UNCHANGED <<prices, clock, next, ticks, up, lastSeq, current, tick, result,
                     actorSeq, faults>>
      /\ pc = "persist" /\ pc' = "deliver" /\ up
    BY DEF PersistTick, feed, memory
<1>2. CASE Recorded(tick.seq)
    <2>1. UNCHANGED <<watermark, candles>>
        BY <1>2 DEF PersistTick, rows
    <2>2. PipeTypeOK'
        BY <1>1, <2>1 DEF PipeInv, PipeTypeOK
    <2>3. RowsInv'
        BY <1>1, <1>2, <2>1 DEF PipeInv, RowsInv, Recorded, IsLatest, Ahead, NoneAfter
    <2> QED BY <2>2, <2>3 DEF PipeInv
<1>3. CASE ~Recorded(tick.seq)
    <2>1. /\ candles' \in [Minute -> MaybeCandle] /\ watermark' = tick.seq
          /\ tick.seq \in Nat /\ watermark \in Nat /\ tick.seq > watermark
          /\ actorSeq \in Nat /\ actorSeq <= watermark
        <3>1. tick.seq \in Nat
            BY SeqIs
        <3> QED BY <1>3, <3>1, PersistIs DEF PipeInv, PipeTypeOK, RowsInv, Recorded
    <2>2. PipeTypeOK'
        BY <1>1, <2>1 DEF PipeInv, PipeTypeOK
    <2>3. /\ \A b \in Minute : candles'[b] # NoCandle => candles'[b].ts = b
          /\ \E c \in MaybeCandle : IsLatest(c)'
          /\ Ahead(current)'
        <3>1. CASE result.dup
            <4>1. result = NoResult
                BY <1>1, <3>1 DEF PipeInv, RowsInv, Handed
            <4>2. candles' = candles
                BY <1>3, <4>1, PersistIs, BarIs DEF NoResult, PipeInv, PipeTypeOK
            <4> QED BY <1>1, <4>2 DEF PipeInv, RowsInv, IsLatest, Ahead, NoneAfter
        <3>2. CASE ~result.dup
            <4>1. \A b \in Minute : candles'[b] # NoCandle => candles'[b].ts = b
                BY <1>1, <1>3, <3>2, NewLatest DEF PipeInv, RowsInv
            <4>2. IsLatest(current)' /\ current' \in MaybeCandle
                BY <1>1, <1>3, <3>2, NewLatest DEF IsLatest, MaybeCandle
            <4>3. Ahead(current)'
                BY <4>2 DEF Ahead, IsLatest, Grown
            <4>4. \E c \in MaybeCandle : IsLatest(c)'
                BY <1>1, <4>2 DEF IsLatest, NoneAfter
            <4> QED BY <4>1, <4>3, <4>4
        <3> QED BY <3>1, <3>2
    <2>4. RowsInv'
        BY <1>1, <2>1, <2>3 DEF PipeInv, RowsInv
    <2> QED BY <2>2, <2>4 DEF PipeInv
<1> QED BY <1>2, <1>3

(* Postgres refuses a write.                                               *)
LEMMA PersistFailsStep == ASSUME PipeInv, PersistFails PROVE PipeInv'
<1>1. /\ UNCHANGED <<prices, clock, next, ticks, up, lastSeq, current, tick, result,
                     actorSeq, watermark, candles>>
      /\ pc' = "take" /\ faults' = [faults EXCEPT !.write = @ + 1]
    BY DEF PersistFails, feed, memory, rows, AfterError
<1>2. PipeTypeOK'
    BY <1>1 DEF PipeInv, PipeTypeOK
<1>3. RowsInv'
    BY <1>1 DEF PipeInv, RowsInv, IsLatest, Ahead, NoneAfter
<1> QED BY <1>2, <1>3 DEF PipeInv

(* The actor is given a tick.                                              *)
LEMMA DeliverStep == ASSUME PipeInv, Deliver PROVE PipeInv'
<1>1. /\ UNCHANGED <<prices, clock, next, ticks, up, lastSeq, current, tick, result,
                     watermark, candles, faults>>
      /\ pc = "deliver" /\ pc' = "take" /\ actorSeq' = tick.seq
    BY DEF Deliver, feed, memory, rows
<1>2. tick.seq \in Nat
    BY SeqIs
<1>3. PipeTypeOK'
    BY <1>1, <1>2 DEF PipeInv, PipeTypeOK
<1>4. RowsInv'
    BY <1>1 DEF PipeInv, RowsInv, IsLatest, Ahead, NoneAfter
<1> QED BY <1>3, <1>4 DEF PipeInv

(* The process dies.                                                       *)
LEMMA CrashStep == ASSUME PipeInv, Crash PROVE PipeInv'
<1>1. /\ UNCHANGED <<prices, clock, watermark, candles>>
      /\ faults' = [faults EXCEPT !.crash = @ + 1]
      /\ up' = FALSE /\ next' = 0 /\ ticks' = <<>> /\ lastSeq' = 0
      /\ current' = NoCandle /\ pc' = "take" /\ tick' = NoTick
      /\ result' = NoResult /\ actorSeq' = 0
    BY DEF Crash, rows
<1>2. NoResult \in Result /\ NoCandle \in MaybeCandle /\ QueueCap \in Nat
    BY PipelineConstants DEF NoResult, Result, MaybeCandle
<1>3. ticks' \in Seq(Tick) /\ Len(ticks') <= QueueCap
    BY <1>1, <1>2
<1>4. faults' \in [crash: Nat, disconnect: Nat, write: Nat]
    BY <1>1 DEF PipeInv, PipeTypeOK
<1>5. PipeTypeOK'
    BY <1>1, <1>2, <1>3, <1>4 DEF PipeInv, PipeTypeOK
<1>6. RowsInv'
    BY <1>1 DEF PipeInv, PipeTypeOK, RowsInv, IsLatest, NoneAfter
<1> QED BY <1>5, <1>6 DEF PipeInv

(* A process starts from the rows.                                         *)
LEMMA RestartStep == ASSUME PipeInv, Restart PROVE PipeInv'
<1>1. /\ UNCHANGED <<prices, clock, ticks, pc, tick, result, actorSeq, watermark,
                     candles, faults>>
      /\ up' = TRUE /\ ~up /\ next' \in 1 .. watermark + 1 /\ lastSeq' = watermark
      /\ current' = IF watermark = 0 THEN NoCandle ELSE LatestCandle
    BY DEF Restart, loop, rows
<1>2. current' \in MaybeCandle /\ Ahead(current')
    <2>1. LatestCandle \in MaybeCandle /\ IsLatest(LatestCandle)
        BY LatestIs
    <2>2. watermark = 0 => NoneAfter(0) /\ NoCandle.ts = 0
        BY DEF PipeInv, RowsInv, NoCandle
    <2> QED BY <1>1, <2>1, <2>2 DEF IsLatest, Ahead, Grown, MaybeCandle
<1>3. PipeTypeOK'
    <2>1. next' \in Nat
        BY <1>1 DEF PipeInv, PipeTypeOK
    <2> QED BY <1>1, <1>2, <2>1 DEF PipeInv, PipeTypeOK
<1>4. RowsInv'
    BY <1>1, <1>2 DEF PipeInv, RowsInv, IsLatest, Ahead, NoneAfter
<1> QED BY <1>3, <1>4 DEF PipeInv

(* Every step keeps the invariant.                                         *)
LEMMA PipeStep == PipeInv /\ [Next]_vars => PipeInv'
<1> SUFFICES ASSUME PipeInv, [Next]_vars PROVE PipeInv'
    OBVIOUS
<1>1. CASE UNCHANGED vars
    <2>1. UNCHANGED <<rows, up, memory, loop, actorSeq>>
        BY <1>1 DEF vars
    <2>2. PipeTypeOK'
        BY <1>1 DEF PipeInv, PipeTypeOK, vars, feed, memory, loop, rows
    <2> QED BY <2>1, <2>2, RowsStay DEF PipeInv
<1> QED BY <1>1, AdvanceStep, EmitStep, DisconnectStep, TakeStep, PersistStep,
           PersistFailsStep, DeliverStep, CrashStep, RestartStep DEF Next, Loop

(* Always.                                                                 *)
LEMMA AlwaysPipeInv == Spec => []PipeInv
BY PipeInit, PipeStep, PTL DEF Spec

-----------------------------------------------------------------------------
(* Types, whatever fails.                                                  *)
THEOREM PipeTypeCorrect == Spec => []PipeTypeOK
BY AlwaysPipeInv, PTL DEF PipeInv

(* The actor never trades on a tick that the rows do not have, whatever    *)
(* fails.                                                                  *)
THEOREM AlwaysDeliveredIsRecorded == Spec => []DeliveredIsRecorded
<1>1. PipeInv => DeliveredIsRecorded
    BY DEF PipeInv, RowsInv, DeliveredIsRecorded
<1> QED BY <1>1, AlwaysPipeInv, PTL

Grows ==
    \A b \in Minute : candles'[b] # candles[b] =>
         /\ \A later \in Minute : later > b => candles[later] = NoCandle
         /\ candles'[b].count > candles[b].count
         /\ candles[b] # NoCandle =>
               /\ candles'[b].open = candles[b].open
               /\ candles'[b].high >= candles[b].high
               /\ candles'[b].low <= candles[b].low

(* Bars only gain ticks and are final once a later one exists, however     *)
(* many writes are refused and wherever the process is killed.             *)
THEOREM BarsAlwaysGrow == Spec => BarsOnlyGrow
<1>1. ASSUME PipeInv, [Next]_vars PROVE Grows
    <2>1. CASE UNCHANGED candles
        BY <2>1 DEF Grows
    <2>2. CASE PersistTick /\ ~Recorded(tick.seq)
        <3>1. SUFFICES ASSUME NEW b \in Minute, candles'[b] # candles[b]
                       PROVE  NoneAfter(b) /\ Grown(candles[b], candles'[b])
            BY DEF Grows, NoneAfter, Grown
        <3>2. candles'[b] = IF b = result.current.ts THEN result.current
                            ELSE IF b = result.closed.ts THEN result.closed ELSE candles[b]
            BY <1>1, <2>2, <3>1, PersistIs
        <3>3. result.current # NoCandle => Ahead(result.current)
            BY <1>1, <2>2 DEF PipeInv, RowsInv, PersistTick, Handed, NoResult
        <3>4. result.closed # NoCandle => Ahead(result.closed)
            BY <1>1, <2>2 DEF PipeInv, RowsInv, PersistTick, Handed, NoResult
        <3>5. NoCandle.ts \notin Minute
            BY BarIs DEF MaybeCandle
        <3> QED BY <3>1, <3>2, <3>3, <3>4, <3>5 DEF Ahead
    <2>3. UNCHANGED candles \/ (PersistTick /\ ~Recorded(tick.seq))
        BY <1>1 DEF Next, Loop, Advance, Emit, Disconnect, Take, PersistTick, PersistFails,
                    Deliver, Crash, Restart, vars, rows
    <2> QED BY <2>1, <2>2, <2>3
<1>2. PipeInv /\ [Next]_vars => [Grows]_vars
    BY <1>1
<1> QED BY <1>2, AlwaysPipeInv, PTL DEF Spec, BarsOnlyGrow, Grows

-----------------------------------------------------------------------------
(* Postgres refuses nothing: the rows implement the book.                  *)

Consecutive ==
    \A n \in 1 .. Len(ticks) : /\ ticks[n].seq = ticks[1].seq + n - 1
                              /\ ticks[n].ltp = prices[ticks[n].seq]

(* No tick is missing between memory and the channel, nor between the      *)
(* channel and tickgen.                                                    *)
NoGap ==
    IF ticks = <<>> THEN next <= lastSeq + 1
    ELSE /\ ticks[1].seq <= lastSeq + 1
         /\ next # 0 => next = ticks[1].seq + Len(ticks)

(* The bar in memory is the one stored last with one more tick, or a new   *)
(* one beside which the last one is closed as it is stored.                *)
OneMore ==
    /\ tick.ltp = prices[tick.seq]
    /\ \/ /\ candles[current.ts] = NoCandle /\ current = Start(current.ts, tick.ltp)
          /\ result.closed # NoCandle => candles[result.closed.ts] = result.closed
       \/ /\ candles[current.ts] # NoCandle
          /\ current = Extend(candles[current.ts], tick.ltp)
          /\ result.closed = NoCandle

InStep ==
    IF pc = "persist" /\ ~result.dup
    THEN lastSeq = tick.seq /\ lastSeq = watermark + 1 /\ OneMore
    ELSE up => /\ lastSeq = watermark /\ IsLatest(current)
               /\ pc = "persist" => tick.seq <= watermark

StreamInv ==
    /\ Consecutive /\ NoGap /\ InStep
    /\ ~up => ticks = <<>> /\ next = 0
    /\ \A b \in Minute : candles[b].high >= candles[b].low

Inv == PipeInv /\ StreamInv

(* The initial state.                                                      *)
LEMMA StreamInit == Init => StreamInv
BY CandleConstants DEF Init, StreamInv, Consecutive, NoGap, InStep, IsLatest, NoneAfter,
                       NoCandle

(* What memory and the rows have in common survives a step of the feed.    *)
LEMMA InStepStays ==
    ASSUME StreamInv, UNCHANGED <<prices, rows, up, memory, loop>>
    PROVE  InStep' /\ \A b \in Minute : candles'[b].high >= candles'[b].low
<1>1. UNCHANGED <<prices, watermark, candles, up, lastSeq, current, pc, tick, result>>
    BY DEF rows, memory, loop
<1> QED BY <1>1 DEF StreamInv, InStep, OneMore, IsLatest, NoneAfter

(* The next tick of the stream enters the channel.                         *)
LEMMA EmitInStep == ASSUME Inv, Emit PROVE StreamInv'
<1>1. InStep' /\ \A b \in Minute : candles'[b].high >= candles'[b].low
    BY InStepStays DEF Inv, Emit
<1> DEFINE t == [seq |-> next, ltp |-> prices[next], ts |-> clock]
           len == Len(ticks)
<1>2. /\ ticks' = Append(ticks, t) /\ next' = next + 1 /\ prices' = prices
      /\ lastSeq' = lastSeq /\ up' = up /\ up /\ next # 0
    BY Positive DEF Emit, memory
<1>3. /\ ticks \in Seq(Tick) /\ t \in Tick /\ len \in Nat /\ next \in Nat /\ lastSeq \in Nat
    BY DEF Inv, PipeInv, PipeTypeOK, Emit, Tick
<1>4. /\ Len(ticks') = len + 1 /\ ticks'[len + 1] = t
      /\ \A n \in 1 .. len : ticks'[n] = ticks[n]
      /\ ticks' # <<>>
    BY <1>2, <1>3
<1>5. t.seq = next /\ t.ltp = prices[next]
    OBVIOUS
<1> HIDE DEF t
<1>6. CASE ticks = <<>>
    <2>1. len = 0 /\ next <= lastSeq + 1
        BY <1>6 DEF Inv, StreamInv, NoGap
    <2>2. ticks'[1] = t /\ Len(ticks') = 1
        BY <1>4, <2>1
    <2>3. Consecutive'
        BY <1>2, <1>3, <1>5, <2>2 DEF Consecutive
    <2>4. NoGap'
        <3>1. /\ ticks' # <<>> /\ Len(ticks') = 1 /\ ticks'[1].seq = next
              /\ next' = next + 1 /\ lastSeq' = lastSeq
            BY <1>2, <1>4, <1>5, <2>2
        <3> QED BY <2>1, <3>1 DEF NoGap
    <2> QED BY <1>1, <1>2, <2>3, <2>4 DEF StreamInv
<1>7. CASE ticks # <<>>
    <2>1. len > 0 /\ ticks[1].seq \in Nat
        <3>1. len > 0 /\ ticks[1] \in Tick
            BY <1>3, <1>7
        <3> QED BY <3>1, Positive DEF Tick
    <2>2. ticks[1].seq <= lastSeq + 1 /\ next = ticks[1].seq + len
        BY <1>2, <1>7 DEF Inv, StreamInv, NoGap
    <2>3. ticks'[1] = ticks[1]
        BY <1>3, <1>4, <2>1
    <2>4. Consecutive'
        <3>1. SUFFICES ASSUME NEW n \in 1 .. len + 1
                       PROVE  /\ ticks'[n].seq = ticks[1].seq + n - 1
                              /\ ticks'[n].ltp = prices[ticks'[n].seq]
            BY <1>2, <1>4, <2>3 DEF Consecutive
        <3>2. CASE n = len + 1
            BY <1>3, <1>4, <1>5, <2>1, <2>2, <3>2
        <3>3. CASE n # len + 1
            <4>1. n \in 1 .. len
                BY <1>3, <3>3
            <4> QED BY <1>4, <4>1 DEF Inv, StreamInv, Consecutive
        <3> QED BY <3>2, <3>3
    <2>5. NoGap'
        <3>1. /\ ticks' # <<>> /\ Len(ticks') = len + 1 /\ ticks'[1] = ticks[1]
              /\ next' = next + 1 /\ lastSeq' = lastSeq
            BY <1>2, <1>4, <2>3
        <3> HIDE DEF len
        <3>2. len \in Nat /\ ticks[1].seq \in Nat
            BY <1>3, <2>1
        <3>3. next + 1 = ticks[1].seq + (len + 1)
            BY <2>2, <3>2
        <3> QED BY <2>2, <3>1, <3>3 DEF NoGap
    <2> QED BY <1>1, <1>2, <2>4, <2>5 DEF StreamInv
<1> QED BY <1>6, <1>7

(* Without its head the channel is as gapless as before.                   *)
LEMMA TakeNoGap ==
    ASSUME Inv, Take
    PROVE  /\ Consecutive' /\ NoGap' /\ tick'.ltp = prices[tick'.seq]
           /\ tick'.seq \in Nat /\ tick'.seq <= lastSeq + 1
<1>1. /\ tick' = ticks[1] /\ tick' \in Tick /\ ticks' \in Seq(Tick)
      /\ Len(ticks') = Len(ticks) - 1
      /\ \A n \in 1 .. Len(ticks') : ticks'[n] = ticks[n + 1]
    BY HeadIsTick DEF Inv
<1>2. /\ ticks \in Seq(Tick) /\ ticks # <<>> /\ Len(ticks) \in Nat /\ Len(ticks) > 0
      /\ lastSeq \in Nat /\ next \in Nat
    BY DEF Inv, PipeInv, PipeTypeOK, Take
<1>3. tick'.seq \in Nat
    BY <1>1, Positive DEF Tick
<1>4. /\ tick'.ltp = prices[tick'.seq] /\ tick'.seq <= lastSeq + 1
      /\ next # 0 => next = tick'.seq + Len(ticks)
    BY <1>1, <1>2 DEF Inv, StreamInv, Consecutive, NoGap
<1>5. prices' = prices /\ next' = next
    BY DEF Take, feed
<1>6. lastSeq' \in Nat /\ lastSeq' >= tick'.seq
    <2>1. CASE Duplicate(tick')
        BY <1>2, <1>3, <2>1 DEF Take, ApplyResult, Duplicate, NoResult, memory
    <2>2. CASE ~Duplicate(tick')
        BY <1>3, <2>2, ApplyIs DEF Inv
    <2> QED BY <2>1, <2>2
<1>7. \A n \in 1 .. Len(ticks') : /\ ticks'[n].seq = tick'.seq + n
                                  /\ ticks'[n].ltp = prices[ticks'[n].seq]
    <2> SUFFICES ASSUME NEW n \in 1 .. Len(ticks')
                 PROVE  /\ ticks'[n].seq = tick'.seq + n
                        /\ ticks'[n].ltp = prices[ticks'[n].seq]
        OBVIOUS
    <2>1. n + 1 \in 1 .. Len(ticks) /\ ticks'[n] = ticks[n + 1]
        BY <1>1, <1>2
    <2>2. /\ ticks[n + 1].seq = ticks[1].seq + (n + 1) - 1
          /\ ticks[n + 1].ltp = prices[ticks[n + 1].seq]
        BY <2>1 DEF Inv, StreamInv, Consecutive
    <2> QED BY <1>1, <1>3, <2>1, <2>2
<1>8. CASE ticks' = <<>>
    <2>1. Len(ticks') = 0
        BY <1>8
    <2>2. Consecutive'
        BY <2>1 DEF Consecutive
    <2>3. Len(ticks) = 1
        BY <1>1, <1>2, <2>1
    <2>4. next <= lastSeq' + 1
        <3>1. next = 0 \/ next = tick'.seq + 1
            BY <1>4, <2>3
        <3> QED BY <1>3, <1>6, <3>1
    <2>5. NoGap'
        BY <1>5, <1>8, <2>4 DEF NoGap
    <2> QED BY <1>3, <1>4, <2>2, <2>5
<1>9. CASE ticks' # <<>>
    <2>1. Len(ticks') \in Nat /\ Len(ticks') > 0
        BY <1>1, <1>9
    <2>2. ticks'[1].seq = tick'.seq + 1
        BY <1>7, <2>1
    <2>3. Consecutive'
        <3>1. SUFFICES ASSUME NEW n \in 1 .. Len(ticks')
                       PROVE  /\ ticks'[n].seq = ticks'[1].seq + n - 1
                              /\ ticks'[n].ltp = prices[ticks'[n].seq]
            BY <1>5 DEF Consecutive
        <3> QED BY <1>3, <1>7, <2>1, <2>2, <3>1
    <2>4. ticks'[1].seq <= lastSeq' + 1
        BY <1>3, <1>6, <2>2
    <2>5. next # 0 => next = ticks'[1].seq + Len(ticks')
        BY <1>1, <1>2, <1>3, <1>4, <2>2
    <2>6. NoGap'
        BY <1>5, <1>9, <2>4, <2>5 DEF NoGap
    <2> QED BY <1>3, <1>4, <2>3, <2>6
<1> QED BY <1>8, <1>9

(* The loop takes a tick: a duplicate, or the next one of the stream.      *)
LEMMA TakeInStep == ASSUME Inv, Take PROVE StreamInv'
<1>1. /\ UNCHANGED <<prices, watermark, candles, up>> /\ up
      /\ pc = "take" /\ pc' = "persist"
    BY DEF Take, feed, rows
<1>2. /\ lastSeq = watermark /\ IsLatest(current) /\ watermark \in Nat
      /\ current \in MaybeCandle
    BY <1>1 DEF Inv, StreamInv, InStep, PipeInv, PipeTypeOK
<1>3. InStep'
    <2>1. CASE Duplicate(tick')
        <3>1. result'.dup /\ UNCHANGED <<lastSeq, current>>
            BY <2>1 DEF Take, ApplyResult, memory, NoResult
        <3> QED BY <1>1, <1>2, <2>1, <3>1 DEF InStep, Duplicate, IsLatest, NoneAfter
    <2>2. CASE ~Duplicate(tick')
        <3>1. /\ ~result'.dup /\ result'.closed = Closed(tick')
              /\ lastSeq' = tick'.seq /\ current' = Folded(tick')
            BY <2>2, ApplyIs DEF Inv
        <3>2. tick'.seq = watermark + 1 /\ tick'.ltp = prices[tick'.seq]
            BY <1>2, <2>2, TakeNoGap DEF Duplicate
        <3>3. tick'.ts \in Minute /\ tick'.ts \in Nat /\ tick'.ltp \in Price
            BY HeadIsTick, Positive DEF Inv, Tick
        <3>4. CASE StartsNewBar(tick')
            <4>1. current' = Start(tick'.ts, tick'.ltp) /\ result'.closed = current
                BY <3>1, <3>4 DEF Folded, Closed
            <4>2. current.ts \in Nat /\ current.ts < tick'.ts
                <5>1. tick'.ts # 0
                    BY <3>3, Positive
                <5> QED BY <1>2, <3>3, <3>4, <5>1, BarIs DEF StartsNewBar
            <4>3. candles[tick'.ts] = NoCandle
                BY <1>2, <3>3, <4>2 DEF IsLatest, NoneAfter
            <4>4. current'.ts = tick'.ts
                BY <3>3, <4>1, StartType
            <4>5. current # NoCandle => candles[current.ts] = current
                BY <1>2 DEF IsLatest
            <4>6. OneMore'
                BY <1>1, <3>2, <4>1, <4>3, <4>4, <4>5 DEF OneMore
            <4> QED BY <1>1, <3>1, <3>2, <4>6 DEF InStep
        <3>5. CASE ~StartsNewBar(tick')
            <4>1. current' = Extend(current, tick'.ltp) /\ result'.closed = NoCandle
                BY <3>1, <3>5 DEF Folded, Closed
            <4>2. current # NoCandle /\ candles[current.ts] = current /\ current \in Candle
                BY <1>2, <3>5, BarIs DEF StartsNewBar, IsLatest
            <4>3. current'.ts = current.ts
                BY <3>3, <4>1, <4>2, ExtendType
            <4>4. OneMore'
                BY <1>1, <3>2, <4>1, <4>2, <4>3 DEF OneMore
            <4> QED BY <1>1, <3>1, <3>2, <4>4 DEF InStep
        <3> QED BY <3>4, <3>5
    <2> QED BY <2>1, <2>2
<1> QED BY <1>1, <1>3, TakeNoGap DEF StreamInv, Inv

(* A write that succeeds is of the next tick of the stream.                *)
LEMMA PersistsNext ==
    ASSUME Inv, PersistTick, ~Recorded(tick.seq)
    PROVE  /\ ~result.dup /\ tick \in Tick /\ tick.seq = watermark + 1
           /\ lastSeq = tick.seq /\ OneMore /\ watermark \in Nat /\ tick.seq \in Nat
<1>1. pc = "persist" /\ up
    BY DEF PersistTick
<1>2. ~result.dup
    BY <1>1 DEF Inv, StreamInv, InStep, Recorded
<1>3. tick \in Tick /\ watermark \in Nat
    BY <1>1, <1>2 DEF Inv, PipeInv, PipeTypeOK, RowsInv, Handed
<1> QED BY <1>1, <1>2, <1>3, SeqIs DEF Inv, StreamInv, InStep

(* It leaves every other bar as it is.                                     *)
LEMMA OtherBarsStay ==
    ASSUME Inv, PersistTick, ~Recorded(tick.seq)
    PROVE  \A b \in Minute : b # current.ts => candles'[b] = candles[b]
<1>1. /\ OneMore /\ ~result.dup
    BY PersistsNext
<1> TAKE b \in Minute
<1> HAVE b # current.ts
<1>2. candles'[b] = IF b = result.closed.ts THEN result.closed ELSE candles[b]
    BY <1>1, NewLatest DEF Inv
<1>3. result.closed = NoCandle => result.closed.ts \notin Minute
    BY PersistIs, BarIs DEF Inv
<1> QED BY <1>1, <1>2, <1>3 DEF OneMore

(* Nothing else writes the rows.                                           *)
LEMMA RowsMoveByWrites ==
    ASSUME [Next]_vars, ~(PersistTick /\ ~Recorded(tick.seq))
    PROVE  UNCHANGED <<prices, rows>>
BY DEF Next, Loop, Advance, Emit, Disconnect, Take, PersistTick, PersistFails,
       Deliver, Crash, Restart, vars, rows, feed

(* The loop writes a tick.                                                 *)
LEMMA PersistInStep == ASSUME Inv, PersistTick PROVE StreamInv'
<1>1. /\ UNCHANGED <<prices, next, ticks, up, lastSeq, current, tick, result>>
      /\ pc = "persist" /\ pc' = "deliver" /\ up
    BY DEF PersistTick, feed, memory
<1>2. Consecutive' /\ NoGap'
    BY <1>1 DEF Inv, StreamInv, Consecutive, NoGap
<1>3. CASE Recorded(tick.seq)
    <2>1. UNCHANGED <<watermark, candles>>
        BY <1>3 DEF PersistTick, rows
    <2>2. result.dup
        <3>1. watermark \in Nat /\ (tick.seq = watermark + 1 => ~Recorded(tick.seq))
            BY DEF Inv, PipeInv, PipeTypeOK, Recorded
        <3> QED BY <1>1, <1>3, <3>1 DEF Inv, StreamInv, InStep
    <2> QED BY <1>1, <1>2, <2>1, <2>2 DEF Inv, StreamInv, InStep, IsLatest, NoneAfter
<1>4. CASE ~Recorded(tick.seq)
    <2>1. /\ ~result.dup /\ lastSeq = tick.seq /\ OneMore /\ watermark' = tick.seq
        BY <1>4, PersistsNext, PersistIs DEF Inv
    <2>2. IsLatest(current)'
        BY <1>1, <1>4, <2>1, NewLatest DEF Inv, IsLatest
    <2>3. current.high >= current.low
        <3>1. candles \in [Minute -> MaybeCandle] /\ tick.ltp \in Price /\ tick.ltp \in Nat
            BY <1>4, PersistsNext, Positive DEF Inv, PipeInv, PipeTypeOK, Tick
        <3>2. current.ts \in Minute
            BY <1>4, <2>1, NewLatest DEF Inv
        <3>3. CASE current = Start(current.ts, tick.ltp)
            BY <3>1, <3>3 DEF Start
        <3>4. CASE /\ candles[current.ts] # NoCandle
                   /\ current = Extend(candles[current.ts], tick.ltp)
            <4>1. /\ candles[current.ts] \in Candle
                  /\ candles[current.ts].high \in Nat /\ candles[current.ts].low \in Nat
                  /\ candles[current.ts].high >= candles[current.ts].low
                BY <3>1, <3>2, <3>4, BarIs DEF Inv, StreamInv
            <4> QED BY <3>1, <3>4, <4>1, ExtendType
        <3> QED BY <2>1, <3>3, <3>4 DEF OneMore
    <2>4. \A b \in Minute : candles'[b].high >= candles'[b].low
        <3>1. SUFFICES ASSUME NEW b \in Minute, b # current.ts
                       PROVE  candles'[b].high >= candles'[b].low
            BY <1>4, <2>1, <2>3, NewLatest DEF Inv
        <3>2. candles'[b] = candles[b]
            <4>1. candles'[b] = IF b = result.closed.ts THEN result.closed ELSE candles[b]
                BY <1>4, <2>1, <3>1, NewLatest DEF Inv
            <4>2. result.closed = NoCandle => result.closed.ts \notin Minute
                BY <1>4, PersistIs, BarIs DEF Inv
            <4> QED BY <2>1, <4>1, <4>2 DEF OneMore
        <3> QED BY <3>2 DEF Inv, StreamInv
    <2> QED BY <1>1, <1>2, <2>1, <2>2, <2>4 DEF Inv, StreamInv, InStep
<1> QED BY <1>3, <1>4

(* Every step keeps the stream without a gap.                              *)
LEMMA StreamStep ==
    ASSUME MaxFailedWrites = 0, Inv, [Next]_vars
    PROVE  StreamInv'
<1>1. CASE UNCHANGED <<feed, ticks, rows, up, memory, loop>>
    <2>1. UNCHANGED <<prices, next, ticks, up, lastSeq>>
        BY <1>1 DEF feed, memory
    <2> QED BY <1>1, <2>1, InStepStays DEF Inv, StreamInv, Consecutive, NoGap, feed
<1>2. CASE Advance
    <2>1. UNCHANGED <<prices, next, ticks, up, lastSeq>>
        BY <1>2 DEF Advance, memory
    <2> QED BY <1>2, <2>1, InStepStays DEF Advance, Inv, StreamInv, Consecutive, NoGap
<1>3. CASE Disconnect
    <2>1. UNCHANGED <<prices, ticks, up, lastSeq>> /\ next' = 0 /\ lastSeq \in Nat
        BY <1>3 DEF Disconnect, memory, Inv, PipeInv, PipeTypeOK
    <2> QED BY <1>3, <2>1, InStepStays DEF Disconnect, Inv, StreamInv, Consecutive, NoGap
<1>4. CASE Deliver
    <2>1. /\ UNCHANGED <<prices, next, ticks, up, lastSeq, current, watermark, candles>>
          /\ pc = "deliver" /\ pc' = "take"
        BY <1>4 DEF Deliver, feed, memory, rows
    <2> QED BY <2>1 DEF Inv, StreamInv, Consecutive, NoGap, InStep, IsLatest, NoneAfter
<1>5. CASE PersistFails
    BY <1>5 DEF PersistFails, Inv, PipeInv, PipeTypeOK
<1>6. CASE Crash
    <2>1. /\ up' = FALSE /\ next' = 0 /\ ticks' = <<>> /\ lastSeq' = 0
          /\ pc' = "take" /\ candles' = candles
        BY <1>6 DEF Crash, rows
    <2> QED BY <2>1 DEF Inv, StreamInv, Consecutive, NoGap, InStep
<1>7. CASE Restart
    <2>1. /\ UNCHANGED <<prices, ticks, pc, tick, result, watermark, candles>>
          /\ up' = TRUE /\ ~up /\ next' \in 1 .. watermark + 1 /\ lastSeq' = watermark
          /\ current' = IF watermark = 0 THEN NoCandle ELSE LatestCandle
        BY <1>7 DEF Restart, loop, rows
    <2>2. ticks = <<>> /\ pc = "take" /\ watermark \in Nat
        BY <2>1 DEF Inv, StreamInv, PipeInv, PipeTypeOK, RowsInv
    <2>3. IsLatest(current')
        <3>1. IsLatest(LatestCandle)
            BY LatestIs DEF Inv
        <3>2. watermark = 0 => NoneAfter(0) /\ NoCandle.ts = 0
            BY DEF Inv, PipeInv, RowsInv, NoCandle
        <3> QED BY <2>1, <3>1, <3>2 DEF IsLatest
    <2>4. NoGap' /\ Consecutive'
        BY <2>1, <2>2 DEF NoGap, Consecutive
    <2>5. InStep'
        BY <2>1, <2>2, <2>3 DEF InStep, IsLatest, NoneAfter
    <2> QED BY <2>1, <2>4, <2>5 DEF Inv, StreamInv
<1>8. CASE UNCHANGED vars
    BY <1>1, <1>8 DEF vars
<1> QED BY <1>2, <1>3, <1>4, <1>5, <1>6, <1>7, <1>8, EmitInStep, TakeInStep, PersistInStep
           DEF Next, Loop

-----------------------------------------------------------------------------
(* The largest and the smallest of the prices of a bar.                    *)
LEMMA MaxIs ==
    ASSUME NEW S \in SUBSET Nat, NEW m \in S, \A x \in S : m >= x
    PROVE  Book!Max(S) = m
<1>1. Book!Max(S) \in S /\ \A x \in S : Book!Max(S) >= x
    BY DEF Book!Max
<1>2. Book!Max(S) \in Nat /\ m \in Nat /\ m >= Book!Max(S) /\ Book!Max(S) >= m
    BY <1>1
<1> QED BY <1>2

(* The same from below.                                                    *)
LEMMA MinIs ==
    ASSUME NEW S \in SUBSET Nat, NEW m \in S, \A x \in S : m <= x
    PROVE  Book!Min(S) = m
<1>1. Book!Min(S) \in S /\ \A x \in S : Book!Min(S) <= x
    BY DEF Book!Min
<1>2. Book!Min(S) \in Nat /\ m \in Nat /\ m <= Book!Min(S) /\ Book!Min(S) <= m
    BY <1>1
<1> QED BY <1>2

(* One tick.                                                               *)
LEMMA OneTick ==
    ASSUME NEW n
    PROVE  Book!Cardinality({n}) = 1
BY FS_Singleton DEF Book!Cardinality, Cardinality

(* A bar with no more ticks is the bar.                                    *)
LEMMA WithNone == ASSUME NEW c, NEW b PROVE Book!With(c, b, {}) = c
BY DEF Book!With

(* The book starts a bar as the aggregator does.                           *)
LEMMA WithFirst ==
    ASSUME NEW b \in Minute, NEW n \in SeqNo, prices \in [SeqNo -> Price]
    PROVE  Book!With(NoCandle, b, {n}) = Start(b, prices[n])
<1> DEFINE p == prices[n]
<1>1. p \in Nat /\ n \in Nat
    BY Positive
<1>2. {prices[m] : m \in {n}} \cup {} = {p}
    OBVIOUS
<1>3. Book!Max({p}) = p /\ Book!Min({p}) = p /\ Book!Max({n}) = n /\ Book!Min({n}) = n
    BY <1>1, MaxIs, MinIs
<1>4. Book!Cardinality({n}) = 1
    BY OneTick
<1>5. NoCandle.count + 1 = 1 /\ Book!NoCandle = NoCandle
    BY DEF NoCandle, Book!NoCandle
<1> QED BY <1>2, <1>3, <1>4, <1>5 DEF Book!With, Start

(* The book extends a bar as the aggregator does.                          *)
LEMMA WithNext ==
    ASSUME NEW c \in Candle, c.high >= c.low, NEW n \in SeqNo,
           prices \in [SeqNo -> Price]
    PROVE  Book!With(c, c.ts, {n}) = Extend(c, prices[n])
<1> DEFINE p == prices[n]
           S == {prices[m] : m \in {n}} \cup {c.high, c.low}
<1>1. p \in Price /\ p \in Nat /\ n \in Nat
    BY Positive
<1>2. c.high \in Nat /\ c.low \in Nat /\ c # NoCandle /\ Book!NoCandle = NoCandle
    BY BarIs, Positive DEF MaybeCandle, Candle, NoCandle, Book!NoCandle
<1>3. S = {p, c.high, c.low}
    OBVIOUS
<1>4. Book!Max(S) = IF p > c.high THEN p ELSE c.high
    BY <1>1, <1>2, <1>3, MaxIs
<1>5. Book!Min(S) = IF p < c.low THEN p ELSE c.low
    BY <1>1, <1>2, <1>3, MinIs
<1>6. Book!Max({n}) = n /\ Book!Min({n}) = n
    BY <1>1, MaxIs, MinIs
<1>7. Book!Cardinality({n}) = 1
    BY OneTick
<1>8. Book!With(c, c.ts, {n}) =
          [ts |-> c.ts, open |-> c.open, high |-> Book!Max(S), low |-> Book!Min(S),
           close |-> p, count |-> c.count + 1]
    BY <1>2, <1>6, <1>7 DEF Book!With
<1> HIDE DEF S
<1>9. /\ Extend(c, p).ts = c.ts /\ Extend(c, p).open = c.open
      /\ Extend(c, p).high = Book!Max(S) /\ Extend(c, p).low = Book!Min(S)
      /\ Extend(c, p).close = p /\ Extend(c, p).count = c.count + 1
      /\ Extend(c, p) \in Candle
    BY <1>1, <1>4, <1>5, ExtendType
<1>10. \A r \in Candle : r = [ts |-> r.ts, open |-> r.open, high |-> r.high, low |-> r.low,
                              close |-> r.close, count |-> r.count]
    BY DEF Candle
<1> QED BY <1>8, <1>9, <1>10

(* The initial rows are an empty book.                                     *)
LEMMA BookInit == Init => Book!Init
BY DEF Init, Book!Init, NoCandle, Book!NoCandle

(* A write is a step of the book: the next tick, in the bar in memory.     *)
LEMMA PersistIsStep ==
    ASSUME Inv, PersistTick, ~Recorded(tick.seq)
    PROVE  Book!Next
<1> DEFINE n == tick.seq
           at == [m \in {n} |-> current.ts]
<1>1. /\ n = watermark + 1 /\ OneMore /\ ~result.dup /\ n \in Nat /\ watermark \in Nat
      /\ n \in SeqNo /\ watermark' = n
    BY PersistsNext, PersistIs DEF Inv, Tick
<1>2. watermark + 1 .. n = {n}
    BY <1>1
<1>3. /\ prices \in [SeqNo -> Price] /\ UNCHANGED prices
      /\ candles \in [Minute -> MaybeCandle] /\ candles' \in [Minute -> MaybeCandle]
      /\ current.ts \in Minute /\ current.ts \in Nat
    BY <1>1, PersistIs, NewLatest, Positive DEF Inv, PipeInv, PipeTypeOK, PersistTick, feed
<1>4. candles'[current.ts] = Book!With(candles[current.ts], current.ts, {n})
    <2>1. candles'[current.ts] = current
        BY <1>1, NewLatest DEF Inv
    <2>2. CASE /\ candles[current.ts] = NoCandle
               /\ current = Start(current.ts, tick.ltp)
        BY <1>1, <1>3, <2>1, <2>2, WithFirst DEF OneMore
    <2>3. CASE /\ candles[current.ts] # NoCandle
               /\ current = Extend(candles[current.ts], tick.ltp)
        <3>1. /\ candles[current.ts] \in Candle /\ candles[current.ts].ts = current.ts
              /\ candles[current.ts].high >= candles[current.ts].low
            BY <1>3, <2>3, BarIs DEF Inv, StreamInv, PipeInv, RowsInv
        <3>2. Book!With(candles[current.ts], current.ts, {n})
                  = Extend(candles[current.ts], prices[n])
            BY <1>1, <1>3, <3>1, WithNext
        <3> QED BY <1>1, <2>1, <2>3, <3>2 DEF OneMore
    <2> QED BY <1>1, <2>2, <2>3 DEF OneMore
<1>5. \A b \in Minute : b # current.ts => candles'[b] = candles[b]
    BY OtherBarsStay
<1>6. \A b \in Minute : candles[b] # NoCandle => current.ts >= b
    <2>1. NoneAfter(current.ts) /\ Minute \subseteq Nat
        BY <1>1, NewLatest, Positive DEF Inv
    <2> QED BY <1>3, <2>1 DEF NoneAfter
<1>7. candles' = [b \in Minute |-> Book!With(candles[b], b, {m \in {n} : at[m] = b})]
    <2>1. ASSUME NEW b \in Minute
          PROVE  candles'[b] = Book!With(candles[b], b, {m \in {n} : at[m] = b})
        <3>1. CASE b = current.ts
            <4>1. {m \in {n} : at[m] = b} = {n}
                BY <3>1
            <4> QED BY <1>4, <3>1, <4>1
        <3>2. CASE b # current.ts
            <4>1. {m \in {n} : at[m] = b} = {}
                BY <3>2
            <4> QED BY <1>5, <3>2, <4>1, WithNone
        <3> QED BY <3>1, <3>2
    <2> QED BY <1>3, <2>1
<1>8. Book!ApplyTicks({n}, at)
    <2>1. \A m, k \in {n} : m <= k => at[m] <= at[k]
        BY <1>3
    <2>2. \A b \in Minute : candles[b] # Book!NoCandle => \A m \in {n} : at[m] >= b
        BY <1>6 DEF NoCandle, Book!NoCandle
    <2>3. watermark' = watermark + Book!Cardinality({n})
        BY <1>1, OneTick
    <2> QED BY <1>3, <1>7, <2>1, <2>2, <2>3 DEF Book!ApplyTicks
<1>9. at \in [{n} -> Minute]
    BY <1>3
<1> HIDE DEF n, at
<1> QED BY <1>1, <1>2, <1>8, <1>9 DEF Book!Next

(* If Postgres refuses no write, the rows behave as the book, through any  *)
(* number of kills, lost connections and replays: every tick enters the    *)
(* bars once and in order (ApplyTick, candle_store.go).                    *)
THEOREM RowsImplementBook ==
    ASSUME MaxFailedWrites = 0
    PROVE  Spec => BarsAreExact
<1>1. Init => Inv /\ Book!Init
    BY PipeInit, StreamInit, BookInit DEF Inv
<1>2. Inv /\ [Next]_vars => Inv'
    BY PipeStep, StreamStep DEF Inv
<1>3. Inv /\ [Next]_vars => [Book!Next]_(Book!bookVars)
    <2> SUFFICES ASSUME Inv, [Next]_vars
                 PROVE  Book!Next \/ UNCHANGED <<prices, watermark, candles>>
        BY DEF Book!bookVars
    <2>1. CASE PersistTick /\ ~Recorded(tick.seq)
        BY <2>1, PersistIsStep
    <2>2. CASE ~(PersistTick /\ ~Recorded(tick.seq))
        BY <2>2, RowsMoveByWrites DEF rows
    <2> QED BY <2>1, <2>2
<1> QED BY <1>1, <1>2, <1>3, PTL DEF Spec, BarsAreExact, Book!Spec

-----------------------------------------------------------------------------
(* The bars are finitely many, and their ticks as many as the watermark.   *)
CountInv == IsFiniteSet(Bars) /\ AllCounted

(* A write changes one bar, by one tick.                                   *)
LEMMA PersistCounts ==
    ASSUME Inv, CountInv, PersistTick, ~Recorded(tick.seq)
    PROVE  CountInv'
<1> DEFINE f == [b \in Minute |-> candles[b].count]
           h == [b \in Minute |-> candles'[b].count]
           m == current.ts
<1>1. /\ watermark' = watermark + 1 /\ watermark \in Nat /\ OneMore /\ ~result.dup
      /\ tick \in Tick
    BY PersistsNext, PersistIs DEF Inv
<1>2. /\ candles \in [Minute -> MaybeCandle] /\ candles' \in [Minute -> MaybeCandle]
      /\ m \in Minute /\ candles'[m] = current
    BY <1>1, PersistIs, NewLatest DEF Inv, PipeInv, PipeTypeOK
<1>3. \A b \in Minute : f[b] \in Int /\ h[b] \in Int
    BY <1>2 DEF MaybeCandle, Candle, NoCandle
<1>4. \A b \in Minute : b # m => candles'[b] = candles[b]
    BY OtherBarsStay
<1>5. \A b \in Bars : b # m => f[b] = h[b]
    BY <1>4 DEF Bars
<1>6. IsFiniteSet(Bars) /\ SumFunctionOnSet(f, Bars) = watermark
    BY DEF CountInv, AllCounted, TickCount
<1>7. TickCount' = SumFunctionOnSet(h, Bars')
    BY DEF TickCount
<1>8. current # NoCandle
    BY <1>1, NewLatest, BarIs DEF Inv, MaybeCandle
<1>9. Bars' = Bars \cup {m} /\ Bars \subseteq Minute
    BY <1>2, <1>4, <1>8 DEF Bars
<1>10. CASE candles[m] = NoCandle /\ current = Start(m, tick.ltp)
    <2>1. m \notin Bars /\ h[m] = 1
        BY <1>2, <1>10 DEF Bars, Start
    <2>2. \A b \in Bars : f[b] = h[b]
        BY <1>5, <2>1
    <2> HIDE DEF f, h, m
    <2>3. SumFunctionOnSet(h, Bars) = watermark
        BY <1>6, <2>2, SumAgree
    <2>4. \A b \in Bars \cup {m} : h[b] \in Int
        BY <1>2, <1>3, <1>9
    <2>5. SumFunctionOnSet(h, Bars \cup {m}) = SumFunctionOnSet(h, Bars) + h[m]
        BY <1>6, <2>1, <2>4, SumWith
    <2>6. IsFiniteSet(Bars \cup {m})
        BY <1>6, FS_AddElement
    <2> QED BY <1>1, <1>7, <1>9, <2>1, <2>3, <2>5, <2>6 DEF CountInv, AllCounted
<1>11. CASE candles[m] # NoCandle /\ current = Extend(candles[m], tick.ltp)
    <2>1. m \in Bars
        BY <1>2, <1>11 DEF Bars
    <2>2. h[m] = f[m] + 1
        <3>1. candles[m] \in Candle
            BY <1>2, <1>11 DEF MaybeCandle
        <3> QED BY <1>2, <1>11, <3>1 DEF Extend, Candle
    <2>3. f[m] \in Int /\ h[m] \in Int
        BY <1>2, <1>3
    <2> HIDE DEF f, h, m
    <2>4. \A b \in Bars : f[b] \in Int /\ h[b] \in Int
        BY <1>3, <1>9
    <2>5. \A b \in Bars \ {m} : f[b] = h[b]
        BY <1>5
    <2>6. SumFunctionOnSet(h, Bars) = SumFunctionOnSet(f, Bars) + h[m] - f[m]
        BY <1>6, <2>1, <2>4, <2>5, SumReplaced
    <2>7. Bars' = Bars
        BY <1>9, <2>1
    <2> QED BY <1>1, <1>6, <1>7, <2>2, <2>3, <2>6, <2>7 DEF CountInv, AllCounted
<1> QED BY <1>1, <1>10, <1>11 DEF OneMore

(* If Postgres refuses no write, the watermark is the number of ticks in   *)
(* the bars, through any number of kills, lost connections and replays     *)
(* (0001_init.sql).                                                        *)
THEOREM EveryTickCounted ==
    ASSUME MaxFailedWrites = 0
    PROVE  Spec => []AllCounted
<1>1. Init => Inv /\ CountInv
    <2>1. Init => Bars = {} /\ watermark = 0
        BY DEF Init, Bars
    <2>2. Init => CountInv
        BY <2>1, FS_EmptySet, SumEmpty DEF CountInv, AllCounted, TickCount
    <2> QED BY <2>2, PipeInit, StreamInit DEF Inv
<1>2. Inv /\ [Next]_vars => Inv'
    BY PipeStep, StreamStep DEF Inv
<1>3. Inv /\ CountInv /\ [Next]_vars => CountInv'
    <2> SUFFICES ASSUME Inv, CountInv, [Next]_vars PROVE CountInv'
        OBVIOUS
    <2>1. CASE PersistTick /\ ~Recorded(tick.seq)
        BY <2>1, PersistCounts
    <2>2. CASE ~(PersistTick /\ ~Recorded(tick.seq))
        <3>1. UNCHANGED rows
            BY <2>2, RowsMoveByWrites
        <3> QED BY <3>1 DEF rows, CountInv, AllCounted, TickCount, Bars
    <2> QED BY <2>1, <2>2
<1>4. CountInv => AllCounted
    BY DEF CountInv
<1> QED BY <1>1, <1>2, <1>3, <1>4, PTL DEF Spec
=============================================================================
