--------------------------- MODULE CandlePipeline ---------------------------
(***************************************************************************)
(* The tick path of one instrument over any number of process lifetimes:   *)
(* tickgen's replayable stream, the feed consumer, the tick loop of        *)
(* cmd/server, the in-memory aggregator and the rows that                  *)
(* storage.ApplyTick writes.                                               *)
(*                                                                         *)
(* tickgen regenerates the same prices for the same sequence numbers, but  *)
(* stamps a tick with the time at which it sends it.  The loop handles one *)
(* tick at a time in three steps between which the process can die: fold   *)
(* it in memory, write it, hand its price to the actor.  A graceful        *)
(* shutdown cancels the context of that loop: its writes then fail and it  *)
(* ends, which for the rows is a Crash.                                    *)
(***************************************************************************)
EXTENDS Candles, Sequences

CONSTANTS
    QueueCap,           \* capacity of the tick channel
    MaxCrashes,         \* bound on deaths of the process
    MaxDisconnects,     \* bound on lost connections
    MaxFailedWrites     \* bound on transactions Postgres refuses

ASSUME PipelineConstants ==
    /\ 1 \in Minute /\ QueueCap \in Nat \ {0} /\ MaxCrashes \in Nat
    /\ MaxDisconnects \in Nat /\ MaxFailedWrites \in Nat

VARIABLES
    prices,     \* the stream: the price of each sequence number
    clock,      \* the current minute
    next,       \* what tickgen sends next on this connection, 0 if it is lost
    ticks,      \* the tick channel
    up,         \* is the process running
    lastSeq,    \* instrumentState.lastSeq, 0 if not hasSeen
    current,    \* instrumentState.current, NoCandle if not hasOpen
    pc,         \* the loop is about to "take", "persist" or "deliver"
    tick,       \* the tick in the loop's hands
    result,     \* the ApplyResult for it
    actorSeq,   \* sequence number of the price the actor has, 0 if none
    watermark,  \* row of instrument_seq_watermark, 0 if there is none
    candles,    \* table candles
    faults      \* how many faults of each kind have happened

feed    == <<prices, clock, next>>
memory  == <<lastSeq, current>>
loop    == <<pc, tick, result>>
rows    == <<watermark, candles>>
vars    == <<feed, ticks, up, memory, loop, actorSeq, rows, faults>>

Tick     == [seq: SeqNo, ltp: Price, ts: Minute]
NoTick   == [seq |-> 0, ltp |-> 0, ts |-> 0]
Result   == [dup: BOOLEAN, current: MaybeCandle, closed: MaybeCandle]
NoResult == [dup |-> TRUE, current |-> NoCandle, closed |-> NoCandle]

PipeTypeOK ==
    /\ prices \in [SeqNo -> Price] /\ clock \in Minute
    /\ next \in Nat /\ up \in BOOLEAN
    /\ ticks \in Seq(Tick) /\ Len(ticks) <= QueueCap
    /\ lastSeq \in Nat /\ current \in MaybeCandle
    /\ pc \in {"take", "persist", "deliver"}
    /\ tick \in Tick \cup {NoTick} /\ result \in Result
    /\ actorSeq \in Nat /\ watermark \in Nat
    /\ candles \in [Minute -> MaybeCandle]
    /\ faults \in [crash: Nat, disconnect: Nat, write: Nat]

(* A new database, a process that has read it, and tickgen at its start.   *)
Init ==
    /\ prices \in [SeqNo -> Price]
    /\ clock = 1 /\ next = 1
    /\ ticks = <<>> /\ up = TRUE
    /\ lastSeq = 0 /\ current = NoCandle
    /\ pc = "take" /\ tick = NoTick /\ result = NoResult
    /\ actorSeq = 0 /\ watermark = 0
    /\ candles = [b \in Minute |-> NoCandle]
    /\ faults = [crash |-> 0, disconnect |-> 0, write |-> 0]

-----------------------------------------------------------------------------
(* tickgen, the connection and the consumer.                               *)

Advance ==
    /\ clock + 1 \in Minute
    /\ clock' = clock + 1
    /\ UNCHANGED <<prices, next, ticks, up, memory, loop, actorSeq, rows, faults>>

(* Slip: one tick more than the channel holds.                             *)
RoomForOneMore == Len(ticks) <= QueueCap

Room == Len(ticks) < QueueCap

(* The consumer blocks on a full channel, and the connection behind it.    *)
Emit ==
    /\ up /\ next \in SeqNo /\ Room
    /\ ticks' = Append(ticks, [seq |-> next, ltp |-> prices[next], ts |-> clock])
    /\ next' = next + 1
    /\ UNCHANGED <<prices, clock, up, memory, loop, actorSeq, rows, faults>>

(* Consumer.Run returns, and nobody calls it again.                        *)
Disconnect ==
    /\ up /\ next # 0 /\ faults.disconnect < MaxDisconnects
    /\ next' = 0
    /\ faults' = [faults EXCEPT !.disconnect = @ + 1]
    /\ UNCHANGED <<prices, clock, ticks, up, memory, loop, actorSeq, rows>>

-----------------------------------------------------------------------------
(* Aggregator.Apply.                                                       *)

(* Slip: off by one.                                                       *)
DuplicateOnlyIfOlder(t) == t.seq < lastSeq

Duplicate(t) == t.seq <= lastSeq

(* Slip: every tick starts a bar.                                          *)
StartsAlways(t) == t.ts >= current.ts

StartsNewBar(t) == current = NoCandle \/ t.ts > current.ts

Folded(t) == IF StartsNewBar(t) THEN Start(t.ts, t.ltp) ELSE Extend(current, t.ltp)
Closed(t) == IF StartsNewBar(t) THEN current ELSE NoCandle

ApplyResult(t) ==
    IF Duplicate(t) THEN NoResult
    ELSE [dup |-> FALSE, current |-> Folded(t), closed |-> Closed(t)]

Take ==
    /\ up /\ pc = "take" /\ ticks # <<>>
    /\ tick' = Head(ticks) /\ ticks' = Tail(ticks)
    /\ result' = ApplyResult(tick')
    /\ IF result'.dup THEN UNCHANGED memory
                      ELSE lastSeq' = tick'.seq /\ current' = result'.current
    /\ pc' = "persist"
    /\ UNCHANGED <<feed, up, actorSeq, rows, faults>>

-----------------------------------------------------------------------------
(* storage.ApplyTick.                                                      *)

(* INSERT ... ON CONFLICT DO UPDATE: an existing row keeps its open.       *)
UpsertCandle(t, c) ==
    [b \in Minute |-> IF b # c.ts THEN t[b]
                      ELSE IF t[b] = NoCandle THEN c
                      ELSE [c EXCEPT !.open = t[b].open]]

(* Slip: the comparison is turned round.                                   *)
RecordedIfAbove(seq) == seq >= watermark

Recorded(seq) == seq <= watermark

(* The zero candle, for which Closed is nil, belongs to no minute.         *)
PersistTick ==
    /\ up /\ pc = "persist"
    /\ IF Recorded(tick.seq)
       THEN UNCHANGED rows
       ELSE /\ candles' = UpsertCandle(UpsertCandle(candles, result.closed), result.current)
            /\ watermark' = tick.seq
    /\ pc' = "deliver"
    /\ UNCHANGED <<feed, ticks, up, memory, tick, result, actorSeq, faults>>

(* Slip: no continue in the error branch.                                  *)
DeliverAnyway == "deliver"

AfterError == "take"

(* The rows are as before; what Apply did to memory stays.                 *)
PersistFails ==
    /\ up /\ pc = "persist" /\ faults.write < MaxFailedWrites
    /\ faults' = [faults EXCEPT !.write = @ + 1]
    /\ pc' = AfterError
    /\ UNCHANGED <<feed, ticks, up, memory, tick, result, actorSeq, rows>>

(* Duplicates are delivered too.                                           *)
Deliver ==
    /\ up /\ pc = "deliver"
    /\ actorSeq' = tick.seq
    /\ pc' = "take"
    /\ UNCHANGED <<feed, ticks, up, memory, tick, result, rows, faults>>

-----------------------------------------------------------------------------
(* The life of the process.                                                *)

Crash ==
    /\ up /\ faults.crash < MaxCrashes
    /\ faults' = [faults EXCEPT !.crash = @ + 1]
    /\ up' = FALSE
    /\ next' = 0 /\ ticks' = <<>>
    /\ lastSeq' = 0 /\ current' = NoCandle
    /\ pc' = "take" /\ tick' = NoTick /\ result' = NoResult
    /\ actorSeq' = 0
    /\ UNCHANGED <<prices, clock, rows>>

(* Slip: seeds the watermark and not the bar.                              *)
SeedNothing == NoCandle

(* The row AllLatestCandles reads, which the aggregator is seeded with.    *)
LatestCandle ==
    LET stored == {b \in Minute : candles[b] # NoCandle}
    IN  IF stored = {} THEN NoCandle ELSE candles[Max(stored)]

(* The new connection replays from anywhere up to where the rows end.      *)
Restart ==
    /\ ~up
    /\ up' = TRUE
    /\ next' \in 1 .. watermark + 1
    /\ lastSeq' = watermark
    /\ current' = IF watermark = 0 THEN NoCandle ELSE LatestCandle
    /\ UNCHANGED <<prices, clock, ticks, loop, actorSeq, rows, faults>>

-----------------------------------------------------------------------------
Loop == Take \/ PersistTick \/ PersistFails \/ Deliver

Next == Advance \/ Emit \/ Disconnect \/ Loop \/ Crash \/ Restart

Spec == Init /\ [][Next]_vars

(* tickgen keeps sending and the loop's goroutine keeps running.  Nothing  *)
(* obliges an operator to restart the process.                             *)
FairSpec == Spec /\ WF_vars(Emit) /\ WF_vars(Loop)
-----------------------------------------------------------------------------
Book == INSTANCE CandleBook WITH
            prices    <- prices,
            watermark <- watermark,
            candles   <- candles

(* Kills, lost connections, replays and a refused transaction never        *)
(* distort the bars: every behaviour of the rows is one of the book        *)
(* (ApplyTick, candle_store.go).                                           *)
BarsAreExact == Book!Spec

Bars == {b \in Minute : candles[b] # NoCandle}

TickCount == SumFunctionOnSet([b \in Minute |-> candles[b].count], Bars)

(* The watermark tells what is in the bars: every tick up to it, and none  *)
(* twice (0001_init.sql).                                                  *)
AllCounted == TickCount = watermark

(* A bar only ever gains ticks, within the range it had, and is final once *)
(* a later one exists.                                                     *)
BarsOnlyGrow ==
    [][\A b \in Minute : candles'[b] # candles[b] =>
         /\ \A later \in Minute : later > b => candles[later] = NoCandle
         /\ candles'[b].count > candles[b].count
         /\ candles[b] # NoCandle =>
               /\ candles'[b].open = candles[b].open
               /\ candles'[b].high >= candles[b].high
               /\ candles'[b].low <= candles[b].low]_vars

(* The actor never trades on a tick that the rows do not have: a fill is   *)
(* never at a price that a restart would have to see again for the first   *)
(* time.                                                                   *)
DeliveredIsRecorded == actorSeq <= watermark

(* If the process stays up and connected and Postgres refuses nothing, the *)
(* whole stream ends up in the bars.                                       *)
StreamIsConsumed ==
    <>[](up /\ next # 0) => <>(faults.write # 0 \/ \A n \in SeqNo : n <= watermark)
=============================================================================
