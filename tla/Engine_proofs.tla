---------------------------- MODULE Engine_proofs ----------------------------
(***************************************************************************)
(* What the server promises to its callers, for every set of instruments   *)
(* and calls, every stream of ticks and any number of kills, shutdowns,    *)
(* restarts and refused writes: what they are told (EngineInv), the types  *)
(* and the inboxes' capacity (Numbers), and, as long as no write is        *)
(* refused, what the positions are worth (MoneyInv).                       *)
(***************************************************************************)
EXTENDS Engine, Ledger_proofs, Sums_proofs, TLAPS

OrderStatus == {"none", "resting", "filled", "cancelled"}

(* One instrument's orders, with some position.                            *)
IsBook(s) == /\ s = [orders |-> s.orders, pos |-> s.pos]
             /\ s.orders \in [OrderId -> OrderStatus]

AreBooks(f) == f = [t \in Token |-> f[t]] /\ \A t \in Token : IsBook(f[t])

Shape ==
    /\ phase \in {"running", "stopping", "down"}
    /\ actors \in [Token -> {"none", "running", "stopped"}]
    /\ inbox \in [Token -> Seq(Message)]
    /\ AreBooks(mem) /\ AreBooks(rows) /\ AreBooks(seeds)
    /\ orderIx \in [OrderId -> Token \cup {NoToken}]
    /\ ask = [c \in OrderId |-> ask[c]]
    /\ \A c \in OrderId : ask[c] \in Asks[c] \cup {NoAsk}
    /\ pc \in [OrderId -> {"new", "sending", "waiting", "indexing", "done"}]
    /\ reply = [c \in OrderId |-> reply[c]] /\ answer = [c \in OrderId |-> answer[c]]
    /\ known \in [OrderId -> SUBSET OrderId]
    /\ loop \in Seq([token: Token, seq: Nat])
    /\ refused \in Nat

(* Every order in a book was placed there by its call.                     *)
Owned(f) == \A t \in Token, i \in OrderId :
                f[t].orders[i] # "none" => ask[i].kind = "place" /\ ask[i].token = t

(* What an actor holds, what it will be seeded with and what the rows say. *)
Agrees(t) ==
    /\ phase = "running" => actors[t] # "stopped"
    /\ phase = "down" => actors[t] = "none" /\ inbox[t] = <<>> /\ mem[t] = NothingYet
    /\ phase # "down" /\ actors[t] = "none" => seeds[t] = rows[t]
    /\ actors[t] # "none" =>
          \A i \in OrderId :
             /\ rows[t].orders[i] # "none" => mem[t].orders[i] # "none"
             /\ rows[t].orders[i] \in Terminal => mem[t].orders[i] = rows[t].orders[i]

(* A message is in the inbox of the instrument it is about, and its caller *)
(* has no answer of another one.                                           *)
Addressed(c, t) ==
    /\ pc[c] # "new"
    /\ reply[c] = NoAnswer => answer[c].outcome \notin {"filled", "resting"}
    /\ ask[c].kind = "cancel" => /\ ask[ask[c].order].kind = "place"
                                 /\ ask[ask[c].order].token = t
    /\ ask[c].kind = "get" => ask[c].token = t

Waits(c, t) == \E n \in 1 .. Len(inbox[t]) : inbox[t][n].call = c

Mail == \A t \in Token, c \in OrderId : Waits(c, t) => Addressed(c, t)

(* Placements answered that the actor or the rows know.                    *)
Heard ==
    {i \in OrderId :
        /\ pc[i] = "done" /\ answer[i].outcome \in {"filled", "resting"}
        /\ \E t \in Token : rows[t].orders[i] # "none" \/ mem[t].orders[i] # "none"}

(* The index knows them, and where they are.                               *)
Indexed(i) ==
    /\ orderIx[i] # NoToken => ask[i].kind = "place" /\ ask[i].token = orderIx[i]
    /\ phase # "down" /\ i \in Heard => orderIx[i] # NoToken

ShownIn(c, a) == {i \in known[c] : ask[c].token \in PlacedAs(i)} \subseteq a.shows

(* A response, on its way or given, is true.                               *)
Truthful(c, a) ==
    /\ a.outcome \in {"filled", "resting"} => ask[c].kind = "place"
    /\ ask[c].kind = "cancel" /\ a.outcome = "not_found" => ask[c].order \notin known[c]
    /\ a.outcome = "position" => ask[c].kind = "get" /\ ShownIn(c, a)

Progress(c) ==
    /\ pc[c] = "new" => ask[c] = NoAsk /\ reply[c] = NoAnswer /\ answer[c] = NoAnswer
    /\ pc[c] # "new" => ask[c] # NoAsk
    /\ pc[c] = "sending" => answer[c] = NoAnswer
    /\ pc[c] = "sending" /\ ask[c].kind = "cancel" => orderIx[ask[c].order] # NoToken
    /\ pc[c] = "indexing" => ask[c].kind = "place"
    /\ phase = "down" => pc[c] \in {"new", "done"}
    /\ known[c] \subseteq Told
    /\ Truthful(c, reply[c]) /\ Truthful(c, answer[c])

EngineInv ==
    /\ Shape
    /\ Owned(mem) /\ Owned(rows) /\ Owned(seeds)
    /\ \A t \in Token : Agrees(t)
    /\ Mail
    /\ phase = "down" => loop = <<>>
    /\ \A i \in OrderId : Indexed(i) /\ Progress(i)

-----------------------------------------------------------------------------
(* What a request is about is an order or an instrument.                   *)
LEMMA AskIs ==
    ASSUME NEW c \in OrderId, NEW a \in Asks[c] \cup {NoAsk}
    PROVE  /\ a.kind \in {"none", "place", "cancel", "get"}
           /\ a.kind = "none" => a = NoAsk
           /\ a.kind = "cancel" => a.order \in OrderId
           /\ a.kind = "get" => a.token \in Token
           /\ a.kind = "place" => a.token \in Token /\ a.body \in Order
BY EngineAssumption DEF NoAsk, Cancel, Get

(* Finding an actor creates at most one, which starts from its seed.       *)
LEMMA ActorEffect ==
    ASSUME EngineInv, NEW t \in Token, Actor(t), phase # "down"
    PROVE  /\ actors' \in [Token -> {"none", "running", "stopped"}]
           /\ AreBooks(mem')
           /\ \A u \in Token :
                 \/ actors'[u] = actors[u] /\ mem'[u] = mem[u]
                 \/ /\ u = t /\ actors[u] = "none" /\ actors'[u] = "running"
                    /\ mem'[u] = rows[u]
           /\ actors'[t] # "none"
<1>1. CASE actors[t] = "none"
    <2>1. /\ actors' = [actors EXCEPT ![t] = "running"]
          /\ mem' = [mem EXCEPT ![t] = seeds[t]]
        BY <1>1 DEF Actor, FirstSeen, Restore
    <2>2. seeds[t] = rows[t]
        BY <1>1 DEF EngineInv, Agrees
    <2>3. AreBooks(mem) /\ IsBook(seeds[t])
        BY DEF EngineInv, Shape, AreBooks
    <2>4. AreBooks(mem')
        BY <2>1, <2>3 DEF AreBooks
    <2> QED BY <1>1, <2>1, <2>2, <2>3, <2>4 DEF EngineInv, Shape, AreBooks
<1>2. CASE actors[t] # "none"
    BY <1>2 DEF Actor, FirstSeen, EngineInv, Shape
<1> QED BY <1>1, <1>2

-----------------------------------------------------------------------------
(* What one message may do to the orders of its instrument.                *)
Moves(t) ==
    /\ mem' = [mem EXCEPT ![t] = mem'[t]] /\ IsBook(mem'[t])
    /\ \A i \in OrderId : mem[t].orders[i] # "none" => mem'[t].orders[i] # "none"
    /\ \A i \in OrderId :
          mem[t].orders[i] = "none" /\ mem'[t].orders[i] # "none"
              => /\ ask[i].kind = "place" /\ ask[i].token = t
                 /\ reply[i] = NoAnswer /\ reply'[i] # NoAnswer
    /\ \A i \in OrderId : mem[t].orders[i] \in Terminal => i \notin Changed(t)

(* The position that is stored when some of the changes are written, and   *)
(* what the write does.                                                    *)
Stored(t, fills, price, written) ==
    LET filled == {n \in DOMAIN fills : fills[n] \in written}
    IN  IF filled = {} THEN rows[t].pos
        ELSE PosAfter(mem[t].pos, SubSeq(fills, 1, Max(filled)), price)

Written(t, fills, price, written) ==
    /\ phase # "running" => written = {}
    /\ refused' = IF phase = "running" /\ written # Changed(t) THEN refused + 1 ELSE refused
    /\ rows' = [rows EXCEPT ![t] =
          [orders |-> [i \in OrderId |-> IF i \in written THEN mem'[t].orders[i]
                                                         ELSE rows[t].orders[i]],
           pos    |-> Stored(t, fills, price, written)]]

(* And to the rows: each order's becomes what the actor has, or stays.     *)
Saves(t) ==
    /\ rows' = [rows EXCEPT ![t] = rows'[t]] /\ IsBook(rows'[t])
    /\ \A i \in OrderId : \/ rows'[t].orders[i] = rows[t].orders[i]
                          \/ i \in Changed(t) /\ rows'[t].orders[i] = mem'[t].orders[i]
    /\ phase # "running" => rows' = rows
    /\ refused' \in Nat /\ (refused' = 0 => refused = 0)

(* And to the channel of the call that sent it.                            *)
Answers(c) ==
    /\ reply' = [reply EXCEPT ![c] = reply'[c]]
    /\ reply'[c] # NoAnswer
    /\ Truthful(c, reply'[c])

(* Filling orders of a book leaves a book.                                 *)
LEMMA FilledIs ==
    ASSUME NEW s, IsBook(s), NEW ids \in SUBSET OrderId, NEW pos
    PROVE  /\ IsBook(Filled(s, ids, pos))
           /\ \A i \in OrderId : Filled(s, ids, pos).orders[i]
                                   = IF i \in ids THEN "filled" ELSE s.orders[i]
           /\ Filled(s, ids, pos).pos = pos
BY DEF IsBook, Filled, OrderStatus

(* Replacing a book of the table changes that one alone.                   *)
LEMMA Replaced ==
    ASSUME EngineInv, NEW t \in Token, NEW s, IsBook(s), mem' = [mem EXCEPT ![t] = s]
    PROVE  mem'[t] = s /\ mem' = [mem EXCEPT ![t] = mem'[t]] /\ IsBook(mem'[t])
<1>1. mem = [u \in Token |-> mem[u]]
    BY DEF EngineInv, Shape, AreBooks
<1>2. mem'[t] = s
    BY <1>1
<1> QED BY <1>2

(* What is written through, however many of the writes are refused.        *)
LEMMA WriteEffect ==
    ASSUME EngineInv, NEW t \in Token, Moves(t), NEW fills, NEW price,
           WriteThrough(t, fills, price)
    PROVE  Saves(t)
<1>1. /\ AreBooks(rows) /\ IsBook(rows[t]) /\ IsBook(mem[t]) /\ IsBook(mem'[t])
      /\ refused \in Nat
    BY DEF EngineInv, Shape, AreBooks, Moves
<1>2. PICK written \in SUBSET Changed(t) : Written(t, fills, price, written)
    BY DEF WriteThrough, Written, Stored
<1> DEFINE orders == [i \in OrderId |-> IF i \in written THEN mem'[t].orders[i]
                                                         ELSE rows[t].orders[i]]
           pos == Stored(t, fills, price, written)
<1>3. rows' = [rows EXCEPT ![t] = [orders |-> orders, pos |-> pos]]
    BY <1>2 DEF Written
<1>4. orders \in [OrderId -> OrderStatus]
    BY <1>1 DEF IsBook
<1>5. ASSUME written = {} PROVE orders = rows[t].orders /\ pos = rows[t].pos
    BY <1>1, <1>5 DEF IsBook, Stored
<1>6. \A i \in OrderId : orders[i] = IF i \in written THEN mem'[t].orders[i]
                                                     ELSE rows[t].orders[i]
    OBVIOUS
<1> HIDE DEF orders, pos
<1>7. rows'[t] = [orders |-> orders, pos |-> pos]
    BY <1>1, <1>3 DEF AreBooks
<1>8. rows' = [rows EXCEPT ![t] = rows'[t]] /\ IsBook(rows'[t])
    <2>1. rows'[t].orders = orders /\ rows'[t].pos = pos
        BY <1>7
    <2>2. IsBook(rows'[t])
        BY <1>4, <1>7, <2>1 DEF IsBook
    <2> QED BY <1>3, <1>7, <2>2
<1>9. \A i \in OrderId : \/ rows'[t].orders[i] = rows[t].orders[i]
                         \/ i \in Changed(t) /\ rows'[t].orders[i] = mem'[t].orders[i]
    BY <1>6, <1>7
<1>10. phase # "running" => rows' = rows
    <2> SUFFICES ASSUME phase # "running" PROVE rows' = rows
        OBVIOUS
    <2>1. rows'[t] = rows[t]
        BY <1>1, <1>2, <1>5, <1>7 DEF IsBook, Written
    <2> QED BY <1>1, <1>8, <2>1 DEF AreBooks
<1>11. refused' \in Nat /\ (refused' = 0 => refused = 0)
    BY <1>1, <1>2 DEF Written
<1> QED BY <1>8, <1>9, <1>10, <1>11 DEF Saves

(* Nothing is written when nothing changed.                                *)
LEMMA NothingSaved ==
    ASSUME EngineInv, NEW t \in Token, UNCHANGED <<mem, rows, refused>>
    PROVE  Saves(t)
BY DEF EngineInv, Shape, AreBooks, Saves

(* A tick fills the resting orders that it crosses.                        *)
LEMMA TickEffect ==
    ASSUME EngineInv, NEW t \in Token, NEW n, HandleTick(t, n)
    PROVE  Moves(t) /\ Saves(t) /\ UNCHANGED reply
<1> DEFINE ids == Crossed(t, Stream[t][n])
<1>1. UNCHANGED reply
    BY DEF HandleTick
<1>2. AreBooks(mem) /\ IsBook(mem[t])
    BY DEF EngineInv, Shape, AreBooks
<1>3. CASE ids = {}
    <2>1. UNCHANGED <<mem, rows, refused>>
        BY <1>3 DEF HandleTick, tables
    <2> QED BY <1>1, <1>2, <2>1, NothingSaved DEF Moves, Changed, AreBooks
<1>4. CASE ids # {}
    <2>1. PICK order \in SetToSeqs(ids) :
             /\ mem' = [mem EXCEPT ![t] =
                   Filled(mem[t], ids, PosAfter(mem[t].pos, order, Stream[t][n]))]
             /\ WriteThrough(t, order, Stream[t][n])
        BY <1>4 DEF HandleTick
    <2> DEFINE pos == PosAfter(mem[t].pos, order, Stream[t][n])
    <2>2. ids \in SUBSET OrderId /\ \A i \in ids : mem[t].orders[i] = "resting"
        BY DEF Crossed
    <2> HIDE DEF ids, pos
    <2>3. /\ IsBook(Filled(mem[t], ids, pos))
          /\ \A i \in OrderId : Filled(mem[t], ids, pos).orders[i]
                                  = IF i \in ids THEN "filled" ELSE mem[t].orders[i]
        BY <1>2, <2>2, FilledIs
    <2>4. mem' = [mem EXCEPT ![t] = Filled(mem[t], ids, pos)]
        BY <2>1 DEF pos
    <2>5. /\ mem'[t] = Filled(mem[t], ids, pos)
          /\ mem' = [mem EXCEPT ![t] = mem'[t]] /\ IsBook(mem'[t])
        BY <2>3, <2>4, Replaced
    <2>6. \A i \in OrderId : mem'[t].orders[i]
                                = IF i \in ids THEN "filled" ELSE mem[t].orders[i]
        BY <2>3, <2>5
    <2>7. \A i \in Changed(t) : mem[t].orders[i] = "resting"
        BY <2>2, <2>6 DEF Changed
    <2>8. Moves(t)
        BY <2>2, <2>5, <2>6, <2>7 DEF Moves, Terminal
    <2>9. Saves(t)
        BY <2>1, <2>8, WriteEffect
    <2> QED BY <1>1, <2>8, <2>9
<1> QED BY <1>3, <1>4

(* A reply is put into its own channel.                                    *)
LEMMA RepliesIs ==
    ASSUME EngineInv, NEW c \in OrderId, NEW outcome, NEW shows, outcome # "",
           Replies(c, Answer(outcome, shows))
    PROVE  /\ reply' = [reply EXCEPT ![c] = reply'[c]]
           /\ reply[c] = NoAnswer /\ reply'[c] # NoAnswer
           /\ reply'[c].outcome = outcome /\ reply'[c].shows = shows
<1>1. reply = [d \in OrderId |-> reply[d]]
    BY DEF EngineInv, Shape
<1>2. reply[c] = NoAnswer /\ reply' = [reply EXCEPT ![c] = Answer(outcome, shows)]
    BY DEF Replies, CanReply
<1>3. reply'[c] = Answer(outcome, shows) /\ reply' = [reply EXCEPT ![c] = reply'[c]]
    BY <1>1, <1>2
<1>4. Answer(outcome, shows) # NoAnswer
    <2>1. Answer(outcome, shows).outcome = outcome /\ NoAnswer.outcome = ""
        BY DEF Answer, NoAnswer
    <2> QED BY <2>1
<1>5. Answer(outcome, shows).outcome = outcome /\ Answer(outcome, shows).shows = shows
    BY DEF Answer
<1> QED BY <1>2, <1>3, <1>4, <1>5

(* A response that says nothing of other orders is true.                   *)
LEMMA TruthfulToPlace ==
    ASSUME NEW c \in OrderId, ask[c].kind = "place", NEW r,
           r.outcome \in {"rejected", "filled", "resting"}
    PROVE  Truthful(c, r)
<1>1. ask[c].kind # "cancel" /\ r.outcome # "position"
    OBVIOUS
<1> QED BY <1>1 DEF Truthful

(* Nor can anything but not_found be untrue of a cancel.                   *)
LEMMA TruthfulToCancel ==
    ASSUME NEW c \in OrderId, ask[c].kind = "cancel", NEW r,
           r.outcome \in {"not_found", "cancelled", "already_filled", "already_cancelled"},
           r.outcome = "not_found" => ask[c].order \notin known[c]
    PROVE  Truthful(c, r)
<1>1. r.outcome # "position" /\ r.outcome \notin {"filled", "resting"}
    OBVIOUS
<1> QED BY <1>1 DEF Truthful

(* Nor anything but the orders it shows of a position.                     *)
LEMMA TruthfulToGet ==
    ASSUME NEW c \in OrderId, ask[c].kind = "get", NEW r,
           r.outcome = "position", ShownIn(c, r)
    PROVE  Truthful(c, r)
<1>1. r.outcome \notin {"filled", "resting"} /\ ask[c].kind # "cancel"
    OBVIOUS
<1> QED BY <1>1 DEF Truthful

(* What a placement is told says nothing of other orders.                  *)
LEMMA PlaceAnswers ==
    ASSUME EngineInv, NEW c \in OrderId, NEW outcome \in {"rejected", "filled", "resting"},
           ask[c].kind = "place", Replies(c, Answer(outcome, {}))
    PROVE  Answers(c) /\ reply[c] = NoAnswer
<1>1. /\ reply' = [reply EXCEPT ![c] = reply'[c]]
      /\ reply[c] = NoAnswer /\ reply'[c] # NoAnswer
      /\ reply'[c].outcome = outcome
    BY RepliesIs
<1> QED BY <1>1, TruthfulToPlace DEF Answers

(* A placement adds its own order and no other.                            *)
LEMMA PlaceEffect ==
    ASSUME EngineInv, NEW t \in Token, NEW c \in OrderId, HandlePlaceOrder(t, c)
    PROVE  Moves(t) /\ Saves(t) /\ Answers(c)
<1>1. ask[c].kind = "place" /\ AreBooks(mem) /\ IsBook(mem[t])
    BY DEF HandlePlaceOrder, EngineInv, Shape, AreBooks
<1>2. CASE Refused(t, c)
    <2>1. Replies(c, Answer("rejected", {})) /\ UNCHANGED <<mem, rows, refused>>
        BY <1>2 DEF HandlePlaceOrder, tables
    <2>2. Answers(c) /\ reply[c] = NoAnswer
        BY <2>1, <1>1, PlaceAnswers
    <2>3. Moves(t)
        BY <1>1, <2>1 DEF Moves, Changed, AreBooks
    <2> QED BY <2>1, <2>2, <2>3, NothingSaved
<1>3. CASE ~Refused(t, c) /\ Marketable(t, ask[c].body)
    <2> DEFINE pos == ApplyFill(mem[t].pos, SignedQty(ask[c].body), Stream[t][last[t]])
    <2>1. /\ Replies(c, Answer("filled", {})) /\ mem' = [mem EXCEPT ![t] = Filled(mem[t], {c}, pos)]
          /\ \E price : WriteThrough(t, <<c>>, price)
        BY <1>3 DEF HandlePlaceOrder
    <2>2. Answers(c) /\ reply[c] = NoAnswer
        BY <2>1, <1>1, PlaceAnswers
    <2> HIDE DEF pos
    <2>3. /\ IsBook(Filled(mem[t], {c}, pos))
          /\ \A i \in OrderId : Filled(mem[t], {c}, pos).orders[i]
                                  = IF i \in {c} THEN "filled" ELSE mem[t].orders[i]
        BY <1>1, FilledIs
    <2>4. /\ mem'[t] = Filled(mem[t], {c}, pos)
          /\ mem' = [mem EXCEPT ![t] = mem'[t]] /\ IsBook(mem'[t])
        BY <2>1, <2>3, Replaced
    <2>5. mem[t].orders[c] = "none" /\ ask[c].token = t
        BY <1>3 DEF Refused
    <2>6. \A i \in OrderId :
             mem'[t].orders[i] = IF i = c THEN "filled" ELSE mem[t].orders[i]
        BY <2>3, <2>4
    <2>7. \A i \in Changed(t) : i = c
        BY <2>6 DEF Changed
    <2>8. reply[c] = NoAnswer /\ reply'[c] # NoAnswer
        BY <2>2 DEF Answers
    <2>9. Moves(t)
        BY <1>1, <2>4, <2>5, <2>6, <2>7, <2>8 DEF Moves, Terminal
    <2>10. Saves(t)
        BY <2>1, <2>9, WriteEffect
    <2> QED BY <2>2, <2>9, <2>10
<1>4. CASE ~Refused(t, c) /\ ~Marketable(t, ask[c].body)
    <2> DEFINE s == [mem[t] EXCEPT !.orders[c] = "resting"]
    <2>1. /\ Replies(c, Answer("resting", {})) /\ mem' = [mem EXCEPT ![t] = s]
          /\ WriteThrough(t, <<>>, 0)
        BY <1>4 DEF HandlePlaceOrder
    <2>2. Answers(c) /\ reply[c] = NoAnswer
        BY <2>1, <1>1, PlaceAnswers
    <2>3. /\ IsBook(s) /\ s.pos = mem[t].pos
          /\ \A i \in OrderId : s.orders[i] = IF i = c THEN "resting" ELSE mem[t].orders[i]
        BY <1>1 DEF IsBook, OrderStatus
    <2> HIDE DEF s
    <2>4. mem'[t] = s /\ mem' = [mem EXCEPT ![t] = mem'[t]] /\ IsBook(mem'[t])
        BY <2>1, <2>3, Replaced
    <2>5. ask[c].token = t
        BY <1>4 DEF Refused
    <2>6. mem[t].orders[c] = "none"
        BY <1>4 DEF Refused
    <2>7. \A i \in Changed(t) : i = c
        BY <2>3, <2>4 DEF Changed
    <2>8. Moves(t)
        BY <1>1, <2>2, <2>3, <2>4, <2>5, <2>6, <2>7 DEF Moves, Answers, Terminal
    <2> QED BY <2>1, <2>2, <2>8, WriteEffect
<1> QED BY <1>2, <1>3, <1>4

(* A placement answered and stored is known.                               *)
LEMMA ToldIsHeard == \A i \in OrderId : i \in Told => i \in Heard
BY DEF Told, Heard, PlacedAs

(* Where an order that was answered is.                                    *)
LEMMA ToldIsPlaced ==
    ASSUME EngineInv, NEW i \in Told
    PROVE  /\ i \in OrderId /\ ask[i].kind = "place" /\ ask[i].token \in Token
           /\ rows[ask[i].token].orders[i] # "none"
           /\ PlacedAs(i) = {ask[i].token}
<1>1. i \in OrderId /\ PlacedAs(i) # {}
    BY DEF Told
<1>2. \A t \in PlacedAs(i) : ask[i].kind = "place" /\ ask[i].token = t
    BY <1>1 DEF PlacedAs, EngineInv, Owned
<1> QED BY <1>1, <1>2 DEF PlacedAs

(* A cancel is told not_found only of an order nobody was told of.         *)
LEMMA CancelEffect ==
    ASSUME EngineInv, NEW t \in Token, NEW c \in OrderId, HandleCancelOrder(t, c),
           Addressed(c, t), actors[t] = "running"
    PROVE  Moves(t) /\ Saves(t) /\ Answers(c)
<1> DEFINE i == ask[c].order
           outcome == CancelOutcome(mem[t].orders[i])
<1>1. ask[c].kind = "cancel" /\ AreBooks(mem) /\ IsBook(mem[t])
    BY DEF HandleCancelOrder, EngineInv, Shape, AreBooks
<1>2. i \in OrderId
    BY <1>1, AskIs DEF EngineInv, Shape
<1>3. /\ outcome \in {"not_found", "cancelled", "already_filled", "already_cancelled"}
      /\ outcome = "not_found" => mem[t].orders[i] = "none"
    BY <1>1, <1>2 DEF CancelOutcome, IsBook, OrderStatus
<1>4. i \in known[c] => mem[t].orders[i] # "none"
    <2> SUFFICES ASSUME i \in known[c] PROVE mem[t].orders[i] # "none"
        OBVIOUS
    <2>1. i \in Told
        BY DEF EngineInv, Progress
    <2>2. ask[i].token = t
        BY <1>1 DEF Addressed
    <2> QED BY <1>2, <2>1, <2>2, ToldIsPlaced DEF EngineInv, Agrees
<1> HIDE DEF outcome
<1>5. Replies(c, Answer(outcome, {}))
    BY DEF HandleCancelOrder, outcome
<1>6. /\ reply' = [reply EXCEPT ![c] = reply'[c]]
      /\ reply'[c].outcome = outcome /\ reply'[c] # NoAnswer
    BY <1>3, <1>5, RepliesIs
<1>7. Truthful(c, reply'[c])
    BY <1>1, <1>3, <1>4, <1>6, TruthfulToCancel
<1>8. Moves(t)
    <2>1. CASE mem[t].orders[i] = "resting"
        <3> DEFINE s == [mem[t] EXCEPT !.orders[i] = "cancelled"]
        <3>1. mem' = [mem EXCEPT ![t] = s]
            BY <2>1 DEF HandleCancelOrder
        <3>2. /\ IsBook(s) /\ s.pos = mem[t].pos
              /\ \A j \in OrderId : s.orders[j] = IF j = i THEN "cancelled" ELSE mem[t].orders[j]
            BY <1>1, <1>2 DEF IsBook, OrderStatus
        <3> HIDE DEF s
        <3>3. mem'[t] = s /\ mem' = [mem EXCEPT ![t] = mem'[t]] /\ IsBook(mem'[t])
            BY <3>1, <3>2, Replaced
        <3>4. \A j \in Changed(t) : mem[t].orders[j] = "resting"
            BY <2>1, <3>2, <3>3 DEF Changed
        <3> QED BY <2>1, <3>2, <3>3, <3>4 DEF Moves, Terminal
    <2>2. CASE mem[t].orders[i] # "resting"
        BY <1>1, <2>2 DEF HandleCancelOrder, Moves, Changed, AreBooks
    <2> QED BY <2>1, <2>2
<1>9. WriteThrough(t, <<>>, 0)
    BY DEF HandleCancelOrder
<1> QED BY <1>6, <1>7, <1>8, <1>9, WriteEffect DEF Answers

(* A snapshot shows every order of the instrument that anyone was told of. *)
LEMMA SnapshotEffect ==
    ASSUME EngineInv, NEW t \in Token, NEW c \in OrderId, HandleSnapshot(t, c),
           Addressed(c, t), actors[t] = "running"
    PROVE  Moves(t) /\ Saves(t) /\ Answers(c)
<1> DEFINE shows == {i \in OrderId : mem[t].orders[i] # "none"}
<1>1. ask[c].kind = "get" /\ ask[c].token = t /\ AreBooks(mem) /\ IsBook(mem[t])
    BY DEF HandleSnapshot, Addressed, EngineInv, Shape, AreBooks
<1>2. {i \in known[c] : t \in PlacedAs(i)} \subseteq shows
    <2> SUFFICES ASSUME NEW i \in known[c], t \in PlacedAs(i) PROVE i \in shows
        OBVIOUS
    <2>1. i \in OrderId
        BY DEF EngineInv, Shape
    <2> QED BY <2>1 DEF PlacedAs, EngineInv, Agrees
<1>3. shows \in SUBSET OrderId /\ Replies(c, Answer("position", shows))
    BY DEF HandleSnapshot
<1> HIDE DEF shows
<1>4. /\ reply' = [reply EXCEPT ![c] = reply'[c]]
      /\ reply'[c].outcome = "position" /\ reply'[c].shows = shows
      /\ reply'[c] # NoAnswer
    BY <1>3, RepliesIs
<1>5. ShownIn(c, reply'[c])
    BY <1>1, <1>2, <1>4 DEF ShownIn
<1>6. Truthful(c, reply'[c])
    BY <1>1, <1>4, <1>5, TruthfulToGet
<1>7. UNCHANGED <<mem, rows, refused>>
    BY DEF HandleSnapshot, tables
<1>8. Moves(t)
    BY <1>1, <1>7 DEF Moves, Changed, AreBooks
<1> QED BY <1>4, <1>6, <1>7, <1>8, NothingSaved DEF Answers

(* A message in an inbox is a tick or that of a call on its way.           *)
LEMMA HeadIs ==
    ASSUME EngineInv, NEW t \in Token, inbox[t] # <<>>, Head(inbox[t]).call # NoId
    PROVE  Head(inbox[t]).call \in OrderId /\ Addressed(Head(inbox[t]).call, t)
<1>1. inbox[t] \in Seq(Message) /\ 1 \in 1 .. Len(inbox[t]) /\ Head(inbox[t]) = inbox[t][1]
    BY DEF EngineInv, Shape
<1>2. inbox[t][1] \in Message
    BY <1>1
<1> QED BY <1>1, <1>2 DEF Message, EngineInv, Mail, Waits

(* Handling a message moves its instrument's book and answers its call.    *)
LEMMA HandleEffect ==
    ASSUME EngineInv, NEW t \in Token, Handle(t)
    PROVE  /\ Moves(t) /\ Saves(t) /\ actors[t] = "running" /\ inbox[t] # <<>>
           /\ UNCHANGED reply \/ \E c \in OrderId : Addressed(c, t) /\ Answers(c)
<1> DEFINE c == Head(inbox[t]).call
<1>1. actors[t] = "running" /\ inbox[t] # <<>>
    BY DEF Handle
<1>2. CASE c = NoId
    <2>1. HandleTick(t, Head(inbox[t]).seq)
        BY <1>2 DEF Handle
    <2> QED BY <1>1, <2>1, TickEffect
<1>3. CASE c # NoId
    <2>1. c \in OrderId /\ Addressed(c, t)
        BY <1>1, <1>3, HeadIs
    <2>2. HandlePlaceOrder(t, c) \/ HandleCancelOrder(t, c) \/ HandleSnapshot(t, c)
        BY <1>3 DEF Handle
    <2> HIDE DEF c
    <2>3. Moves(t) /\ Saves(t) /\ Answers(c)
        BY <1>1, <2>1, <2>2, PlaceEffect, CancelEffect, SnapshotEffect
    <2> QED BY <1>1, <2>1, <2>3
<1> QED BY <1>2, <1>3

-----------------------------------------------------------------------------
(* What no step undoes: a request that was made, an answer that was given, *)
(* an order in the rows.                                                   *)
Keeps ==
    /\ \A c \in OrderId : pc[c] # "new" =>
          /\ pc'[c] # "new"
          /\ ask'[c] = ask[c] /\ known'[c] = known[c]
    /\ \A c \in OrderId : pc[c] = "done" => pc'[c] = "done" /\ answer'[c] = answer[c]
    /\ \A t \in Token, i \in OrderId :
          rows[t].orders[i] # "none" => rows'[t].orders[i] # "none"

(* Whoever has asked something keeps asking it.                            *)
LEMMA AskStays ==
    ASSUME EngineInv, Keeps, NEW i \in OrderId, ask[i].kind # "none"
    PROVE  ask'[i] = ask[i] /\ pc[i] # "new"
BY DEF EngineInv, Progress, NoAsk, Keeps

(* The owner of every order in a book stays it.                            *)
LEMMA OwnedStays ==
    ASSUME EngineInv, Keeps, NEW t \in Token, NEW i \in OrderId,
           ask[i].kind = "place" /\ ask[i].token = t
    PROVE  ask'[i].kind = "place" /\ ask'[i].token = t
BY AskStays

(* An order that was told stays told, and where it is.                     *)
LEMMA ToldStays ==
    ASSUME EngineInv, Keeps, Owned(rows)', NEW i \in Told
    PROVE  i \in Told' /\ PlacedAs(i)' = PlacedAs(i)
<1>1. /\ i \in OrderId /\ ask[i].kind = "place" /\ ask[i].token \in Token
      /\ rows[ask[i].token].orders[i] # "none"
      /\ PlacedAs(i) = {ask[i].token}
    BY ToldIsPlaced
<1>2. ask'[i] = ask[i]
    BY <1>1, AskStays
<1>3. PlacedAs(i)' = {t \in Token : rows'[t].orders[i] # "none"}
    BY DEF PlacedAs
<1>4. rows'[ask[i].token].orders[i] # "none"
    BY <1>1 DEF Keeps
<1>5. \A t \in Token : rows'[t].orders[i] # "none" => ask'[i].token = t
    BY <1>1 DEF Owned
<1>6. PlacedAs(i)' = PlacedAs(i)
    BY <1>1, <1>2, <1>3, <1>4, <1>5
<1>7. pc[i] = "done" /\ answer[i].outcome \in {"filled", "resting"}
    BY DEF Told
<1>8. pc'[i] = "done" /\ answer'[i] = answer[i]
    BY <1>1, <1>7 DEF Keeps
<1>9. PlacedAs(i)' # {}
    BY <1>1, <1>6
<1> QED BY <1>1, <1>6, <1>7, <1>8, <1>9 DEF Told

(* So that a response that was true stays true.                            *)
LEMMA TruthStays ==
    ASSUME EngineInv, Keeps, Owned(rows)', NEW c \in OrderId, pc[c] # "new",
           NEW r, Truthful(c, r)
    PROVE  /\ r.outcome \in {"filled", "resting"} => ask'[c].kind = "place"
           /\ ask'[c].kind = "cancel" /\ r.outcome = "not_found" => ask'[c].order \notin known'[c]
           /\ r.outcome = "position" =>
                 /\ ask'[c].kind = "get"
                 /\ {i \in known'[c] : ask'[c].token \in PlacedAs(i)'} \subseteq r.shows
<1>1. ask'[c] = ask[c] /\ known'[c] = known[c]
    BY DEF Keeps
<1>2. \A i \in known[c] : PlacedAs(i)' = PlacedAs(i)
    BY ToldStays DEF EngineInv, Progress
<1> QED BY <1>1, <1>2 DEF Truthful, ShownIn

(* A call whose channel and answer are still true has made progress.       *)
LEMMA ProgressStays ==
    ASSUME EngineInv, Keeps, Owned(rows)', NEW c \in OrderId, pc[c] # "new",
           Truthful(c, reply'[c]), Truthful(c, answer'[c])
    PROVE  /\ ask'[c] # NoAsk /\ known'[c] \subseteq Told'
           /\ Truthful(c, reply[c])' /\ Truthful(c, answer[c])'
<1>1. ask[c] # NoAsk /\ ask'[c] = ask[c] /\ known'[c] = known[c]
    BY DEF EngineInv, Progress, Keeps
<1>2. known'[c] \subseteq Told'
    <2> SUFFICES ASSUME NEW i \in known[c] PROVE i \in Told'
        BY <1>1
    <2>1. i \in Told
        BY DEF EngineInv, Progress
    <2> QED BY <2>1, ToldStays
<1> DEFINE q == reply'[c]
           r == answer'[c]
<1>3. Truthful(c, q) /\ Truthful(c, r)
    OBVIOUS
<1> HIDE DEF q, r
<1>4. /\ q.outcome \in {"filled", "resting"} => ask'[c].kind = "place"
      /\ ask'[c].kind = "cancel" /\ q.outcome = "not_found" => ask'[c].order \notin known'[c]
      /\ q.outcome = "position" =>
            /\ ask'[c].kind = "get"
            /\ {i \in known'[c] : ask'[c].token \in PlacedAs(i)'} \subseteq q.shows
    BY <1>3, TruthStays
<1>5. /\ r.outcome \in {"filled", "resting"} => ask'[c].kind = "place"
      /\ ask'[c].kind = "cancel" /\ r.outcome = "not_found" => ask'[c].order \notin known'[c]
      /\ r.outcome = "position" =>
            /\ ask'[c].kind = "get"
            /\ {i \in known'[c] : ask'[c].token \in PlacedAs(i)'} \subseteq r.shows
    BY <1>3, TruthStays
<1>6. Truthful(c, reply[c])'
    BY <1>4 DEF Truthful, ShownIn, q
<1>7. Truthful(c, answer[c])'
    BY <1>5 DEF Truthful, ShownIn, r
<1> QED BY <1>1, <1>2, <1>6, <1>7

-----------------------------------------------------------------------------
(* A handler asks, and then sends or responds at once.                     *)
LEMMA HandlerEffect ==
    ASSUME EngineInv, NEW c \in OrderId, NEW a \in Asks[c],
           PlaceOrderHandler(c, a) \/ CancelOrderHandler(c, a) \/ GetPositionHandler(c, a)
    PROVE  /\ Begin(c, a) /\ a.kind # "none"
           /\ UNCHANGED <<actors, mem, last>> \/ \E t \in Token : Actor(t)
           /\ \/ Sends(c) /\ (a.kind = "cancel" => orderIx[a.order] # NoToken)
              \/ \E r : /\ Responds(c, r)
                        /\ r.outcome \in {"rejected", "not_found", "no_actor"}
                        /\ r.outcome = "not_found" => orderIx[a.order] = NoToken
<1>1. a \in Asks[c] \cup {NoAsk}
    OBVIOUS
<1>2. CASE PlaceOrderHandler(c, a)
    <2>1. Begin(c, a) /\ a.kind = "place" /\ a.token \in Token
        BY <1>1, <1>2, AskIs DEF PlaceOrderHandler
    <2>2. CASE Validate(a.body)
        BY <1>2, <2>1, <2>2 DEF PlaceOrderHandler
    <2>3. CASE ~Validate(a.body)
        <3>1. Responds(c, Answer("rejected", {})) /\ UNCHANGED <<actors, mem, last>>
            BY <1>2, <2>3 DEF PlaceOrderHandler, RespondsNow
        <3>2. Answer("rejected", {}).outcome = "rejected"
            BY DEF Answer
        <3> QED BY <2>1, <3>1, <3>2
    <2> QED BY <2>2, <2>3
<1>3. CASE CancelOrderHandler(c, a)
    <2>1. Begin(c, a) /\ a.kind = "cancel" /\ a.order \in OrderId
        BY <1>1, <1>3, AskIs DEF CancelOrderHandler
    <2>2. CASE orderIx[a.order] # NoToken
        <3>1. orderIx[a.order] \in Token
            BY <2>1, <2>2 DEF EngineInv, Shape
        <3> QED BY <1>3, <2>1, <2>2, <3>1 DEF CancelOrderHandler
    <2>3. CASE orderIx[a.order] = NoToken
        <3>1. Responds(c, Answer("not_found", {})) /\ UNCHANGED <<actors, mem, last>>
            BY <1>3, <2>3 DEF CancelOrderHandler, RespondsNow
        <3>2. Answer("not_found", {}).outcome = "not_found"
            BY DEF Answer
        <3> QED BY <2>1, <2>3, <3>1, <3>2
    <2> QED BY <2>2, <2>3
<1>4. CASE GetPositionHandler(c, a)
    <2>1. Begin(c, a) /\ a.kind = "get"
        BY <1>4 DEF GetPositionHandler
    <2>2. CASE ~FirstSeen(a.token)
        BY <1>4, <2>1, <2>2 DEF GetPositionHandler
    <2>3. CASE FirstSeen(a.token)
        <3>1. Responds(c, Flatly) /\ UNCHANGED <<actors, mem, last>>
            BY <1>4, <2>3 DEF GetPositionHandler, RespondsNow
        <3>2. Flatly.outcome = "no_actor"
            BY DEF Flatly, Answer
        <3> QED BY <2>1, <3>1, <3>2
    <2> QED BY <2>2, <2>3
<1> QED BY <1>2, <1>3, <1>4

(* What creating an actor, or none, means to the books.                    *)
Spawns == /\ actors' \in [Token -> {"none", "running", "stopped"}] /\ AreBooks(mem')
          /\ \A u \in Token :
                \/ actors'[u] = actors[u] /\ mem'[u] = mem[u]
                \/ /\ actors[u] = "none" /\ actors'[u] = "running"
                   /\ mem'[u] = rows[u]

(* The handlers and the tick loop create actors in that way.               *)
LEMMA SpawnsIs ==
    ASSUME EngineInv, phase # "down",
           UNCHANGED <<actors, mem, last>> \/ \E t \in Token : Actor(t)
    PROVE  Spawns
<1>1. CASE UNCHANGED <<actors, mem, last>>
    BY <1>1 DEF EngineInv, Shape, Spawns, AreBooks
<1>2. CASE \E t \in Token : Actor(t)
    BY <1>2, ActorEffect DEF Spawns
<1> QED BY <1>1, <1>2

(* A new actor has what the rows have, and owns no more.                   *)
LEMMA SpawnsAgrees ==
    ASSUME EngineInv, Spawns, phase # "down", UNCHANGED <<phase, rows, refused, seeds>>, Keeps
    PROVE  /\ Owned(mem)' /\ Owned(rows)' /\ Owned(seeds)'
           /\ \A t \in Token : Agrees(t)'
<1>1. \A t \in Token : Agrees(t)'
    <2> SUFFICES ASSUME NEW t \in Token PROVE Agrees(t)'
        OBVIOUS
    <2>1. Agrees(t)
        BY DEF EngineInv
    <2>2. actors[t] \in {"none", "running", "stopped"}
        BY DEF EngineInv, Shape
    <2> QED BY <2>1, <2>2 DEF Agrees, Spawns
<1>2. \A t \in Token, i \in OrderId :
        ask[i].kind = "place" /\ ask[i].token = t
            => ask'[i].kind = "place" /\ ask'[i].token = t
    BY OwnedStays
<1>3. Owned(mem)'
    BY <1>2 DEF EngineInv, Owned, Spawns
<1>4. Owned(rows)' /\ Owned(seeds)'
    BY <1>2 DEF EngineInv, Owned
<1> QED BY <1>1, <1>3, <1>4

(* A request touches its own call.                                         *)
LEMMA BeginKeeps ==
    ASSUME EngineInv, NEW c \in OrderId, NEW a \in Asks[c], Begin(c, a),
           Sends(c) \/ \E r : Responds(c, r)
    PROVE  /\ Keeps
           /\ ask' = [ask EXCEPT ![c] = a] /\ ask'[c] = a
           /\ known'[c] = Told /\ known' \in [OrderId -> SUBSET OrderId]
           /\ pc' \in [OrderId -> {"new", "sending", "waiting", "indexing", "done"}]
           /\ pc'[c] \in {"sending", "done"}
           /\ \A d \in OrderId \ {c} :
                 /\ ask'[d] = ask[d] /\ known'[d] = known[d] /\ pc'[d] = pc[d]
                 /\ answer'[d] = answer[d]
           /\ answer' = [d \in OrderId |-> answer'[d]]
<1>1. /\ pc[c] = "new" /\ ask' = [ask EXCEPT ![c] = a] /\ known' = [known EXCEPT ![c] = Told]
      /\ rows' = rows
    BY DEF Begin, tables
<1>2. /\ ask = [d \in OrderId |-> ask[d]] /\ known \in [OrderId -> SUBSET OrderId]
      /\ answer = [d \in OrderId |-> answer[d]]
      /\ pc \in [OrderId -> {"new", "sending", "waiting", "indexing", "done"}]
    BY DEF EngineInv, Shape
<1>3. Told \in SUBSET OrderId
    BY DEF Told
<1>4. /\ pc' \in [OrderId -> {"new", "sending", "waiting", "indexing", "done"}]
      /\ pc'[c] \in {"sending", "done"}
      /\ \A d \in OrderId \ {c} : pc'[d] = pc[d] /\ answer'[d] = answer[d]
      /\ answer' = [d \in OrderId |-> answer'[d]]
    <2>1. CASE Sends(c)
        BY <1>2, <2>1 DEF Sends
    <2>2. CASE \E r : Responds(c, r)
        <3>1. PICK r : Responds(c, r)
            BY <2>2
        <3> QED BY <1>2, <3>1 DEF Responds
    <2> QED BY <2>1, <2>2
<1>5. /\ ask'[c] = a /\ known'[c] = Told /\ known' \in [OrderId -> SUBSET OrderId]
      /\ \A d \in OrderId \ {c} : ask'[d] = ask[d] /\ known'[d] = known[d]
    BY <1>1, <1>2, <1>3
<1>6. Keeps
    BY <1>1, <1>4, <1>5 DEF Keeps
<1> QED BY <1>1, <1>4, <1>5, <1>6

(* What is in the inboxes stays addressed.                                 *)
LEMMA MailStays ==
    ASSUME EngineInv, Keeps, NEW c \in OrderId, NEW t \in Token, Addressed(c, t),
           reply'[c] = NoAnswer => answer'[c].outcome \notin {"filled", "resting"}
    PROVE  Addressed(c, t)'
<1>1. ask'[c] = ask[c] /\ pc'[c] # "new"
    BY DEF Keeps, Addressed
<1>2. ASSUME ask[c].kind = "cancel"
      PROVE  ask'[ask[c].order].kind = "place" /\ ask'[ask[c].order].token = t
    <2>1. ask[c].order \in OrderId
        BY <1>2, AskIs DEF EngineInv, Shape
    <2> QED BY <1>2, <2>1, OwnedStays DEF Addressed
<1> QED BY <1>1, <1>2 DEF Addressed

(* An index that stays is as good as before if nobody else was told.       *)
LEMMA IndexedStays ==
    ASSUME EngineInv, Keeps, orderIx' = orderIx, phase' # "down" => phase # "down",
           \A i \in OrderId : i \in Heard' => i \in Heard
    PROVE  \A i \in OrderId : Indexed(i)'
<1> SUFFICES ASSUME NEW i \in OrderId PROVE Indexed(i)'
    OBVIOUS
<1>1. Indexed(i)
    BY DEF EngineInv
<1>2. CASE orderIx[i] = NoToken
    BY <1>1, <1>2 DEF Indexed
<1>3. CASE orderIx[i] # NoToken
    <2>1. orderIx[i] \in Token /\ ask[i].kind = "place" /\ ask[i].token = orderIx[i]
        BY <1>1, <1>3 DEF Indexed, EngineInv, Shape
    <2>2. ask'[i].kind = "place" /\ ask'[i].token = orderIx[i]
        BY <2>1, OwnedStays
    <2> QED BY <1>3, <2>2 DEF Indexed
<1> QED BY <1>2, <1>3

(* A call that a step does not touch is as far as it was.                  *)
LEMMA OthersStay ==
    ASSUME EngineInv, Keeps, Owned(rows)', NEW d \in OrderId, phase' = phase,
           pc'[d] = pc[d], ask'[d] = ask[d], known'[d] = known[d],
           reply'[d] = reply[d], answer'[d] = answer[d],
           \A i \in OrderId : orderIx[i] # NoToken => orderIx'[i] # NoToken
    PROVE  Progress(d)'
<1>1. Progress(d)
    BY DEF EngineInv
<1>2. CASE pc[d] = "new"
    <2>1. NoAnswer.outcome = ""
        BY DEF NoAnswer, Answer
    <2>2. /\ ask[d] = NoAsk /\ reply[d] = NoAnswer /\ answer[d] = NoAnswer
          /\ known[d] \subseteq Told
        BY <1>1, <1>2 DEF Progress
    <2>3. known'[d] \subseteq Told'
        BY <2>2, ToldStays
    <2>4. Truthful(d, reply[d])' /\ Truthful(d, answer[d])'
        BY <2>1, <2>2 DEF Truthful
    <2> QED BY <1>2, <2>2, <2>3, <2>4 DEF Progress
<1>3. CASE pc[d] # "new"
    <2>1. Truthful(d, reply'[d]) /\ Truthful(d, answer'[d])
        BY <1>1 DEF Progress
    <2>2. /\ ask'[d] # NoAsk /\ known'[d] \subseteq Told'
          /\ Truthful(d, reply[d])' /\ Truthful(d, answer[d])'
        BY <1>3, <2>1, ProgressStays
    <2>3. pc[d] = "sending" /\ ask[d].kind = "cancel" => orderIx'[ask[d].order] # NoToken
        <3>1. ask[d].kind = "cancel" => ask[d].order \in OrderId
            BY AskIs DEF EngineInv, Shape
        <3> QED BY <1>1, <3>1 DEF Progress
    <2> QED BY <1>1, <1>3, <2>2, <2>3 DEF Progress
<1> QED BY <1>2, <1>3

(* Steps that leave the books alone.                                       *)
Quiet == UNCHANGED <<phase, actors, mem, tables, seeds, ask, known, reply>>

(* They leave what the books own, and who has them.                        *)
LEMMA QuietStays ==
    ASSUME EngineInv, Quiet, Keeps, phase # "down"
    PROVE  /\ Owned(mem)' /\ Owned(rows)' /\ Owned(seeds)'
           /\ \A t \in Token : Agrees(t)'
BY DEF EngineInv, Quiet, Owned, Agrees, tables


(* A request preserves the invariant.                                      *)
LEMMA BeginStays ==
    ASSUME EngineInv, NEW c \in OrderId, NEW a \in Asks[c],
           PlaceOrderHandler(c, a) \/ CancelOrderHandler(c, a) \/ GetPositionHandler(c, a)
    PROVE  EngineInv'
<1>1. /\ Begin(c, a) /\ a.kind # "none"
      /\ UNCHANGED <<actors, mem, last>> \/ \E t \in Token : Actor(t)
      /\ \/ Sends(c) /\ (a.kind = "cancel" => orderIx[a.order] # NoToken)
         \/ \E r : /\ Responds(c, r)
                   /\ r.outcome \in {"rejected", "not_found", "no_actor"}
                   /\ r.outcome = "not_found" => orderIx[a.order] = NoToken
    BY HandlerEffect
<1>2. /\ pc[c] = "new" /\ phase # "down"
      /\ UNCHANGED <<phase, inbox, rows, refused, seeds, orderIx, reply, loop>>
    BY <1>1 DEF Begin, feedVars, tables
<1>3. /\ Keeps
      /\ ask' = [ask EXCEPT ![c] = a] /\ ask'[c] = a
      /\ known'[c] = Told /\ known' \in [OrderId -> SUBSET OrderId]
      /\ pc' \in [OrderId -> {"new", "sending", "waiting", "indexing", "done"}]
      /\ pc'[c] \in {"sending", "done"}
      /\ \A d \in OrderId \ {c} :
            /\ ask'[d] = ask[d] /\ known'[d] = known[d] /\ pc'[d] = pc[d]
            /\ answer'[d] = answer[d]
      /\ answer' = [d \in OrderId |-> answer'[d]]
    BY <1>1, BeginKeeps
<1>4. Spawns
    BY <1>1, <1>2, SpawnsIs
<1>5. /\ Owned(mem)' /\ Owned(rows)' /\ Owned(seeds)'
      /\ \A t \in Token : Agrees(t)'
    BY <1>2, <1>3, <1>4, SpawnsAgrees
<1>6. Shape'
    <2>1. ask = [d \in OrderId |-> ask[d]] /\ \A d \in OrderId : ask[d] \in Asks[d] \cup {NoAsk}
        BY DEF EngineInv, Shape
    <2>2. ask' = [d \in OrderId |-> ask'[d]] /\ \A d \in OrderId : ask'[d] \in Asks[d] \cup {NoAsk}
        BY <1>3, <2>1
    <2>3. AreBooks(mem)' /\ AreBooks(rows)' /\ AreBooks(seeds)'
        BY <1>2, <1>4 DEF Spawns, EngineInv, Shape, AreBooks
    <2> QED BY <1>2, <1>3, <1>4, <2>2, <2>3 DEF EngineInv, Shape, Spawns
<1>7. Mail'
    <2> SUFFICES ASSUME NEW t \in Token, NEW d \in OrderId, Waits(d, t)
                 PROVE  Addressed(d, t)'
        BY <1>2 DEF Mail, Waits
    <2>1. Addressed(d, t)
        BY DEF EngineInv, Mail
    <2>2. d # c
        BY <1>2, <2>1 DEF Addressed
    <2>3. reply'[d] = NoAnswer => answer'[d].outcome \notin {"filled", "resting"}
        BY <1>2, <1>3, <2>1, <2>2 DEF Addressed
    <2> QED BY <1>3, <2>1, <2>3, MailStays
<1>8. /\ pc'[c] = "done" => answer'[c].outcome \in {"rejected", "not_found", "no_actor"}
      /\ pc'[c] = "done" /\ answer'[c].outcome = "not_found" => orderIx[a.order] = NoToken
      /\ pc'[c] = "sending" => answer'[c] = answer[c]
      /\ pc'[c] = "sending" /\ a.kind = "cancel" => orderIx[a.order] # NoToken
    <2>1. /\ answer = [d \in OrderId |-> answer[d]]
          /\ pc \in [OrderId -> {"new", "sending", "waiting", "indexing", "done"}]
        BY DEF EngineInv, Shape
    <2>2. CASE Sends(c) /\ (a.kind = "cancel" => orderIx[a.order] # NoToken)
        BY <2>1, <2>2 DEF Sends
    <2>3. CASE \E r : /\ Responds(c, r)
                      /\ r.outcome \in {"rejected", "not_found", "no_actor"}
                      /\ r.outcome = "not_found" => orderIx[a.order] = NoToken
        <3>1. PICK r : /\ Responds(c, r)
                       /\ r.outcome \in {"rejected", "not_found", "no_actor"}
                       /\ r.outcome = "not_found" => orderIx[a.order] = NoToken
            BY <2>3
        <3>2. pc'[c] = "done" /\ answer'[c] = r
            BY <2>1, <3>1 DEF Responds
        <3> QED BY <3>1, <3>2
    <2> QED BY <1>1, <2>2, <2>3
<1>9. \A i \in OrderId : i \in Heard' => i \in Heard
    <2> SUFFICES ASSUME NEW i \in OrderId, i \in Heard' PROVE i \in Heard
        OBVIOUS
    <2>1. /\ pc'[i] = "done" /\ answer'[i].outcome \in {"filled", "resting"}
          /\ \E t \in Token : rows'[t].orders[i] # "none" \/ mem'[t].orders[i] # "none"
        BY DEF Heard
    <2>2. i # c
        BY <1>8, <2>1
    <2>3. \E t \in Token : rows[t].orders[i] # "none" \/ mem[t].orders[i] # "none"
        BY <1>2, <1>4, <2>1 DEF Spawns
    <2> QED BY <1>3, <2>1, <2>2, <2>3 DEF Heard
<1>10. \A i \in OrderId : Indexed(i)'
    BY <1>2, <1>3, <1>9, IndexedStays
<1>11. Progress(c)'
    <2>1. ask[c] = NoAsk /\ reply[c] = NoAnswer /\ answer[c] = NoAnswer
        BY <1>2 DEF EngineInv, Progress
    <2>2. ask'[c] # NoAsk
        BY <1>1, <1>3 DEF NoAsk
    <2>3. known'[c] \subseteq Told'
        BY <1>3, <1>5, ToldStays
    <2>4. NoAnswer.outcome = ""
        BY DEF NoAnswer, Answer
    <2>5. Truthful(c, reply[c])'
        BY <1>2, <2>1, <2>4 DEF Truthful
    <2>6. a.kind = "cancel" => /\ a.order \in OrderId
                               /\ orderIx[a.order] = NoToken => a.order \notin Told
        BY <1>2, ToldIsHeard, AskIs DEF EngineInv, Indexed
    <2>7. Truthful(c, answer[c])'
        <3>1. CASE pc'[c] = "sending"
            BY <1>8, <2>1, <2>4, <3>1 DEF Truthful
        <3>2. CASE pc'[c] = "done"
            BY <1>3, <1>8, <2>6, <3>2 DEF Truthful
        <3> QED BY <1>3, <3>1, <3>2
    <2> QED BY <1>2, <1>3, <1>8, <2>1, <2>2, <2>3, <2>5, <2>7 DEF Progress
<1>12. \A d \in OrderId \ {c} : Progress(d)'
    BY <1>2, <1>3, <1>5, OthersStay
<1>13. phase' = "down" => loop' = <<>>
    BY <1>2
<1> QED BY <1>5, <1>6, <1>7, <1>10, <1>11, <1>12, <1>13 DEF EngineInv

-----------------------------------------------------------------------------
(* Where a call's message goes.                                            *)
LEMMA DestIs ==
    ASSUME EngineInv, NEW c \in OrderId, pc[c] = "sending"
    PROVE  /\ Dest(c) \in Token
           /\ ask[c].kind = "cancel" => /\ ask[ask[c].order].kind = "place"
                                        /\ ask[ask[c].order].token = Dest(c)
           /\ ask[c].kind = "get" => ask[c].token = Dest(c)
<1>1. ask[c] \in Asks[c] \cup {NoAsk} /\ ask[c] # NoAsk
    BY DEF EngineInv, Shape, Progress
<1>2. CASE ask[c].kind = "cancel"
    <2>1. ask[c].order \in OrderId
        BY <1>1, <1>2, AskIs
    <2>2. orderIx[ask[c].order] \in Token
        BY <1>2, <2>1 DEF EngineInv, Shape, Progress
    <2> QED BY <1>2, <2>1, <2>2, EngineAssumption DEF Dest, EngineInv, Indexed
<1>3. CASE ask[c].kind # "cancel"
    BY <1>1, <1>3, AskIs DEF Dest
<1> QED BY <1>2, <1>3

(* A message more in an inbox.                                             *)
LEMMA Enqueued ==
    ASSUME EngineInv, NEW t \in Token, NEW message \in Message, Enqueue(t, message)
    PROVE  /\ inbox' \in [Token -> Seq(Message)]
           /\ \A u \in Token, d \in OrderId :
                 Waits(d, u)' => Waits(d, u) \/ (u = t /\ d = message.call)
<1>1. inbox \in [Token -> Seq(Message)]
    BY DEF EngineInv, Shape
<1>2. inbox' = [inbox EXCEPT ![t] = Append(inbox[t], message)]
    BY DEF Enqueue
<1>3. inbox' \in [Token -> Seq(Message)]
    BY <1>1, <1>2
<1>4. ASSUME NEW u \in Token, NEW d \in OrderId, Waits(d, u)'
      PROVE  Waits(d, u) \/ (u = t /\ d = message.call)
    <2>1. PICK n \in 1 .. Len(inbox'[u]) : inbox'[u][n].call = d
        BY <1>4 DEF Waits
    <2>2. CASE u # t
        <3>1. inbox'[u] = inbox[u]
            BY <1>1, <1>2, <2>2
        <3> QED BY <2>1, <3>1 DEF Waits
    <2>3. CASE u = t
        <3>1. inbox'[u] = Append(inbox[u], message) /\ inbox[u] \in Seq(Message)
            BY <1>1, <1>2, <2>3
        <3>2. CASE n \in 1 .. Len(inbox[u])
            <4>1. inbox'[u][n] = inbox[u][n]
                BY <3>1, <3>2
            <4> QED BY <2>1, <3>2, <4>1 DEF Waits
        <3>3. CASE n \notin 1 .. Len(inbox[u])
            <4>1. n = Len(inbox[u]) + 1
                BY <2>1, <3>1, <3>3
            <4>2. inbox'[u][n] = message
                BY <3>1, <4>1
            <4> QED BY <2>1, <2>3, <4>2
        <3> QED BY <3>2, <3>3
    <2> QED BY <2>2, <2>3
<1> QED BY <1>3, <1>4

(* A call that moves on, with what it was told.                            *)
Advance(c) ==
    /\ Quiet /\ pc[c] # "new" /\ pc[c] # "done" /\ pc'[c] \notin {"new", "sending"}
    /\ \A d \in OrderId \ {c} : pc'[d] = pc[d] /\ answer'[d] = answer[d]
    /\ pc' \in [OrderId -> {"new", "sending", "waiting", "indexing", "done"}]
    /\ answer' = [d \in OrderId |-> answer'[d]]

(* It preserves what the others and itself were told.                      *)
LEMMA AdvanceStays ==
    ASSUME EngineInv, NEW c \in OrderId, Advance(c), rows' = rows,
           Truthful(c, answer'[c]), pc'[c] = "indexing" => ask[c].kind = "place",
           \A i \in OrderId : orderIx[i] # NoToken => orderIx'[i] # NoToken
    PROVE  /\ Keeps /\ phase # "down"
           /\ Owned(mem)' /\ Owned(rows)' /\ Owned(seeds)'
           /\ \A t \in Token : Agrees(t)'
           /\ \A d \in OrderId : Progress(d)'
           /\ \A i \in OrderId \ {c} : i \in Heard' => i \in Heard
<1>1. Keeps
    BY DEF Keeps, Advance, Quiet, tables
<1>2. phase # "down"
    BY DEF EngineInv, Progress, Advance
<1>3. /\ Owned(mem)' /\ Owned(rows)' /\ Owned(seeds)'
      /\ \A t \in Token : Agrees(t)'
    BY <1>1, <1>2, QuietStays DEF Advance
<1>4. \A d \in OrderId \ {c} : Progress(d)'
    BY <1>1, <1>3, OthersStay DEF Advance, Quiet, tables
<1>5. Progress(c)'
    <2>1. Truthful(c, reply'[c])
        BY DEF EngineInv, Progress, Advance, Quiet, tables
    <2>2. /\ ask'[c] # NoAsk /\ known'[c] \subseteq Told'
          /\ Truthful(c, reply[c])' /\ Truthful(c, answer[c])'
        BY <1>1, <1>3, <2>1, ProgressStays DEF Advance
    <2> QED BY <1>2, <2>2 DEF Progress, Advance, Quiet, tables
<1>6. ASSUME NEW i \in OrderId \ {c}, i \in Heard' PROVE i \in Heard
    BY <1>6 DEF Heard, Advance, Quiet, tables
<1> QED BY <1>1, <1>2, <1>3, <1>4, <1>5, <1>6

(* Sending preserves the invariant.                                        *)
LEMMA SendStays ==
    ASSUME EngineInv, NEW c \in OrderId, Send(c)
    PROVE  EngineInv'
<1>1. /\ pc[c] = "sending" /\ pc' = [pc EXCEPT ![c] = "waiting"] /\ Enqueue(Dest(c), FromCall(c))
      /\ UNCHANGED <<phase, actors, mem, rows, refused, seeds, ask, known, reply, answer, orderIx, loop>>
    BY DEF Send, feedVars, tables
<1>2. Dest(c) \in Token
    BY <1>1, DestIs
<1>3. Advance(c) /\ pc'[c] = "waiting"
    BY <1>1 DEF Advance, Quiet, EngineInv, Shape, tables
<1>4. Truthful(c, answer'[c])
    BY <1>1 DEF EngineInv, Progress
<1>5. /\ Keeps /\ phase # "down"
      /\ Owned(mem)' /\ Owned(rows)' /\ Owned(seeds)'
      /\ \A t \in Token : Agrees(t)'
      /\ \A d \in OrderId : Progress(d)'
      /\ \A i \in OrderId \ {c} : i \in Heard' => i \in Heard
    BY <1>1, <1>3, <1>4, AdvanceStays
<1>6. FromCall(c) \in Message /\ FromCall(c).call = c
    BY DEF FromCall, Message
<1> DEFINE message == FromCall(c)
           t == Dest(c)
<1>7. message \in Message /\ message.call = c /\ t \in Token /\ Enqueue(t, message)
    BY <1>1, <1>2, <1>6
<1> HIDE DEF message, t
<1>8. /\ inbox' \in [Token -> Seq(Message)]
      /\ \A u \in Token, d \in OrderId :
            Waits(d, u)' => Waits(d, u) \/ (u = t /\ d = c)
    BY <1>7, Enqueued
<1>9. Shape'
    BY <1>1, <1>3, <1>8 DEF EngineInv, Shape, AreBooks, Advance
<1>10. Mail'
    <2> SUFFICES ASSUME NEW u \in Token, NEW d \in OrderId, Waits(d, u)'
                 PROVE  Addressed(d, u)'
        BY DEF Mail
    <2>1. CASE Waits(d, u)
        <3>1. Addressed(d, u)
            BY <2>1 DEF EngineInv, Mail
        <3>2. reply'[d] = NoAnswer => answer'[d].outcome \notin {"filled", "resting"}
            BY <1>1, <3>1 DEF Addressed
        <3> QED BY <1>5, <3>1, <3>2, MailStays
    <2>2. CASE u = t /\ d = c
        <3>1. answer[c].outcome = ""
            <4>1. answer[c] = NoAnswer
                BY <1>1 DEF EngineInv, Progress
            <4>2. NoAnswer.outcome = ""
                BY DEF NoAnswer, Answer
            <4> QED BY <4>1, <4>2
        <3>2. Addressed(d, u)
            BY <1>1, <2>2, <3>1, DestIs DEF Addressed, t
        <3>3. reply'[d] = NoAnswer => answer'[d].outcome \notin {"filled", "resting"}
            BY <1>1, <3>2 DEF Addressed
        <3> QED BY <1>5, <3>2, <3>3, MailStays
    <2> QED BY <1>8, <2>1, <2>2
<1>11. \A i \in OrderId : Indexed(i)'
    <2>1. c \notin Heard'
        BY <1>3 DEF Heard
    <2> QED BY <1>1, <1>5, <2>1, IndexedStays
<1> QED BY <1>1, <1>5, <1>9, <1>10, <1>11 DEF EngineInv

(* Steps of a call that leave the inboxes preserve the invariant.          *)
LEMMA AnswerStays ==
    ASSUME EngineInv, NEW c \in OrderId, Advance(c), UNCHANGED <<inbox, loop, rows, refused>>,
           Truthful(c, answer'[c]), pc'[c] = "indexing" => ask[c].kind = "place",
           reply[c] = NoAnswer => \/ answer'[c] = answer[c]
                                  \/ answer'[c].outcome \notin {"filled", "resting"},
           orderIx' \in [OrderId -> Token \cup {NoToken}],
           \A i \in OrderId : orderIx[i] # NoToken => orderIx'[i] # NoToken,
           \A i \in OrderId : Indexed(i)'
    PROVE  EngineInv'
<1>1. /\ Keeps /\ phase # "down"
      /\ Owned(mem)' /\ Owned(rows)' /\ Owned(seeds)'
      /\ \A t \in Token : Agrees(t)'
      /\ \A d \in OrderId : Progress(d)'
    BY AdvanceStays
<1>2. Shape'
    BY DEF EngineInv, Shape, AreBooks, Advance, Quiet, tables
<1>3. Mail'
    <2> SUFFICES ASSUME NEW u \in Token, NEW d \in OrderId, Waits(d, u)
                 PROVE  Addressed(d, u)'
        BY DEF Mail, Waits
    <2>1. Addressed(d, u)
        BY DEF EngineInv, Mail
    <2>2. reply'[d] = NoAnswer => answer'[d].outcome \notin {"filled", "resting"}
        BY <2>1 DEF Addressed, Advance, Quiet, tables
    <2> QED BY <1>1, <2>1, <2>2, MailStays
<1> QED BY <1>1, <1>2, <1>3 DEF EngineInv, Advance, Quiet, tables

(* Receiving the reply preserves the invariant.                            *)
LEMMA ReceiveStays ==
    ASSUME EngineInv, NEW c \in OrderId, Receive(c)
    PROVE  EngineInv'
<1>1. /\ pc[c] = "waiting" /\ reply[c] # NoAnswer
      /\ pc' = [pc EXCEPT ![c] = IF Indexes(c) THEN "indexing" ELSE "done"]
      /\ answer' = [answer EXCEPT ![c] = reply[c]]
      /\ UNCHANGED <<phase, actors, mem, rows, refused, seeds, ask, known, reply, orderIx, inbox, loop>>
    BY DEF Receive, actorVars, feedVars, tables
<1>2. Advance(c) /\ answer'[c] = reply[c]
      /\ pc'[c] = IF Indexes(c) THEN "indexing" ELSE "done"
    BY <1>1 DEF Advance, Quiet, EngineInv, Shape, tables
<1>3. Truthful(c, reply[c])
    BY DEF EngineInv, Progress
<1>4. pc'[c] = "indexing" => ask[c].kind = "place"
    BY <1>2 DEF Indexes
<1>5. /\ Keeps /\ phase # "down"
      /\ \A i \in OrderId \ {c} : i \in Heard' => i \in Heard
    BY <1>1, <1>2, <1>3, <1>4, AdvanceStays
<1>6. c \notin Heard'
    <2> SUFFICES ASSUME c \in Heard' PROVE FALSE
        OBVIOUS
    <2>1. pc'[c] = "done" /\ reply[c].outcome \in {"filled", "resting"}
        BY <1>2 DEF Heard
    <2>2. ask[c].kind = "place"
        BY <1>3, <2>1 DEF Truthful
    <2> QED BY <1>2, <2>1, <2>2 DEF Indexes
<1>7. \A i \in OrderId : Indexed(i)'
    BY <1>1, <1>5, <1>6, IndexedStays
<1>8. orderIx' \in [OrderId -> Token \cup {NoToken}]
    BY <1>1 DEF EngineInv, Shape
<1> QED BY <1>1, <1>2, <1>3, <1>4, <1>7, <1>8, AnswerStays

(* Indexing the order preserves the invariant.                             *)
LEMMA IndexOrderStays ==
    ASSUME EngineInv, NEW c \in OrderId, IndexOrder(c)
    PROVE  EngineInv'
<1>1. /\ pc[c] = "indexing" /\ orderIx' = [orderIx EXCEPT ![c] = ask[c].token]
      /\ pc' = [pc EXCEPT ![c] = "done"]
      /\ UNCHANGED <<phase, actors, mem, rows, refused, seeds, ask, known, reply, answer, inbox, loop>>
    BY DEF IndexOrder, actorVars, feedVars, tables
<1>2. Advance(c) /\ pc'[c] = "done"
    BY <1>1 DEF Advance, Quiet, EngineInv, Shape, tables
<1>3. ask[c].kind = "place" /\ ask[c].token \in Token
    BY <1>1, AskIs DEF EngineInv, Shape, Progress
<1>4. /\ orderIx' \in [OrderId -> Token \cup {NoToken}] /\ orderIx'[c] = ask[c].token
      /\ \A i \in OrderId \ {c} : orderIx'[i] = orderIx[i]
    BY <1>1, <1>3 DEF EngineInv, Shape
<1>5. \A i \in OrderId : orderIx[i] # NoToken => orderIx'[i] # NoToken
    BY <1>3, <1>4, EngineAssumption
<1>6. Truthful(c, answer'[c])
    BY <1>1 DEF EngineInv, Progress
<1>7. /\ Keeps /\ phase # "down"
      /\ \A i \in OrderId \ {c} : i \in Heard' => i \in Heard
    BY <1>1, <1>2, <1>5, <1>6, AdvanceStays
<1>8. \A i \in OrderId : Indexed(i)'
    BY <1>1, <1>3, <1>4, <1>7, EngineAssumption DEF Indexed, EngineInv
<1> QED BY <1>1, <1>2, <1>4, <1>5, <1>6, <1>8, AnswerStays

(* Giving up preserves the invariant.                                      *)
LEMMA GivesUpStays ==
    ASSUME EngineInv, NEW c \in OrderId, GivesUp(c)
    PROVE  EngineInv'
<1>1. /\ pc[c] \in {"sending", "waiting"} /\ Responds(c, Answer("error", {}))
      /\ UNCHANGED <<phase, actors, mem, rows, refused, seeds, ask, known, reply, orderIx, inbox, loop>>
    BY DEF GivesUp, actorVars, feedVars, tables
<1>2. Advance(c) /\ pc'[c] = "done" /\ answer'[c] = Answer("error", {})
    BY <1>1 DEF Responds, Advance, Quiet, EngineInv, Shape, tables
<1>3. answer'[c].outcome = "error"
    BY <1>2 DEF Answer
<1>4. Truthful(c, answer'[c])
    BY <1>3 DEF Truthful
<1>5. /\ Keeps /\ phase # "down"
      /\ \A i \in OrderId \ {c} : i \in Heard' => i \in Heard
    BY <1>1, <1>2, <1>4, AdvanceStays
<1>6. c \notin Heard'
    BY <1>3 DEF Heard
<1>7. \A i \in OrderId : Indexed(i)'
    BY <1>1, <1>5, <1>6, IndexedStays
<1>8. orderIx' \in [OrderId -> Token \cup {NoToken}]
    BY <1>1 DEF EngineInv, Shape
<1> QED BY <1>1, <1>2, <1>3, <1>4, <1>7, <1>8, AnswerStays

-----------------------------------------------------------------------------
(* The messages that are left when the first was taken were there before.  *)
LEMMA Dequeued ==
    ASSUME EngineInv, NEW t \in Token, inbox[t] # <<>>,
           inbox' = [inbox EXCEPT ![t] = Tail(inbox[t])]
    PROVE  /\ inbox' \in [Token -> Seq(Message)]
           /\ \A u \in Token, d \in OrderId : Waits(d, u)' => Waits(d, u)
<1>1. inbox \in [Token -> Seq(Message)]
    BY DEF EngineInv, Shape
<1>2. inbox' \in [Token -> Seq(Message)]
    BY <1>1
<1>3. ASSUME NEW u \in Token, NEW d \in OrderId, Waits(d, u)'
      PROVE  Waits(d, u)
    <2>1. PICK n \in 1 .. Len(inbox'[u]) : inbox'[u][n].call = d
        BY <1>3 DEF Waits
    <2>2. CASE u # t
        <3>1. inbox'[u] = inbox[u]
            BY <1>1, <2>2
        <3> QED BY <2>1, <3>1 DEF Waits
    <2>3. CASE u = t
        <3>1. inbox'[u] = Tail(inbox[u]) /\ inbox[u] \in Seq(Message) /\ inbox[u] # <<>>
            BY <1>1, <2>3
        <3>2. PICK q \in Seq(Message) : q = inbox[u]
            BY <3>1
        <3>3. q # <<>> /\ n \in 1 .. Len(Tail(q)) /\ inbox'[u][n] = Tail(q)[n]
            BY <2>1, <3>1, <3>2
        <3>4. n + 1 \in 1 .. Len(q) /\ Tail(q)[n] = q[n + 1]
            BY <3>3
        <3> QED BY <2>1, <3>2, <3>3, <3>4 DEF Waits
    <2> QED BY <2>2, <2>3
<1> QED BY <1>2, <1>3

(* A message handled keeps what was said and written.                      *)
LEMMA HandleKeeps ==
    ASSUME EngineInv, NEW t \in Token, Handle(t)
    PROVE  /\ Keeps
           /\ AreBooks(mem') /\ AreBooks(rows')
           /\ Owned(mem)' /\ Owned(rows)' /\ Owned(seeds)'
           /\ \A u \in Token : Agrees(u)'
<1>1. /\ Moves(t) /\ Saves(t) /\ actors[t] = "running"
    BY HandleEffect
<1>2. UNCHANGED <<phase, actors, seeds, ask, pc, answer, known>>
      /\ inbox' = [inbox EXCEPT ![t] = Tail(inbox[t])]
    BY DEF Handle
<1>3. /\ rows' = [rows EXCEPT ![t] = rows'[t]] /\ IsBook(rows'[t])
      /\ \A i \in OrderId : \/ rows'[t].orders[i] = rows[t].orders[i]
                            \/ i \in Changed(t) /\ rows'[t].orders[i] = mem'[t].orders[i]
    BY <1>1 DEF Saves
<1>4. AreBooks(mem) /\ AreBooks(rows)
    BY DEF EngineInv, Shape
<1>5. /\ mem' = [mem EXCEPT ![t] = mem'[t]] /\ IsBook(mem'[t])
      /\ \A i \in OrderId : mem[t].orders[i] # "none" => mem'[t].orders[i] # "none"
      /\ \A i \in OrderId :
            mem[t].orders[i] = "none" /\ mem'[t].orders[i] # "none"
                => ask[i].kind = "place" /\ ask[i].token = t
      /\ \A i \in OrderId : mem[t].orders[i] \in Terminal => i \notin Changed(t)
    BY <1>1 DEF Moves
<1>6. \A u \in Token \ {t} : mem'[u] = mem[u] /\ rows'[u] = rows[u]
    BY <1>3, <1>4, <1>5 DEF AreBooks
<1>7. AreBooks(mem') /\ AreBooks(rows')
    BY <1>3, <1>4, <1>5 DEF AreBooks
<1>8. Agrees(t)
    BY DEF EngineInv
<1>9. \A i \in OrderId : i \notin Changed(t) => mem'[t].orders[i] = mem[t].orders[i]
    BY DEF Changed
<1>10. \A i \in OrderId :
          /\ rows[t].orders[i] # "none" => mem[t].orders[i] # "none"
          /\ rows[t].orders[i] \in Terminal => mem[t].orders[i] = rows[t].orders[i]
    BY <1>1, <1>8 DEF Agrees
<1>11. \A i \in OrderId :
          /\ rows[t].orders[i] # "none" => rows'[t].orders[i] # "none"
          /\ rows'[t].orders[i] # "none" => mem'[t].orders[i] # "none"
          /\ rows'[t].orders[i] \in Terminal => mem'[t].orders[i] = rows'[t].orders[i]
    <2> SUFFICES ASSUME NEW i \in OrderId
                 PROVE  /\ rows[t].orders[i] # "none" => rows'[t].orders[i] # "none"
                        /\ rows'[t].orders[i] # "none" => mem'[t].orders[i] # "none"
                        /\ rows'[t].orders[i] \in Terminal
                              => mem'[t].orders[i] = rows'[t].orders[i]
        OBVIOUS
    <2>1. CASE rows'[t].orders[i] = mem'[t].orders[i]
        BY <1>5, <1>10, <2>1
    <2>2. CASE rows'[t].orders[i] = rows[t].orders[i]
        BY <1>5, <1>9, <1>10, <2>2
    <2> QED BY <1>3, <2>1, <2>2
<1>12. Keeps
    BY <1>2, <1>6, <1>11 DEF Keeps
<1>13. Owned(mem)'
    BY <1>2, <1>5, <1>6 DEF EngineInv, Owned
<1>14. Owned(rows)' /\ Owned(seeds)'
    <2>1. Owned(seeds)'
        BY <1>2 DEF EngineInv, Owned
    <2>2. ASSUME NEW u \in Token, NEW i \in OrderId, rows'[u].orders[i] # "none"
          PROVE  ask'[i].kind = "place" /\ ask'[i].token = u
        <3>1. CASE u = t
            BY <1>11, <1>13, <2>2, <3>1 DEF Owned
        <3>2. CASE u # t
            BY <1>2, <1>6, <2>2, <3>2 DEF EngineInv, Owned
        <3> QED BY <3>1, <3>2
    <2> QED BY <2>1, <2>2 DEF Owned
<1>15. Agrees(t)'
    <2>1. phase # "down"
        BY <1>1, <1>8 DEF Agrees
    <2> QED BY <1>1, <1>2, <1>8, <1>11, <2>1 DEF Agrees
<1>16. \A u \in Token \ {t} : Agrees(u)'
    <2> SUFFICES ASSUME NEW u \in Token \ {t} PROVE Agrees(u)'
        OBVIOUS
    <2>1. Agrees(u) /\ inbox'[u] = inbox[u]
        BY <1>2 DEF EngineInv, Shape
    <2> QED BY <1>2, <1>6, <2>1 DEF Agrees
<1> QED BY <1>7, <1>12, <1>13, <1>14, <1>15, <1>16

(* Handling a message preserves the invariant.                             *)
LEMMA HandleStays ==
    ASSUME EngineInv, NEW t \in Token, Handle(t)
    PROVE  EngineInv'
<1>1. /\ Moves(t) /\ Saves(t) /\ actors[t] = "running" /\ inbox[t] # <<>>
      /\ UNCHANGED reply \/ \E c \in OrderId : Addressed(c, t) /\ Answers(c)
    BY HandleEffect
<1>2. UNCHANGED <<phase, actors, seeds, ask, pc, answer, known, orderIx, loop>>
      /\ inbox' = [inbox EXCEPT ![t] = Tail(inbox[t])]
    BY DEF Handle, feedVars
<1>3. /\ Keeps
      /\ AreBooks(mem') /\ AreBooks(rows')
      /\ Owned(mem)' /\ Owned(rows)' /\ Owned(seeds)'
      /\ \A u \in Token : Agrees(u)'
    BY HandleKeeps
<1>4. /\ inbox' \in [Token -> Seq(Message)]
      /\ \A u \in Token, d \in OrderId : Waits(d, u)' => Waits(d, u)
    BY <1>1, <1>2, Dequeued
<1>5. reply = [d \in OrderId |-> reply[d]]
    BY DEF EngineInv, Shape
<1>6. /\ reply' = [d \in OrderId |-> reply'[d]]
      /\ \A d \in OrderId : \/ reply'[d] = reply[d]
                            \/ /\ reply'[d] # NoAnswer /\ Truthful(d, reply'[d])
                               /\ Addressed(d, t)
    <2>1. CASE UNCHANGED reply
        BY <1>5, <2>1
    <2>2. CASE \E c \in OrderId : Addressed(c, t) /\ Answers(c)
        <3>1. PICK c \in OrderId : Addressed(c, t) /\ Answers(c)
            BY <2>2
        <3>2. /\ reply' = [reply EXCEPT ![c] = reply'[c]]
              /\ reply'[c] # NoAnswer /\ Truthful(c, reply'[c])
            BY <3>1 DEF Answers
        <3> QED BY <1>5, <3>1, <3>2
    <2> QED BY <1>1, <2>1, <2>2
<1>7. Shape'
    BY <1>1, <1>2, <1>3, <1>4, <1>6 DEF EngineInv, Shape, AreBooks, Saves
<1>8. Mail'
    <2> SUFFICES ASSUME NEW u \in Token, NEW d \in OrderId, Waits(d, u)'
                 PROVE  Addressed(d, u)'
        BY DEF Mail
    <2>1. Addressed(d, u)
        BY <1>4 DEF EngineInv, Mail
    <2>2. reply'[d] = NoAnswer => answer'[d].outcome \notin {"filled", "resting"}
        BY <1>2, <1>6, <2>1 DEF Addressed
    <2> QED BY <1>3, <2>1, <2>2, MailStays
<1>9. \A i \in OrderId : i \in Heard' => i \in Heard
    <2> SUFFICES ASSUME NEW i \in OrderId, i \in Heard', i \notin Heard PROVE FALSE
        OBVIOUS
    <2>1. /\ pc[i] = "done" /\ answer[i].outcome \in {"filled", "resting"}
          /\ \A u \in Token : rows[u].orders[i] = "none" /\ mem[u].orders[i] = "none"
        BY <1>2 DEF Heard
    <2>2. PICK u \in Token : rows'[u].orders[i] # "none" \/ mem'[u].orders[i] # "none"
        BY DEF Heard
    <2>3. /\ mem' = [mem EXCEPT ![t] = mem'[t]] /\ rows' = [rows EXCEPT ![t] = rows'[t]]
          /\ \/ rows'[t].orders[i] = rows[t].orders[i]
             \/ rows'[t].orders[i] = mem'[t].orders[i]
        BY <1>1 DEF Moves, Saves
    <2>4. mem = [v \in Token |-> mem[v]] /\ rows = [v \in Token |-> rows[v]]
        BY DEF EngineInv, Shape, AreBooks
    <2>5. mem[t].orders[i] = "none" /\ mem'[t].orders[i] # "none"
        BY <2>1, <2>2, <2>3, <2>4
    <2>6. reply[i] = NoAnswer /\ reply'[i] # NoAnswer
        BY <1>1, <2>5 DEF Moves
    <2>7. Addressed(i, t)
        BY <1>6, <2>6
    <2> QED BY <2>1, <2>6, <2>7 DEF Addressed
<1>10. \A i \in OrderId : Indexed(i)'
    BY <1>2, <1>3, <1>9, IndexedStays
<1>11. ASSUME NEW d \in OrderId PROVE Progress(d)'
    <2>1. CASE reply'[d] = reply[d]
        BY <1>2, <1>3, <2>1, OthersStay
    <2>2. CASE Truthful(d, reply'[d]) /\ Addressed(d, t)
        <3>1. pc[d] # "new" /\ Truthful(d, answer'[d]) /\ Progress(d)
            BY <1>2, <2>2 DEF Addressed, EngineInv, Progress
        <3>2. /\ ask'[d] # NoAsk /\ known'[d] \subseteq Told'
              /\ Truthful(d, reply[d])' /\ Truthful(d, answer[d])'
            BY <1>3, <2>2, <3>1, ProgressStays
        <3> QED BY <1>2, <3>1, <3>2 DEF Progress
    <2> QED BY <1>6, <2>1, <2>2
<1>12. phase' = "down" => loop' = <<>>
    BY <1>2 DEF EngineInv
<1> QED BY <1>3, <1>7, <1>8, <1>10, <1>11, <1>12 DEF EngineInv

-----------------------------------------------------------------------------
(* Steps of the actors' ends and of the tick loop leave the calls alone.   *)
CallsRest == UNCHANGED <<tables, seeds, orderIx, ask, pc, reply, answer, known>>

(* Such a step preserves the invariant if it keeps who has the books.      *)
LEMMA CallsRestStay ==
    ASSUME EngineInv, CallsRest, phase # "down", phase' # "down",
           phase' = phase \/ phase' = "stopping",
           inbox' \in [Token -> Seq(Message)], Spawns \/ UNCHANGED mem,
           actors' \in [Token -> {"none", "running", "stopped"}],
           \A t \in Token : Agrees(t)',
           \A t \in Token, d \in OrderId : Waits(d, t)' => Waits(d, t),
           loop' \in Seq([token: Token, seq: Nat]), phase' \in {"running", "stopping", "down"}
    PROVE  EngineInv'
<1>1. Keeps
    BY DEF Keeps, CallsRest, tables
<1>2. Owned(mem)' /\ Owned(rows)' /\ Owned(seeds)' /\ AreBooks(mem')
    <2>1. Owned(rows)' /\ Owned(seeds)'
        BY DEF EngineInv, Owned, CallsRest, tables
    <2>2. CASE Spawns
        BY <2>1, <2>2 DEF EngineInv, Owned, CallsRest, Spawns, tables
    <2>3. CASE UNCHANGED mem
        BY <2>1, <2>3 DEF EngineInv, Owned, CallsRest, Shape, AreBooks, tables
    <2> QED BY <2>2, <2>3
<1>3. Shape'
    BY <1>2 DEF EngineInv, Shape, AreBooks, CallsRest, tables
<1>4. Mail'
    <2> SUFFICES ASSUME NEW u \in Token, NEW d \in OrderId, Waits(d, u)'
                 PROVE  Addressed(d, u)'
        BY DEF Mail
    <2>1. Addressed(d, u)
        BY DEF EngineInv, Mail
    <2> QED BY <1>1, <2>1, MailStays DEF CallsRest, Addressed, tables
<1>5. \A i \in OrderId : i \in Heard' => i \in Heard
    <2>1. UNCHANGED <<rows, pc, answer>>
        BY DEF CallsRest, tables
    <2>2. CASE UNCHANGED mem
        BY <2>1, <2>2 DEF Heard
    <2>3. CASE Spawns
        BY <2>1, <2>3 DEF Heard, Spawns
    <2> QED BY <2>2, <2>3
<1>6. \A i \in OrderId : Indexed(i)'
    BY <1>1, <1>5, IndexedStays DEF CallsRest, tables
<1>7. \A i \in OrderId : Progress(i)'
    <2> SUFFICES ASSUME NEW d \in OrderId PROVE Progress(d)'
        OBVIOUS
    <2>1. Told' = Told /\ \A i \in OrderId : PlacedAs(i)' = PlacedAs(i)
        BY DEF CallsRest, Told, PlacedAs, tables
    <2>2. known[d] \subseteq OrderId
        BY DEF EngineInv, Shape
    <2> QED BY <2>1, <2>2 DEF CallsRest, EngineInv, Progress, Truthful, ShownIn, tables
<1> QED BY <1>2, <1>3, <1>4, <1>6, <1>7 DEF EngineInv

(* An actor that stops preserves the invariant.                            *)
LEMMA ActorStopsStays ==
    ASSUME EngineInv, NEW t \in Token, ActorStops(t)
    PROVE  EngineInv'
<1>1. /\ phase = "stopping" /\ actors[t] = "running"
      /\ actors' = [actors EXCEPT ![t] = "stopped"]
      /\ UNCHANGED <<phase, inbox, mem, rows, refused, seeds, loop>> /\ CallsRest
    BY DEF ActorStops, callVars, feedVars, CallsRest, tables
<1>2. actors' \in [Token -> {"none", "running", "stopped"}]
    BY <1>1 DEF EngineInv, Shape
<1>3. \A u \in Token : Agrees(u)'
    BY <1>1 DEF EngineInv, Shape, Agrees
<1>4. /\ inbox' \in [Token -> Seq(Message)] /\ loop' \in Seq([token: Token, seq: Nat])
      /\ \A u \in Token, d \in OrderId : Waits(d, u)' => Waits(d, u)
    BY <1>1 DEF EngineInv, Shape, Waits
<1> QED BY <1>1, <1>2, <1>3, <1>4, CallsRestStay

(* A shutdown that begins preserves the invariant.                         *)
LEMMA ShutdownStays ==
    ASSUME EngineInv, Shutdown
    PROVE  EngineInv'
<1>1. /\ phase = "running" /\ phase' = "stopping"
      /\ UNCHANGED <<actors, inbox, mem, rows, refused, seeds, loop>> /\ CallsRest
    BY DEF Shutdown, callVars, feedVars, actorVars, CallsRest, tables
<1>2. \A u \in Token : Agrees(u)'
    BY <1>1 DEF EngineInv, Shape, Agrees
<1>3. /\ inbox' \in [Token -> Seq(Message)] /\ loop' \in Seq([token: Token, seq: Nat])
      /\ actors' \in [Token -> {"none", "running", "stopped"}]
      /\ \A u \in Token, d \in OrderId : Waits(d, u)' => Waits(d, u)
    BY <1>1 DEF EngineInv, Shape, Waits
<1> QED BY <1>1, <1>2, <1>3, CallsRestStay

(* A tick that arrives preserves the invariant.                            *)
LEMMA TakeTickStays ==
    ASSUME EngineInv, NEW t \in Token, TakeTick(t)
    PROVE  EngineInv'
<1>1. /\ phase = "running" /\ Actor(t) /\ UNCHANGED <<phase, inbox, rows, refused, seeds>> /\ CallsRest
      /\ loop' = <<[token |-> t, seq |-> next[t]]>> /\ next[t] \in DOMAIN Stream[t]
    BY DEF TakeTick, callVars, CallsRest, tables
<1>2. Spawns
    BY <1>1, SpawnsIs
<1>3. Keeps
    BY <1>1 DEF CallsRest, Keeps, tables
<1>4. \A u \in Token : Agrees(u)'
    BY <1>1, <1>2, <1>3, SpawnsAgrees
<1>5. loop' \in Seq([token: Token, seq: Nat])
    <2>1. Stream[t] \in Seq(Nat)
        BY EngineAssumption
    <2>2. next[t] \in Nat
        BY <1>1, <2>1
    <2> QED BY <1>1, <2>2
<1>6. /\ inbox' \in [Token -> Seq(Message)]
      /\ actors' \in [Token -> {"none", "running", "stopped"}]
      /\ \A u \in Token, d \in OrderId : Waits(d, u)' => Waits(d, u)
    BY <1>1, <1>2 DEF EngineInv, Shape, Waits, Spawns
<1> QED BY <1>1, <1>2, <1>4, <1>5, <1>6, CallsRestStay DEF EngineInv, Shape

(* A tick that is delivered preserves the invariant.                       *)
LEMMA DeliverTickStays ==
    ASSUME EngineInv, DeliverTick
    PROVE  EngineInv'
<1> DEFINE t == loop[1].token
           message == FromFeed(loop[1].seq)
<1>1. /\ loop # <<>> /\ Enqueue(t, message) /\ loop' = <<>>
      /\ UNCHANGED <<phase, actors, mem, rows, refused, seeds>> /\ CallsRest
    BY DEF DeliverTick, callVars, CallsRest, tables
<1>2. loop \in Seq([token: Token, seq: Nat])
    BY DEF EngineInv, Shape
<1>3. loop[1] \in [token: Token, seq: Nat]
    <2> DEFINE Ticks == [token: Token, seq: Nat]
    <2> HIDE DEF Ticks
    <2>1. loop \in Seq(Ticks) /\ loop # <<>>
        BY <1>1, <1>2 DEF Ticks
    <2>2. loop[1] \in Ticks
        BY <2>1
    <2> QED BY <2>2 DEF Ticks
<1>4. t \in Token /\ message \in Message /\ message.call = NoId
    BY <1>3 DEF FromFeed, Message
<1> HIDE DEF t, message
<1>5. /\ inbox' \in [Token -> Seq(Message)]
      /\ \A u \in Token, d \in OrderId :
            Waits(d, u)' => Waits(d, u) \/ (u = t /\ d = message.call)
    BY <1>1, <1>4, Enqueued
<1>6. phase # "down"
    BY <1>1 DEF EngineInv
<1>7. \A u \in Token : Agrees(u)'
    BY <1>1, <1>6 DEF EngineInv, Agrees
<1>8. NoId \notin OrderId
    BY NoIdAssumption
<1>9. /\ loop' \in Seq([token: Token, seq: Nat])
      /\ actors' \in [Token -> {"none", "running", "stopped"}]
      /\ \A u \in Token, d \in OrderId : Waits(d, u)' => Waits(d, u)
    BY <1>1, <1>4, <1>5, <1>8 DEF EngineInv, Shape
<1> QED BY <1>1, <1>5, <1>6, <1>7, <1>9, CallsRestStay DEF EngineInv, Shape

(* A tick that is given up preserves the invariant.                        *)
LEMMA LoopGivesUpStays ==
    ASSUME EngineInv, LoopGivesUp
    PROVE  EngineInv'
<1>1. /\ phase = "stopping" /\ loop' = <<>>
      /\ UNCHANGED <<phase, inbox, actors, mem, rows, refused, seeds>> /\ CallsRest
    BY DEF LoopGivesUp, actorVars, callVars, CallsRest, tables
<1>2. \A u \in Token : Agrees(u)'
    BY <1>1 DEF EngineInv, Agrees
<1>3. /\ inbox' \in [Token -> Seq(Message)] /\ loop' \in Seq([token: Token, seq: Nat])
      /\ actors' \in [Token -> {"none", "running", "stopped"}]
      /\ \A u \in Token, d \in OrderId : Waits(d, u)' => Waits(d, u)
    BY <1>1 DEF EngineInv, Shape, Waits
<1> QED BY <1>1, <1>2, <1>3, CallsRestStay DEF EngineInv, Shape

-----------------------------------------------------------------------------
(* Nobody was told anything by losing what was in memory.                  *)
LEMMA LoseMemoryKeeps ==
    ASSUME EngineInv, LoseMemory
    PROVE  /\ Keeps
           /\ \A c \in OrderId :
                 /\ pc'[c] = IF pc[c] = "new" THEN "new" ELSE "done"
                 /\ answer'[c] = answer[c]
                    \/ (pc[c] # "new" /\ answer'[c].outcome = "lost")
                 /\ reply'[c] = NoAnswer
<1>1. /\ pc' = [c \in OrderId |-> IF pc[c] = "new" THEN "new" ELSE "done"]
      /\ answer' = [c \in OrderId |-> IF pc[c] \in {"new", "done"} THEN answer[c]
                                      ELSE Answer("lost", {})]
      /\ reply' = [c \in OrderId |-> NoAnswer]
      /\ UNCHANGED <<rows, refused, ask, known>>
    BY DEF LoseMemory, tables
<1>2. Answer("lost", {}).outcome = "lost"
    BY DEF Answer
<1>3. \A c \in OrderId :
         /\ pc'[c] = IF pc[c] = "new" THEN "new" ELSE "done"
         /\ answer'[c] = IF pc[c] \in {"new", "done"} THEN answer[c] ELSE Answer("lost", {})
         /\ reply'[c] = NoAnswer
    BY <1>1
<1>4. Keeps
    BY <1>1, <1>3 DEF Keeps
<1> QED BY <1>2, <1>3, <1>4

(* A kill, or the end of main, preserves the invariant.                    *)
LEMMA LoseMemoryStays ==
    ASSUME EngineInv, LoseMemory
    PROVE  EngineInv'
<1>1. /\ phase' = "down" /\ actors' = [t \in Token |-> "none"]
      /\ inbox' = [t \in Token |-> <<>>] /\ mem' = [t \in Token |-> NothingYet]
      /\ seeds' = mem' /\ orderIx' = [i \in OrderId |-> NoToken] /\ loop' = <<>>
      /\ pc' = [c \in OrderId |-> IF pc[c] = "new" THEN "new" ELSE "done"]
      /\ reply' = [c \in OrderId |-> NoAnswer]
      /\ answer' = [c \in OrderId |-> IF pc[c] \in {"new", "done"} THEN answer[c]
                                      ELSE Answer("lost", {})]
      /\ UNCHANGED <<rows, refused, ask, known>>
    BY DEF LoseMemory, tables
<1>2. /\ Keeps
      /\ \A c \in OrderId :
            /\ pc'[c] = IF pc[c] = "new" THEN "new" ELSE "done"
            /\ answer'[c] = answer[c]
               \/ (pc[c] # "new" /\ answer'[c].outcome = "lost")
            /\ reply'[c] = NoAnswer
    BY LoseMemoryKeeps
<1>3. IsBook(NothingYet) /\ \A i \in OrderId : NothingYet.orders[i] = "none"
    BY DEF NothingYet, IsBook, OrderStatus
<1>4. /\ AreBooks(mem') /\ AreBooks(seeds')
      /\ \A t \in Token, i \in OrderId : mem'[t].orders[i] = "none" /\ seeds'[t].orders[i] = "none"
    BY <1>1, <1>3 DEF AreBooks
<1>5. Owned(mem)' /\ Owned(rows)' /\ Owned(seeds)'
    BY <1>1, <1>4 DEF EngineInv, Owned
<1>6. Shape'
    <2>1. pc' \in [OrderId -> {"new", "sending", "waiting", "indexing", "done"}]
        BY <1>1
    <2>2. inbox' \in [Token -> Seq(Message)] /\ actors' \in [Token -> {"none", "running", "stopped"}]
        BY <1>1
    <2>3. orderIx' \in [OrderId -> Token \cup {NoToken}]
        BY <1>1
    <2>4. reply' = [c \in OrderId |-> reply'[c]] /\ answer' = [c \in OrderId |-> answer'[c]]
        BY <1>1
    <2> QED BY <1>1, <1>4, <2>1, <2>2, <2>3, <2>4 DEF EngineInv, Shape, AreBooks
<1>7. \A t \in Token : Agrees(t)'
    BY <1>1 DEF Agrees
<1>8. Mail'
    BY <1>1 DEF Mail, Waits
<1>9. \A i \in OrderId : Indexed(i)'
    BY <1>1 DEF Indexed
<1>10. ASSUME NEW c \in OrderId PROVE Progress(c)'
    <2>1. NoAnswer.outcome = ""
        BY DEF NoAnswer, Answer
    <2>2. Progress(c)
        BY DEF EngineInv
    <2>3. Truthful(c, NoAnswer)
        BY <2>1 DEF Truthful
    <2>4. CASE pc[c] = "new"
        <3>1. /\ ask[c] = NoAsk /\ answer[c] = NoAnswer /\ known[c] \subseteq Told
            BY <2>2, <2>4 DEF Progress
        <3>2. known'[c] \subseteq Told'
            BY <1>1, <1>2, <1>5, <3>1, ToldStays
        <3>3. Truthful(c, reply[c])' /\ Truthful(c, answer[c])'
            BY <1>2, <2>1, <2>4, <3>1 DEF Truthful
        <3> QED BY <1>1, <1>2, <2>4, <3>1, <3>2, <3>3 DEF Progress
    <2>5. CASE pc[c] # "new"
        <3>1. Truthful(c, reply'[c])
            BY <1>2, <2>3
        <3>2. Truthful(c, answer'[c])
            <4>1. CASE answer'[c] = answer[c]
                BY <2>2, <4>1 DEF Progress
            <4>2. CASE answer'[c].outcome = "lost"
                BY <4>2 DEF Truthful
            <4> QED BY <1>2, <4>1, <4>2
        <3>3. /\ ask'[c] # NoAsk /\ known'[c] \subseteq Told'
              /\ Truthful(c, reply[c])' /\ Truthful(c, answer[c])'
            BY <1>2, <1>5, <2>5, <3>1, <3>2, ProgressStays
        <3> QED BY <1>1, <1>2, <2>5, <3>3 DEF Progress
    <2> QED BY <2>4, <2>5
<1> QED BY <1>1, <1>5, <1>6, <1>7, <1>8, <1>9, <1>10 DEF EngineInv

(* A restart preserves the invariant: the rows say what there is to index. *)
LEMMA RestartStays ==
    ASSUME EngineInv, Restart
    PROVE  EngineInv'
<1>1. /\ phase = "down" /\ phase' = "running" /\ seeds' = rows /\ orderIx' = SeededIndex
      /\ UNCHANGED <<actors, inbox, mem, rows, refused, ask, pc, reply, answer, known, loop>>
    BY DEF Restart, actorVars, callVars, tables
<1>2. Keeps
    BY <1>1 DEF Keeps
<1>3. \A i \in OrderId :
         /\ orderIx'[i] # NoToken => orderIx'[i] \in PlacedAs(i)
         /\ PlacedAs(i) # {} => orderIx'[i] # NoToken
         /\ orderIx'[i] \in Token \cup {NoToken}
    <2> SUFFICES ASSUME NEW i \in OrderId
                 PROVE  /\ orderIx'[i] # NoToken => orderIx'[i] \in PlacedAs(i)
                        /\ PlacedAs(i) # {} => orderIx'[i] # NoToken
                        /\ orderIx'[i] \in Token \cup {NoToken}
        OBVIOUS
    <2>1. orderIx'[i] = IF PlacedAs(i) = {} THEN NoToken ELSE CHOOSE t \in Token : t \in PlacedAs(i)
        BY <1>1 DEF SeededIndex
    <2>2. \A t \in PlacedAs(i) : t \in Token
        BY DEF PlacedAs
    <2> QED BY <2>1, <2>2, EngineAssumption
<1>4. Owned(mem)' /\ Owned(rows)' /\ Owned(seeds)'
    BY <1>1 DEF EngineInv, Owned
<1>5. Shape'
    <2>1. orderIx' = [i \in OrderId |-> orderIx'[i]]
        BY <1>1 DEF SeededIndex
    <2>2. orderIx' \in [OrderId -> Token \cup {NoToken}]
        BY <1>3, <2>1
    <2> QED BY <1>1, <2>2 DEF EngineInv, Shape, AreBooks
<1>6. \A t \in Token : Agrees(t)'
    BY <1>1 DEF EngineInv, Agrees
<1>7. \A i \in OrderId : PlacedAs(i)' = PlacedAs(i)
    BY <1>1 DEF PlacedAs
<1>8. Told' = Told
    BY <1>1, <1>7 DEF Told
<1>9. Mail'
    <2>1. \A t \in Token : inbox'[t] = <<>>
        BY <1>1 DEF EngineInv, Agrees
    <2> QED BY <2>1 DEF Mail, Waits
<1>10. \A i \in OrderId : Indexed(i)'
    <2> SUFFICES ASSUME NEW i \in OrderId PROVE Indexed(i)'
        OBVIOUS
    <2>1. orderIx'[i] # NoToken => ask[i].kind = "place" /\ ask[i].token = orderIx'[i]
        BY <1>3 DEF PlacedAs, EngineInv, Owned
    <2>2. \A t \in Token : mem[t].orders[i] = "none"
        BY <1>1 DEF EngineInv, Agrees, NothingYet
    <2>3. i \in Heard' => orderIx'[i] # NoToken
        BY <1>1, <1>3, <2>2 DEF Heard, PlacedAs
    <2> QED BY <1>1, <2>1, <2>3 DEF Indexed
<1>11. ASSUME NEW c \in OrderId PROVE Progress(c)'
    <2>1. Progress(c) /\ known[c] \subseteq OrderId
        BY DEF EngineInv, Shape
    <2> QED BY <1>1, <1>7, <1>8, <2>1 DEF Progress, Truthful, ShownIn
<1> QED BY <1>1, <1>4, <1>5, <1>6, <1>9, <1>10, <1>11 DEF EngineInv

-----------------------------------------------------------------------------
(* At the start nothing was asked and nothing is held.                     *)
LEMMA InitHolds == Init => EngineInv
<1> SUFFICES ASSUME Init PROVE EngineInv
    OBVIOUS
<1>1. /\ phase = "running" /\ actors = [t \in Token |-> "none"]
      /\ inbox = [t \in Token |-> <<>>]
      /\ mem = [t \in Token |-> NothingYet] /\ rows = mem /\ seeds = mem
      /\ refused = 0 /\ orderIx = [i \in OrderId |-> NoToken]
      /\ ask = [c \in OrderId |-> NoAsk] /\ pc = [c \in OrderId |-> "new"]
      /\ reply = [c \in OrderId |-> NoAnswer] /\ answer = reply
      /\ loop = <<>> /\ known = [c \in OrderId |-> {}]
    BY DEF Init
<1>2. IsBook(NothingYet) /\ \A i \in OrderId : NothingYet.orders[i] = "none"
    BY DEF NothingYet, IsBook, OrderStatus
<1>3. AreBooks(mem) /\ \A t \in Token, i \in OrderId : mem[t].orders[i] = "none"
    BY <1>1, <1>2 DEF AreBooks
<1>4. Shape
    <2>1. /\ actors \in [Token -> {"none", "running", "stopped"}]
          /\ inbox \in [Token -> Seq(Message)]
          /\ orderIx \in [OrderId -> Token \cup {NoToken}]
          /\ known \in [OrderId -> SUBSET OrderId]
          /\ pc \in [OrderId -> {"new", "sending", "waiting", "indexing", "done"}]
        BY <1>1
    <2>2. /\ ask = [c \in OrderId |-> ask[c]]
          /\ \A c \in OrderId : ask[c] \in Asks[c] \cup {NoAsk}
          /\ reply = [c \in OrderId |-> reply[c]] /\ answer = [c \in OrderId |-> answer[c]]
        BY <1>1
    <2> QED BY <1>1, <1>3, <2>1, <2>2 DEF Shape
<1>5. Owned(mem) /\ Owned(rows) /\ Owned(seeds)
    BY <1>1, <1>3 DEF Owned
<1>6. \A t \in Token : Agrees(t)
    BY <1>1 DEF Agrees
<1>7. Mail
    BY <1>1 DEF Mail, Waits
<1>8. \A i \in OrderId : Indexed(i)
    BY <1>1 DEF Indexed, Heard
<1>9. ASSUME NEW c \in OrderId PROVE Progress(c)
    <2>1. NoAnswer.outcome = ""
        BY DEF NoAnswer, Answer
    <2> QED BY <1>1, <2>1 DEF Progress, Truthful
<1> QED BY <1>1, <1>4, <1>5, <1>6, <1>7, <1>8, <1>9 DEF EngineInv

(* Every step preserves the invariant.                                     *)
LEMMA NextPreserves == EngineInv /\ [Next]_vars => EngineInv'
<1> SUFFICES ASSUME EngineInv, [Next]_vars PROVE EngineInv'
    OBVIOUS
<1>1. ASSUME NEW c \in OrderId, NEW a \in Asks[c],
             PlaceOrderHandler(c, a) \/ CancelOrderHandler(c, a) \/ GetPositionHandler(c, a)
      PROVE  EngineInv'
    BY <1>1, BeginStays
<1>2. ASSUME NEW c \in OrderId, CallStep(c) \/ Abandon(c)
      PROVE  EngineInv'
    BY <1>2, SendStays, ReceiveStays, IndexOrderStays, GivesUpStays
       DEF CallStep, CallStopped, Abandon
<1>3. ASSUME NEW t \in Token, ActorStep(t) \/ TakeTick(t)
      PROVE  EngineInv'
    BY <1>3, HandleStays, ActorStopsStays, TakeTickStays DEF ActorStep
<1>4. CASE LoopStep
    BY <1>4, DeliverTickStays, LoopGivesUpStays DEF LoopStep
<1>5. CASE Crash \/ Exit
    BY <1>5, LoseMemoryStays DEF Crash, Exit, tables
<1>6. CASE Shutdown
    BY <1>6, ShutdownStays
<1>7. CASE Restart
    BY <1>7, RestartStays
<1>8. CASE UNCHANGED vars
    <2>1. UNCHANGED <<phase, actors, inbox, mem, rows, refused, seeds, loop>> /\ CallsRest
        BY <1>8 DEF vars, actorVars, callVars, feedVars, CallsRest, tables
    <2>2. Told' = Told /\ \A i \in OrderId : PlacedAs(i)' = PlacedAs(i)
        BY <2>1 DEF CallsRest, Told, PlacedAs, tables
    <2>3. Shape'
        BY <2>1 DEF CallsRest, EngineInv, Shape, AreBooks, tables
    <2>4. Mail'
        BY <2>1 DEF CallsRest, EngineInv, Mail, Waits, Addressed, tables
    <2>5. /\ Owned(mem)' /\ Owned(rows)' /\ Owned(seeds)'
          /\ \A t \in Token : Agrees(t)'
        BY <2>1 DEF CallsRest, EngineInv, Owned, Agrees, tables
    <2>6. \A i \in OrderId : Indexed(i)'
        <3>1. Heard' = Heard
            BY <2>1 DEF CallsRest, Heard, tables
        <3> QED BY <2>1, <3>1 DEF CallsRest, EngineInv, Indexed, tables
    <2>7. ASSUME NEW c \in OrderId PROVE Progress(c)'
        <3>1. Progress(c) /\ known[c] \subseteq OrderId
            BY DEF EngineInv, Shape
        <3> QED BY <2>1, <2>2, <3>1 DEF CallsRest, Progress, Truthful, ShownIn, tables
    <2> QED BY <2>1, <2>3, <2>4, <2>5, <2>6, <2>7 DEF EngineInv
<1> QED BY <1>1, <1>2, <1>3, <1>4, <1>5, <1>6, <1>7, <1>8 DEF Next

(* What every reachable state satisfies.                                   *)
LEMMA AlwaysEngineInv == Spec => []EngineInv
BY InitHolds, NextPreserves, PTL DEF Spec

(* No cancel is told not_found of an order whose placement was answered    *)
(* and stored before it came in, whatever was killed, restarted or refused *)
(* between them (CancelOrderHandler, NewPersistentRegistry).               *)
THEOREM NotFoundAlwaysTrue == Spec => []NotFoundIsTrue
<1>1. EngineInv => NotFoundIsTrue
    BY DEF EngineInv, Progress, Truthful, NotFoundIsTrue
<1> QED BY <1>1, AlwaysEngineInv, PTL

(* No position that an actor reports lacks an order of the instrument that *)
(* was answered and stored before the question (Snapshot, Registry.Actor). *)
THEOREM ReadsAlwaysCurrent == Spec => []ReadsAreCurrent
<1>1. EngineInv => ReadsAreCurrent
    BY DEF EngineInv, Progress, Truthful, ShownIn, Shown, ReadsAreCurrent
<1> QED BY <1>1, AlwaysEngineInv, PTL

-----------------------------------------------------------------------------
(* Function g is the recursion over subsets of an order's places that adds *)
(* up the fills of one tick.                                               *)
AddsUp(g, order, price, pos, n) ==
    g = [s \in SUBSET (1 .. n) |->
            IF s = {} THEN pos
            ELSE ApplyFill(g[s \ {Max(s)}], SignedQty(ask[order[Max(s)]].body), price)]

(* A position after fills is the value of some such function.              *)
LEMMA PosAfterIsRecursion ==
    ASSUME NEW pos, NEW order, NEW price, NEW n, DOMAIN order = 1 .. n
    PROVE  PosAfter(pos, order, price)
              = (CHOOSE g : AddsUp(g, order, price, pos, n))[1 .. n]
BY DEF PosAfter, FoldLeft, MapThenFoldSet, AddsUp

(* The last place of a prefix is its greatest.                             *)
LEMMA LastPlace ==
    ASSUME NEW n \in Nat, NEW s \in SUBSET (1 .. n), n \in s
    PROVE  Max(s) = n
<1>1. \A y \in s : y \in 1 .. n
    OBVIOUS
<1>2. n \in s /\ \A y \in s : n >= y
    BY <1>1
<1>3. Max(s) \in s /\ \A y \in s : Max(s) >= y
    BY <1>2 DEF Max
<1>4. Max(s) \in 1 .. n /\ n >= Max(s) /\ Max(s) >= n
    BY <1>1, <1>2, <1>3
<1> QED BY <1>4

(* And every set of places has a greatest.                                 *)
LEMMA GreatestPlace ==
    ASSUME NEW m \in Nat, NEW S \in SUBSET (1 .. m), S # {}
    PROVE  Max(S) \in S
<1> DEFINE q == {n \in 0 .. m : \A s \in SUBSET (1 .. n) : s # {} => Max(s) \in s}
<1>1. 0 \in q
    <2>1. 1 .. 0 = {} /\ 0 \in 0 .. m
        OBVIOUS
    <2>2. \A s \in SUBSET (1 .. 0) : s = {}
        BY <2>1
    <2> QED BY <2>1, <2>2
<1>2. ASSUME NEW n \in 1 .. m, n - 1 \in q
      PROVE  n \in q
    <2>1. ASSUME NEW s \in SUBSET (1 .. n), s # {} PROVE Max(s) \in s
        <3>1. CASE n \in s
            BY <3>1, LastPlace
        <3>2. CASE n \notin s
            <4>1. s \in SUBSET (1 .. (n - 1))
                BY <3>2
            <4> QED BY <1>2, <2>1, <4>1
        <3> QED BY <3>1, <3>2
    <2> QED BY <2>1
<1> HIDE DEF q
<1>3. m \in q
    BY <1>1, <1>2, UpTo
<1> QED BY <1>3 DEF q

(* There is a recursion over the places up to each.                        *)
LEMMA AddingUpExists ==
    ASSUME NEW pos, NEW order, NEW price, NEW m \in Nat
    PROVE  \E g : AddsUp(g, order, price, pos, m)
<1> DEFINE q == {n \in 0 .. m : \E g : AddsUp(g, order, price, pos, n)}
<1>1. 0 \in q
    <2> DEFINE g == [s \in SUBSET (1 .. 0) |-> pos]
    <2>1. SUBSET (1 .. 0) = {{}}
        OBVIOUS
    <2>2. g = [s \in SUBSET (1 .. 0) |->
                  IF s = {} THEN pos
                  ELSE ApplyFill(g[s \ {Max(s)}], SignedQty(ask[order[Max(s)]].body), price)]
        BY <2>1
    <2>3. AddsUp(g, order, price, pos, 0)
        BY <2>2 DEF AddsUp
    <2> QED BY <2>3
<1>2. ASSUME NEW n \in 1 .. m, n - 1 \in q
      PROVE  n \in q
    <2>1. n \in Nat /\ n - 1 \in Nat
        OBVIOUS
    <2>3. PICK h : AddsUp(h, order, price, pos, n - 1)
        BY <1>2
    <2> DEFINE delta(s) == SignedQty(ask[order[Max(s)]].body)
               g == [s \in SUBSET (1 .. n) |->
                        IF n \in s THEN ApplyFill(h[s \ {n}], delta(s), price) ELSE h[s]]
    <2> HIDE DEF delta
    <2>4. \A s \in SUBSET (1 .. n) : n \notin s => s \in SUBSET (1 .. (n - 1))
        BY <2>1
    <2>5. ASSUME NEW s \in SUBSET (1 .. n)
          PROVE  g[s] = IF s = {} THEN pos ELSE ApplyFill(g[s \ {Max(s)}], delta(s), price)
        <3>1. CASE n \in s
            <4>1. Max(s) = n
                BY <2>1, <3>1, LastPlace
            <4>2. g[s \ {n}] = h[s \ {n}] /\ s # {}
                BY <3>1
            <4>3. g[s] = ApplyFill(h[s \ {n}], delta(s), price)
                BY <3>1
            <4> HIDE DEF g
            <4> QED BY <4>1, <4>2, <4>3
        <3>2. CASE n \notin s
            <4>1. s \in SUBSET (1 .. (n - 1)) /\ g[s] = h[s]
                BY <2>4, <3>2
            <4>2. s \ {Max(s)} \in SUBSET (1 .. n) /\ n \notin s \ {Max(s)}
                BY <3>2
            <4>3. g[s \ {Max(s)}] = h[s \ {Max(s)}]
                BY <4>2
            <4>4. h[s] = IF s = {} THEN pos ELSE ApplyFill(h[s \ {Max(s)}], delta(s), price)
                BY <2>3, <4>1 DEF AddsUp, delta
            <4> HIDE DEF g
            <4> QED BY <4>1, <4>3, <4>4
        <3> QED BY <3>1, <3>2
    <2>6. g = [s \in SUBSET (1 .. n) |-> g[s]]
        OBVIOUS
    <2> HIDE DEF g
    <2>7. AddsUp(g, order, price, pos, n)
        BY <2>5, <2>6 DEF AddsUp, delta
    <2> QED BY <2>7
<1> HIDE DEF q
<1>3. m \in q
    BY <1>1, <1>2, UpTo
<1> QED BY <1>3 DEF q

(* Positions h are those on the way through the fills of a tick.           *)
OneByOne(h, pos, order, price, n) ==
    /\ h[0] = pos /\ h[n] = PosAfter(pos, order, price)
    /\ \A k \in 1 .. n : h[k] = ApplyFill(h[k - 1], SignedQty(ask[order[k]].body), price)

(* There are such positions.                                               *)
LEMMA FillsOneByOne ==
    ASSUME NEW pos, NEW order, NEW price, NEW n \in Nat, DOMAIN order = 1 .. n
    PROVE  \E h : OneByOne(h, pos, order, price, n)
<1> DEFINE g == CHOOSE g : AddsUp(g, order, price, pos, n)
<1>1. AddsUp(g, order, price, pos, n)
    BY AddingUpExists
<1>2. PosAfter(pos, order, price) = g[1 .. n]
    BY PosAfterIsRecursion
<1> HIDE DEF g
<1> DEFINE h == [k \in 0 .. n |-> g[1 .. k]]
<1>3. h[0] = pos
    <2>1. 1 .. 0 = {}
        OBVIOUS
    <2>2. g[{}] = pos
        BY <1>1 DEF AddsUp
    <2> QED BY <2>1, <2>2
<1>4. h[n] = PosAfter(pos, order, price)
    BY <1>2
<1>5. ASSUME NEW k \in 1 .. n
      PROVE  h[k] = ApplyFill(h[k - 1], SignedQty(ask[order[k]].body), price)
    <2> DEFINE s == 1 .. k
    <2>1. s \in SUBSET (1 .. n) /\ s # {} /\ k \in s /\ k \in Nat /\ s \in SUBSET (1 .. k)
        OBVIOUS
    <2>2. s \ {k} = 1 .. (k - 1) /\ k - 1 \in 0 .. n /\ k \in 0 .. n
        OBVIOUS
    <2>3. h[k] = g[s] /\ h[k - 1] = g[s \ {k}]
        BY <2>2
    <2> HIDE DEF s, h
    <2>4. Max(s) = k
        BY <2>1, LastPlace
    <2>5. g[s] = ApplyFill(g[s \ {Max(s)}], SignedQty(ask[order[Max(s)]].body), price)
        BY <1>1, <2>1 DEF AddsUp
    <2> QED BY <2>3, <2>4, <2>5
<1> HIDE DEF h
<1> QED BY <1>3, <1>4, <1>5 DEF OneByOne

-----------------------------------------------------------------------------
(* A message of the feed is a tick of its instrument's stream.             *)
Streamed(t) ==
    \A n \in 1 .. Len(inbox[t]) : inbox[t][n].call = NoId => inbox[t][n].seq \in DOMAIN Stream[t]

(* A book has a position, and as many orders as there were calls for them. *)
Taken(s) == {i \in OrderId : s.orders[i] # "none"}
Sound(s) == s.pos \in Position /\ IsFiniteSet(Taken(s))

(* The parts of the type invariant that EngineInv leaves open.             *)
Held == /\ \A t \in Token : Sound(mem[t]) /\ Sound(rows[t]) /\ Sound(seeds[t])
        /\ last \in [Token -> Nat]
        /\ \A t \in Token : last[t] # 0 => last[t] \in DOMAIN Stream[t]

Replied == reply \in [OrderId -> Response] /\ answer \in [OrderId -> Response]

Delivered == \A t \in Token : Len(inbox[t]) <= InboxCap /\ Streamed(t)

Fed == /\ loop # <<>> => Len(loop) = 1 /\ loop[1].seq \in DOMAIN Stream[loop[1].token]
       /\ next \in [Token -> Nat]

Noted == /\ ends \in 0 .. MaxEnds /\ refused <= MaxRefused
         /\ at \in [OrderId -> Nat] /\ since \in [OrderId -> Nat] /\ peak \in [Token -> Nat]

Numbers == Held /\ Replied /\ Delivered /\ Fed /\ Noted

(* The sequence numbers of a stream are numbers, its prices too.           *)
LEMMA TickIs ==
    ASSUME NEW t \in Token, NEW n \in DOMAIN Stream[t]
    PROVE  n \in Nat /\ Stream[t][n] \in Nat
<1>1. Stream[t] \in Seq(Nat)
    BY EngineAssumption
<1> QED BY <1>1

(* What an order adds to a position is a number.                           *)
LEMMA SignedQtyType == ASSUME NEW o \in Order PROVE SignedQty(o) \in Int
<1>1. o.qty \in Nat
    BY DEF Order
<1> QED BY <1>1 DEF SignedQty

(* An order that is in a book was placed with a body.                      *)
LEMMA BodyIs ==
    ASSUME EngineInv, NEW t \in Token, NEW i \in OrderId, mem[t].orders[i] # "none"
    PROVE  /\ ask[i].kind = "place" /\ ask[i].token = t
           /\ ask[i].body \in Order /\ SignedQty(ask[i].body) \in Int
<1>1. ask[i].kind = "place" /\ ask[i].token = t
    BY DEF EngineInv, Owned
<1>2. ask[i] \in Asks[i] \cup {NoAsk}
    BY DEF EngineInv, Shape
<1>3. ask[i].body \in Order
    BY <1>1, <1>2, AskIs
<1> QED BY <1>1, <1>3, SignedQtyType

(* The fills of a tick lead from a position to a position.                 *)
LEMMA PosAfterType ==
    ASSUME NEW pos \in Position, NEW order, NEW price \in Int, NEW n \in Nat,
           DOMAIN order = 1 .. n,
           \A k \in 1 .. n : SignedQty(ask[order[k]].body) \in Int
    PROVE  PosAfter(pos, order, price) \in Position
<1>0. PICK h : OneByOne(h, pos, order, price, n)
    BY FillsOneByOne
<1>1. /\ h[0] = pos /\ h[n] = PosAfter(pos, order, price)
      /\ \A k \in 1 .. n :
            h[k] = ApplyFill(h[k - 1], SignedQty(ask[order[k]].body), price)
    BY <1>0 DEF OneByOne
<1>2. ASSUME NEW k \in 1 .. n, h[k - 1] \in Position
      PROVE  h[k] \in Position
    BY <1>1, <1>2, ApplyFillType
<1>3. PICK q : q = {k \in 0 .. n : h[k] \in Position}
    OBVIOUS
<1>4. 0 \in q /\ \A k \in 1 .. n : k - 1 \in q => k \in q
    BY <1>1, <1>2, <1>3
<1>5. n \in q
    BY <1>4, <1>3, UpTo
<1> QED BY <1>1, <1>3, <1>5

-----------------------------------------------------------------------------
(* An answer is a response.                                                *)
LEMMA AnswerType ==
    ASSUME NEW outcome \in Outcome, NEW shows \in SUBSET OrderId
    PROVE  Answer(outcome, shows) \in Response
BY DEF Answer, Response

(* What is left alone keeps its type.                                      *)
LEMMA LeftAlone ==
    ASSUME Numbers
    PROVE  /\ UNCHANGED <<mem, rows, refused, seeds, last>> => Held'
           /\ UNCHANGED <<reply, answer>> => Replied'
           /\ UNCHANGED inbox => Delivered'
           /\ UNCHANGED <<loop, next>> => Fed'
           /\ UNCHANGED <<ends, refused, at, since, peak>> => Noted'
BY DEF Numbers, Held, Replied, Delivered, Streamed, Fed, Noted

(* An actor found or created has a position.                               *)
LEMMA ActorHolds ==
    ASSUME EngineInv, Held, UNCHANGED <<rows, refused, seeds>>,
           UNCHANGED <<actors, mem, last>> \/ \E t \in Token : Actor(t)
    PROVE  Held'
<1>1. CASE UNCHANGED <<actors, mem, last>>
    BY <1>1 DEF Held
<1>2. CASE \E t \in Token : Actor(t)
    <2>1. PICK t \in Token : Actor(t)
        BY <1>2
    <2>2. CASE FirstSeen(t)
        <3>1. mem' = [mem EXCEPT ![t] = seeds[t]] /\ last' = [last EXCEPT ![t] = 0]
            BY <2>1, <2>2 DEF Actor, Restore
        <3>2. mem = [u \in Token |-> mem[u]]
            BY DEF EngineInv, Shape, AreBooks
        <3>3. \A u \in Token : mem'[u] = IF u = t THEN seeds[t] ELSE mem[u]
            BY <3>1, <3>2
        <3> QED BY <3>1, <3>3 DEF Held
    <2>3. CASE ~FirstSeen(t)
        BY <2>1, <2>3 DEF Actor, Held
    <2> QED BY <2>2, <2>3
<1> QED BY <1>1, <1>2

(* The handlers find or create the actor of an instrument, or none.        *)
LEMMA HandlersFind ==
    ASSUME EngineInv, NEW c \in OrderId, NEW a \in Asks[c],
           PlaceOrderHandler(c, a) \/ CancelOrderHandler(c, a) \/ GetPositionHandler(c, a)
    PROVE  UNCHANGED <<actors, mem, last>> \/ \E t \in Token : Actor(t)
<1>1. a.kind = "place" => a.token \in Token
    BY AskIs
<1>2. a.kind = "cancel" => a.order \in OrderId
    BY AskIs
<1>3. a.kind = "cancel" /\ orderIx[a.order] # NoToken => orderIx[a.order] \in Token
    BY <1>2 DEF EngineInv, Shape
<1> QED BY <1>1, <1>3
        DEF PlaceOrderHandler, CancelOrderHandler, GetPositionHandler, RespondsNow

(* A request keeps the types.                                              *)
LEMMA BeginNumbers ==
    ASSUME EngineInv, Numbers, NEW c \in OrderId, NEW a \in Asks[c],
           PlaceOrderHandler(c, a) \/ CancelOrderHandler(c, a) \/ GetPositionHandler(c, a)
    PROVE  Numbers'
<1>1. UNCHANGED <<inbox, rows, refused, seeds, reply, loop, next, ends, at, since, peak>>
    BY DEF PlaceOrderHandler, CancelOrderHandler, GetPositionHandler, Begin, feedVars, history, tables
<1>2. UNCHANGED <<actors, mem, last>> \/ \E t \in Token : Actor(t)
    BY HandlersFind
<1>3. Replied'
    <2>1. \/ UNCHANGED answer
          \/ answer' = [answer EXCEPT ![c] = Answer("rejected", {})]
          \/ answer' = [answer EXCEPT ![c] = Answer("not_found", {})]
          \/ answer' = [answer EXCEPT ![c] = Answer("no_actor", {})]
        BY DEF PlaceOrderHandler, CancelOrderHandler, GetPositionHandler, Sends,
               RespondsNow, Responds, Flatly
    <2>2. \A outcome \in {"rejected", "not_found", "no_actor"} : Answer(outcome, {}) \in Response
        BY AnswerType DEF Outcome
    <2> QED BY <1>1, <2>1, <2>2 DEF Numbers, Replied
<1>4. Held'
    BY <1>1, <1>2, ActorHolds DEF Numbers
<1> QED BY <1>1, <1>3, <1>4, LeftAlone DEF Numbers

(* A message appended is the last of its inbox, which had room.            *)
LEMMA EnqueueDelivers ==
    ASSUME EngineInv, Delivered, NEW t \in Token, NEW message \in Message,
           message.call = NoId => message.seq \in DOMAIN Stream[t],
           HasRoom(t), Enqueue(t, message)
    PROVE  Delivered'
<1>1. inbox \in [Token -> Seq(Message)]
    BY DEF EngineInv, Shape
<1>2. \A u \in Token : inbox'[u] = IF u = t THEN Append(inbox[t], message) ELSE inbox[u]
    BY <1>1 DEF Enqueue
<1>3. ASSUME NEW u \in Token PROVE Len(inbox'[u]) <= InboxCap /\ Streamed(u)'
    <2>1. CASE u # t
        BY <1>2, <2>1 DEF Delivered, Streamed
    <2>2. CASE u = t
        <3>1. PICK q \in Seq(Message) : q = inbox[t]
            BY <1>1
        <3>2. inbox'[t] = Append(q, message) /\ Len(q) < InboxCap
            BY <1>2, <3>1 DEF HasRoom
        <3>3. /\ Len(Append(q, message)) = Len(q) + 1 /\ Len(q) \in Nat
              /\ \A n \in 1 .. Len(q) + 1 :
                    Append(q, message)[n] = IF n = Len(q) + 1 THEN message ELSE q[n]
            BY <3>1
        <3>4. \A n \in 1 .. Len(q) : q[n].call = NoId => q[n].seq \in DOMAIN Stream[t]
            BY <3>1 DEF Delivered, Streamed
        <3>5. InboxCap \in Nat
            BY EngineAssumption
        <3> QED BY <2>2, <3>2, <3>3, <3>4, <3>5 DEF Streamed
    <2> QED BY <2>1, <2>2
<1> QED BY <1>3 DEF Delivered

(* A message taken leaves those behind it.                                 *)
LEMMA DequeueDelivers ==
    ASSUME EngineInv, Delivered, NEW t \in Token, inbox[t] # <<>>,
           inbox' = [inbox EXCEPT ![t] = Tail(inbox[t])]
    PROVE  Delivered'
<1>1. inbox \in [Token -> Seq(Message)]
    BY DEF EngineInv, Shape
<1>2. \A u \in Token : inbox'[u] = IF u = t THEN Tail(inbox[t]) ELSE inbox[u]
    BY <1>1
<1>3. ASSUME NEW u \in Token PROVE Len(inbox'[u]) <= InboxCap /\ Streamed(u)'
    <2>1. CASE u # t
        BY <1>2, <2>1 DEF Delivered, Streamed
    <2>2. CASE u = t
        <3>1. PICK q \in Seq(Message) : q = inbox[t]
            BY <1>1
        <3>2. inbox'[t] = Tail(q) /\ q # <<>> /\ Len(q) <= InboxCap
            BY <1>2, <3>1 DEF Delivered
        <3>3. /\ Len(Tail(q)) = Len(q) - 1 /\ Len(q) \in Nat
              /\ \A n \in 1 .. Len(q) - 1 : Tail(q)[n] = q[n + 1] /\ n + 1 \in 1 .. Len(q)
            BY <3>1, <3>2
        <3>4. \A n \in 1 .. Len(q) : q[n].call = NoId => q[n].seq \in DOMAIN Stream[t]
            BY <3>1 DEF Delivered, Streamed
        <3>5. InboxCap \in Nat
            BY EngineAssumption
        <3> QED BY <2>2, <3>2, <3>3, <3>4, <3>5 DEF Streamed
    <2> QED BY <2>1, <2>2
<1> QED BY <1>3 DEF Delivered

(* A call's steps keep the types.                                          *)
LEMMA CallNumbers ==
    ASSUME EngineInv, Numbers, NEW c \in OrderId,
           Send(c) \/ Receive(c) \/ IndexOrder(c) \/ GivesUp(c)
    PROVE  Numbers'
<1>1. UNCHANGED <<mem, rows, refused, seeds, last, reply, loop, next, ends, at, since, peak>>
    BY DEF Send, Receive, IndexOrder, GivesUp, actorVars, feedVars, history, tables
<1>2. Replied'
    <2>1. \/ UNCHANGED answer
          \/ answer' = [answer EXCEPT ![c] = reply[c]]
          \/ answer' = [answer EXCEPT ![c] = Answer("error", {})]
        BY DEF Send, Receive, IndexOrder, GivesUp, Responds, tables
    <2>2. reply[c] \in Response /\ Answer("error", {}) \in Response
        BY AnswerType DEF Numbers, Replied, Outcome
    <2> QED BY <1>1, <2>1, <2>2 DEF Numbers, Replied
<1>3. Delivered'
    <2>1. CASE Send(c)
        <3>1. /\ Dest(c) \in Token /\ HasRoom(Dest(c)) /\ Enqueue(Dest(c), FromCall(c))
            BY <2>1, DestIs DEF Send, tables
        <3>2. FromCall(c) \in Message /\ FromCall(c).call # NoId
            BY NoIdAssumption DEF FromCall, Message
        <3> QED BY <3>1, <3>2, EnqueueDelivers DEF Numbers
    <2>2. CASE ~Send(c)
        BY <2>2, LeftAlone DEF Receive, IndexOrder, GivesUp, actorVars, tables
    <2> QED BY <2>1, <2>2
<1> QED BY <1>1, <1>2, <1>3, LeftAlone DEF Numbers

(* The tick loop keeps the types.                                          *)
LEMMA LoopNumbers ==
    ASSUME EngineInv, Numbers, LoopStep \/ \E t \in Token : TakeTick(t)
    PROVE  Numbers'
<1>1. UNCHANGED <<rows, refused, seeds, reply, answer, ends, at, since, peak>>
    BY DEF LoopStep, DeliverTick, LoopGivesUp, TakeTick, callVars, actorVars, history, tables
<1>2. CASE LoopStep
    <2>1. UNCHANGED <<mem, last, next>> /\ loop' = <<>>
        BY <1>2 DEF LoopStep, DeliverTick, LoopGivesUp, actorVars, tables
    <2>2. Delivered'
        <3>1. CASE DeliverTick
            <4>1. /\ loop # <<>> /\ HasRoom(loop[1].token)
                  /\ Enqueue(loop[1].token, FromFeed(loop[1].seq))
                BY <3>1 DEF DeliverTick, tables
            <4>2. loop[1].token \in Token /\ loop[1].seq \in Nat
                <5> DEFINE Ticks == [token: Token, seq: Nat]
                <5>1. loop \in Seq(Ticks)
                    BY DEF EngineInv, Shape
                <5> HIDE DEF Ticks
                <5>2. loop[1] \in Ticks
                    BY <4>1, <5>1
                <5> QED BY <5>2 DEF Ticks
            <4>3. loop[1].seq \in DOMAIN Stream[loop[1].token]
                BY <4>1 DEF Numbers, Fed
            <4>4. FromFeed(loop[1].seq) \in Message /\ FromFeed(loop[1].seq).seq = loop[1].seq
                BY <4>2 DEF FromFeed, Message
            <4> QED BY <4>1, <4>2, <4>3, <4>4, EnqueueDelivers DEF Numbers
        <3>2. CASE LoopGivesUp
            BY <3>2, LeftAlone DEF LoopGivesUp, actorVars, tables
        <3> QED BY <1>2, <3>1, <3>2 DEF LoopStep
    <2>3. Fed'
        BY <2>1 DEF Numbers, Fed
    <2> QED BY <1>1, <2>1, <2>2, <2>3, LeftAlone DEF Numbers
<1>3. CASE \E t \in Token : TakeTick(t)
    <2>1. PICK t \in Token : TakeTick(t)
        BY <1>3
    <2>2. /\ next[t] \in DOMAIN Stream[t] /\ loop' = <<[token |-> t, seq |-> next[t]]>>
          /\ next' = [next EXCEPT ![t] = next[t] + 1] /\ UNCHANGED inbox /\ Actor(t)
        BY <2>1 DEF TakeTick, tables
    <2>3. Fed'
        BY <2>2 DEF Numbers, Fed
    <2>4. Held'
        BY <1>1, <2>2, ActorHolds DEF Numbers
    <2> QED BY <1>1, <2>2, <2>3, <2>4, LeftAlone DEF Numbers
<1> QED BY <1>2, <1>3

(* The end of a process and the start of the next one keep the types.      *)
LEMMA LifeNumbers ==
    ASSUME EngineInv, Numbers, Crash \/ Shutdown \/ Exit \/ Restart
    PROVE  Numbers'
<1>1. ASSUME LoseMemory PROVE Held' /\ Replied' /\ Delivered' /\ Fed'
    <2>1. /\ inbox' = [t \in Token |-> <<>>] /\ loop' = <<>>
          /\ mem' = [t \in Token |-> NothingYet] /\ last' = [t \in Token |-> 0]
          /\ seeds' = mem' /\ UNCHANGED <<rows, refused, next>>
          /\ answer' = [c \in OrderId |-> IF pc[c] \in {"new", "done"} THEN answer[c]
                                          ELSE Answer("lost", {})]
          /\ reply' = [c \in OrderId |-> NoAnswer]
        BY <1>1 DEF LoseMemory, tables
    <2>2. Sound(NothingYet)
        <3>1. NothingYet.pos = Flat /\ Flat \in Position /\ Taken(NothingYet) = {}
            BY DEF NothingYet, Flat, Position, Taken
        <3> QED BY <3>1, FS_EmptySet DEF Sound
    <2>3. Answer("lost", {}) \in Response /\ NoAnswer \in Response
        BY AnswerType DEF NoAnswer, Outcome
    <2>4. Held'
        BY <2>1, <2>2 DEF Numbers, Held
    <2>5. Replied'
        BY <2>1, <2>3 DEF Numbers, Replied
    <2>6. InboxCap \in Nat
        BY EngineAssumption
    <2>7. Delivered' /\ Fed'
        BY <2>1, <2>6 DEF Numbers, Delivered, Streamed, Fed
    <2> QED BY <2>4, <2>5, <2>7
<1>2. MaxEnds \in Nat /\ ends \in 0 .. MaxEnds
    BY EngineAssumption DEF Numbers, Noted
<1>3. CASE Crash \/ Exit
    <2>1. LoseMemory /\ UNCHANGED <<history, refused>> /\ ends' \in 0 .. MaxEnds
        BY <1>2, <1>3 DEF Crash, Exit, LoseMemory, tables
    <2>2. Noted'
        BY <2>1 DEF Numbers, Noted, history
    <2> QED BY <1>1, <2>1, <2>2 DEF Numbers
<1>4. CASE Shutdown
    <2>1. /\ UNCHANGED <<inbox, mem, last, rows, refused, seeds, reply, answer, loop, next>>
          /\ UNCHANGED history /\ ends' \in 0 .. MaxEnds
        BY <1>2, <1>4 DEF Shutdown, actorVars, callVars, feedVars, tables
    <2>2. Noted'
        BY <2>1 DEF Numbers, Noted, history
    <2> QED BY <2>1, <2>2, LeftAlone DEF Numbers
<1>5. CASE Restart
    <2>1. /\ UNCHANGED <<inbox, mem, last, rows, refused, reply, answer, loop, ends, at, since, peak>>
          /\ seeds' = rows /\ next' \in [Token -> UNION {1 .. next[t] : t \in Token}]
        BY <1>5 DEF Restart, actorVars, callVars, history, tables
    <2>2. Held'
        BY <2>1 DEF Numbers, Held
    <2>3. next' \in [Token -> Nat]
        <3>1. \A t \in Token : next[t] \in Nat
            BY DEF Numbers, Fed
        <3>2. UNION {1 .. next[t] : t \in Token} \subseteq Nat
            BY <3>1
        <3> QED BY <2>1, <3>2
    <2>4. Fed'
        BY <2>1, <2>3 DEF Numbers, Fed
    <2> QED BY <2>1, <2>2, <2>4, LeftAlone DEF Numbers
<1> QED BY <1>3, <1>4, <1>5

-----------------------------------------------------------------------------
(* An order of filling fills each of the orders once.                      *)
LEMMA FillingOrder ==
    ASSUME NEW S, IsFiniteSet(S), NEW order \in SetToSeqs(S)
    PROVE  \E n \in Nat : /\ order \in [1 .. n -> S]
                          /\ \A j \in 1 .. n, k \in 1 .. n : j # k => order[j] # order[k]
                          /\ \A i \in S : \E k \in 1 .. n : order[k] = i
<1> DEFINE n == Cardinality(S)
<1>1. n \in Nat
    BY FS_CardinalityType
<1>2. /\ order \in [1 .. n -> S]
      /\ \A j \in 1 .. n, k \in 1 .. n : j # k => order[j] # order[k]
    BY DEF SetToSeqs
<1>3. \A i \in S : \E k \in 1 .. n : order[k] = i
    <2>1. IsFiniteSet(1 .. n) /\ Cardinality(1 .. n) = n
        BY <1>1, FS_Interval
    <2>2. order \in Injection(1 .. n, S)
        BY <1>2 DEF Injection, IsInjective
    <2>3. order \in Surjection(1 .. n, S)
        BY <2>1, <2>2, FS_Injection
    <2> QED BY <2>3 DEF Surjection
<1> QED BY <1>1, <1>2, <1>3

(* What is stored with some of the changes is a position.                  *)
LEMMA StoredPosition ==
    ASSUME EngineInv, Held, NEW t \in Token, NEW m \in Nat, NEW fills \in [1 .. m -> OrderId],
           \A k \in 1 .. m : SignedQty(ask[fills[k]].body) \in Int,
           NEW price \in Int, WriteThrough(t, fills, price)
    PROVE  rows'[t].pos \in Position /\ refused' <= MaxRefused
<1>1. PICK written \in SUBSET Changed(t) :
         Written(t, fills, price, written) /\ refused' <= MaxRefused
    BY DEF WriteThrough, Written, Stored
<1>2. AreBooks(rows) /\ mem[t].pos \in Position /\ rows[t].pos \in Position
    BY DEF EngineInv, Shape, Held, Sound
<1>3. rows'[t].pos = Stored(t, fills, price, written)
    BY <1>1, <1>2 DEF Written, AreBooks
<1> DEFINE filled == {n \in DOMAIN fills : fills[n] \in written}
<1>4. CASE filled = {}
    BY <1>1, <1>2, <1>3, <1>4 DEF Stored
<1>5. CASE filled # {}
    <2>1. filled \in SUBSET (1 .. m)
        OBVIOUS
    <2> DEFINE final == Max(filled)
    <2>2. Max(filled) \in filled
        <3> HIDE DEF filled
        <3> QED BY <1>5, <2>1, GreatestPlace
    <2>3. final \in 1 .. m
        BY <2>1, <2>2
    <2>4. rows'[t].pos = PosAfter(mem[t].pos, SubSeq(fills, 1, final), price)
        BY <1>3, <1>5 DEF Stored
    <2> HIDE DEF final, filled
    <2>5. fills \in Seq(OrderId) /\ Len(fills) = m
        OBVIOUS
    <2> DEFINE some == SubSeq(fills, 1, final)
    <2>6. DOMAIN some = 1 .. final /\ \A k \in 1 .. final : some[k] = fills[k]
        BY <2>3, <2>5
    <2> HIDE DEF some
    <2>7. \A k \in 1 .. final : SignedQty(ask[some[k]].body) \in Int
        BY <2>3, <2>6
    <2>8. final \in Nat
        BY <2>3
    <2>9. PosAfter(mem[t].pos, some, price) \in Position
        BY <1>2, <2>6, <2>7, <2>8, PosAfterType
    <2> QED BY <1>1, <2>4, <2>9 DEF some
<1> QED BY <1>4, <1>5

(* The fills of a tick lead from a position to a position.                 *)
LEMMA TickPosition ==
    ASSUME EngineInv, Numbers, NEW t \in Token, NEW n \in DOMAIN Stream[t], HandleTick(t, n)
    PROVE  mem'[t].pos \in Position /\ rows'[t].pos \in Position /\ refused' <= MaxRefused
<1> DEFINE price == Stream[t][n]
           ids == Crossed(t, price)
<1>1. AreBooks(mem) /\ IsBook(mem[t]) /\ mem[t].pos \in Position
      /\ rows[t].pos \in Position /\ refused <= MaxRefused /\ Held
    BY DEF EngineInv, Shape, AreBooks, Numbers, Held, Sound, Noted
<1>2. CASE ids = {}
    BY <1>1, <1>2 DEF HandleTick, tables
<1>3. CASE ids # {}
    <2>1. PICK order \in SetToSeqs(ids) :
             /\ mem' = [mem EXCEPT ![t] = Filled(mem[t], ids, PosAfter(mem[t].pos, order, price))]
             /\ WriteThrough(t, order, price)
        BY <1>3 DEF HandleTick
    <2> DEFINE pos == PosAfter(mem[t].pos, order, price)
    <2>2. ids \subseteq Taken(mem[t]) /\ ids \in SUBSET OrderId
        BY DEF Crossed, Taken
    <2>3. IsFiniteSet(ids)
        BY <1>1, <2>2, FS_Subset DEF Held, Sound
    <2>4. price \in Int
        BY TickIs
    <2>5. \A i \in ids : SignedQty(ask[i].body) \in Int
        BY <2>2, BodyIs DEF Taken
    <2> HIDE DEF ids, price
    <2>6. PICK k \in Nat : order \in [1 .. k -> ids]
        BY <2>3, FillingOrder
    <2>7. DOMAIN order = 1 .. k /\ \A j \in 1 .. k : SignedQty(ask[order[j]].body) \in Int
        BY <2>5, <2>6
    <2>8. pos \in Position
        BY <1>1, <2>4, <2>7, PosAfterType
    <2> HIDE DEF pos
    <2>9. mem' = [mem EXCEPT ![t] = Filled(mem[t], ids, pos)]
        BY <2>1 DEF pos
    <2>10. IsBook(Filled(mem[t], ids, pos)) /\ Filled(mem[t], ids, pos).pos = pos
        BY <1>1, <2>2, FilledIs
    <2>11. mem'[t] = Filled(mem[t], ids, pos)
        BY <2>9, <2>10, Replaced
    <2>12. order \in [1 .. k -> OrderId]
        BY <2>2, <2>6
    <2>13. rows'[t].pos \in Position /\ refused' <= MaxRefused
        BY <1>1, <2>1, <2>4, <2>7, <2>12, StoredPosition
    <2> QED BY <2>8, <2>10, <2>11, <2>13
<1> QED BY <1>2, <1>3

(* Without a fill there is no new position to store.                       *)
LEMMA NothingFilled ==
    ASSUME EngineInv, Held, NEW t \in Token, WriteThrough(t, <<>>, 0)
    PROVE  rows'[t].pos \in Position /\ refused' <= MaxRefused
<1>1. 1 .. 0 = {} /\ 0 \in Nat /\ 0 \in Int
    OBVIOUS
<1>2. PICK fills : fills = <<>>
    OBVIOUS
<1>3. fills \in [1 .. 0 -> OrderId]
    BY <1>1, <1>2
<1>4. \A k \in 1 .. 0 : SignedQty(ask[fills[k]].body) \in Int
    BY <1>1
<1>5. WriteThrough(t, fills, 0)
    BY <1>2
<1> QED BY <1>1, <1>3, <1>4, <1>5, StoredPosition

(* So does the fill of an order that is placed.                            *)
LEMMA PlacePosition ==
    ASSUME EngineInv, Numbers, NEW t \in Token, NEW c \in OrderId, HandlePlaceOrder(t, c)
    PROVE  mem'[t].pos \in Position /\ rows'[t].pos \in Position /\ refused' <= MaxRefused
<1>1. AreBooks(mem) /\ IsBook(mem[t]) /\ mem[t].pos \in Position
      /\ rows[t].pos \in Position /\ refused <= MaxRefused /\ Held
    BY DEF EngineInv, Shape, AreBooks, Numbers, Held, Sound, Noted
<1>2. ask[c] \in Asks[c] \cup {NoAsk} /\ ask[c].kind = "place"
    BY DEF HandlePlaceOrder, EngineInv, Shape
<1>3. ask[c].body \in Order
    BY <1>2, AskIs
<1>4. CASE Refused(t, c)
    BY <1>1, <1>4 DEF HandlePlaceOrder, tables
<1>5. CASE ~Refused(t, c) /\ Marketable(t, ask[c].body)
    <2> DEFINE pos == ApplyFill(mem[t].pos, SignedQty(ask[c].body), Stream[t][last[t]])
    <2>1. /\ mem' = [mem EXCEPT ![t] = Filled(mem[t], {c}, pos)]
          /\ WriteThrough(t, <<c>>, Stream[t][last[t]])
        BY <1>5 DEF HandlePlaceOrder
    <2>2. last[t] \in DOMAIN Stream[t]
        BY <1>1, <1>5 DEF Marketable, Held
    <2>3. Stream[t][last[t]] \in Int /\ SignedQty(ask[c].body) \in Int
        BY <1>3, <2>2, TickIs, SignedQtyType
    <2>4. pos \in Position
        BY <1>1, <2>3, ApplyFillType
    <2> HIDE DEF pos
    <2>5. IsBook(Filled(mem[t], {c}, pos)) /\ Filled(mem[t], {c}, pos).pos = pos
        BY <1>1, FilledIs
    <2>6. mem'[t] = Filled(mem[t], {c}, pos)
        BY <2>1, <2>5, Replaced
    <2>7. <<c>> \in [1 .. 1 -> OrderId] /\ \A k \in 1 .. 1 : <<c>>[k] = c
        OBVIOUS
    <2>8. rows'[t].pos \in Position /\ refused' <= MaxRefused
        BY <1>1, <2>1, <2>3, <2>7, StoredPosition
    <2> QED BY <2>4, <2>5, <2>6, <2>8
<1>6. CASE ~Refused(t, c) /\ ~Marketable(t, ask[c].body)
    <2>1. /\ mem' = [mem EXCEPT ![t] = [mem[t] EXCEPT !.orders[c] = "resting"]]
          /\ WriteThrough(t, <<>>, 0)
        BY <1>6 DEF HandlePlaceOrder
    <2> DEFINE s == [mem[t] EXCEPT !.orders[c] = "resting"]
    <2>2. IsBook(s) /\ s.pos = mem[t].pos
        BY <1>1 DEF IsBook, OrderStatus
    <2> HIDE DEF s
    <2>3. mem' = [mem EXCEPT ![t] = s]
        BY <2>1 DEF s
    <2>4. mem'[t] = s
        BY <2>2, <2>3, Replaced
    <2>5. rows'[t].pos \in Position /\ refused' <= MaxRefused
        BY <1>1, <2>1, NothingFilled
    <2> QED BY <1>1, <2>2, <2>4, <2>5
<1> QED BY <1>4, <1>5, <1>6

(* A cancel leaves the position as it is.                                  *)
LEMMA CancelPosition ==
    ASSUME EngineInv, Held, NEW t \in Token, NEW c \in OrderId, HandleCancelOrder(t, c),
           ask[c].order \in OrderId
    PROVE  mem'[t].pos = mem[t].pos /\ rows'[t].pos \in Position /\ refused' <= MaxRefused
<1>1. AreBooks(mem) /\ IsBook(mem[t])
    BY DEF EngineInv, Shape, AreBooks
<1>2. PICK i \in OrderId : i = ask[c].order
    OBVIOUS
<1>3. ASSUME mem[t].orders[i] = "resting" PROVE mem'[t].pos = mem[t].pos
    <2> DEFINE s == [mem[t] EXCEPT !.orders[i] = "cancelled"]
    <2>1. mem' = [mem EXCEPT ![t] = s]
        BY <1>2, <1>3 DEF HandleCancelOrder
    <2>2. IsBook(s) /\ s.pos = mem[t].pos
        BY <1>1 DEF IsBook, OrderStatus
    <2> HIDE DEF s
    <2>3. mem'[t] = s
        BY <2>1, <2>2, Replaced
    <2> QED BY <2>2, <2>3
<1>4. ASSUME mem[t].orders[i] # "resting" PROVE mem'[t].pos = mem[t].pos
    BY <1>2, <1>4 DEF HandleCancelOrder
<1>5. WriteThrough(t, <<>>, 0)
    BY DEF HandleCancelOrder
<1> QED BY <1>3, <1>4, <1>5, NothingFilled

(* A reply is a response.                                                  *)
LEMMA ReplyType ==
    ASSUME NEW c \in OrderId, NEW outcome \in Outcome, NEW shows \in SUBSET OrderId,
           reply \in [OrderId -> Response], Replies(c, Answer(outcome, shows))
    PROVE  reply' \in [OrderId -> Response]
<1>1. Answer(outcome, shows) \in Response
    BY AnswerType
<1> QED BY <1>1 DEF Replies

(* The tick at the head of an inbox is of the instrument's stream.         *)
LEMMA HeadTickIs ==
    ASSUME EngineInv, Numbers, NEW t \in Token, inbox[t] # <<>>, Head(inbox[t]).call = NoId
    PROVE  Head(inbox[t]).seq \in DOMAIN Stream[t]
<1>1. PICK q \in Seq(Message) : q = inbox[t] /\ q # <<>>
    BY DEF EngineInv, Shape
<1>2. Head(q) = q[1] /\ 1 \in 1 .. Len(q)
    BY <1>1
<1>3. \A m \in 1 .. Len(q) : q[m].call = NoId => q[m].seq \in DOMAIN Stream[t]
    BY <1>1 DEF Numbers, Delivered, Streamed
<1> QED BY <1>1, <1>2, <1>3

(* What a message does to its book, its caller's channel and the history.  *)
LEMMA MessageNumbers ==
    ASSUME EngineInv, Numbers, NEW t \in Token, Handle(t)
    PROVE  /\ mem'[t].pos \in Position /\ rows'[t].pos \in Position
           /\ refused' <= MaxRefused
           /\ \E c : Taken(mem'[t]) \subseteq Taken(mem[t]) \cup {c}
           /\ last' \in [Token -> Nat]
           /\ \A u \in Token : last'[u] # 0 => last'[u] \in DOMAIN Stream[u]
           /\ reply' \in [OrderId -> Response]
           /\ at' \in [OrderId -> Nat] /\ since' \in [OrderId -> Nat]
           /\ peak' \in [Token -> Nat]
<1> DEFINE message == Head(inbox[t])
           c == message.call
<1>1. Moves(t) /\ inbox[t] # <<>>
    BY HandleEffect
<1>2. /\ Held /\ last \in [Token -> Nat]
      /\ \A u \in Token : last[u] # 0 => last[u] \in DOMAIN Stream[u]
      /\ reply \in [OrderId -> Response]
      /\ at \in [OrderId -> Nat] /\ since \in [OrderId -> Nat] /\ peak \in [Token -> Nat]
    BY DEF Numbers, Held, Replied, Noted
<1>3. ASSUME UNCHANGED reply PROVE Taken(mem'[t]) \subseteq Taken(mem[t]) \cup {NoId}
    BY <1>1, <1>3 DEF Moves, Taken
<1>4. ASSUME NEW d \in OrderId, Answers(d)
      PROVE  Taken(mem'[t]) \subseteq Taken(mem[t]) \cup {d}
    <2>1. \A i \in OrderId \ {d} : reply'[i] = reply[i]
        BY <1>2, <1>4 DEF Answers
    <2> QED BY <1>1, <2>1 DEF Moves, Taken
<1>5. CASE c = NoId
    <2> DEFINE n == message.seq
    <2>1. HandleTick(t, n)
        BY <1>5 DEF Handle
    <2>2. n \in DOMAIN Stream[t]
        BY <1>1, <1>5, HeadTickIs
    <2> HIDE DEF n
    <2>3. n \in Nat
        BY <2>2, TickIs
    <2>4. mem'[t].pos \in Position /\ rows'[t].pos \in Position /\ refused' <= MaxRefused
        BY <2>1, <2>2, TickPosition
    <2>5. /\ last' = [last EXCEPT ![t] = n]
          /\ peak' = [peak EXCEPT ![t] = IF n > peak[t] THEN n ELSE peak[t]]
          /\ at' = [i \in OrderId |-> IF i \in Crossed(t, Stream[t][n]) THEN n ELSE at[i]]
          /\ UNCHANGED <<reply, since>>
        BY <2>1 DEF HandleTick
    <2>6. last' \in [Token -> Nat] /\ \A u \in Token : last'[u] = IF u = t THEN n ELSE last[u]
        BY <1>2, <2>3, <2>5
    <2>7. \A u \in Token : last'[u] # 0 => last'[u] \in DOMAIN Stream[u]
        BY <1>2, <2>2, <2>6
    <2>8. at' \in [OrderId -> Nat] /\ since' \in [OrderId -> Nat] /\ peak' \in [Token -> Nat]
        BY <1>2, <2>3, <2>5
    <2>9. \E d : Taken(mem'[t]) \subseteq Taken(mem[t]) \cup {d}
        BY <1>3, <2>5
    <2> QED BY <1>2, <2>4, <2>5, <2>6, <2>7, <2>8, <2>9
<1>6. CASE c # NoId
    <2>1. c \in OrderId /\ Addressed(c, t)
        BY <1>1, <1>6, HeadIs
    <2>2. HandlePlaceOrder(t, c) \/ HandleCancelOrder(t, c) \/ HandleSnapshot(t, c)
        BY <1>6 DEF Handle
    <2>3. actors[t] = "running"
        BY DEF Handle
    <2> HIDE DEF c
    <2>4. Answers(c)
        BY <2>1, <2>2, <2>3, PlaceEffect, CancelEffect, SnapshotEffect
    <2>5. \E d : Taken(mem'[t]) \subseteq Taken(mem[t]) \cup {d}
        BY <1>4, <2>1, <2>4
    <2>6. UNCHANGED last /\ UNCHANGED peak
        BY <2>2 DEF HandlePlaceOrder, HandleCancelOrder, HandleSnapshot, history
    <2>7. at' \in [OrderId -> Nat] /\ since' \in [OrderId -> Nat]
        BY <1>2, <2>1, <2>2 DEF HandlePlaceOrder, HandleCancelOrder, HandleSnapshot, history
    <2>8. CASE HandlePlaceOrder(t, c)
        <3>1. mem'[t].pos \in Position /\ rows'[t].pos \in Position /\ refused' <= MaxRefused
            BY <2>1, <2>8, PlacePosition
        <3>2. \E outcome \in Outcome : Replies(c, Answer(outcome, {}))
            BY <2>8 DEF HandlePlaceOrder, Outcome
        <3>3. reply' \in [OrderId -> Response]
            BY <1>2, <2>1, <3>2, ReplyType
        <3> QED BY <1>2, <2>5, <2>6, <2>7, <3>1, <3>3
    <2>9. CASE HandleCancelOrder(t, c)
        <3>1. ask[c] \in Asks[c] \cup {NoAsk} /\ ask[c].kind = "cancel"
            BY <2>1, <2>9 DEF HandleCancelOrder, EngineInv, Shape
        <3>2. ask[c].order \in OrderId
            BY <2>1, <3>1, AskIs
        <3>3. mem'[t].pos \in Position /\ rows'[t].pos \in Position /\ refused' <= MaxRefused
            BY <1>2, <2>1, <2>9, <3>2, CancelPosition DEF Held, Sound
        <3>4. mem[t].orders[ask[c].order] \in OrderStatus
            BY <3>2 DEF EngineInv, Shape, AreBooks, IsBook
        <3>5. CancelOutcome(mem[t].orders[ask[c].order]) \in Outcome
            BY <3>4 DEF CancelOutcome, OrderStatus, Outcome
        <3>6. \E outcome \in Outcome : Replies(c, Answer(outcome, {}))
            BY <2>9, <3>5 DEF HandleCancelOrder
        <3>7. reply' \in [OrderId -> Response]
            BY <1>2, <2>1, <3>6, ReplyType
        <3> QED BY <1>2, <2>5, <2>6, <2>7, <3>3, <3>7
    <2>10. CASE HandleSnapshot(t, c)
        <3> DEFINE shows == {i \in OrderId : mem[t].orders[i] # "none"}
        <3>1. UNCHANGED <<mem, rows, refused>> /\ Replies(c, Answer("position", shows))
            BY <2>10 DEF HandleSnapshot, tables
        <3>2. shows \in SUBSET OrderId /\ "position" \in Outcome
            BY DEF Outcome
        <3> HIDE DEF shows
        <3>3. reply' \in [OrderId -> Response]
            BY <1>2, <2>1, <3>1, <3>2, ReplyType
        <3>4. mem'[t].pos \in Position /\ rows'[t].pos \in Position /\ refused' <= MaxRefused
            BY <1>2, <3>1 DEF Numbers, Held, Sound, Noted
        <3> QED BY <1>2, <2>5, <2>6, <2>7, <3>3, <3>4
    <2> QED BY <2>2, <2>8, <2>9, <2>10
<1> QED BY <1>5, <1>6

(* A message handled keeps the types.                                      *)
LEMMA HandleNumbers ==
    ASSUME EngineInv, Numbers, NEW t \in Token, Handle(t)
    PROVE  Numbers'
<1>1. /\ mem'[t].pos \in Position /\ rows'[t].pos \in Position /\ refused' <= MaxRefused
      /\ \E c : Taken(mem'[t]) \subseteq Taken(mem[t]) \cup {c}
      /\ last' \in [Token -> Nat]
      /\ \A u \in Token : last'[u] # 0 => last'[u] \in DOMAIN Stream[u]
      /\ reply' \in [OrderId -> Response]
      /\ at' \in [OrderId -> Nat] /\ since' \in [OrderId -> Nat]
      /\ peak' \in [Token -> Nat]
    BY MessageNumbers
<1>2. /\ UNCHANGED <<seeds, answer, loop, next, ends>>
      /\ inbox' = [inbox EXCEPT ![t] = Tail(inbox[t])]
    BY DEF Handle, feedVars
<1>3. Moves(t) /\ Saves(t) /\ actors[t] = "running" /\ inbox[t] # <<>>
    BY HandleEffect
<1>4. Sound(mem'[t])
    <2>1. PICK c : Taken(mem'[t]) \subseteq Taken(mem[t]) \cup {c}
        BY <1>1
    <2>2. IsFiniteSet(Taken(mem[t]))
        BY DEF Numbers, Held, Sound
    <2>3. IsFiniteSet(Taken(mem[t]) \cup {c})
        BY <2>2, FS_AddElement
    <2>4. IsFiniteSet(Taken(mem'[t]))
        BY <2>1, <2>3, FS_Subset
    <2> QED BY <1>1, <2>4 DEF Sound
<1>5. /\ rows' = [rows EXCEPT ![t] = rows'[t]]
      /\ \A i \in OrderId : \/ rows'[t].orders[i] = rows[t].orders[i]
                            \/ rows'[t].orders[i] = mem'[t].orders[i]
    BY <1>3 DEF Saves
<1>6. AreBooks(mem) /\ AreBooks(rows)
    BY DEF EngineInv, Shape
<1>7. \A u \in Token : u # t => mem'[u] = mem[u] /\ rows'[u] = rows[u]
    BY <1>3, <1>5, <1>6 DEF Moves, AreBooks
<1>8. \A u \in Token : Sound(mem[u]) /\ Sound(rows[u]) /\ Sound(seeds[u])
    BY DEF Numbers, Held
<1>9. Sound(rows'[t])
    <2>1. Taken(rows'[t]) \subseteq Taken(rows[t]) \cup Taken(mem'[t])
        BY <1>5 DEF Taken
    <2>2. IsFiniteSet(Taken(rows[t]) \cup Taken(mem'[t]))
        BY <1>4, <1>8, FS_Union DEF Sound
    <2>3. IsFiniteSet(Taken(rows'[t]))
        BY <2>1, <2>2, FS_Subset
    <2> QED BY <1>1, <2>3 DEF Sound
<1>10. Held'
    BY <1>1, <1>2, <1>4, <1>7, <1>8, <1>9 DEF Held
<1>11. Delivered'
    BY <1>2, <1>3, DequeueDelivers DEF Numbers
<1>12. Replied' /\ Fed' /\ Noted'
    BY <1>1, <1>2 DEF Numbers, Replied, Fed, Noted
<1> QED BY <1>10, <1>11, <1>12 DEF Numbers

(* Every step keeps the types.                                             *)
LEMMA NumbersPreserved == EngineInv /\ Numbers /\ [Next]_vars => Numbers'
<1> SUFFICES ASSUME EngineInv, Numbers, [Next]_vars PROVE Numbers'
    OBVIOUS
<1>1. ASSUME NEW c \in OrderId, NEW a \in Asks[c],
             PlaceOrderHandler(c, a) \/ CancelOrderHandler(c, a) \/ GetPositionHandler(c, a)
      PROVE  Numbers'
    BY <1>1, BeginNumbers
<1>2. ASSUME NEW c \in OrderId, CallStep(c) \/ Abandon(c)
      PROVE  Numbers'
    BY <1>2, CallNumbers DEF CallStep, CallStopped, Abandon
<1>3. ASSUME NEW t \in Token, ActorStep(t)
      PROVE  Numbers'
    <2>1. CASE Handle(t)
        BY <2>1, HandleNumbers
    <2>2. CASE ActorStops(t)
        BY <2>2, LeftAlone DEF Numbers, ActorStops, callVars, feedVars, history, tables
    <2> QED BY <1>3, <2>1, <2>2 DEF ActorStep
<1>4. CASE LoopStep \/ \E t \in Token : TakeTick(t)
    BY <1>4, LoopNumbers
<1>5. CASE Crash \/ Shutdown \/ Exit \/ Restart
    BY <1>5, LifeNumbers
<1>6. CASE UNCHANGED vars
    BY <1>6, LeftAlone DEF Numbers, vars, actorVars, callVars, feedVars, history, tables
<1> QED BY <1>1, <1>2, <1>3, <1>4, <1>5, <1>6 DEF Next

(* And they hold at the start.                                             *)
LEMMA NumbersInit == Init => Numbers
<1> SUFFICES ASSUME Init PROVE Numbers
    OBVIOUS
<1>1. Sound(NothingYet)
    <2>1. NothingYet.pos = Flat /\ Flat \in Position /\ Taken(NothingYet) = {}
        BY DEF NothingYet, Flat, Position, Taken
    <2> QED BY <2>1, FS_EmptySet DEF Sound
<1>2. Held
    BY <1>1 DEF Init, Held
<1>3. NoAnswer \in Response
    BY AnswerType DEF NoAnswer, Outcome
<1>4. Replied
    BY <1>3 DEF Init, Replied
<1>5. InboxCap \in Nat /\ MaxEnds \in Nat /\ MaxRefused \in Nat
    BY EngineAssumption
<1>6. Delivered /\ Fed /\ Noted
    BY <1>5 DEF Init, Delivered, Streamed, Fed, Noted
<1> QED BY <1>2, <1>4, <1>6 DEF Numbers

(* What every reachable state satisfies.                                   *)
LEMMA AlwaysNumbers == Spec => [](EngineInv /\ Numbers)
<1>1. Init => EngineInv /\ Numbers
    BY InitHolds, NumbersInit
<1>2. EngineInv /\ Numbers /\ [Next]_vars => (EngineInv /\ Numbers)'
    BY NextPreserves, NumbersPreserved
<1> QED BY <1>1, <1>2, PTL DEF Spec

(* All values are of their types and no inbox ever holds more than its     *)
(* capacity, whatever calls, ticks and ends of the process come in between *)
(* (Actor.send, actor.go): prices are looked up only for ticks that came.  *)
THEOREM EngineIsTyped == Spec => []EngineTypeOK
<1>1. EngineInv /\ Numbers => EngineTypeOK
    <2> SUFFICES ASSUME EngineInv, Numbers PROVE EngineTypeOK
        OBVIOUS
    <2>1. ASSUME NEW s, IsBook(s), Sound(s) PROVE s \in InitialState
        BY <2>1 DEF IsBook, OrderStatus, Sound, InitialState
    <2>2. \A t \in Token : /\ mem[t] \in InitialState /\ rows[t] \in InitialState
                           /\ seeds[t] \in InitialState
        BY <2>1 DEF EngineInv, Shape, AreBooks, Numbers, Held
    <2>3. /\ mem \in [Token -> InitialState] /\ rows \in [Token -> InitialState]
          /\ seeds \in [Token -> InitialState]
        BY <2>2 DEF EngineInv, Shape, AreBooks
    <2>4. Len(loop) <= 1
        <3>1. CASE loop = <<>>
            <4>1. Len(<<>>) = 0
                OBVIOUS
            <4> QED BY <3>1, <4>1
        <3>2. CASE loop # <<>>
            <4>1. Len(loop) = 1
                BY <3>2 DEF Numbers, Fed
            <4> QED BY <4>1
        <3> QED BY <3>1, <3>2
    <2> QED BY <2>3, <2>4
            DEF EngineInv, Shape, Numbers, Held, Replied, Delivered, Fed, Noted, EngineTypeOK
<1> QED BY <1>1, AlwaysNumbers, PTL

-----------------------------------------------------------------------------
(* While the process runs and nothing was refused, the rows are what the   *)
(* actor has.                                                              *)
InStep ==
    refused = 0 /\ phase = "running" =>
        \A t \in Token : actors[t] # "none" => mem[t] = rows[t]

(* Writing every change through, with the position after every fill, takes *)
(* the rows to where the actor is.                                         *)
LEMMA WritesFollow ==
    ASSUME EngineInv, NEW t \in Token, Moves(t), NEW m \in Nat,
           NEW fills \in [1 .. m -> OrderId], NEW price, WriteThrough(t, fills, price),
           phase = "running", refused' = 0, mem[t] = rows[t],
           \A k \in 1 .. m : fills[k] \in Changed(t),
           m = 0 => mem'[t].pos = mem[t].pos,
           m # 0 => mem'[t].pos = PosAfter(mem[t].pos, fills, price)
    PROVE  mem'[t] = rows'[t]
<1>1. PICK written \in SUBSET Changed(t) : Written(t, fills, price, written)
    BY DEF WriteThrough, Written, Stored
<1>2. refused \in Nat /\ AreBooks(rows) /\ IsBook(rows[t]) /\ IsBook(mem'[t])
    BY DEF EngineInv, Shape, AreBooks, Moves
<1>3. written = Changed(t)
    BY <1>1, <1>2 DEF Written
<1>4. Saves(t)
    BY WriteEffect
<1>5. rows'[t].orders = mem'[t].orders
    <2>1. rows' = [rows EXCEPT ![t] =
              [orders |-> [i \in OrderId |-> IF i \in written THEN mem'[t].orders[i]
                                                             ELSE rows[t].orders[i]],
               pos    |-> Stored(t, fills, price, written)]]
        BY <1>1 DEF Written
    <2>2. rows'[t].orders = [i \in OrderId |-> IF i \in written THEN mem'[t].orders[i]
                                                               ELSE rows[t].orders[i]]
        BY <1>2, <2>1 DEF AreBooks
    <2>3. \A i \in OrderId : i \notin written => rows[t].orders[i] = mem'[t].orders[i]
        BY <1>3 DEF Changed
    <2> QED BY <1>2, <2>2, <2>3 DEF IsBook
<1>6. rows'[t].pos = Stored(t, fills, price, written)
    BY <1>1, <1>2 DEF Written, AreBooks
<1> DEFINE filled == {n \in DOMAIN fills : fills[n] \in written}
<1>7. filled = 1 .. m
    BY <1>3
<1>8. rows'[t].pos = mem'[t].pos
    <2>1. CASE m = 0
        <3>1. filled = {}
            BY <1>7, <2>1
        <3> QED BY <1>6, <2>1, <3>1 DEF Stored
    <2>2. CASE m # 0
        <3>1. m \in filled /\ filled \in SUBSET (1 .. m)
            BY <1>7, <2>2
        <3>2. Stored(t, fills, price, written)
                = PosAfter(mem[t].pos, SubSeq(fills, 1, Max(filled)), price)
            BY <3>1 DEF Stored
        <3> HIDE DEF filled
        <3>3. Max(filled) = m
            BY <3>1, LastPlace
        <3>4. SubSeq(fills, 1, m) = fills
            <4>1. fills \in Seq(OrderId) /\ Len(fills) = m
                OBVIOUS
            <4> QED BY <4>1
        <3> QED BY <1>6, <2>2, <3>2, <3>3, <3>4
    <2> QED BY <2>1, <2>2
<1> QED BY <1>2, <1>4, <1>5, <1>8 DEF IsBook, Saves

(* So a tick is followed,                                                  *)
LEMMA TickFollows ==
    ASSUME EngineInv, Numbers, NEW t \in Token, NEW n, HandleTick(t, n),
           phase = "running", refused' = 0, mem[t] = rows[t]
    PROVE  mem'[t] = rows'[t]
<1> DEFINE price == Stream[t][n]
           ids == Crossed(t, price)
<1>1. AreBooks(mem) /\ IsBook(mem[t]) /\ Held /\ Moves(t)
    BY TickEffect DEF EngineInv, Shape, AreBooks, Numbers
<1>2. CASE ids = {}
    BY <1>2 DEF HandleTick, tables
<1>3. CASE ids # {}
    <2>1. PICK order \in SetToSeqs(ids) :
             /\ mem' = [mem EXCEPT ![t] = Filled(mem[t], ids, PosAfter(mem[t].pos, order, price))]
             /\ WriteThrough(t, order, price)
        BY <1>3 DEF HandleTick
    <2> DEFINE pos == PosAfter(mem[t].pos, order, price)
    <2>2. /\ ids \subseteq Taken(mem[t]) /\ ids \in SUBSET OrderId
          /\ \A i \in ids : mem[t].orders[i] = "resting"
        BY DEF Crossed, Taken
    <2>3. IsFiniteSet(ids)
        BY <1>1, <2>2, FS_Subset DEF Held, Sound
    <2> HIDE DEF ids, price
    <2>4. PICK k \in Nat :
             /\ order \in [1 .. k -> ids]
             /\ \A j \in 1 .. k, l \in 1 .. k : j # l => order[j] # order[l]
             /\ \A i \in ids : \E l \in 1 .. k : order[l] = i
        BY <2>3, FillingOrder
    <2>5. k # 0 /\ order \in [1 .. k -> OrderId]
        BY <1>3, <2>2, <2>4
    <2> HIDE DEF pos
    <2>6. mem' = [mem EXCEPT ![t] = Filled(mem[t], ids, pos)]
        BY <2>1 DEF pos
    <2>7. /\ IsBook(Filled(mem[t], ids, pos)) /\ Filled(mem[t], ids, pos).pos = pos
          /\ \A i \in OrderId : Filled(mem[t], ids, pos).orders[i]
                                  = IF i \in ids THEN "filled" ELSE mem[t].orders[i]
        BY <1>1, <2>2, FilledIs
    <2>8. mem'[t] = Filled(mem[t], ids, pos)
        BY <2>6, <2>7, Replaced
    <2>9. \A i \in ids : i \in Changed(t)
        BY <2>2, <2>7, <2>8 DEF Changed
    <2>10. \A j \in 1 .. k : order[j] \in Changed(t)
        BY <2>4, <2>9
    <2>11. mem'[t].pos = PosAfter(mem[t].pos, order, price)
        BY <2>7, <2>8 DEF pos
    <2> QED BY <1>1, <2>1, <2>5, <2>10, <2>11, WritesFollow
<1> QED BY <1>2, <1>3

(* what changes no position,                                               *)
LEMMA OthersFollow ==
    ASSUME EngineInv, NEW t \in Token, Moves(t), WriteThrough(t, <<>>, 0),
           phase = "running", refused' = 0, mem[t] = rows[t], mem'[t].pos = mem[t].pos
    PROVE  mem'[t] = rows'[t]
<1>1. 1 .. 0 = {} /\ 0 \in Nat
    OBVIOUS
<1>2. PICK fills : fills = <<>>
    OBVIOUS
<1>3. fills \in [1 .. 0 -> OrderId] /\ \A k \in 1 .. 0 : fills[k] \in Changed(t)
    BY <1>1, <1>2
<1>4. WriteThrough(t, fills, 0)
    BY <1>2
<1> QED BY <1>1, <1>3, <1>4, WritesFollow

(* a placement,                                                            *)
LEMMA PlaceFollows ==
    ASSUME EngineInv, NEW t \in Token, NEW c \in OrderId, Moves(t), HandlePlaceOrder(t, c),
           phase = "running", refused' = 0, mem[t] = rows[t]
    PROVE  mem'[t] = rows'[t]
<1>1. AreBooks(mem) /\ IsBook(mem[t])
    BY DEF EngineInv, Shape, AreBooks
<1>2. CASE Refused(t, c)
    BY <1>2 DEF HandlePlaceOrder, tables
<1>3. CASE ~Refused(t, c) /\ Marketable(t, ask[c].body)
    <2> DEFINE price == Stream[t][last[t]]
               pos == ApplyFill(mem[t].pos, SignedQty(ask[c].body), price)
    <2>1. /\ mem' = [mem EXCEPT ![t] = Filled(mem[t], {c}, pos)]
          /\ WriteThrough(t, <<c>>, price)
        BY <1>3 DEF HandlePlaceOrder
    <2>2. mem[t].orders[c] = "none"
        BY <1>3 DEF Refused
    <2>3. PICK fills : fills = <<c>>
        OBVIOUS
    <2>4. fills \in [1 .. 1 -> OrderId] /\ fills[1] = c /\ DOMAIN fills = 1 .. 1
        BY <2>3
    <2>5. PosAfter(mem[t].pos, fills, price) = pos
        <3> HIDE DEF price, pos
        <3>1. PICK h : OneByOne(h, mem[t].pos, fills, price, 1)
            BY <2>4, FillsOneByOne
        <3>2. /\ h[0] = mem[t].pos /\ h[1] = PosAfter(mem[t].pos, fills, price)
              /\ h[1] = ApplyFill(h[1 - 1], SignedQty(ask[fills[1]].body), price)
            BY <3>1 DEF OneByOne
        <3>3. 1 - 1 = 0
            OBVIOUS
        <3> QED BY <2>4, <3>2, <3>3 DEF pos
    <2> HIDE DEF pos, price
    <2>6. /\ IsBook(Filled(mem[t], {c}, pos)) /\ Filled(mem[t], {c}, pos).pos = pos
          /\ Filled(mem[t], {c}, pos).orders[c] = "filled"
        BY <1>1, FilledIs
    <2>7. mem'[t] = Filled(mem[t], {c}, pos)
        BY <2>1, <2>6, Replaced
    <2>8. \A k \in 1 .. 1 : fills[k] \in Changed(t)
        BY <2>2, <2>4, <2>6, <2>7 DEF Changed
    <2>9. mem'[t].pos = PosAfter(mem[t].pos, fills, price)
        BY <2>5, <2>6, <2>7
    <2>10. WriteThrough(t, fills, price)
        BY <2>1, <2>3
    <2>11. 1 \in Nat /\ 1 # 0
        OBVIOUS
    <2> QED BY <2>4, <2>8, <2>9, <2>10, <2>11, WritesFollow
<1>4. CASE ~Refused(t, c) /\ ~Marketable(t, ask[c].body)
    <2>1. /\ mem' = [mem EXCEPT ![t] = [mem[t] EXCEPT !.orders[c] = "resting"]]
          /\ WriteThrough(t, <<>>, 0)
        BY <1>4 DEF HandlePlaceOrder
    <2> DEFINE s == [mem[t] EXCEPT !.orders[c] = "resting"]
    <2>2. IsBook(s) /\ s.pos = mem[t].pos
        BY <1>1 DEF IsBook, OrderStatus
    <2> HIDE DEF s
    <2>3. mem' = [mem EXCEPT ![t] = s]
        BY <2>1 DEF s
    <2>4. mem'[t] = s
        BY <2>2, <2>3, Replaced
    <2> QED BY <2>1, <2>2, <2>4, OthersFollow
<1> QED BY <1>2, <1>3, <1>4

(* and whatever else an actor does.                                        *)
LEMMA HandleFollows ==
    ASSUME EngineInv, Numbers, NEW t \in Token, Handle(t),
           phase = "running", refused' = 0, mem[t] = rows[t]
    PROVE  mem'[t] = rows'[t]
<1> DEFINE c == Head(inbox[t]).call
<1>1. Moves(t) /\ inbox[t] # <<>> /\ Held
    BY HandleEffect DEF Numbers
<1>2. CASE c = NoId
    BY <1>2, TickFollows DEF Handle
<1>3. CASE c # NoId
    <2>1. c \in OrderId
        BY <1>1, <1>3, HeadIs
    <2>2. HandlePlaceOrder(t, c) \/ HandleCancelOrder(t, c) \/ HandleSnapshot(t, c)
        BY <1>3 DEF Handle
    <2> HIDE DEF c
    <2>3. CASE HandlePlaceOrder(t, c)
        BY <1>1, <2>1, <2>3, PlaceFollows
    <2>4. CASE HandleCancelOrder(t, c)
        <3>1. ask[c] \in Asks[c] \cup {NoAsk} /\ ask[c].kind = "cancel"
            BY <2>1, <2>4 DEF HandleCancelOrder, EngineInv, Shape
        <3>2. ask[c].order \in OrderId
            BY <2>1, <3>1, AskIs
        <3>3. mem'[t].pos = mem[t].pos
            BY <1>1, <2>1, <2>4, <3>2, CancelPosition
        <3>4. WriteThrough(t, <<>>, 0)
            BY <2>4 DEF HandleCancelOrder
        <3> QED BY <1>1, <3>3, <3>4, OthersFollow
    <2>5. CASE HandleSnapshot(t, c)
        BY <2>5 DEF HandleSnapshot, tables
    <2> QED BY <2>2, <2>3, <2>4, <2>5
<1> QED BY <1>2, <1>3

(* Every step keeps the rows in step.                                      *)
LEMMA InStepPreserved == EngineInv /\ Numbers /\ InStep /\ [Next]_vars => InStep'
<1> SUFFICES ASSUME EngineInv, Numbers, InStep, [Next]_vars PROVE InStep'
    OBVIOUS
<1>1. ASSUME UNCHANGED <<rows, refused, phase>>, Spawns PROVE InStep'
    BY <1>1 DEF InStep, Spawns
<1>2. ASSUME NEW c \in OrderId, NEW a \in Asks[c],
             PlaceOrderHandler(c, a) \/ CancelOrderHandler(c, a) \/ GetPositionHandler(c, a)
      PROVE  InStep'
    <2>1. phase # "down" /\ UNCHANGED <<rows, refused, phase>>
        BY <1>2 DEF PlaceOrderHandler, CancelOrderHandler, GetPositionHandler, Begin, tables
    <2>2. UNCHANGED <<actors, mem, last>> \/ \E t \in Token : Actor(t)
        BY <1>2, HandlersFind
    <2> QED BY <1>1, <2>1, <2>2, SpawnsIs
<1>3. ASSUME NEW t \in Token, TakeTick(t) PROVE InStep'
    <2>1. phase = "running" /\ Actor(t) /\ UNCHANGED <<rows, refused, phase>>
        BY <1>3 DEF TakeTick, tables
    <2> QED BY <1>1, <2>1, SpawnsIs
<1>4. ASSUME NEW t \in Token, Handle(t) PROVE InStep'
    <2> SUFFICES ASSUME refused' = 0, phase' = "running", NEW u \in Token, actors'[u] # "none"
                 PROVE  mem'[u] = rows'[u]
        BY DEF InStep
    <2>1. Moves(t) /\ Saves(t)
        BY <1>4, HandleEffect
    <2>2. phase = "running" /\ actors[u] # "none"
        BY <1>4 DEF Handle
    <2>3. refused = 0
        BY <2>1 DEF Saves
    <2>4. mem[u] = rows[u]
        BY <2>2, <2>3 DEF InStep
    <2>5. CASE u = t
        BY <1>4, <2>2, <2>4, <2>5, HandleFollows
    <2>6. CASE u # t
        <3>1. mem'[u] = mem[u] /\ rows'[u] = rows[u]
            BY <2>1, <2>6 DEF Moves, Saves, EngineInv, Shape, AreBooks
        <3> QED BY <2>4, <3>1
    <2> QED BY <2>5, <2>6
<1>5. ASSUME NEW t \in Token, ActorStops(t) PROVE InStep'
    BY <1>5 DEF ActorStops, InStep
<1>6. CASE Crash \/ Exit \/ Shutdown
    BY <1>6 DEF Crash, Exit, Shutdown, LoseMemory, InStep
<1>7. CASE Restart
    <2>1. \A t \in Token : actors'[t] = "none"
        BY <1>7 DEF Restart, actorVars, EngineInv, Agrees
    <2> QED BY <2>1 DEF InStep
<1>8. ASSUME UNCHANGED <<mem, rows, refused, phase, actors>> PROVE InStep'
    BY <1>8 DEF InStep
<1>9. ASSUME NEW c \in OrderId, CallStep(c) \/ Abandon(c) PROVE InStep'
    <2>1. UNCHANGED <<mem, rows, refused, phase, actors>>
        BY <1>9 DEF CallStep, CallStopped, Abandon, Send, Receive, IndexOrder, GivesUp,
                    actorVars, tables
    <2> QED BY <2>1, <1>8
<1>10. CASE LoopStep \/ UNCHANGED vars
    <2>1. UNCHANGED <<mem, rows, refused, phase, actors>>
        BY <1>10 DEF LoopStep, DeliverTick, LoopGivesUp, vars, actorVars, tables
    <2> QED BY <2>1, <1>8
<1> QED BY <1>2, <1>3, <1>4, <1>5, <1>6, <1>7, <1>9, <1>10 DEF Next, ActorStep

(* What every reachable state satisfies.                                   *)
LEMMA AlwaysInStep == Spec => [](EngineInv /\ Numbers /\ InStep)
<1>1. Init => InStep
    BY DEF Init, InStep
<1> QED BY <1>1, AlwaysNumbers, InStepPreserved, PTL DEF Spec

(* Whatever writes Postgres refuses, through shutdowns, kills and          *)
(* restarts, no actor falls behind the rows: it knows every order they     *)
(* have and how each that is over ended.  While the process runs and       *)
(* nothing was refused, they are the same (Registry.Actor, registry.go;    *)
(* persistOrder and persistFill, actor_state.go).                          *)
THEOREM ActorIsNeverBehind == Spec => []ActorNeverBehind
<1>1. EngineInv /\ InStep => ActorNeverBehind
    BY DEF EngineInv, Agrees, InStep, ActorNeverBehind
<1> QED BY <1>1, AlwaysInStep, PTL

-----------------------------------------------------------------------------
(* The unit of money is fine enough for one instrument: no average comes   *)
(* out broken, whichever of its orders fill, in whatever order, each once  *)
(* and at whatever price of its stream.  Only finitely many averages can   *)
(* come out, so that a fine enough unit exists for every finite instance.  *)
IsFineFor(t, good) ==
    /\ <<{}, Flat>> \in good
    /\ \A g \in good, i \in OrderId : i \notin g[1] =>
          \A a \in Asks[i], n \in DOMAIN Stream[t] :
             a.kind = "place" /\ a.token = t =>
                /\ WholeAverage(g[2], SignedQty(a.body), Stream[t][n])
                /\ <<g[1] \cup {i}, ApplyFill(g[2], SignedQty(a.body), Stream[t][n])>> \in good

UnitIsFine == \A t \in Token : \E good : IsFineFor(t, good)

Good(t) == CHOOSE good : IsFineFor(t, good)

(* What the fills F of instrument t have gained at a mark, if h are the    *)
(* ticks they filled at and q the requests.                                *)
Gained(h, q, t, F, mark) ==
    SumFunctionOnSet([i \in F |-> SignedQty(q[i].body) * (mark - Stream[t][h[i]])], F)

(* Order i may fill at a tick.                                             *)
Fillable(h, q, t, i) == /\ q[i] \in Asks[i] /\ q[i].kind = "place" /\ q[i].token = t
                        /\ h[i] \in DOMAIN Stream[t]

(* A position is worth what fills F have gained.                           *)
Worth(h, q, t, F, pos) ==
    /\ F \subseteq OrderId /\ IsFiniteSet(F) /\ pos \in Position
    /\ \A i \in F : Fillable(h, q, t, i)
    /\ <<F, pos>> \in Good(t)
    /\ \A mark \in {0, 1} : TotalPnL(pos, mark) = Gained(h, q, t, F, mark)

(* A gain is a number.                                                     *)
LEMMA GainType ==
    ASSUME NEW t \in Token, NEW i \in OrderId, NEW h, NEW q, Fillable(h, q, t, i),
           NEW mark \in Int
    PROVE  /\ SignedQty(q[i].body) \in Int /\ Stream[t][h[i]] \in Int
           /\ SignedQty(q[i].body) * (mark - Stream[t][h[i]]) \in Int
<1>1. q[i].body \in Order
    BY AskIs DEF Fillable
<1>2. SignedQty(q[i].body) \in Int /\ Stream[t][h[i]] \in Int
    BY <1>1, SignedQtyType, TickIs DEF Fillable
<1>3. ASSUME NEW a \in Int, NEW b \in Int PROVE a * (mark - b) \in Int
    OBVIOUS
<1> QED BY <1>2, <1>3

(* What other orders do changes nothing.                                   *)
LEMMA WorthAgrees ==
    ASSUME NEW h, NEW q, NEW g, NEW r, NEW t, NEW F, NEW pos, Worth(h, q, t, F, pos),
           \A i \in F : g[i] = h[i] /\ r[i] = q[i]
    PROVE  Worth(g, r, t, F, pos)
<1>1. \A i \in F : Fillable(g, r, t, i)
    BY DEF Worth, Fillable
<1>2. ASSUME NEW mark \in {0, 1} PROVE Gained(g, r, t, F, mark) = Gained(h, q, t, F, mark)
    <2> DEFINE a == [i \in F |-> SignedQty(r[i].body) * (mark - Stream[t][g[i]])]
               b == [i \in F |-> SignedQty(q[i].body) * (mark - Stream[t][h[i]])]
    <2>1. \A i \in F : a[i] = b[i]
        OBVIOUS
    <2>2. IsFiniteSet(F)
        BY DEF Worth
    <2> HIDE DEF a, b
    <2>3. SumFunctionOnSet(a, F) = SumFunctionOnSet(b, F)
        BY <2>1, <2>2, SumAgree
    <2> QED BY <2>3 DEF Gained, a, b
<1> QED BY <1>1, <1>2 DEF Worth

(* A fill more, at its tick's price.                                       *)
LEMMA WorthOneMore ==
    ASSUME UnitIsFine, NEW t \in Token, NEW h, NEW q, NEW F, NEW pos, Worth(h, q, t, F, pos),
           NEW i \in OrderId \ F, Fillable(h, q, t, i)
    PROVE  Worth(h, q, t, F \cup {i},
                 ApplyFill(pos, SignedQty(q[i].body), Stream[t][h[i]]))
<1> DEFINE delta == SignedQty(q[i].body)
           price == Stream[t][h[i]]
           after == ApplyFill(pos, delta, price)
           G == F \cup {i}
<1>1. delta \in Int /\ price \in Int /\ pos \in Position
    BY GainType DEF Worth
<1>2. G \subseteq OrderId /\ IsFiniteSet(G) /\ \A j \in G : Fillable(h, q, t, j)
    BY FS_AddElement DEF Worth
<1>3. IsFineFor(t, Good(t)) /\ <<F, pos>> \in Good(t)
    BY DEF UnitIsFine, Good, Worth
<1>4. WholeAverage(pos, delta, price) /\ <<G, after>> \in Good(t)
    <2>1. \A a \in Asks[i], n \in DOMAIN Stream[t] :
             a.kind = "place" /\ a.token = t =>
                /\ WholeAverage(pos, SignedQty(a.body), Stream[t][n])
                /\ <<G, ApplyFill(pos, SignedQty(a.body), Stream[t][n])>> \in Good(t)
        BY <1>3 DEF IsFineFor
    <2> QED BY <2>1 DEF Fillable
<1>5. ASSUME NEW mark \in {0, 1} PROVE TotalPnL(after, mark) = Gained(h, q, t, G, mark)
    <2> DEFINE a == [j \in F |-> SignedQty(q[j].body) * (mark - Stream[t][h[j]])]
               b == [j \in G |-> SignedQty(q[j].body) * (mark - Stream[t][h[j]])]
    <2>1. mark \in Int
        OBVIOUS
    <2>2. \A j \in G : b[j] \in Int
        BY <1>2, <2>1, GainType
    <2>3. b[i] = delta * (mark - price) /\ \A j \in F : a[j] = b[j]
        OBVIOUS
    <2>4. IsFiniteSet(F) /\ TotalPnL(pos, mark) = SumFunctionOnSet(a, F)
        BY DEF Worth, Gained
    <2> HIDE DEF a, b
    <2>5. SumFunctionOnSet(a, F) = SumFunctionOnSet(b, F)
        BY <2>3, <2>4, SumAgree
    <2>6. SumFunctionOnSet(b, F \cup {i}) = SumFunctionOnSet(b, F) + b[i]
        BY <2>2, <2>4, SumWith
    <2> HIDE DEF delta, price, after
    <2>7. TotalPnL(ApplyFill(pos, delta, price), mark) = TotalPnL(pos, mark) + delta * (mark - price)
        BY <1>1, <1>4, <2>1, NoMoneyAppears
    <2>8. Gained(h, q, t, G, mark) = SumFunctionOnSet(b, G)
        BY DEF Gained, b
    <2> QED BY <2>3, <2>4, <2>5, <2>6, <2>7, <2>8 DEF after
<1> HIDE DEF delta, price
<1>6. after \in Position
    BY <1>1, ApplyFillType
<1> HIDE DEF after, G
<1>7. Worth(h, q, t, G, after)
    BY <1>2, <1>4, <1>5, <1>6 DEF Worth
<1> QED BY <1>7 DEF G, after, delta, price

(* The fills of one tick, in any order.                                    *)
LEMMA WorthAfterTick ==
    ASSUME UnitIsFine, NEW t \in Token, NEW h, NEW n, NEW F, NEW pos,
           Worth(h, ask, t, F, pos), NEW ids, IsFiniteSet(ids), ids \subseteq OrderId,
           \A i \in ids : i \notin F /\ Fillable(h, ask, t, i) /\ h[i] = n,
           NEW order \in SetToSeqs(ids)
    PROVE  Worth(h, ask, t, F \cup ids, PosAfter(pos, order, Stream[t][n]))
<1> DEFINE price == Stream[t][n]
<1>1. PICK m \in Nat : /\ order \in [1 .. m -> ids]
                       /\ \A j \in 1 .. m, k \in 1 .. m : j # k => order[j] # order[k]
                       /\ \A i \in ids : \E k \in 1 .. m : order[k] = i
    BY FillingOrder
<1>2. PICK p : OneByOne(p, pos, order, price, m)
    BY <1>1, FillsOneByOne
<1> DEFINE G(k) == F \cup {order[j] : j \in 1 .. k}
           q == {k \in 0 .. m : Worth(h, ask, t, G(k), p[k])}
<1>3. 0 \in q
    <2>1. G(0) = F
        OBVIOUS
    <2>2. p[0] = pos
        BY <1>2 DEF OneByOne
    <2> QED BY <2>1, <2>2
<1>4. ASSUME NEW k \in 1 .. m, k - 1 \in q PROVE k \in q
    <2>1. k - 1 \in 0 .. m /\ k \in 0 .. m /\ Worth(h, ask, t, G(k - 1), p[k - 1])
        BY <1>4
    <2>2. PICK i \in ids : i = order[k]
        BY <1>1
    <2>3. i \notin {order[j] : j \in 1 .. (k - 1)}
        <3>1. \A j \in 1 .. (k - 1) : j \in 1 .. m /\ j # k
            OBVIOUS
        <3> QED BY <1>1, <2>2, <3>1
    <2>4. i \in OrderId \ G(k - 1) /\ Fillable(h, ask, t, i) /\ Stream[t][h[i]] = price
        BY <2>2, <2>3
    <2>5. G(k) = G(k - 1) \cup {i}
        <3>1. 1 .. k = 1 .. (k - 1) \cup {k}
            OBVIOUS
        <3> QED BY <2>2, <3>1
    <2>6. p[k] = ApplyFill(p[k - 1], SignedQty(ask[i].body), price)
        BY <1>2, <2>2 DEF OneByOne
    <2> HIDE DEF G, price
    <2>7. Worth(h, ask, t, G(k - 1) \cup {i}, ApplyFill(p[k - 1], SignedQty(ask[i].body), price))
        BY <2>1, <2>4, WorthOneMore
    <2> QED BY <2>1, <2>5, <2>6, <2>7
<1>5. m \in q
    <2> HIDE DEF q
    <2> QED BY <1>3, <1>4, UpTo
<1>6. G(m) = F \cup ids
    BY <1>1
<1>7. p[m] = PosAfter(pos, order, price)
    BY <1>2 DEF OneByOne
<1> HIDE DEF G
<1> QED BY <1>5, <1>6, <1>7

-----------------------------------------------------------------------------
FilledIn(s) == {i \in OrderId : s.orders[i] = "filled"}

(* Every book is worth its fills, and the rows have none that the actor    *)
(* does not have, as long as nothing was refused.                          *)
MoneyInv ==
    refused = 0 => \A t \in Token :
        /\ Worth(at, ask, t, FilledIn(mem[t]), mem[t].pos)
        /\ Worth(at, ask, t, FilledIn(rows[t]), rows[t].pos)
        /\ actors[t] # "none" => FilledIn(rows[t]) \subseteq FilledIn(mem[t])

(* Nothing has filled, nothing is gained.                                  *)
LEMMA NothingIsWorth ==
    ASSUME UnitIsFine, NEW t \in Token, NEW h, NEW q
    PROVE  Worth(h, q, t, FilledIn(NothingYet), NothingYet.pos)
<1>1. FilledIn(NothingYet) = {} /\ NothingYet.pos = Flat
    BY DEF FilledIn, NothingYet
<1>2. IsFiniteSet({}) /\ Flat \in Position
    BY FS_EmptySet DEF Flat, Position
<1>3. <<{}, Flat>> \in Good(t)
    BY DEF UnitIsFine, Good, IsFineFor
<1>4. ASSUME NEW mark \in {0, 1} PROVE TotalPnL(Flat, mark) = Gained(h, q, t, {}, mark)
    <2> DEFINE a == [i \in {} |-> SignedQty(q[i].body) * (mark - Stream[t][h[i]])]
    <2> HIDE DEF a
    <2>1. SumFunctionOnSet(a, {}) = 0
        BY SumEmpty
    <2>2. Gained(h, q, t, {}, mark) = 0
        BY <2>1 DEF Gained, a
    <2>3. TotalPnL(Flat, mark) = 0
        BY DEF TotalPnL, UnrealizedPnL, Flat
    <2> QED BY <2>2, <2>3
<1>5. Worth(h, q, t, {}, Flat)
    BY <1>2, <1>3, <1>4 DEF Worth
<1> QED BY <1>1, <1>5

(* A step that touches no order that has filled, and no book but to empty  *)
(* it or to seed it from the rows.                                         *)
LEMMA MoneyStays ==
    ASSUME UnitIsFine, EngineInv, MoneyInv, UNCHANGED <<rows, refused, at>>,
           \A i \in OrderId : ask[i].kind = "place" => ask'[i] = ask[i],
           \A t \in Token : \/ mem'[t] = mem[t] /\ (actors'[t] # "none" => actors[t] # "none")
                            \/ mem'[t] = rows[t]
                            \/ mem'[t] = NothingYet /\ actors'[t] = "none"
    PROVE  MoneyInv'
<1> SUFFICES ASSUME refused = 0, NEW t \in Token
             PROVE  /\ Worth(at', ask', t, FilledIn(mem'[t]), mem'[t].pos)
                    /\ Worth(at', ask', t, FilledIn(rows'[t]), rows'[t].pos)
                    /\ actors'[t] # "none" => FilledIn(rows'[t]) \subseteq FilledIn(mem'[t])
    BY DEF MoneyInv, FilledIn
<1>1. ASSUME NEW s, s = mem[t] \/ s = rows[t]
      PROVE  Worth(at', ask', t, FilledIn(s), s.pos)
    <2>1. Worth(at, ask, t, FilledIn(s), s.pos)
        BY <1>1 DEF MoneyInv
    <2>2. \A i \in FilledIn(s) : i \in OrderId /\ ask[i].kind = "place"
        BY <1>1 DEF FilledIn, EngineInv, Owned
    <2>3. \A i \in FilledIn(s) : at'[i] = at[i] /\ ask'[i] = ask[i]
        BY <2>2
    <2> QED BY <2>1, <2>3, WorthAgrees
<1>2. Worth(at', ask', t, FilledIn(NothingYet), NothingYet.pos)
    BY NothingIsWorth
<1>3. actors[t] # "none" => FilledIn(rows[t]) \subseteq FilledIn(mem[t])
    BY DEF MoneyInv
<1> QED BY <1>1, <1>2, <1>3

(* What handling a message must do to the money of its instrument.         *)
Settles(t) ==
    /\ Worth(at', ask, t, FilledIn(mem'[t]), mem'[t].pos)
    /\ FilledIn(mem[t]) \subseteq FilledIn(mem'[t])
    /\ \A i \in OrderId : at'[i] # at[i] => /\ ask[i].kind = "place" /\ ask[i].token = t
                                            /\ i \notin FilledIn(mem[t])

(* Filling orders of a book adds them to those that have filled.           *)
LEMMA FilledAdds ==
    ASSUME NEW s, IsBook(s), NEW ids \in SUBSET OrderId, NEW pos
    PROVE  FilledIn(Filled(s, ids, pos)) = FilledIn(s) \cup ids
<1>1. \A i \in OrderId : Filled(s, ids, pos).orders[i] = IF i \in ids THEN "filled" ELSE s.orders[i]
    BY FilledIs
<1> QED BY <1>1 DEF FilledIn

(* A call that places something asked for it.                              *)
LEMMA PlacedAsk ==
    ASSUME EngineInv, NEW i \in OrderId, ask[i].kind = "place"
    PROVE  ask[i] \in Asks[i]
<1>1. NoAsk.kind = "none"
    BY DEF NoAsk
<1> QED BY <1>1 DEF EngineInv, Shape

(* A tick settles.                                                         *)
LEMMA TickSettles ==
    ASSUME UnitIsFine, EngineInv, Numbers, MoneyInv, refused = 0, NEW t \in Token,
           NEW n \in DOMAIN Stream[t], HandleTick(t, n)
    PROVE  Settles(t)
<1> DEFINE price == Stream[t][n]
           ids == Crossed(t, price)
<1>1. AreBooks(mem) /\ IsBook(mem[t]) /\ Worth(at, ask, t, FilledIn(mem[t]), mem[t].pos)
    BY DEF EngineInv, Shape, AreBooks, MoneyInv
<1>2. at' = [i \in OrderId |-> IF i \in ids THEN n ELSE at[i]]
    BY DEF HandleTick
<1>3. /\ ids \subseteq Taken(mem[t]) /\ ids \in SUBSET OrderId
      /\ \A i \in ids : i \notin FilledIn(mem[t])
    BY DEF Crossed, Taken, FilledIn
<1>4. \A i \in ids : ask[i].kind = "place" /\ ask[i].token = t
    BY <1>3, BodyIs DEF Taken
<1> HIDE DEF ids
<1>5. \A i \in ids : Fillable(at', ask, t, i) /\ at'[i] = n
    <2> SUFFICES ASSUME NEW i \in ids PROVE Fillable(at', ask, t, i) /\ at'[i] = n
        OBVIOUS
    <2>1. i \in OrderId /\ at'[i] = n
        BY <1>2, <1>3
    <2>2. ask[i] \in Asks[i]
        BY <1>4, <2>1, PlacedAsk
    <2> QED BY <1>4, <2>1, <2>2 DEF Fillable
<1>6. \A i \in FilledIn(mem[t]) : at'[i] = at[i]
    BY <1>2, <1>3 DEF FilledIn
<1>7. Worth(at', ask, t, FilledIn(mem[t]), mem[t].pos)
    BY <1>1, <1>6, WorthAgrees
<1>8. \A i \in OrderId : at'[i] # at[i] => /\ ask[i].kind = "place" /\ ask[i].token = t
                                           /\ i \notin FilledIn(mem[t])
    BY <1>2, <1>3, <1>4
<1>9. CASE ids = {}
    <2>1. mem' = mem
        BY <1>9 DEF HandleTick, ids
    <2> QED BY <1>7, <1>8, <2>1 DEF Settles
<1>10. CASE ids # {}
    <2>1. PICK order \in SetToSeqs(ids) :
             mem' = [mem EXCEPT ![t] = Filled(mem[t], ids, PosAfter(mem[t].pos, order, price))]
        BY <1>10 DEF HandleTick, ids
    <2>2. IsFiniteSet(ids)
        BY <1>3, FS_Subset DEF Numbers, Held, Sound
    <2>3. Worth(at', ask, t, FilledIn(mem[t]) \cup ids, PosAfter(mem[t].pos, order, price))
        BY <1>3, <1>5, <1>7, <2>2, WorthAfterTick
    <2> DEFINE pos == PosAfter(mem[t].pos, order, price)
    <2> HIDE DEF pos
    <2>4. mem' = [mem EXCEPT ![t] = Filled(mem[t], ids, pos)]
        BY <2>1 DEF pos
    <2>5. IsBook(Filled(mem[t], ids, pos)) /\ Filled(mem[t], ids, pos).pos = pos
        BY <1>1, <1>3, FilledIs
    <2>6. mem'[t] = Filled(mem[t], ids, pos)
        BY <2>4, <2>5, Replaced
    <2>7. FilledIn(mem'[t]) = FilledIn(mem[t]) \cup ids /\ mem'[t].pos = pos
        BY <1>1, <1>3, <2>5, <2>6, FilledAdds
    <2> QED BY <1>8, <2>3, <2>7 DEF Settles, pos
<1> QED BY <1>9, <1>10

(* A book whose fills, position and ticks stay is settled.                 *)
LEMMA NothingSettles ==
    ASSUME MoneyInv, refused = 0, NEW t \in Token, UNCHANGED at,
           FilledIn(mem'[t]) = FilledIn(mem[t]), mem'[t].pos = mem[t].pos
    PROVE  Settles(t)
<1>1. Worth(at, ask, t, FilledIn(mem[t]), mem[t].pos)
    BY DEF MoneyInv
<1> QED BY <1>1 DEF Settles

(* A placement settles.                                                    *)
LEMMA PlaceSettles ==
    ASSUME UnitIsFine, EngineInv, Numbers, MoneyInv, refused = 0, NEW t \in Token,
           NEW c \in OrderId, HandlePlaceOrder(t, c)
    PROVE  Settles(t)
<1>1. AreBooks(mem) /\ IsBook(mem[t]) /\ Worth(at, ask, t, FilledIn(mem[t]), mem[t].pos)
    BY DEF EngineInv, Shape, AreBooks, MoneyInv
<1>2. CASE Refused(t, c)
    BY <1>2, NothingSettles DEF HandlePlaceOrder
<1>3. CASE ~Refused(t, c) /\ Marketable(t, ask[c].body)
    <2> DEFINE pos == ApplyFill(mem[t].pos, SignedQty(ask[c].body), Stream[t][last[t]])
    <2>1. mem' = [mem EXCEPT ![t] = Filled(mem[t], {c}, pos)] /\ at' = [at EXCEPT ![c] = last[t]]
        BY <1>3 DEF HandlePlaceOrder
    <2>2. last[t] \in DOMAIN Stream[t] /\ at \in [OrderId -> Nat]
        BY <1>3 DEF Marketable, Numbers, Held, Noted
    <2>3. at'[c] = last[t] /\ \A i \in OrderId \ {c} : at'[i] = at[i]
        BY <2>1, <2>2
    <2>4. ask[c].kind = "place" /\ ask[c].token = t /\ c \notin FilledIn(mem[t])
        BY <1>3 DEF HandlePlaceOrder, Refused, FilledIn
    <2>5. ask[c] \in Asks[c]
        BY <2>4, PlacedAsk
    <2>6. Fillable(at', ask, t, c)
        BY <2>2, <2>3, <2>4, <2>5 DEF Fillable
    <2>7. \A i \in FilledIn(mem[t]) : at'[i] = at[i]
        BY <2>3, <2>4 DEF FilledIn
    <2>8. Worth(at', ask, t, FilledIn(mem[t]), mem[t].pos)
        BY <1>1, <2>7, WorthAgrees
    <2>9. Worth(at', ask, t, FilledIn(mem[t]) \cup {c},
                ApplyFill(mem[t].pos, SignedQty(ask[c].body), Stream[t][at'[c]]))
        BY <2>4, <2>6, <2>8, WorthOneMore
    <2>10. Worth(at', ask, t, FilledIn(mem[t]) \cup {c}, pos)
        BY <2>3, <2>9
    <2> HIDE DEF pos
    <2>11. IsBook(Filled(mem[t], {c}, pos)) /\ Filled(mem[t], {c}, pos).pos = pos
        BY <1>1, FilledIs
    <2>12. mem'[t] = Filled(mem[t], {c}, pos)
        BY <2>1, <2>11, Replaced
    <2>13. FilledIn(mem'[t]) = FilledIn(mem[t]) \cup {c} /\ mem'[t].pos = pos
        BY <1>1, <2>11, <2>12, FilledAdds
    <2> QED BY <2>3, <2>4, <2>10, <2>13 DEF Settles
<1>4. CASE ~Refused(t, c) /\ ~Marketable(t, ask[c].body)
    <2> DEFINE s == [mem[t] EXCEPT !.orders[c] = "resting"]
    <2>1. mem' = [mem EXCEPT ![t] = s] /\ UNCHANGED at
        BY <1>4 DEF HandlePlaceOrder
    <2>2. mem[t].orders[c] = "none"
        BY <1>4 DEF Refused
    <2>3. IsBook(s) /\ s.pos = mem[t].pos /\ FilledIn(s) = FilledIn(mem[t])
        BY <1>1, <2>2 DEF IsBook, OrderStatus, FilledIn
    <2> HIDE DEF s
    <2>4. mem'[t] = s
        BY <2>1, <2>3, Replaced
    <2> QED BY <2>1, <2>3, <2>4, NothingSettles
<1> QED BY <1>2, <1>3, <1>4

(* A cancel settles, as only a resting order leaves.                       *)
LEMMA CancelSettles ==
    ASSUME EngineInv, MoneyInv, refused = 0, NEW t \in Token, NEW c \in OrderId,
           HandleCancelOrder(t, c)
    PROVE  Settles(t)
<1>1. AreBooks(mem) /\ IsBook(mem[t]) /\ UNCHANGED at
    BY DEF EngineInv, Shape, AreBooks, HandleCancelOrder, history
<1>2. ask[c] \in Asks[c] \cup {NoAsk} /\ ask[c].kind = "cancel"
    BY DEF HandleCancelOrder, EngineInv, Shape
<1>3. PICK i \in OrderId : i = ask[c].order
    BY <1>2, AskIs
<1>4. CASE mem[t].orders[i] = "resting"
    <2> DEFINE s == [mem[t] EXCEPT !.orders[i] = "cancelled"]
    <2>1. mem' = [mem EXCEPT ![t] = s]
        BY <1>3, <1>4 DEF HandleCancelOrder
    <2>2. IsBook(s) /\ s.pos = mem[t].pos /\ FilledIn(s) = FilledIn(mem[t])
        BY <1>1, <1>4 DEF IsBook, OrderStatus, FilledIn
    <2> HIDE DEF s
    <2>3. mem'[t] = s
        BY <2>1, <2>2, Replaced
    <2> QED BY <1>1, <2>2, <2>3, NothingSettles
<1>5. CASE mem[t].orders[i] # "resting"
    BY <1>1, <1>3, <1>5, NothingSettles DEF HandleCancelOrder
<1> QED BY <1>4, <1>5

(* A message handled keeps the money of all instruments.                   *)
LEMMA HandleMoney ==
    ASSUME UnitIsFine, EngineInv, Numbers, MoneyInv, InStep', NEW t \in Token, Handle(t)
    PROVE  MoneyInv'
<1>1. /\ Moves(t) /\ Saves(t) /\ actors[t] = "running" /\ inbox[t] # <<>>
    BY HandleEffect
<1> SUFFICES ASSUME refused' = 0 PROVE MoneyInv'
    BY DEF MoneyInv
<1>0. refused = 0
    BY <1>1 DEF Saves
<1>2. UNCHANGED <<ask, actors>>
    BY DEF Handle
<1>3. Settles(t)
    <2> DEFINE c == Head(inbox[t]).call
    <2>1. CASE c = NoId
        <3>1. HandleTick(t, Head(inbox[t]).seq)
            BY <2>1 DEF Handle
        <3>2. Head(inbox[t]).seq \in DOMAIN Stream[t]
            BY <1>1, <2>1, HeadTickIs
        <3> QED BY <1>0, <3>1, <3>2, TickSettles
    <2>2. CASE c # NoId
        <3>1. c \in OrderId
            BY <1>1, <2>2, HeadIs
        <3>2. HandlePlaceOrder(t, c) \/ HandleCancelOrder(t, c) \/ HandleSnapshot(t, c)
            BY <2>2 DEF Handle
        <3> HIDE DEF c
        <3>3. HandleSnapshot(t, c) => UNCHANGED <<mem, at>>
            BY DEF HandleSnapshot, history
        <3> QED BY <1>0, <3>1, <3>2, <3>3, PlaceSettles, CancelSettles, NothingSettles
    <2> QED BY <2>1, <2>2
<1>4. /\ rows' = [rows EXCEPT ![t] = rows'[t]]
      /\ phase = "running" => rows'[t] = mem'[t]
      /\ phase # "running" => rows' = rows
    <2>1. phase' = phase /\ actors'[t] # "none"
        BY <1>1 DEF Handle
    <2> QED BY <1>1, <2>1 DEF InStep, Saves
<1>5. \A u \in Token : u # t => mem'[u] = mem[u] /\ rows'[u] = rows[u]
    BY <1>1, <1>4 DEF Moves, EngineInv, Shape, AreBooks
<1>6. FilledIn(rows[t]) \subseteq FilledIn(mem[t])
    BY <1>0, <1>1 DEF MoneyInv
<1>7. ASSUME NEW u \in Token, NEW s, s = mem[u] \/ s = rows[u],
             u # t \/ FilledIn(s) \subseteq FilledIn(mem[t])
      PROVE  Worth(at', ask, u, FilledIn(s), s.pos)
    <2>1. Worth(at, ask, u, FilledIn(s), s.pos)
        BY <1>0, <1>7 DEF MoneyInv
    <2>2. \A i \in FilledIn(s) : i \in OrderId /\ ask[i].token = u
        BY <1>7 DEF FilledIn, EngineInv, Owned
    <2>3. \A i \in FilledIn(s) : at'[i] = at[i]
        BY <1>3, <1>7, <2>2 DEF Settles
    <2> QED BY <2>1, <2>3, WorthAgrees
<1>8. ASSUME NEW u \in Token
      PROVE  /\ Worth(at', ask', u, FilledIn(mem'[u]), mem'[u].pos)
             /\ Worth(at', ask', u, FilledIn(rows'[u]), rows'[u].pos)
             /\ actors'[u] # "none" => FilledIn(rows'[u]) \subseteq FilledIn(mem'[u])
    <2>1. CASE u # t
        <3>1. Worth(at', ask, u, FilledIn(mem[u]), mem[u].pos)
              /\ Worth(at', ask, u, FilledIn(rows[u]), rows[u].pos)
            BY <1>7, <2>1
        <3>2. actors[u] # "none" => FilledIn(rows[u]) \subseteq FilledIn(mem[u])
            BY <1>0 DEF MoneyInv
        <3> QED BY <1>2, <1>5, <2>1, <3>1, <3>2
    <2>2. CASE u = t
        <3>1. Worth(at', ask, t, FilledIn(rows[t]), rows[t].pos)
            BY <1>6, <1>7
        <3>2. CASE phase = "running"
            BY <1>2, <1>3, <1>4, <2>2, <3>2 DEF Settles
        <3>3. CASE phase # "running"
            BY <1>2, <1>3, <1>4, <1>6, <2>2, <3>1, <3>3 DEF Settles
        <3> QED BY <3>2, <3>3
    <2> QED BY <2>1, <2>2
<1> QED BY <1>8 DEF MoneyInv, FilledIn

(* Creating an actor or none keeps the money.                              *)
LEMMA SpawnMoney ==
    ASSUME UnitIsFine, EngineInv, MoneyInv, UNCHANGED <<rows, refused, at>>, phase # "down",
           \A i \in OrderId : ask[i].kind = "place" => ask'[i] = ask[i],
           UNCHANGED <<actors, mem, last>> \/ \E t \in Token : Actor(t)
    PROVE  MoneyInv'
<1>1. Spawns
    BY SpawnsIs
<1>2. \A t \in Token : \/ mem'[t] = mem[t] /\ (actors'[t] # "none" => actors[t] # "none")
                       \/ mem'[t] = rows[t]
    BY <1>1 DEF Spawns
<1> QED BY <1>2, MoneyStays

(* Every step keeps the money.                                             *)
LEMMA MoneyPreserved ==
    ASSUME UnitIsFine
    PROVE  EngineInv /\ Numbers /\ MoneyInv /\ InStep' /\ [Next]_vars => MoneyInv'
<1> SUFFICES ASSUME EngineInv, Numbers, MoneyInv, InStep', [Next]_vars PROVE MoneyInv'
    OBVIOUS
<1>1. ASSUME NEW c \in OrderId, NEW a \in Asks[c],
             PlaceOrderHandler(c, a) \/ CancelOrderHandler(c, a) \/ GetPositionHandler(c, a)
      PROVE  MoneyInv'
    <2>1. pc[c] = "new" /\ phase # "down" /\ ask' = [ask EXCEPT ![c] = a]
          /\ UNCHANGED <<rows, refused, at>>
        BY <1>1 DEF PlaceOrderHandler, CancelOrderHandler, GetPositionHandler, Begin, history, tables
    <2>2. UNCHANGED <<actors, mem, last>> \/ \E t \in Token : Actor(t)
        BY <1>1, HandlersFind
    <2>3. ask[c].kind = "none" /\ ask = [d \in OrderId |-> ask[d]]
        BY <2>1 DEF EngineInv, Shape, Progress, NoAsk
    <2>4. \A i \in OrderId : ask[i].kind = "place" => ask'[i] = ask[i]
        BY <2>1, <2>3
    <2> QED BY <2>1, <2>2, <2>4, SpawnMoney
<1>2. ASSUME NEW t \in Token, Handle(t) PROVE MoneyInv'
    BY <1>2, HandleMoney
<1>3. ASSUME NEW t \in Token, ActorStops(t) PROVE MoneyInv'
    <2>1. UNCHANGED <<mem, rows, refused, ask, at>> /\ actors' = [actors EXCEPT ![t] = "stopped"]
          /\ actors[t] = "running"
        BY <1>3 DEF ActorStops, callVars, history, tables
    <2>2. \A u \in Token : actors'[u] # "none" => actors[u] # "none"
        BY <2>1 DEF EngineInv, Shape
    <2> QED BY <2>1, <2>2, MoneyStays
<1>4. ASSUME NEW t \in Token, TakeTick(t) PROVE MoneyInv'
    <2>1. phase = "running" /\ Actor(t) /\ UNCHANGED <<rows, refused, ask, at>>
        BY <1>4 DEF TakeTick, callVars, history, tables
    <2> QED BY <2>1, SpawnMoney
<1>5. CASE Crash \/ Exit
    <2>1. /\ mem' = [t \in Token |-> NothingYet] /\ actors' = [t \in Token |-> "none"]
          /\ UNCHANGED <<rows, refused, ask, at>>
        BY <1>5 DEF Crash, Exit, LoseMemory, history, tables
    <2>2. \A t \in Token : mem'[t] = NothingYet /\ actors'[t] = "none"
        BY <2>1
    <2> QED BY <2>1, <2>2, MoneyStays
<1>6. ASSUME UNCHANGED <<mem, rows, refused, ask, at, actors>> PROVE MoneyInv'
    BY <1>6, MoneyStays
<1>7. ASSUME NEW c \in OrderId, CallStep(c) \/ Abandon(c) PROVE MoneyInv'
    <2>1. UNCHANGED <<mem, rows, refused, ask, at, actors>>
        BY <1>7 DEF CallStep, CallStopped, Abandon, Send, Receive, IndexOrder, GivesUp,
                    actorVars, history, tables
    <2> QED BY <2>1, <1>6
<1>8. CASE LoopStep \/ Shutdown \/ Restart \/ UNCHANGED vars
    <2>1. UNCHANGED <<mem, rows, refused, ask, at, actors>>
        BY <1>8 DEF LoopStep, DeliverTick, LoopGivesUp, Shutdown, Restart, vars, actorVars,
                    callVars, history, tables
    <2> QED BY <2>1, <1>6
<1> QED BY <1>1, <1>2, <1>3, <1>4, <1>5, <1>7, <1>8 DEF Next, ActorStep

(* At the start there is none.                                             *)
LEMMA MoneyInit == ASSUME UnitIsFine PROVE Init => MoneyInv
<1> SUFFICES ASSUME Init PROVE MoneyInv
    OBVIOUS
<1>1. \A t \in Token : mem[t] = NothingYet /\ rows[t] = NothingYet
    BY DEF Init
<1> QED BY <1>1, NothingIsWorth DEF MoneyInv

(* If the unit of money is fine enough for every average and Postgres      *)
(* refuses nothing but the writes of a shutdown, no money appears or       *)
(* disappears, in the actor or in the rows: additions, partial closes      *)
(* and flips in every order, fills lost with the process and made again    *)
(* after the restart (ApplyFill, ledger.go; SaveFillTransition,            *)
(* order_store.go).                                                        *)
THEOREM BooksAlwaysBalance ==
    ASSUME UnitIsFine
    PROVE  Spec => []BooksBalance
<1>1. Init => MoneyInv
    BY MoneyInit
<1>2. EngineInv /\ Numbers /\ MoneyInv /\ InStep' /\ [Next]_vars => MoneyInv'
    BY MoneyPreserved
<1>3. MoneyInv => BooksBalance
    <2> SUFFICES ASSUME MoneyInv, refused = 0, NEW t \in Token, NEW s, s = mem[t] \/ s = rows[t]
                 PROVE  Balanced(t, s)
        BY DEF BooksBalance
    <2>1. Worth(at, ask, t, FilledIn(s), s.pos)
        BY DEF MoneyInv
    <2> QED BY <2>1 DEF Worth, Gained, FilledIn, Balanced, Gain
<1> QED BY <1>1, <1>2, <1>3, AlwaysInStep, PTL DEF Spec
=============================================================================
