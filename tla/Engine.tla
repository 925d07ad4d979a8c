------------------------------- MODULE Engine -------------------------------
(***************************************************************************)
(* The server around the actors: the registry (registry.go), the actors'   *)
(* mailboxes and the calls that wait for a reply (actor.go), the HTTP      *)
(* handlers (httpapi), the tick loop, shutdown and restart (main.go), and  *)
(* the position ledger (ledger.go).                                        *)
(*                                                                         *)
(* An actor takes a message in one step, which MessagesAreAtomic of        *)
(* BookedActor justifies, and Postgres may refuse any of its writes; a     *)
(* kill between two writes of one message, and brackets, are the subject   *)
(* of InstrumentActor.  A call is named by the identifier of the order it  *)
(* places, if it places one.  A tick is its sequence number: its price is  *)
(* what the feed's stream has there.                                       *)
(***************************************************************************)
EXTENDS Orders, Ledger, SequencesExt

CONSTANTS
    Token,          \* instruments
    NoToken,
    Asks,           \* the requests each call may make
    Stream,         \* the prices of each instrument's ticks
    InboxCap,       \* messages an inbox holds
    Impatient,      \* calls whose client may hang up
    MaxEnds,        \* bound on kills and shutdowns
    MaxRefused      \* bound on messages with a write that Postgres refuses

Place(t, body) == [kind |-> "place", token |-> t, body |-> body]
Cancel(i)      == [kind |-> "cancel", order |-> i]
Get(t)         == [kind |-> "get", token |-> t]

ASSUME EngineAssumption ==
    /\ NoToken \notin Token
    /\ DOMAIN Asks = OrderId
    /\ \A c \in OrderId : \A a \in Asks[c] :
          \/ \E t \in Token : a = Get(t)
          \/ \E i \in OrderId : a = Cancel(i)
          \/ a.kind = "place" /\ a.token \in Token /\ a.body \in Order
    /\ Stream \in [Token -> Seq(Nat)]
    /\ InboxCap \in Nat \ {0} /\ Impatient \subseteq OrderId
    /\ MaxEnds \in Nat /\ MaxRefused \in Nat

VARIABLES
    phase,      \* of the process: running, stopping or down
    actors,     \* Registry.actors: none, running or stopped
    inbox,      \* Actor.inbox
    mem,        \* orders and position of each actor
    last,       \* the tick each actor saw last, 0 if it saw none
    rows,       \* tables orders and positions
    refused,    \* messages with a refused write so far, those of a shutdown aside
    seeds,      \* Registry.seeds
    orderIx,    \* Registry.orderIx
    ask,        \* what each call asks for
    pc,         \* where each call is
    reply,      \* the channel made for its reply
    answer,     \* the response
    loop,       \* the tick the loop is delivering, if any
    next,       \* the next tick of each instrument to arrive
    ends,       \* kills and shutdowns so far
    known,      \* placements answered and stored when the call began
    at,         \* the tick at whose price each order filled
    since,      \* the latest tick its instrument had seen when it was placed
    peak        \* the latest tick each instrument's actors have seen

actorVars == <<actors, inbox, mem, last>>
callVars  == <<ask, pc, reply, answer, known>>
feedVars  == <<loop, next>>
history   == <<at, since, peak>>
tables    == <<rows, refused>>
vars == <<phase, actorVars, tables, seeds, orderIx, callVars, feedVars, ends, history>>

InitialState == [orders: [OrderId -> {"none", "resting", "filled", "cancelled"}],
                 pos: Position]
NothingYet   == [orders |-> [i \in OrderId |-> "none"], pos |-> Flat]

(* What a call can be told: by the actor, by the handler alone, that it    *)
(* gave up, that the process died; "" is nothing yet.                      *)
Outcome == {"filled", "resting", "rejected", "cancelled", "already_filled",
            "already_cancelled", "not_found", "position", "no_actor", "error", "lost", ""}

Response == [outcome: Outcome, shows: SUBSET OrderId]

Answer(outcome, shows) == [outcome |-> outcome, shows |-> shows]
NoAnswer == Answer("", {})
Flatly   == Answer("no_actor", {})

NoAsk == [kind |-> "none"]

FromCall(c) == [call |-> c, seq |-> 0]
FromFeed(n) == [call |-> NoId, seq |-> n]
Message     == [call: OrderId \cup {NoId}, seq: Nat]

Init ==
    /\ phase = "running"
    /\ actors = [t \in Token |-> "none"] /\ inbox = [t \in Token |-> <<>>]
    /\ mem = [t \in Token |-> NothingYet] /\ last = [t \in Token |-> 0]
    /\ rows = mem /\ refused = 0 /\ seeds = mem
    /\ orderIx = [i \in OrderId |-> NoToken]
    /\ ask = [c \in OrderId |-> NoAsk] /\ pc = [c \in OrderId |-> "new"]
    /\ reply = [c \in OrderId |-> NoAnswer] /\ answer = reply
    /\ loop = <<>> /\ next = [t \in Token |-> 1]
    /\ ends = 0
    /\ known = [c \in OrderId |-> {}]
    /\ at = [i \in OrderId |-> 0] /\ since = at /\ peak = last

-----------------------------------------------------------------------------
(* Registry.Actor: the first call creates, seeds and starts the actor.     *)

(* Slip: seeded at every call.                                             *)
SpawnsAlways(t) == TRUE

FirstSeen(t) == actors[t] = "none"

(* Slip: only what is still to be done is restored.                        *)
RestoreLive(seed) ==
    [seed EXCEPT !.orders = [i \in OrderId |->
                                IF @[i] = "resting" THEN @[i] ELSE "none"]]

Restore(seed) == seed

Actor(t) ==
    IF FirstSeen(t)
    THEN /\ actors' = [actors EXCEPT ![t] = "running"]
         /\ mem' = [mem EXCEPT ![t] = Restore(seeds[t])]
         /\ last' = [last EXCEPT ![t] = 0]
    ELSE UNCHANGED <<actors, mem, last>>

-----------------------------------------------------------------------------
(* The handlers, up to the message they send.                              *)

PlacedAs(c) == {t \in Token : rows[t].orders[c] # "none"}

(* Placements answered to their callers and in the rows.                   *)
Told == {i \in OrderId : /\ pc[i] = "done" /\ PlacedAs(i) # {}
                         /\ answer[i].outcome \in {"filled", "resting"}}

Begin(c, a) ==
    /\ pc[c] = "new" /\ phase # "down"
    /\ ask' = [ask EXCEPT ![c] = a]
    /\ known' = [known EXCEPT ![c] = Told]
    /\ UNCHANGED <<phase, inbox, tables, seeds, orderIx, reply, feedVars, ends, history>>

Sends(c)            == pc' = [pc EXCEPT ![c] = "sending"] /\ UNCHANGED answer
Responds(c, a)      == pc' = [pc EXCEPT ![c] = "done"] /\ answer' = [answer EXCEPT ![c] = a]
RespondsNow(c, a)   == Responds(c, a) /\ UNCHANGED <<actors, mem, last>>

PlaceOrderHandler(c, a) ==
    /\ a.kind = "place" /\ Begin(c, a)
    /\ IF Validate(a.body) THEN Sends(c) /\ Actor(a.token)
                           ELSE RespondsNow(c, Answer("rejected", {}))

CancelOrderHandler(c, a) ==
    /\ a.kind = "cancel" /\ Begin(c, a)
    /\ IF orderIx[a.order] # NoToken
       THEN Sends(c) /\ Actor(orderIx[a.order])
       ELSE RespondsNow(c, Answer("not_found", {}))

(* Peek, so that nobody's question creates an actor.                       *)
GetPositionHandler(c, a) ==
    /\ a.kind = "get" /\ Begin(c, a)
    /\ IF ~FirstSeen(a.token) THEN Sends(c) /\ UNCHANGED <<actors, mem, last>>
                              ELSE RespondsNow(c, Flatly)

-----------------------------------------------------------------------------
(* A call from send to reply.                                              *)

Dest(c) == IF ask[c].kind = "cancel" THEN orderIx[ask[c].order] ELSE ask[c].token

(* Slip: off by one.                                                       *)
RoomForOneMore(t) == Len(inbox[t]) <= InboxCap

HasRoom(t) == Len(inbox[t]) < InboxCap

Enqueue(t, message) == inbox' = [inbox EXCEPT ![t] = Append(@, message)]

(* An inbox with room takes a message whether or not anyone will read it.  *)
Send(c) ==
    /\ pc[c] = "sending" /\ HasRoom(Dest(c))
    /\ Enqueue(Dest(c), FromCall(c))
    /\ pc' = [pc EXCEPT ![c] = "waiting"]
    /\ UNCHANGED <<phase, actors, mem, last, tables, seeds, orderIx, ask, reply,
                   answer, known, feedVars, ends, history>>

(* Slip: a placement is told to the caller and to nobody else.             *)
NeverIndexes(c) == FALSE

Indexes(c) == ask[c].kind = "place" /\ reply[c].outcome \in {"filled", "resting"}

(* A placement has still to be indexed before it is answered.              *)
Receive(c) ==
    /\ pc[c] = "waiting" /\ reply[c] # NoAnswer
    /\ pc' = [pc EXCEPT ![c] = IF Indexes(c) THEN "indexing" ELSE "done"]
    /\ answer' = [answer EXCEPT ![c] = reply[c]]
    /\ UNCHANGED <<phase, actorVars, tables, seeds, orderIx, ask, reply, known,
                   feedVars, ends, history>>

IndexOrder(c) ==
    /\ pc[c] = "indexing"
    /\ orderIx' = [orderIx EXCEPT ![c] = ask[c].token]
    /\ pc' = [pc EXCEPT ![c] = "done"]
    /\ UNCHANGED <<phase, actorVars, tables, seeds, ask, reply, answer, known,
                   feedVars, ends, history>>

GivesUp(c) ==
    /\ pc[c] \in {"sending", "waiting"}
    /\ Responds(c, Answer("error", {}))
    /\ UNCHANGED <<phase, actorVars, tables, seeds, orderIx, ask, reply, known,
                   feedVars, ends, history>>

(* Slip: no case for the end of the actor.                                 *)
NeverSeen(t) == FALSE

SeesDone(t) == actors[t] = "stopped"

CallStopped(c) == GivesUp(c) /\ SeesDone(Dest(c))

(* The request's context ends: the client hung up.                         *)
Abandon(c) == c \in Impatient /\ GivesUp(c)

-----------------------------------------------------------------------------
(* The actor: one message, one step.                                       *)

(* Slip: the channel is made without a buffer.                             *)
CallerWaits(c) == pc[c] = "waiting"

CanReply(c) == reply[c] = NoAnswer

Replies(c, a) == CanReply(c) /\ reply' = [reply EXCEPT ![c] = a]

Changed(t) == {i \in OrderId : mem'[t].orders[i] # mem[t].orders[i]}

Filled(s, ids, pos) ==
    [orders |-> [i \in OrderId |-> IF i \in ids THEN "filled" ELSE s.orders[i]],
     pos    |-> pos]

PosAfter(pos, order, price) ==
    FoldLeft(LAMBDA p, i : ApplyFill(p, SignedQty(ask[i].body), price), pos, order)

(* The orders that a message changed are written through one by one, each  *)
(* fill with the position after it.  A refused write is logged and left;   *)
(* with the cancelled context of a shutdown all are.                       *)
WriteThrough(t, fills, price) ==
    \E written \in SUBSET Changed(t) :
        LET filled == {n \in DOMAIN fills : fills[n] \in written}
        IN  /\ phase # "running" => written = {}
            /\ refused' = IF phase = "running" /\ written # Changed(t)
                          THEN refused + 1 ELSE refused
            /\ refused' <= MaxRefused
            /\ rows' = [rows EXCEPT ![t] =
                  [orders |-> [i \in OrderId |-> IF i \in written THEN mem'[t].orders[i]
                                                                 ELSE @.orders[i]],
                   pos    |-> IF filled = {} THEN @.pos
                              ELSE PosAfter(mem[t].pos, SubSeq(fills, 1, Max(filled)), price)]]

Marketable(t, body) == last[t] # 0 /\ WouldFill(body, Stream[t][last[t]])

Refused(t, c) ==
    ~Validate(ask[c].body) \/ ask[c].token # t \/ mem[t].orders[c] # "none"

HandlePlaceOrder(t, c) ==
    /\ ask[c].kind = "place"
    /\ IF Refused(t, c)
       THEN Replies(c, Answer("rejected", {})) /\ UNCHANGED <<mem, tables, since, at>>
       ELSE /\ since' = [since EXCEPT ![c] = peak[t]]
            /\ IF Marketable(t, ask[c].body)
               THEN /\ mem' = [mem EXCEPT ![t] = Filled(@, {c},
                        ApplyFill(@.pos, SignedQty(ask[c].body), Stream[t][last[t]]))]
                    /\ at' = [at EXCEPT ![c] = last[t]]
                    /\ WriteThrough(t, <<c>>, Stream[t][last[t]])
                    /\ Replies(c, Answer("filled", {}))
               ELSE /\ mem' = [mem EXCEPT ![t] = [@ EXCEPT !.orders[c] = "resting"]]
                    /\ WriteThrough(t, <<>>, 0)
                    /\ Replies(c, Answer("resting", {}))
                    /\ UNCHANGED at
    /\ UNCHANGED <<last, peak>>

CancelOutcome(status) ==
    CASE status = "none"      -> "not_found"
      [] status = "resting"   -> "cancelled"
      [] status = "filled"    -> "already_filled"
      [] status = "cancelled" -> "already_cancelled"

HandleCancelOrder(t, c) ==
    /\ ask[c].kind = "cancel"
    /\ LET i == ask[c].order
       IN  /\ Replies(c, Answer(CancelOutcome(mem[t].orders[i]), {}))
           /\ mem' = IF mem[t].orders[i] = "resting"
                     THEN [mem EXCEPT ![t].orders[i] = "cancelled"] ELSE mem
           /\ WriteThrough(t, <<>>, 0)
    /\ UNCHANGED <<last, history>>

HandleSnapshot(t, c) ==
    /\ ask[c].kind = "get"
    /\ Replies(c, Answer("position", {i \in OrderId : mem[t].orders[i] # "none"}))
    /\ UNCHANGED <<mem, tables, last, history>>

Crossed(t, price) ==
    {i \in OrderId : mem[t].orders[i] = "resting" /\ WouldFill(ask[i].body, price)}

(* The orders fill in the arbitrary order of a map, which the ledger sees. *)
HandleTick(t, n) ==
    LET price == Stream[t][n] IN
    /\ last' = [last EXCEPT ![t] = n]
    /\ peak' = [peak EXCEPT ![t] = IF n > @ THEN n ELSE @]
    /\ IF Crossed(t, price) = {} THEN UNCHANGED <<mem, tables>>
       ELSE \E order \in SetToSeqs(Crossed(t, price)) :
               /\ mem' = [mem EXCEPT ![t] = Filled(@, Crossed(t, price),
                                                   PosAfter(@.pos, order, price))]
               /\ WriteThrough(t, order, price)
    /\ at' = [i \in OrderId |-> IF i \in Crossed(t, price) THEN n ELSE at[i]]
    /\ UNCHANGED <<reply, since>>

Handle(t) ==
    /\ actors[t] = "running" /\ inbox[t] # <<>>
    /\ LET message == Head(inbox[t])
           c == message.call
       IN  IF c = NoId THEN HandleTick(t, message.seq)
           ELSE \/ HandlePlaceOrder(t, c)
                \/ HandleCancelOrder(t, c)
                \/ HandleSnapshot(t, c)
    /\ inbox' = [inbox EXCEPT ![t] = Tail(@)]
    /\ UNCHANGED <<phase, actors, seeds, orderIx, ask, pc, answer, known, feedVars, ends>>

(* The select may choose the end although messages wait.                   *)
ActorStops(t) ==
    /\ actors[t] = "running" /\ phase = "stopping"
    /\ actors' = [actors EXCEPT ![t] = "stopped"]
    /\ UNCHANGED <<phase, inbox, mem, last, tables, seeds, orderIx, callVars,
                   feedVars, ends, history>>

-----------------------------------------------------------------------------
(* The tick loop: a tick is recorded, then its actor found or created,     *)
(* then the tick delivered, which waits for room.                          *)

TakeTick(t) ==
    /\ phase = "running" /\ loop = <<>> /\ next[t] \in DOMAIN Stream[t]
    /\ loop' = <<[token |-> t, seq |-> next[t]]>>
    /\ next' = [next EXCEPT ![t] = @ + 1]
    /\ Actor(t)
    /\ UNCHANGED <<phase, inbox, tables, seeds, orderIx, callVars, ends, history>>

DeliverTick ==
    /\ loop # <<>> /\ HasRoom(loop[1].token)
    /\ Enqueue(loop[1].token, FromFeed(loop[1].seq))
    /\ loop' = <<>>
    /\ UNCHANGED <<phase, actors, mem, last, tables, seeds, orderIx, callVars,
                   next, ends, history>>

(* The context of the loop is that of the actors.                          *)
LoopGivesUp ==
    /\ loop # <<>> /\ phase = "stopping"
    /\ loop' = <<>>
    /\ UNCHANGED <<phase, actorVars, tables, seeds, orderIx, callVars, next, ends, history>>

-----------------------------------------------------------------------------
(* The life of the process.                                                *)

LoseMemory ==
    /\ phase' = "down"
    /\ actors' = [t \in Token |-> "none"] /\ inbox' = [t \in Token |-> <<>>]
    /\ mem' = [t \in Token |-> NothingYet] /\ last' = [t \in Token |-> 0]
    /\ seeds' = mem' /\ orderIx' = [i \in OrderId |-> NoToken]
    /\ loop' = <<>>
    /\ pc' = [c \in OrderId |-> IF pc[c] = "new" THEN "new" ELSE "done"]
    /\ answer' = [c \in OrderId |-> IF pc[c] \in {"new", "done"} THEN answer[c]
                                    ELSE Answer("lost", {})]
    /\ reply' = [c \in OrderId |-> NoAnswer]
    /\ UNCHANGED <<tables, ask, known, next, history>>

Crash ==
    /\ phase = "running" /\ ends < MaxEnds
    /\ ends' = ends + 1
    /\ LoseMemory

Shutdown ==
    /\ phase = "running" /\ ends < MaxEnds
    /\ phase' = "stopping"
    /\ ends' = ends + 1
    /\ UNCHANGED <<actorVars, tables, seeds, orderIx, callVars, feedVars, history>>

(* main returns: handlers had ten seconds to end.                          *)
Exit == phase = "stopping" /\ LoseMemory /\ UNCHANGED ends

SeededIndex ==
    [i \in OrderId |-> IF PlacedAs(i) = {} THEN NoToken
                       ELSE CHOOSE t \in Token : t \in PlacedAs(i)]

(* The feed is asked to start anywhere up to where it was.                 *)
Restart ==
    /\ phase = "down"
    /\ phase' = "running"
    /\ seeds' = rows /\ orderIx' = SeededIndex
    /\ next' \in [Token -> UNION {1 .. next[t] : t \in Token}]
    /\ \A t \in Token : next'[t] <= next[t]
    /\ UNCHANGED <<actorVars, tables, callVars, loop, ends, history>>

-----------------------------------------------------------------------------
ActorStep(t) == Handle(t) \/ ActorStops(t)

CallStep(c) == Send(c) \/ Receive(c) \/ IndexOrder(c) \/ CallStopped(c)

LoopStep == DeliverTick \/ LoopGivesUp

Next ==
    \/ \E c \in OrderId : \E a \in Asks[c] :
          PlaceOrderHandler(c, a) \/ CancelOrderHandler(c, a) \/ GetPositionHandler(c, a)
    \/ \E c \in OrderId : CallStep(c) \/ Abandon(c)
    \/ \E t \in Token : ActorStep(t) \/ TakeTick(t)
    \/ LoopStep \/ Crash \/ Shutdown \/ Exit \/ Restart

Spec == Init /\ [][Next]_vars

(* Runnable goroutines run.  Nothing is promised of the feed, of the       *)
(* callers' patience or of main's end.                                     *)
FairSpec ==
    /\ Spec
    /\ \A t \in Token : WF_vars(ActorStep(t))
    /\ \A c \in OrderId : WF_vars(CallStep(c))
    /\ WF_vars(LoopStep)
-----------------------------------------------------------------------------
(* Types, and the inboxes within their capacity.                           *)
EngineTypeOK ==
    /\ phase \in {"running", "stopping", "down"}
    /\ actors \in [Token -> {"none", "running", "stopped"}]
    /\ inbox \in [Token -> Seq(Message)]
    /\ \A t \in Token : Len(inbox[t]) <= InboxCap
    /\ mem \in [Token -> InitialState] /\ rows \in [Token -> InitialState]
    /\ seeds \in [Token -> InitialState]
    /\ last \in [Token -> Nat]
    /\ orderIx \in [OrderId -> Token \cup {NoToken}]
    /\ \A c \in OrderId : ask[c] \in Asks[c] \cup {NoAsk}
    /\ pc \in [OrderId -> {"new", "sending", "waiting", "indexing", "done"}]
    /\ reply \in [OrderId -> Response] /\ answer \in [OrderId -> Response]
    /\ loop \in Seq([token: Token, seq: Nat]) /\ Len(loop) <= 1
    /\ next \in [Token -> Nat]
    /\ ends \in 0 .. MaxEnds /\ refused \in 0 .. MaxRefused
    /\ known \in [OrderId -> SUBSET OrderId]
    /\ at \in [OrderId -> Nat] /\ since \in [OrderId -> Nat] /\ peak \in [Token -> Nat]

(* A cancel is answered not_found only for an order whose placement had    *)
(* not been answered and stored when the cancel came in, restarts and      *)
(* refused writes included (CancelOrderHandler, orders.go;                 *)
(* NewPersistentRegistry, registry.go).                                    *)
NotFoundIsTrue ==
    \A c \in OrderId :
        ask[c].kind = "cancel" /\ answer[c].outcome = "not_found"
            => ask[c].order \notin known[c]

Shown(c) == {i \in known[c] : ask[c].token \in PlacedAs(i)} \subseteq answer[c].shows

(* A position that an actor reports has every order of its instrument that *)
(* was answered and stored before the question, restarts and refused       *)
(* writes included (Snapshot, actor.go).                                   *)
ReadsAreCurrent ==
    \A c \in OrderId : answer[c].outcome = "position" => Shown(c)

(* An instrument is reported flat and without orders only if it has none   *)
(* (the comment of GetPositionHandler, positions.go).                      *)
PositionIsTold ==
    \A c \in OrderId : answer[c].outcome \in {"position", "no_actor"} => Shown(c)

(* A refused write leaves the rows behind the actor, never the actor       *)
(* behind the rows: it knows every order they have, and how each that is   *)
(* over ended, from its seed on and through shutdowns.  While the process  *)
(* runs and nothing was refused they are the same (Registry.Actor,         *)
(* registry.go; persistOrder and persistFill, actor_state.go).             *)
ActorNeverBehind ==
    \A t \in Token : actors[t] # "none" =>
        /\ \A i \in OrderId : rows[t].orders[i] # "none" => mem[t].orders[i] # "none"
        /\ \A i \in OrderId : rows[t].orders[i] \in Terminal
                                 => mem[t].orders[i] = rows[t].orders[i]
        /\ phase = "running" /\ refused = 0 => mem[t] = rows[t]

Gain(t, i, mark) == SignedQty(ask[i].body) * (mark - Stream[t][at[i]])

Balanced(t, s) ==
    LET filled == {i \in OrderId : s.orders[i] = "filled"}
    IN  \A mark \in {0, 1} :
            TotalPnL(s.pos, mark)
                = SumFunctionOnSet([i \in filled |-> Gain(t, i, mark)], filled)

(* No money appears or disappears: realized plus unrealized P&L is what    *)
(* the fills have gained at the mark, for the actor and for the rows,      *)
(* through additions, partial closes and flips in every order, as long as  *)
(* Postgres refused nothing but the writes of a shutdown (otherwise a      *)
(* later fill stores what the refused one paid, without its order: see     *)
(* StoredPositionMatchesFills of InstrumentActor).  Both sides are linear  *)
(* in the mark, so two marks stand for all (ApplyFill, ledger.go).         *)
BooksBalance ==
    refused = 0 => \A t \in Token : \A s \in {mem[t], rows[t]} : Balanced(t, s)

(* No order fills at a price older than one its instrument had already     *)
(* seen when the order was placed (main.go: a replayed tick is harmless;   *)
(* 0001_init.sql: it is a no-op for order fills too).                      *)
NoStaleFill ==
    \A t \in Token, i \in OrderId :
        mem[t].orders[i] = "filled" => at[i] >= since[i]

(* No call waits for ever, whether the others are patient or not and       *)
(* whether or not the actor stops before its turn: as each call is made    *)
(* once, there is always a later time at which none is waiting (send and   *)
(* PlaceOrder, actor.go).                                                  *)
CallsReturn == []<>(\A c \in OrderId : pc[c] \in {"new", "done"})

(* The one loop that serves all instruments is never stuck with the tick   *)
(* of one of them: there is always a later time at which it has none in    *)
(* hand (Actor.Tick, actor.go; main.go).                                   *)
LoopMovesOn == []<>(loop = <<>>)
=============================================================================
