-------------------------- MODULE InstrumentActor --------------------------
(***************************************************************************)
(* One instrument's actor (internal/instrument) with the rows it keeps in  *)
(* Postgres (internal/storage/order_store.go), over any number of process  *)
(* lifetimes.                                                              *)
(*                                                                         *)
(* The actor's goroutine handles one message to completion, so nothing in  *)
(* the process sees its memory between two statements of a handler.  What  *)
(* can happen between two of them is that the process dies, and what       *)
(* survives is the rows.  The grain of the model is therefore the write:   *)
(* each action is one in-memory change together with the write that        *)
(* follows it, and the actions of a handler follow each other in the order *)
(* of the code.  A write may fail; the code logs the error and goes on.    *)
(***************************************************************************)
EXTENDS Orders

CONSTANTS
    Price,              \* the last traded prices the feed can deliver
    Requests,           \* bodies of POST /orders
    Brackets,           \* bodies of POST /orders/bracket
    MaxCrashes,         \* bound on kills of the process
    MaxStops,           \* bound on graceful shutdowns
    MaxFailedWrites     \* bound on writes Postgres refuses

ASSUME ConstantsAssumption ==
    /\ Price \subseteq Nat \ {0}
    /\ Requests \subseteq OrderRequest
    /\ Brackets \subseteq BracketRequest
    /\ MaxCrashes \in Nat /\ MaxStops \in Nat /\ MaxFailedWrites \in Nat

VARIABLES
    phase,      \* "running", "stopping" (context cancelled) or "down"
    orders,     \* actorState.orders
    pos,        \* actorState.position.Qty
    lastLTP,    \* actorState.lastLTP
    hasLTP,     \* actorState.hasLTP
    pc,         \* "idle" (in the select), or what the current handler does
    staged,     \* legs of the order message being handled, not yet stored
    calls,      \* orders whose fillOrder call has not returned
    answer,     \* what the handler will reply: pairs <<order, outcome>>
    published,  \* the last Update given to the publisher: <<qty, ltp>>
    dbOrders,   \* table orders
    dbPos,      \* positions.qty (0 if there is no row)
    issued,     \* identifiers newOrderID has returned
    told,       \* pairs <<order, outcome>> that callers were told
    faults      \* how many faults of each kind have happened

memory  == <<orders, pos, lastLTP, hasLTP>>
control == <<pc, staged, calls, answer>>
store   == <<dbOrders, dbPos>>
vars    == <<phase, memory, control, published, store, issued, told, faults>>

Outcome == {"accepted", "filled", "cancelled"}

TypeOK ==
    /\ phase \in {"running", "stopping", "down"}
    /\ orders \in [OrderId -> Order] /\ dbOrders \in [OrderId -> Order]
    /\ staged \in [OrderId -> Order]
    /\ pos \in Int /\ dbPos \in Int
    /\ lastLTP \in Price \cup {0} /\ hasLTP \in BOOLEAN
    /\ pc \in {"idle", "placing", "sweeping", "replying"}
    /\ calls \subseteq OrderId /\ issued \subseteq OrderId
    /\ answer \subseteq OrderId \X Outcome /\ told \subseteq OrderId \X Outcome
    /\ published \in Int \X (Price \cup {0})
    /\ faults \in [crash: Nat, stop: Nat, write: Nat]

NoOrders == [i \in OrderId |-> NoOrder]

(* A new database and a process that has just read it.                     *)
Init ==
    /\ phase = "running"
    /\ orders = NoOrders /\ pos = 0 /\ lastLTP = 0 /\ hasLTP = FALSE
    /\ pc = "idle" /\ staged = NoOrders /\ calls = {} /\ answer = {}
    /\ published = <<0, 0>>
    /\ dbOrders = NoOrders /\ dbPos = 0
    /\ issued = {} /\ told = {}
    /\ faults = [crash |-> 0, stop |-> 0, write |-> 0]

Idle == phase # "down" /\ pc = "idle"

-----------------------------------------------------------------------------
(* Reading the book.                                                       *)

Known(i)      == orders[i] # NoOrder
(* Slip: asks no price to be known.                                        *)
MarketableAtAnyTime(o) == WouldFill(o, lastLTP)

Marketable(o) == hasLTP /\ WouldFill(o, lastLTP)
ChildrenOf(i) == {j \in OrderId : orders[j].entry = i}

(* Slips: forgets one leg, takes a leg already active for a pending one.   *)
PendingTargetOnly(i) == {j \in ChildrenOf(i) : orders[j].status = "pending"
                                               /\ orders[j].type = "limit"}
PendingOrActive(i) == {j \in ChildrenOf(i) : orders[j].status \in {"pending", "resting"}}

PendingChildren(i) == {j \in ChildrenOf(i) : orders[j].status = "pending"}

(* Slips: the loop skips stops, looks at pending legs, or at filled orders.*)
CrossedLimits    == {i \in OrderId : orders[i].status = "resting"
                         /\ orders[i].type # "stop" /\ Marketable(orders[i])}
CrossedOrPending == {i \in OrderId : orders[i].status \in {"resting", "pending"}
                         /\ Marketable(orders[i])}
CrossedAgain     == {i \in OrderId : orders[i].status \in {"resting", "filled"}
                         /\ Marketable(orders[i])}

(* The resting orders handleTick's loop still has to fill.  A visit to any *)
(* other order does nothing, and the loop visits in arbitrary order.       *)
Crossed == {i \in OrderId : orders[i].status = "resting" /\ Marketable(orders[i])}

-----------------------------------------------------------------------------
(* Writing through.                                                        *)

(* Slip: ON CONFLICT DO NOTHING.                                           *)
InsertOnly(i, o) == [dbOrders EXCEPT ![i] = IF @ = NoOrder THEN o ELSE @]

(* INSERT ... ON CONFLICT (id) DO UPDATE SET status.                       *)
Upsert(i, o) == [dbOrders EXCEPT ![i] =
                    IF @ = NoOrder THEN o ELSE [@ EXCEPT !.status = o.status]]

WriteCommits(rows, qty) ==
    /\ phase = "running"
    /\ dbOrders' = rows /\ dbPos' = qty
    /\ UNCHANGED faults

(* Every write made with a cancelled context fails; any other one may.     *)
WriteFails ==
    /\ \/ phase = "stopping" /\ UNCHANGED faults
       \/ /\ phase = "running" /\ faults.write < MaxFailedWrites
          /\ faults' = [faults EXCEPT !.write = @ + 1]
    /\ UNCHANGED store

Write(rows, qty) == WriteCommits(rows, qty) \/ WriteFails

PersistOrder(i, o)     == Write(Upsert(i, o), dbPos)
(* Slip: saves the filled order and forgets the position.                  *)
PersistFillOrderOnly(i, o, qty) == Write(Upsert(i, o), dbPos)

PersistFill(i, o, qty) == Write(Upsert(i, o), qty)

(* Store o under i with a new status and write its row.                    *)
SetStatus(i, o, status) ==
    LET stored == [o EXCEPT !.status = status]
    IN  /\ orders' = [orders EXCEPT ![i] = stored]
        /\ PersistOrder(i, stored)

(* fillOrder up to persistFill; the call then stays on the stack while it  *)
(* activates children and cancels the sibling.                             *)
Fill(i, o) ==
    LET filled == [o EXCEPT !.status = "filled"]
    IN  /\ orders' = [orders EXCEPT ![i] = filled]
        /\ pos' = pos + SignedQty(o)
        /\ PersistFill(i, filled, pos')
        /\ calls' = calls \cup {i}
        /\ UNCHANGED <<phase, lastLTP, hasLTP, published, issued, told>>

(* Slip: sends the new price with the old position.                        *)
PublishPriceOnly == published' = <<published[1], lastLTP>>

Publish == published' = <<pos, lastLTP>>

-----------------------------------------------------------------------------
(* handlePlaceOrder and handlePlaceBracket.                                *)

(* Sixteen random bytes: never an identifier returned before.              *)
NewOrderIDs(ids) == ids \cap issued = {} /\ issued' = issued \cup ids

HandlePlaceOrder(i, r) ==
    /\ Idle
    /\ NewOrderIDs({i})
    /\ Validate(NewOrder(r)) /\ ~Known(i)
    /\ staged' = [staged EXCEPT ![i] = NewOrder(r)]
    /\ pc' = "placing"
    /\ UNCHANGED <<phase, memory, calls, answer, published, store, told, faults>>

HandlePlaceBracket(e, t, s, b) ==
    /\ Idle
    /\ e # t /\ e # s /\ t # s
    /\ NewOrderIDs({e, t, s})
    /\ ValidateBracket(EntryLeg(b), TargetLeg(b), StopLeg(b))
    /\ ~Known(e) /\ ~Known(t) /\ ~Known(s)
    /\ staged' = [staged EXCEPT ![e] = EntryLeg(b),
                                ![t] = Link(TargetLeg(b), e, s),
                                ![s] = Link(StopLeg(b), e, t)]
    /\ pc' = "placing"
    /\ UNCHANGED <<phase, memory, calls, answer, published, store, told, faults>>

Staged(i)  == staged[i] # NoOrder
IsChild(o) == o.entry # NoId
Unstage(i) == staged' = [staged EXCEPT ![i] = NoOrder]

(* The target is stored before the stop.                                   *)
StoreChild(i) ==
    /\ phase # "down" /\ pc = "placing"
    /\ Staged(i) /\ IsChild(staged[i])
    /\ staged[i].type = "stop" => ~Staged(staged[i].sibling)
    /\ SetStatus(i, staged[i], "pending")
    /\ Unstage(i)
    /\ UNCHANGED <<phase, pos, lastLTP, hasLTP, pc, calls, answer, published, issued, told>>

(* What the reply to a placement says: the outcome of the entry, and that  *)
(* its children were accepted.                                             *)
Placed(i, outcome) == {<<i, outcome>>} \cup (ChildrenOf(i) \X {"accepted"})

(* The entry of a bracket is placed as a standalone order is.              *)
EntryNext(i) ==
    /\ phase # "down" /\ pc = "placing"
    /\ Staged(i) /\ \A j \in OrderId : Staged(j) => ~IsChild(staged[j])
    /\ Unstage(i)
    /\ pc' = "replying"

FillOnPlace(i) ==
    /\ EntryNext(i)
    /\ Marketable(staged[i])
    /\ answer' = Placed(i, "filled")
    /\ Fill(i, staged[i])

RestOnPlace(i) ==
    /\ EntryNext(i)
    /\ ~Marketable(staged[i])
    /\ answer' = Placed(i, "accepted")
    /\ SetStatus(i, staged[i], "resting")
    /\ UNCHANGED <<phase, pos, lastLTP, hasLTP, calls, published, issued, told>>

Reply ==
    /\ phase # "down" /\ pc = "replying" /\ calls = {}
    /\ told' = told \cup answer
    /\ answer' = {} /\ pc' = "idle"
    /\ UNCHANGED <<phase, memory, staged, calls, published, store, issued, faults>>

-----------------------------------------------------------------------------
(* handleCancelOrder.  An unknown order is answered not_found.             *)

(* Slip: a cancel that arrives after the fill still wins.                  *)
CancellableAnyTime == {"resting", "pending", "filled"}

Cancellable == {"resting", "pending"}

HandleCancelLive(i) ==
    /\ Idle /\ orders[i].status \in Cancellable
    /\ SetStatus(i, orders[i], "cancelled")
    /\ pc' = "replying" /\ answer' = {<<i, "cancelled">>}
    /\ UNCHANGED <<phase, pos, lastLTP, hasLTP, staged, calls, published, issued, told>>

(* already_filled and already_cancelled change nothing: no write precedes  *)
(* the reply.                                                              *)
HandleCancelFinal(i) ==
    /\ Idle /\ orders[i].status \in Terminal
    /\ told' = told \cup {<<i, orders[i].status>>}
    /\ UNCHANGED <<phase, memory, control, published, store, issued, faults>>

-----------------------------------------------------------------------------
(* handleTick.                                                             *)

HandleTick(ltp) ==
    /\ Idle
    /\ lastLTP' = ltp /\ hasLTP' = TRUE
    /\ pc' = "sweeping"
    /\ UNCHANGED <<phase, orders, pos, staged, calls, answer, published, store,
                   issued, told, faults>>

FillOnTick(i) ==
    /\ phase # "down" /\ pc = "sweeping" /\ calls = {}
    /\ i \in Crossed
    /\ Fill(i, orders[i])
    /\ UNCHANGED <<pc, staged, answer>>

EndTick ==
    /\ phase # "down" /\ pc = "sweeping" /\ calls = {}
    /\ Crossed = {}
    /\ Publish
    /\ pc' = "idle"
    /\ UNCHANGED <<phase, memory, staged, calls, answer, store, issued, told, faults>>

-----------------------------------------------------------------------------
(* The rest of fillOrder: activateChildrenOf, cancelSiblingOf, publish.    *)
(* The only nested call is for a child of the outer call's order, so the   *)
(* set of open calls determines the stack.                                 *)

Innermost(i) == i \in calls /\ ChildrenOf(i) \cap calls = {}

(* Slip: waits for the next tick.                                          *)
NothingToFillNow(i) == {}

(* A child just made resting that already crosses is filled next.          *)
ToFillNow(i) == ChildrenOf(i) \cap Crossed

ActivateChild(i, j) ==
    /\ phase # "down" /\ Innermost(i)
    /\ ToFillNow(i) = {} /\ j \in PendingChildren(i)
    /\ SetStatus(j, orders[j], "resting")
    /\ UNCHANGED <<phase, pos, lastLTP, hasLTP, control, published, issued, told>>

FillActivated(i, j) ==
    /\ phase # "down" /\ Innermost(i)
    /\ j \in ToFillNow(i)
    /\ Fill(j, orders[j])
    /\ UNCHANGED <<pc, staged, answer>>

(* Slip: the sibling that is still pending is left alone.                  *)
RestingSibling(i) ==
    {j \in OrderId : j = orders[i].sibling /\ orders[j].status = "resting"}

LiveSibling(i) ==
    {j \in OrderId : j = orders[i].sibling /\ orders[j].status \in Cancellable}

Return(i) ==
    /\ phase # "down" /\ Innermost(i)
    /\ ToFillNow(i) = {} /\ PendingChildren(i) = {}
    /\ calls' = calls \ {i}
    /\ Publish
    /\ UNCHANGED <<phase, pos, lastLTP, hasLTP, pc, staged, answer, issued, told>>

ReturnCancellingSibling(i, j) ==
    /\ Return(i)
    /\ j \in LiveSibling(i)
    /\ SetStatus(j, orders[j], "cancelled")

ReturnOnly(i) ==
    /\ Return(i)
    /\ LiveSibling(i) = {}
    /\ UNCHANGED <<orders, store, faults>>

-----------------------------------------------------------------------------
(* The life of the process.                                                *)

(* Memory is gone, the callers waiting for a reply never get one.          *)
LoseMemory ==
    /\ phase' = "down"
    /\ orders' = NoOrders /\ pos' = 0 /\ lastLTP' = 0 /\ hasLTP' = FALSE
    /\ pc' = "idle" /\ staged' = NoOrders /\ calls' = {} /\ answer' = {}
    /\ published' = <<0, 0>>
    /\ UNCHANGED <<store, issued, told>>

Crash ==
    /\ phase # "down" /\ faults.crash < MaxCrashes
    /\ faults' = [faults EXCEPT !.crash = @ + 1]
    /\ LoseMemory

(* SIGTERM cancels appCtx: the run loop's select may still take messages   *)
(* from the inbox before it takes ctx.Done.                                *)
Shutdown ==
    /\ phase = "running" /\ faults.stop < MaxStops
    /\ faults' = [faults EXCEPT !.stop = @ + 1]
    /\ phase' = "stopping"
    /\ UNCHANGED <<memory, control, published, store, issued, told>>

Exit ==
    /\ phase = "stopping" /\ pc = "idle"
    /\ LoseMemory
    /\ UNCHANGED faults

(* LoadAllInstrumentState and restore: the price is not restored.          *)
Restart ==
    /\ phase = "down"
    /\ phase' = "running"
    /\ orders' = dbOrders /\ pos' = dbPos
    /\ UNCHANGED <<lastLTP, hasLTP, control, published, store, issued, told, faults>>

-----------------------------------------------------------------------------
Message ==
    \/ \E i \in OrderId, r \in Requests : HandlePlaceOrder(i, r)
    \/ \E e, t, s \in OrderId, b \in Brackets : HandlePlaceBracket(e, t, s, b)
    \/ \E i \in OrderId : HandleCancelLive(i) \/ HandleCancelFinal(i)
    \/ \E ltp \in Price : HandleTick(ltp)

Work ==
    \/ \E i \in OrderId : StoreChild(i) \/ FillOnPlace(i) \/ RestOnPlace(i)
    \/ \E i \in OrderId : FillOnTick(i)
    \/ \E i, j \in OrderId :
          ActivateChild(i, j) \/ FillActivated(i, j) \/ ReturnCancellingSibling(i, j)
    \/ \E i \in OrderId : ReturnOnly(i)
    \/ EndTick
    \/ Reply

Process == Crash \/ Shutdown \/ Exit \/ Restart

Next == Message \/ Work \/ Process

Spec == Init /\ [][Next]_vars

(* The Go scheduler runs a runnable goroutine: a handler once begun keeps  *)
(* going.  Nothing obliges a message, a fault or an operator to arrive.    *)
FairSpec == Spec /\ WF_vars(Work)
-----------------------------------------------------------------------------
(* What the actor promises.  Filled(t) and its like read a table of orders *)
(* t, which is the memory or the rows.                                     *)

Filled(t)    == {i \in OrderId : t[i].status = "filled"}
Cancelled(t) == {i \in OrderId : t[i].status = "cancelled"}

(* At most one of the two exit legs of a bracket ever fills.               *)
NeverBothFilled ==
    \A i \in Filled(orders) : orders[i].sibling \notin Filled(orders)

(* Once a leg has filled, its sibling is cancelled, but for the moment in  *)
(* which the leg's own fillOrder call is about to cancel it: a tick that   *)
(* crosses both, a cancel of one, or an entry that activates both never    *)
(* leave two live legs (cancelSiblingOf, bracket.go).                      *)
OneCancelsOther ==
    \A i \in Filled(orders) : orders[i].sibling # NoId =>
        \/ orders[i].sibling \in Cancelled(orders)
        \/ i \in calls /\ orders[orders[i].sibling].status \in Cancellable

(* A leg is live or done only because its entry filled: closing a position *)
(* that was never opened is what activateChildrenOf exists to prevent.     *)
ChildrenFollowEntry ==
    \A j \in OrderId :
        orders[j].entry # NoId /\ orders[j].status \in {"resting", "filled"}
            => orders[j].entry \in Filled(orders)

(* No filled entry is left with a leg that no tick will ever look at.      *)
NoStrandedChild ==
    Idle => \A j \in OrderId : orders[j].entry \in Filled(orders)
                                  => orders[j].status # "pending"

(* Between messages no order rests that the last price would fill.         *)
NoMarketableOrderRests ==
    Idle /\ hasLTP => \A i \in OrderId : orders[i].status = "resting"
                                          => ~WouldFill(orders[i], lastLTP)

(* After a restart there is no price until the first tick, and nothing     *)
(* fills meanwhile, at a zero price or otherwise (handlePlaceOrder).       *)
NoFabricatedFill ==
    [][phase # "down" =>
         \A i \in Filled(orders') \ Filled(orders) :
            hasLTP /\ lastLTP \in Price /\ WouldFill(orders'[i], lastLTP)]_vars

(* What a caller was told of an order still holds of table t.              *)
Honoured(t) ==
    \A i \in OrderId, outcome \in Outcome :
        <<i, outcome>> \in told =>
            IF outcome = "accepted" THEN t[i] # NoOrder ELSE t[i].status = outcome

(* A cancel answered "cancelled" never fills, a fill answered is never     *)
(* undone (CancelOrderOutcome, messages.go).                               *)
ToldIsTrue == phase # "down" => Honoured(orders)

(* A cancel answered "cancelled" in this or an earlier process lifetime    *)
(* keeps the order from ever filling.                                      *)
CancelIsFinal ==
    \A i \in OrderId : <<i, "cancelled">> \in told => i \notin Filled(orders)

(* What a caller was told is in Postgres, whenever the process dies        *)
(* (Store, store.go).                                                      *)
ToldIsDurable == Honoured(dbOrders)

(* An order without its status.                                            *)
Terms(o) == [o EXCEPT !.status = ""]

(* The actor's position is the sum of the actor's fills, each counted once *)
(* (fillOrder, actor_state.go).                                            *)
PositionMatchesFills == phase # "down" => pos = NetQty(orders, Filled(orders))

(* The stored position is the sum of the stored fills                      *)
(* (SaveFillTransition, order_store.go).                                   *)
StoredPositionMatchesFills == dbPos = NetQty(dbOrders, Filled(dbOrders))

(* The rows change as SaveFillTransition promises: a stored position moves *)
(* exactly when one order's row becomes filled, by that order's quantity,  *)
(* and a row once filled stays so.                                         *)
ExactlyOnce ==
    [][LET new == Filled(dbOrders') \ Filled(dbOrders)
       IN  /\ Filled(dbOrders) \subseteq Filled(dbOrders')
           /\ new = {} => dbPos' = dbPos
           /\ \A i \in new : /\ new = {i}
                             /\ dbPos' = dbPos + SignedQty(dbOrders'[i])]_vars

(* Whatever fails, no write takes a row out of a final status, and no row  *)
(* is deleted or changes anything but its status.                          *)
DurableFinality ==
    [][\A i \in OrderId : dbOrders[i] # NoOrder =>
         /\ dbOrders'[i] # NoOrder
         /\ Terms(dbOrders'[i]) = Terms(dbOrders[i])
         /\ dbOrders[i].status \in Terminal => dbOrders'[i] = dbOrders[i]]_vars

(* Subscribers were last sent what a Snapshot would return.                *)
PublishedIsCurrent == Idle /\ hasLTP => published = <<pos, lastLTP>>

(* A tick that crosses a resting order settles it, unless the process is   *)
(* killed meanwhile.                                                       *)
TickTriggers ==
    \A i \in OrderId :
        (pc = "sweeping" /\ orders[i].status = "resting" /\ WouldFill(orders[i], lastLTP))
            ~> (orders[i].status \in Terminal \/ phase = "down")

(* Every handler comes to its end, whatever Postgres refuses and even      *)
(* while the process is being stopped, or dies with the process.           *)
HandlerReturns == (pc # "idle") ~> (pc = "idle")
=============================================================================
