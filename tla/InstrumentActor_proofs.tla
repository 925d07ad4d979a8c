----------------------- MODULE InstrumentActor_proofs -----------------------
(* What holds of InstrumentActor for every value of its constants.         *)
EXTENDS InstrumentActor, Sums_proofs, TLAPS

(* A record that passes Validate is an order.                              *)
LEMMA NewOrderType ==
    ASSUME NEW r \in OrderRequest, Validate(NewOrder(r))
    PROVE  NewOrder(r) \in Order
  BY DEF OrderRequest, Validate, NewOrder, Order, Side, OrderType

(* The missing order is an order.                                          *)
LEMMA NoOrderType == NoOrder \in Order
  BY DEF NoOrder, Order, Side, OrderType

(* And so is every entry of an empty table.                                *)
LEMMA NoOrdersType == NoOrders \in [OrderId -> Order]
  BY NoOrderType DEF NoOrders

(* Nothing published yet.                                                  *)
LEMMA NoUpdateType == <<0, 0>> \in Int \X (Price \cup {0})
  OBVIOUS

(* The legs of a bracket that passes ValidateBracket are orders.           *)
LEMMA LegTypes ==
    ASSUME NEW b \in BracketRequest,
           ValidateBracket(EntryLeg(b), TargetLeg(b), StopLeg(b))
    PROVE  EntryLeg(b) \in Order /\ TargetLeg(b) \in Order /\ StopLeg(b) \in Order
  BY DEF BracketRequest, ValidateBracket, Validate, EntryLeg, TargetLeg,
         StopLeg, ClosingSide, NewOrder, Order, Side, OrderType

(* Linking a leg leaves an order.                                          *)
LEMMA LinkType ==
    ASSUME NEW o \in Order, NEW e \in OrderId, NEW s \in OrderId
    PROVE  Link(o, e, s) \in Order
  BY DEF Link, Order

(* So does a change of status.                                             *)
LEMMA StatusType ==
    ASSUME NEW o \in Order, NEW status \in Status
    PROVE  [o EXCEPT !.status = status] \in Order
  BY DEF Order

(* What a fill adds to the position is an integer.                         *)
LEMMA SignedQtyType == ASSUME NEW o \in Order PROVE SignedQty(o) \in Int
  <1>1. o.qty \in Nat
    BY DEF Order
  <1>2. -o.qty \in Int
    BY <1>1
  <1> QED BY <1>1, <1>2 DEF SignedQty

(* An upsert keeps the table well typed.                                   *)
LEMMA UpsertType ==
    ASSUME dbOrders \in [OrderId -> Order], NEW i \in OrderId, NEW o \in Order
    PROVE  Upsert(i, o) \in [OrderId -> Order]
  <1>1. o.status \in Status \cup {"", "none"}
    BY DEF Order
  <1>2. ASSUME NEW d \in Order PROVE [d EXCEPT !.status = o.status] \in Order
    BY <1>1 DEF Order
  <1> QED BY <1>2 DEF Upsert

(* A write commits well typed rows or leaves the store alone.              *)
LEMMA WriteType ==
    ASSUME TypeOK, NEW rows \in [OrderId -> Order], NEW qty \in Int,
           Write(rows, qty)
    PROVE  /\ dbOrders' \in [OrderId -> Order]
           /\ dbPos' \in Int
           /\ faults' \in [crash: Nat, stop: Nat, write: Nat]
  BY DEF TypeOK, Write, WriteCommits, WriteFails, store

(* So does a change of status with its write.                              *)
LEMMA SetStatusType ==
    ASSUME TypeOK, NEW i \in OrderId, NEW o \in Order, NEW status \in Status,
           SetStatus(i, o, status)
    PROVE  /\ orders' \in [OrderId -> Order]
           /\ dbOrders' \in [OrderId -> Order]
           /\ dbPos' \in Int
           /\ faults' \in [crash: Nat, stop: Nat, write: Nat]
  <1> DEFINE stored == [o EXCEPT !.status = status]
  <1>1. stored \in Order
    BY StatusType
  <1>2. Upsert(i, stored) \in [OrderId -> Order]
    BY <1>1, UpsertType DEF TypeOK
  <1>3. Write(Upsert(i, stored), dbPos) /\ orders' = [orders EXCEPT ![i] = stored]
    BY DEF SetStatus, PersistOrder
  <1>4. orders' \in [OrderId -> Order]
    BY <1>1, <1>3 DEF TypeOK
  <1> HIDE DEF stored
  <1> QED BY <1>2, <1>3, <1>4, WriteType DEF TypeOK

(* So does a fill, which also moves the position.                          *)
LEMMA FillType ==
    ASSUME TypeOK, NEW i \in OrderId, NEW o \in Order, Fill(i, o)
    PROVE  /\ orders' \in [OrderId -> Order]
           /\ pos' \in Int
           /\ calls' \subseteq OrderId
           /\ dbOrders' \in [OrderId -> Order]
           /\ dbPos' \in Int
           /\ faults' \in [crash: Nat, stop: Nat, write: Nat]
  <1> DEFINE filled == [o EXCEPT !.status = "filled"]
  <1>1. filled \in Order
    BY StatusType DEF Status
  <1>2. Upsert(i, filled) \in [OrderId -> Order]
    BY <1>1, UpsertType DEF TypeOK
  <1>3. /\ Write(Upsert(i, filled), pos')
        /\ orders' = [orders EXCEPT ![i] = filled]
        /\ pos' = pos + SignedQty(o)
        /\ calls' = calls \cup {i}
    BY DEF Fill, PersistFill
  <1>4. pos' \in Int
    BY <1>3, SignedQtyType DEF TypeOK
  <1>5. orders' \in [OrderId -> Order] /\ calls' \subseteq OrderId
    BY <1>1, <1>3 DEF TypeOK
  <1> HIDE DEF filled
  <1> QED BY <1>2, <1>3, <1>4, <1>5, WriteType

-----------------------------------------------------------------------------
(* The variables stay in the sets the code declares for them: every record *)
(* stored or staged is an order that passed Validate.                      *)
THEOREM TypeCorrect == Spec => []TypeOK
  <1>1. Init => TypeOK
    <2> SUFFICES ASSUME Init PROVE TypeOK
      OBVIOUS
    <2>1. /\ orders \in [OrderId -> Order] /\ dbOrders \in [OrderId -> Order]
          /\ staged \in [OrderId -> Order]
      BY NoOrdersType DEF Init
    <2>2. published \in Int \X (Price \cup {0})
      BY NoUpdateType DEF Init
    <2>3. faults \in [crash: Nat, stop: Nat, write: Nat]
      BY DEF Init
    <2> QED BY <2>1, <2>2, <2>3 DEF Init, TypeOK
  <1>2. TypeOK /\ [Next]_vars => TypeOK'
    <2> SUFFICES ASSUME TypeOK, [Next]_vars PROVE TypeOK'
      OBVIOUS
    <2>1. ASSUME NEW i \in OrderId, NEW r \in Requests, HandlePlaceOrder(i, r)
          PROVE  TypeOK'
      <3>1. NewOrder(r) \in Order
        BY <2>1, ConstantsAssumption, NewOrderType DEF HandlePlaceOrder
      <3>2. staged' \in [OrderId -> Order] /\ issued' \subseteq OrderId
        BY <2>1, <3>1 DEF TypeOK, HandlePlaceOrder, NewOrderIDs
      <3> QED BY <2>1, <3>2 DEF TypeOK, HandlePlaceOrder, memory, store
    <2>2. ASSUME NEW e \in OrderId, NEW t \in OrderId, NEW s \in OrderId,
                 NEW b \in Brackets, HandlePlaceBracket(e, t, s, b)
          PROVE  TypeOK'
      <3>1. /\ EntryLeg(b) \in Order
            /\ Link(TargetLeg(b), e, s) \in Order
            /\ Link(StopLeg(b), e, t) \in Order
        BY <2>2, ConstantsAssumption, LegTypes, LinkType DEF HandlePlaceBracket
      <3>2. staged' \in [OrderId -> Order] /\ issued' \subseteq OrderId
        BY <2>2, <3>1 DEF TypeOK, HandlePlaceBracket, NewOrderIDs
      <3> QED BY <2>2, <3>2 DEF TypeOK, HandlePlaceBracket, memory, store
    <2>3. ASSUME NEW i \in OrderId, StoreChild(i) PROVE TypeOK'
      <3>1. staged[i] \in Order /\ "pending" \in Status
        BY DEF TypeOK, Status
      <3>2. /\ orders' \in [OrderId -> Order] /\ dbOrders' \in [OrderId -> Order]
            /\ dbPos' \in Int /\ faults' \in [crash: Nat, stop: Nat, write: Nat]
        BY <2>3, <3>1, SetStatusType DEF StoreChild
      <3>3. staged' \in [OrderId -> Order]
        BY <2>3, NoOrderType DEF TypeOK, StoreChild, Unstage
      <3> QED BY <2>3, <3>2, <3>3 DEF TypeOK, StoreChild
    <2>4. ASSUME NEW i \in OrderId, NEW outcome \in Outcome 
          PROVE  Placed(i, outcome) \subseteq OrderId \X Outcome
      <3>1. ChildrenOf(i) \subseteq OrderId /\ "accepted" \in Outcome
        BY DEF ChildrenOf, Outcome
      <3>2. ChildrenOf(i) \X {"accepted"} \subseteq OrderId \X Outcome
        BY <3>1
      <3>3. <<i, outcome>> \in OrderId \X Outcome
        OBVIOUS
      <3> QED BY <3>2, <3>3 DEF Placed
    <2>5. ASSUME NEW i \in OrderId, FillOnPlace(i) PROVE TypeOK'
      <3>1. staged[i] \in Order /\ "filled" \in Outcome
        BY DEF TypeOK, Outcome
      <3>2. /\ orders' \in [OrderId -> Order] /\ dbOrders' \in [OrderId -> Order]
            /\ pos' \in Int /\ dbPos' \in Int /\ calls' \subseteq OrderId
            /\ faults' \in [crash: Nat, stop: Nat, write: Nat]
        BY <2>5, <3>1, FillType DEF FillOnPlace
      <3>3. staged' \in [OrderId -> Order]
        BY <2>5, NoOrderType DEF TypeOK, FillOnPlace, EntryNext, Unstage
      <3>4. answer' \subseteq OrderId \X Outcome
        BY <2>4, <2>5, <3>1 DEF FillOnPlace
      <3> QED BY <2>5, <3>2, <3>3, <3>4 DEF TypeOK, FillOnPlace, EntryNext, Fill
    <2>6. ASSUME NEW i \in OrderId, RestOnPlace(i) PROVE TypeOK'
      <3>1. staged[i] \in Order /\ "resting" \in Status /\ "accepted" \in Outcome
        BY DEF TypeOK, Status, Outcome
      <3>2. /\ orders' \in [OrderId -> Order] /\ dbOrders' \in [OrderId -> Order]
            /\ dbPos' \in Int /\ faults' \in [crash: Nat, stop: Nat, write: Nat]
        BY <2>6, <3>1, SetStatusType DEF RestOnPlace
      <3>3. staged' \in [OrderId -> Order]
        BY <2>6, NoOrderType DEF TypeOK, RestOnPlace, EntryNext, Unstage
      <3>4. answer' \subseteq OrderId \X Outcome
        BY <2>4, <2>6, <3>1 DEF RestOnPlace
      <3> QED BY <2>6, <3>2, <3>3, <3>4 DEF TypeOK, RestOnPlace, EntryNext
    <2>7. CASE Reply
      BY <2>7 DEF TypeOK, Reply, memory, store
    <2>8. ASSUME NEW i \in OrderId, HandleCancelLive(i) PROVE TypeOK'
      <3>1. orders[i] \in Order /\ "cancelled" \in Status /\ "cancelled" \in Outcome
        BY DEF TypeOK, Status, Outcome
      <3>2. /\ orders' \in [OrderId -> Order] /\ dbOrders' \in [OrderId -> Order]
            /\ dbPos' \in Int /\ faults' \in [crash: Nat, stop: Nat, write: Nat]
        BY <2>8, <3>1, SetStatusType DEF HandleCancelLive
      <3> QED BY <2>8, <3>1, <3>2 DEF TypeOK, HandleCancelLive
    <2>9. ASSUME NEW i \in OrderId, HandleCancelFinal(i) PROVE TypeOK'
      <3>1. told' \subseteq OrderId \X Outcome
        BY <2>9 DEF TypeOK, HandleCancelFinal, Terminal, Outcome
      <3> QED BY <2>9, <3>1 DEF TypeOK, HandleCancelFinal, memory, control, store
    <2>10. ASSUME NEW ltp \in Price, HandleTick(ltp) PROVE TypeOK'
      BY <2>10 DEF TypeOK, HandleTick, store
    <2>11. ASSUME NEW i \in OrderId, NEW j \in OrderId,
                  Fill(j, orders[j]), UNCHANGED <<pc, staged, answer>>
           PROVE  TypeOK'
      <3>1. orders[j] \in Order
        BY DEF TypeOK
      <3>2. /\ orders' \in [OrderId -> Order] /\ dbOrders' \in [OrderId -> Order]
            /\ pos' \in Int /\ dbPos' \in Int /\ calls' \subseteq OrderId
            /\ faults' \in [crash: Nat, stop: Nat, write: Nat]
        BY <2>11, <3>1, FillType
      <3> QED BY <2>11, <3>2 DEF TypeOK, Fill
    <2>12. CASE EndTick
      BY <2>12 DEF TypeOK, EndTick, Publish, memory, store
    <2>13. ASSUME NEW i \in OrderId, NEW j \in OrderId, ActivateChild(i, j)
           PROVE  TypeOK'
      <3>1. orders[j] \in Order /\ "resting" \in Status
        BY DEF TypeOK, Status
      <3>2. /\ orders' \in [OrderId -> Order] /\ dbOrders' \in [OrderId -> Order]
            /\ dbPos' \in Int /\ faults' \in [crash: Nat, stop: Nat, write: Nat]
        BY <2>13, <3>1, SetStatusType DEF ActivateChild
      <3> QED BY <2>13, <3>2 DEF TypeOK, ActivateChild, control
    <2>14. ASSUME NEW i \in OrderId, NEW j \in OrderId, ReturnCancellingSibling(i, j)
           PROVE  TypeOK'
      <3>1. orders[j] \in Order /\ "cancelled" \in Status
        BY DEF TypeOK, Status
      <3>2. /\ orders' \in [OrderId -> Order] /\ dbOrders' \in [OrderId -> Order]
            /\ dbPos' \in Int /\ faults' \in [crash: Nat, stop: Nat, write: Nat]
        BY <2>14, <3>1, SetStatusType DEF ReturnCancellingSibling
      <3> QED BY <2>14, <3>2 DEF TypeOK, ReturnCancellingSibling, Return, Publish
    <2>15. ASSUME NEW i \in OrderId, ReturnOnly(i) PROVE TypeOK'
      BY <2>15 DEF TypeOK, ReturnOnly, Return, Publish, store
    <2>lost. LoseMemory /\ faults' \in [crash: Nat, stop: Nat, write: Nat] => TypeOK'
      BY NoOrdersType, NoUpdateType DEF TypeOK, LoseMemory, store
    <2>16. CASE Crash
      BY <2>16, <2>lost DEF TypeOK, Crash
    <2>17. CASE Shutdown
      BY <2>17 DEF TypeOK, Shutdown, memory, control, store
    <2>18. CASE Exit
      BY <2>18, <2>lost DEF TypeOK, Exit
    <2>19. CASE Restart
      BY <2>19 DEF TypeOK, Restart, control, store
    <2>20. CASE UNCHANGED vars
      BY <2>20 DEF TypeOK, vars, memory, control, store
    <2> QED
      BY <2>1, <2>2, <2>3, <2>5, <2>6, <2>7, <2>8, <2>9, <2>10, <2>11, <2>12,
         <2>13, <2>14, <2>15, <2>16, <2>17, <2>18, <2>19, <2>20
      DEF Next, Message, Work, Process, FillOnTick, FillActivated
  <1> QED BY <1>1, <1>2, PTL DEF Spec

-----------------------------------------------------------------------------
(* Every step, seen from the store.  Moved: one order takes a new status   *)
(* in memory, and its row with it if the write commits.                    *)
Moved(i, o, status) ==
    LET stored == [o EXCEPT !.status = status]
        qty    == IF status = "filled" THEN pos' ELSE dbPos
    IN  /\ phase # "down" /\ phase' = phase /\ issued' = issued
        /\ o \in Order /\ status \in Status
        /\ \/ /\ Staged(i) /\ o = staged[i]
              /\ staged' = [staged EXCEPT ![i] = NoOrder]
           \/ /\ o = orders[i] /\ o.status \in Status \ Terminal
              /\ staged' = staged
        /\ orders' = [orders EXCEPT ![i] = stored]
        /\ pos' = IF status = "filled" THEN pos + SignedQty(o) ELSE pos
        /\ Write(Upsert(i, stored), qty)

(* A placement begins: its legs have identifiers nobody has used.          *)
Placement ==
    \/ \E i \in OrderId, r \in Requests : HandlePlaceOrder(i, r)
    \/ \E e, t, s \in OrderId, b \in Brackets : HandlePlaceBracket(e, t, s, b)

Begun(ids) ==
    /\ Placement
    /\ phase # "down" /\ phase' = phase
    /\ ids \cap issued = {} /\ issued' = issued \cup ids
    /\ \A i \in ids : orders[i] = NoOrder
    /\ \A i \in OrderId \ ids : staged'[i] = staged[i]
    /\ UNCHANGED <<orders, pos, store, faults>>

(* Nothing the store is about changes, though the process may be stopping. *)
Untouched ==
    /\ \/ phase' = phase
       \/ phase # "down" /\ phase' = "stopping"
    /\ phase' = "running" => faults' = faults
    /\ UNCHANGED <<orders, pos, staged, issued, store>>

StoreStep ==
    \/ \E i \in OrderId, o \in Order, status \in Status : Moved(i, o, status)
    \/ \E ids \in SUBSET OrderId : Begun(ids)
    \/ Untouched
    \/ LoseMemory
    \/ Restart

(* Every step of the actor is one of these five.                           *)
LEMMA StepsOfTheStore == TypeOK /\ [Next]_vars => StoreStep
  <1> SUFFICES ASSUME TypeOK, [Next]_vars PROVE StoreStep
    OBVIOUS
  <1>0. /\ \A i \in OrderId : orders[i] \in Order /\ staged[i] \in Order
        /\ {"pending", "resting", "filled", "cancelled"} = Status
    BY DEF TypeOK, Status
  <1>1. ASSUME NEW i \in OrderId, NEW r \in Requests, HandlePlaceOrder(i, r)
        PROVE  Begun({i})
    BY <1>1 DEF TypeOK, HandlePlaceOrder, Placement, Begun, NewOrderIDs, Known, Idle, memory
  <1>2. ASSUME NEW e \in OrderId, NEW t \in OrderId, NEW s \in OrderId,
               NEW b \in Brackets, HandlePlaceBracket(e, t, s, b)
        PROVE  Begun({e, t, s})
    BY <1>2 DEF TypeOK, HandlePlaceBracket, Placement, Begun, NewOrderIDs, Known, Idle, memory
  <1>3. ASSUME NEW i \in OrderId, StoreChild(i) PROVE Moved(i, staged[i], "pending")
    BY <1>3, <1>0 DEF StoreChild, Moved, SetStatus, PersistOrder, Unstage
  <1>4. ASSUME NEW i \in OrderId, FillOnPlace(i) PROVE Moved(i, staged[i], "filled")
    BY <1>4, <1>0 DEF FillOnPlace, EntryNext, Moved, Fill, PersistFill, Unstage
  <1>5. ASSUME NEW i \in OrderId, RestOnPlace(i) PROVE Moved(i, staged[i], "resting")
    BY <1>5, <1>0 DEF RestOnPlace, EntryNext, Moved, SetStatus, PersistOrder, Unstage
  <1>6. ASSUME NEW i \in OrderId, HandleCancelLive(i)
        PROVE  Moved(i, orders[i], "cancelled")
    BY <1>6, <1>0 DEF HandleCancelLive, Idle, Cancellable, Moved, SetStatus,
                      PersistOrder, Status, Terminal
  <1>7. ASSUME NEW j \in OrderId, phase # "down", orders[j].status = "resting",
               Fill(j, orders[j]), staged' = staged
        PROVE  Moved(j, orders[j], "filled")
    BY <1>7, <1>0 DEF Fill, PersistFill, Moved, Status, Terminal
  <1>8. ASSUME NEW i \in OrderId, FillOnTick(i) PROVE Moved(i, orders[i], "filled")
    BY <1>8, <1>7 DEF FillOnTick, Crossed
  <1>9. ASSUME NEW i \in OrderId, NEW j \in OrderId, FillActivated(i, j)
        PROVE  Moved(j, orders[j], "filled")
    BY <1>9, <1>7 DEF FillActivated, ToFillNow, Crossed
  <1>10. ASSUME NEW i \in OrderId, NEW j \in OrderId, ActivateChild(i, j)
         PROVE  Moved(j, orders[j], "resting")
    BY <1>10, <1>0 DEF ActivateChild, PendingChildren, Moved, SetStatus,
                       PersistOrder, control, Status, Terminal
  <1>11. ASSUME NEW i \in OrderId, NEW j \in OrderId, ReturnCancellingSibling(i, j)
         PROVE  Moved(j, orders[j], "cancelled")
    BY <1>11, <1>0 DEF ReturnCancellingSibling, Return, LiveSibling, Cancellable,
                       Moved, SetStatus, PersistOrder, Status, Terminal
  <1>12. ASSUME NEW i \in OrderId, HandleCancelFinal(i) \/ ReturnOnly(i)
         PROVE  Untouched
    BY <1>12 DEF HandleCancelFinal, ReturnOnly, Return, Untouched, memory, control, store
  <1>13. ASSUME NEW ltp \in Price, HandleTick(ltp) PROVE Untouched
    BY <1>13 DEF HandleTick, Idle, Untouched, store
  <1>14. ASSUME EndTick \/ Reply \/ Shutdown \/ UNCHANGED vars PROVE Untouched
    <2>1. CASE EndTick
      BY <2>1 DEF EndTick, Untouched, memory, store
    <2>2. CASE Reply
      BY <2>2 DEF Reply, Untouched, memory, store
    <2>3. CASE Shutdown
      BY <2>3 DEF Shutdown, Untouched, memory, control, store
    <2>4. CASE UNCHANGED vars
      BY <2>4 DEF Untouched, vars, memory, control, store
    <2> QED BY <1>14, <2>1, <2>2, <2>3, <2>4
  <1>15. CASE Crash \/ Exit \/ Restart
    BY <1>15 DEF Crash, Exit, StoreStep
  <1>17. (\E ids \in SUBSET OrderId : Begun(ids)) => StoreStep
    BY DEF StoreStep
  <1>18. ASSUME NEW i \in OrderId, NEW o \in Order, NEW status \in Status,
                Moved(i, o, status)
         PROVE  StoreStep
    BY <1>18 DEF StoreStep
  <1>19. Untouched => StoreStep
    BY DEF StoreStep
  <1>20. CASE Message
    <2>1. ASSUME NEW i \in OrderId, NEW r \in Requests, HandlePlaceOrder(i, r)
          PROVE  StoreStep
      BY <1>1, <1>17, <2>1
    <2>2. ASSUME NEW e \in OrderId, NEW t \in OrderId, NEW s \in OrderId,
                 NEW b \in Brackets, HandlePlaceBracket(e, t, s, b)
          PROVE  StoreStep
      <3>1. {e, t, s} \in SUBSET OrderId /\ Begun({e, t, s})
        BY <1>2, <2>2
      <3> QED BY <1>17, <3>1
    <2>3. ASSUME NEW i \in OrderId, HandleCancelLive(i) \/ HandleCancelFinal(i)
          PROVE  StoreStep
      BY <1>0, <1>6, <1>12, <1>18, <1>19, <2>3
    <2>4. ASSUME NEW ltp \in Price, HandleTick(ltp) PROVE StoreStep
      BY <1>13, <1>19, <2>4
    <2> QED BY <1>20, <2>1, <2>2, <2>3, <2>4 DEF Message
  <1>21. CASE Work
    BY <1>0, <1>3, <1>4, <1>5, <1>8, <1>9, <1>10, <1>11, <1>12, <1>14, <1>18,
       <1>19, <1>21
    DEF Work
  <1> QED
    BY <1>14, <1>15, <1>19, <1>20, <1>21 DEF Next, Process

-----------------------------------------------------------------------------
(* The store is never ahead of a living actor: every row is of an order    *)
(* the actor knows, on the same terms, and a final row says what memory    *)
(* says.  It is what makes the effect of a write on a row foreseeable.     *)
FreshIds == \A i \in OrderId \ issued :
                /\ orders[i] = NoOrder /\ dbOrders[i] = NoOrder
                /\ staged[i] = NoOrder

StagedIsNew == \A i \in OrderId :
                   Staged(i) => orders[i] = NoOrder /\ dbOrders[i] = NoOrder

Statuses == \A i \in OrderId :
                /\ orders[i] # NoOrder => orders[i].status \in Status
                /\ dbOrders[i] # NoOrder => dbOrders[i].status \in Status

StoreBehind ==
    phase # "down" => \A i \in OrderId : dbOrders[i] # NoOrder =>
        /\ orders[i] # NoOrder
        /\ Terms(orders[i]) = Terms(dbOrders[i])
        /\ dbOrders[i].status \in Terminal => orders[i] = dbOrders[i]

DownIsEmpty == phase = "down" => staged = NoOrders /\ orders = NoOrders

StoreInv == TypeOK /\ FreshIds /\ StagedIsNew /\ Statuses /\ StoreBehind /\ DownIsEmpty

(* Orders on the same terms differ by their status only.                   *)
LEMMA SameTerms ==
    ASSUME NEW o \in Order, NEW d \in Order, NEW status \in Status,
           Terms(o) = Terms(d)
    PROVE  [d EXCEPT !.status = status] = [o EXCEPT !.status = status]
  <1>1. /\ o.side = d.side /\ o.type = d.type /\ o.qty = d.qty
        /\ o.limit = d.limit /\ o.entry = d.entry /\ o.sibling = d.sibling
    BY DEF Terms, Order
  <1> QED BY <1>1 DEF Order

(* What a change of status changes and what it keeps.                      *)
LEMMA NewStatus ==
    ASSUME NEW o \in Order, NEW status \in Status
    PROVE  LET stored == [o EXCEPT !.status = status]
           IN  /\ stored \in Order /\ stored.status = status
               /\ stored # NoOrder /\ Terms(stored) = Terms(o)
               /\ SignedQty(stored) = SignedQty(o)
  BY DEF Order, Status, NoOrder, Terms, SignedQty

(* The effect of a step on the row it writes.                              *)
LEMMA RowWritten ==
    ASSUME StoreInv, NEW i \in OrderId, NEW o \in Order, NEW status \in Status,
           Moved(i, o, status)
    PROVE  LET stored == [o EXCEPT !.status = status]
           IN  /\ \/ dbOrders' = dbOrders
                  \/ dbOrders' = [dbOrders EXCEPT ![i] = stored]
               /\ dbOrders[i] # NoOrder =>
                      /\ Terms(stored) = Terms(dbOrders[i])
                      /\ dbOrders[i].status \notin Terminal
  <1> DEFINE stored == [o EXCEPT !.status = status]
  <1>1. dbOrders[i] \in Order /\ orders[i] \in Order
    BY DEF StoreInv, TypeOK
  <1>2. ASSUME dbOrders[i] # NoOrder
        PROVE  Terms(o) = Terms(dbOrders[i]) /\ dbOrders[i].status \notin Terminal
    <2>1. ~Staged(i)
      BY <1>2 DEF StoreInv, StagedIsNew
    <2>2. o = orders[i] /\ orders[i].status \notin Terminal /\ phase # "down"
      BY <2>1 DEF Moved
    <2> QED BY <1>2, <2>2 DEF StoreInv, StoreBehind
  <1>3. stored.status = status /\ Terms(stored) = Terms(o)
    BY NewStatus
  <1>4. Upsert(i, stored) = [dbOrders EXCEPT ![i] = stored]
    <2>1. CASE dbOrders[i] = NoOrder
      BY <2>1 DEF Upsert, StoreInv, TypeOK
    <2>2. CASE dbOrders[i] # NoOrder
      <3>1. [dbOrders[i] EXCEPT !.status = status] = stored
        BY <1>1, <1>2, <2>2, SameTerms
      <3> QED BY <2>2, <3>1, <1>3 DEF Upsert, StoreInv, TypeOK
    <2> QED BY <2>1, <2>2
  <1>5. dbOrders' = dbOrders \/ dbOrders' = Upsert(i, stored)
    BY DEF Moved, Write, WriteCommits, WriteFails, store
  <1> QED BY <1>2, <1>3, <1>4, <1>5

(* The store is never ahead of the actor, whatever fails.                  *)
LEMMA StoreInvHolds == Spec => []StoreInv
  <1>1. Init /\ TypeOK => StoreInv
    BY DEF Init, NoOrders, StoreInv, FreshIds, StagedIsNew, Staged, Statuses,
           StoreBehind, DownIsEmpty
  <1>2. StoreInv /\ TypeOK' /\ [Next]_vars => StoreInv'
    <2> SUFFICES ASSUME StoreInv, TypeOK', StoreStep PROVE StoreInv'
      BY StepsOfTheStore DEF StoreInv
    <2>0. TypeOK
      BY DEF StoreInv
    <2>1. ASSUME NEW i \in OrderId, NEW o \in Order, NEW status \in Status,
                 Moved(i, o, status)
          PROVE  StoreInv'
      <3> DEFINE stored == [o EXCEPT !.status = status]
      <3>1. /\ orders' = [orders EXCEPT ![i] = stored]
            /\ phase' = phase /\ issued' = issued /\ phase # "down"
            /\ staged' = staged \/ staged' = [staged EXCEPT ![i] = NoOrder]
        BY <2>1 DEF Moved
      <3>2. /\ \/ dbOrders' = dbOrders
               \/ dbOrders' = [dbOrders EXCEPT ![i] = stored]
            /\ dbOrders[i] # NoOrder => /\ Terms(stored) = Terms(dbOrders[i])
                                        /\ dbOrders[i].status \notin Terminal
        BY <2>1, RowWritten
      <3>3. stored # NoOrder /\ stored.status \in Status
        BY NewStatus
      <3>4. staged'[i] = NoOrder /\ i \in issued
        <4>1. Staged(i) => i \in issued
          BY DEF StoreInv, FreshIds, Staged
        <4>2. ~Staged(i) => orders[i] # NoOrder
          BY <2>1 DEF Moved, Status, NoOrder
        <4>3. orders[i] # NoOrder => i \in issued /\ ~Staged(i)
          BY DEF StoreInv, FreshIds, StagedIsNew
        <4>4. CASE Staged(i) /\ staged' = [staged EXCEPT ![i] = NoOrder]
          BY <4>1, <4>4, <2>0 DEF TypeOK
        <4>5. CASE ~Staged(i) /\ staged' = staged
          BY <4>2, <4>3, <4>5 DEF Staged
        <4>6. CASE Staged(i) /\ o = orders[i] /\ o.status \in Status
          BY <4>6 DEF StoreInv, StagedIsNew, Status, NoOrder
        <4> QED BY <4>4, <4>5, <4>6, <2>1 DEF Moved
      <3> HIDE DEF stored
      <3>5. \A j \in OrderId \ {i} : /\ orders'[j] = orders[j]
                                     /\ dbOrders'[j] = dbOrders[j]
                                     /\ staged'[j] = staged[j]
        BY <2>0, <3>1, <3>2 DEF TypeOK
      <3>6. orders'[i] = stored /\ dbOrders'[i] \in {dbOrders[i], stored}
        BY <2>0, <3>1, <3>2 DEF TypeOK
      <3>7. FreshIds'
        BY <3>1, <3>4, <3>5 DEF StoreInv, FreshIds
      <3>8. StagedIsNew'
        BY <3>4, <3>5 DEF StoreInv, StagedIsNew, Staged
      <3>9. Statuses'
        BY <3>3, <3>5, <3>6 DEF StoreInv, Statuses
      <3>10. StoreBehind'
        BY <3>1, <3>2, <3>3, <3>5, <3>6 DEF StoreInv, StoreBehind
      <3>11. DownIsEmpty'
        BY <3>1 DEF DownIsEmpty
      <3> QED BY <3>7, <3>8, <3>9, <3>10, <3>11 DEF StoreInv
    <2>2. ASSUME NEW ids \in SUBSET OrderId, Begun(ids) PROVE StoreInv'
      <3>1. \A i \in ids : dbOrders[i] = NoOrder
        BY <2>2 DEF Begun, StoreInv, FreshIds
      <3>2. /\ FreshIds' /\ StagedIsNew'
        BY <2>2, <3>1 DEF Begun, StoreInv, FreshIds, StagedIsNew, Staged, store
      <3> QED BY <2>2, <3>2 DEF Begun, StoreInv, Statuses, StoreBehind,
                                DownIsEmpty, store
    <2>3. CASE Untouched
      BY <2>3 DEF Untouched, StoreInv, FreshIds, StagedIsNew, Staged, Statuses,
                  StoreBehind, DownIsEmpty, store
    <2>4. CASE LoseMemory
      BY <2>4 DEF LoseMemory, NoOrders, StoreInv, FreshIds, StagedIsNew, Staged,
                  Statuses, StoreBehind, DownIsEmpty, store
    <2>5. CASE Restart
      BY <2>5 DEF Restart, NoOrders, StoreInv, FreshIds, StagedIsNew, Staged,
                  Statuses, StoreBehind, DownIsEmpty, store, control
    <2> QED BY <2>1, <2>2, <2>3, <2>4, <2>5 DEF StoreStep
  <1> QED BY <1>1, <1>2, TypeCorrect, PTL DEF Spec

(* Whatever the process, Postgres or an operator do, a row once written is *)
(* never lost, and one that is filled or cancelled never changes again.    *)
THEOREM FinalRowsStayFinal == Spec => DurableFinality
  <1>1. StoreInv /\ [Next]_vars =>
          [\A i \in OrderId : dbOrders[i] # NoOrder =>
              /\ dbOrders'[i] # NoOrder
              /\ Terms(dbOrders'[i]) = Terms(dbOrders[i])
              /\ dbOrders[i].status \in Terminal => dbOrders'[i] = dbOrders[i]]_vars
    <2> SUFFICES ASSUME StoreInv, StoreStep, NEW j \in OrderId, dbOrders[j] # NoOrder
                 PROVE  /\ dbOrders'[j] # NoOrder
                        /\ Terms(dbOrders'[j]) = Terms(dbOrders[j])
                        /\ dbOrders[j].status \in Terminal => dbOrders'[j] = dbOrders[j]
      BY StepsOfTheStore DEF StoreInv
    <2>1. ASSUME NEW i \in OrderId, NEW o \in Order, NEW status \in Status,
                 Moved(i, o, status)
          PROVE  \/ dbOrders'[j] = dbOrders[j]
                 \/ /\ dbOrders'[j] # NoOrder
                    /\ Terms(dbOrders'[j]) = Terms(dbOrders[j])
                    /\ dbOrders[j].status \notin Terminal
      <3> DEFINE stored == [o EXCEPT !.status = status]
      <3>1. /\ \/ dbOrders' = dbOrders
               \/ dbOrders' = [dbOrders EXCEPT ![i] = stored]
            /\ dbOrders[i] # NoOrder => /\ Terms(stored) = Terms(dbOrders[i])
                                        /\ dbOrders[i].status \notin Terminal
        BY <2>1, RowWritten
      <3>2. stored # NoOrder
        BY NewStatus
      <3> HIDE DEF stored
      <3> QED BY <3>1, <3>2 DEF StoreInv, TypeOK
    <2>2. ASSUME ~ \E i \in OrderId, o \in Order, status \in Status : Moved(i, o, status)
          PROVE  dbOrders' = dbOrders
      BY <2>2 DEF StoreStep, Begun, Untouched, LoseMemory, Restart, store
    <2> QED BY <2>1, <2>2
  <1> QED BY <1>1, StoreInvHolds, PTL DEF Spec, DurableFinality

-----------------------------------------------------------------------------
(* While Postgres refuses no write, a running process and its rows agree   *)
(* between any two writes.                                                 *)
Mirrored == phase = "running" => orders = dbOrders /\ pos = dbPos

(* What one step may do to the stored fills and the stored position.       *)
CountsOnce ==
    LET new == Filled(dbOrders') \ Filled(dbOrders)
    IN  /\ Filled(dbOrders) \subseteq Filled(dbOrders')
        /\ new = {} => dbPos' = dbPos
        /\ \A i \in new : /\ new = {i}
                          /\ dbPos' = dbPos + SignedQty(dbOrders'[i])

(* When Postgres refuses nothing, a change of an order reaches its row,    *)
(* unless the context is cancelled.                                        *)
LEMMA CommittedWrite ==
    ASSUME StoreInv, MaxFailedWrites = 0, NEW i \in OrderId, NEW o \in Order,
           NEW status \in Status, Moved(i, o, status)
    PROVE  \/ /\ phase = "running"
              /\ dbOrders' = [dbOrders EXCEPT ![i] = [o EXCEPT !.status = status]]
              /\ dbPos' = IF status = "filled" THEN pos' ELSE dbPos
           \/ phase = "stopping" /\ UNCHANGED store
  <1> DEFINE stored == [o EXCEPT !.status = status]
  <1>1. faults.write \in Nat
    BY DEF StoreInv, TypeOK
  <1>2. ~(faults.write < MaxFailedWrites)
    BY <1>1
  <1>3. Write(Upsert(i, stored), IF status = "filled" THEN pos' ELSE dbPos)
    BY DEF Moved
  <1>4. CASE WriteCommits(Upsert(i, stored), IF status = "filled" THEN pos' ELSE dbPos)
    <2>1. dbOrders' = Upsert(i, stored)
      BY <1>4 DEF WriteCommits
    <2>2. \/ dbOrders[i] = NoOrder
          \/ Terms(stored) = Terms(dbOrders[i])
      BY RowWritten
    <2>3. stored \in Order /\ stored.status = status /\ dbOrders[i] \in Order
      BY NewStatus DEF StoreInv, TypeOK
    <2> HIDE DEF stored
    <2>4. dbOrders[i] = NoOrder \/ [dbOrders[i] EXCEPT !.status = status]
                                   = [stored EXCEPT !.status = status]
      BY <2>2, <2>3, SameTerms
    <2>5. [stored EXCEPT !.status = status] = stored
      BY <2>3 DEF Order
    <2>6. Upsert(i, stored) = [dbOrders EXCEPT ![i] = stored]
      BY <2>3, <2>4, <2>5 DEF Upsert, StoreInv, TypeOK
    <2> USE DEF stored
    <2> QED BY <1>4, <2>1, <2>6 DEF WriteCommits
  <1>5. CASE WriteFails
    BY <1>2, <1>5 DEF WriteFails
  <1> QED BY <1>3, <1>4, <1>5 DEF Write

(* Between two writes the rows are the memory.                             *)
LEMMA MirroredHolds ==
    ASSUME MaxFailedWrites = 0
    PROVE  Spec => []Mirrored
  <1>1. Init => Mirrored
    BY DEF Init, Mirrored
  <1>2. StoreInv /\ Mirrored /\ [Next]_vars => Mirrored'
    <2> SUFFICES ASSUME StoreInv, Mirrored, StoreStep PROVE Mirrored'
      BY StepsOfTheStore DEF StoreInv
    <2>1. ASSUME NEW i \in OrderId, NEW o \in Order, NEW status \in Status,
                 Moved(i, o, status)
          PROVE  Mirrored'
      BY <2>1, CommittedWrite DEF Moved, Mirrored
    <2> QED BY <2>1 DEF StoreStep, Begun, Untouched, LoseMemory, Restart, store, Mirrored
  <1> QED BY <1>1, <1>2, StoreInvHolds, PTL DEF Spec

(* With kills and shutdowns at any moment, but no write refused, the       *)
(* stored position and the stored fills move together and each fill moves  *)
(* it once: a restart and a replay of the feed can repeat none of them.    *)
THEOREM FillsCountOnce ==
    ASSUME MaxFailedWrites = 0
    PROVE  Spec => ExactlyOnce
  <1>1. StoreInv /\ Mirrored /\ [Next]_vars => [CountsOnce]_vars
    <2> SUFFICES ASSUME StoreInv, Mirrored, StoreStep PROVE CountsOnce
      BY StepsOfTheStore DEF StoreInv
    <2>1. ASSUME NEW i \in OrderId, NEW o \in Order, NEW status \in Status,
                 Moved(i, o, status), phase = "running"
          PROVE  CountsOnce
      <3> DEFINE stored == [o EXCEPT !.status = status]
      <3>1. /\ dbOrders' = [dbOrders EXCEPT ![i] = stored]
            /\ dbPos' = IF status = "filled" THEN pos' ELSE dbPos
        BY <2>1, CommittedWrite
      <3>2. i \notin Filled(dbOrders)
        <4>1. dbOrders[i] # NoOrder => dbOrders[i].status \notin Terminal
          BY <2>1, RowWritten
        <4>2. NoOrder.status # "filled"
          BY DEF NoOrder
        <4> QED BY <4>1, <4>2 DEF Filled, Terminal
      <3>3. /\ stored.status = status /\ SignedQty(stored) = SignedQty(o)
        BY NewStatus
      <3>4. pos' = IF status = "filled" THEN dbPos + SignedQty(o) ELSE dbPos
        BY <2>1 DEF Moved, Mirrored
      <3> HIDE DEF stored
      <3>5. dbOrders'[i] = stored /\ \A j \in OrderId \ {i} : dbOrders'[j] = dbOrders[j]
        BY <3>1 DEF StoreInv, TypeOK
      <3>6. Filled(dbOrders') = IF status = "filled" THEN Filled(dbOrders) \cup {i}
                                                     ELSE Filled(dbOrders)
        BY <3>2, <3>3, <3>5 DEF Filled
      <3> QED BY <3>1, <3>2, <3>3, <3>4, <3>5, <3>6 DEF CountsOnce
    <2>2. ASSUME UNCHANGED store PROVE CountsOnce
      BY <2>2 DEF store, CountsOnce
    <2>3. ASSUME NEW i \in OrderId, NEW o \in Order, NEW status \in Status,
                 Moved(i, o, status)
          PROVE  CountsOnce
      BY <2>1, <2>2, <2>3, CommittedWrite
    <2> QED BY <2>2, <2>3 DEF StoreStep, Begun, Untouched, LoseMemory, Restart
  <1> QED BY <1>1, MirroredHolds, StoreInvHolds, PTL DEF Spec, ExactlyOnce, CountsOnce

-----------------------------------------------------------------------------
(* A quantity is the sum of the fills of a table of orders.                *)
Balanced(t, qty) == IsFiniteSet(Filled(t)) /\ qty = NetQty(t, Filled(t))

(* A fill adds one summand to that sum, any other change of status none.   *)
LEMMA MoveBalances ==
    ASSUME NEW t \in [OrderId -> Order], NEW i \in OrderId, NEW o \in Order,
           NEW status \in Status, NEW qty, Balanced(t, qty), t[i].status # "filled",
           NEW u, u = [t EXCEPT ![i] = [o EXCEPT !.status = status]]
    PROVE  Balanced(u, IF status = "filled" THEN qty + SignedQty(o) ELSE qty)
  <1> DEFINE stored == [o EXCEPT !.status = status]
             f == [j \in OrderId |-> SignedQty(t[j])]
             h == [j \in OrderId |-> SignedQty(u[j])]
             S == Filled(t)
  <1>1. /\ stored \in Order /\ stored.status = status
        /\ SignedQty(stored) = SignedQty(o) /\ SignedQty(o) \in Int
    BY NewStatus, SignedQtyType
  <1>2. /\ u \in [OrderId -> Order] /\ u[i] = stored
        /\ \A j \in OrderId \ {i} : u[j] = t[j]
    BY <1>1
  <1> HIDE DEF stored
  <1>3. i \notin S /\ S \subseteq OrderId
    BY DEF Filled
  <1>4. Filled(u) = IF status = "filled" THEN S \cup {i} ELSE S
    BY <1>1, <1>2, <1>3 DEF Filled
  <1>5. \A j \in OrderId : f[j] \in Int /\ h[j] \in Int
    BY <1>2, SignedQtyType
  <1>6. \A j \in S : f[j] = h[j]
    BY <1>2, <1>3
  <1>7. h[i] = SignedQty(o)
    BY <1>1, <1>2
  <1>8. IsFiniteSet(S) /\ qty = SumFunctionOnSet(f, S)
    BY DEF Balanced, NetQty
  <1> HIDE DEF f, h, S
  <1>9. SumFunctionOnSet(f, S) = SumFunctionOnSet(h, S)
    BY <1>6, <1>8, SumAgree
  <1>10. \A j \in S \cup {i} : h[j] \in Int
    BY <1>3, <1>5
  <1>11. SumFunctionOnSet(h, S \cup {i}) = SumFunctionOnSet(h, S) + h[i]
    BY <1>3, <1>8, <1>10, SumWith
  <1>12. IsFiniteSet(S \cup {i})
    BY <1>8, FS_AddElement
  <1>13. NetQty(u, Filled(u)) = SumFunctionOnSet(h, Filled(u))
    BY DEF NetQty, h
  <1> QED BY <1>4, <1>7, <1>8, <1>9, <1>11, <1>12, <1>13 DEF Balanced

(* An empty table holds nothing.                                           *)
LEMMA NothingBalances == Balanced(NoOrders, 0)
  <1>1. Filled(NoOrders) = {}
    BY DEF Filled, NoOrders, NoOrder
  <1> QED BY <1>1, FS_EmptySet, SumEmpty DEF Balanced, NetQty

(* The position of the living process, and the one that a restart would    *)
(* read if it could come to one.                                           *)
BalanceInv ==
    /\ phase # "down" => Balanced(orders, pos)
    /\ IF MaxFailedWrites = 0 THEN Balanced(dbOrders, dbPos)
       ELSE phase = "running" /\ MaxCrashes = 0 /\ MaxStops = 0

(* Both are sums of fills, the stored one only if Postgres refuses no      *)
(* write.                                                                  *)
LEMMA AlwaysBalanced ==
    ASSUME MaxFailedWrites = 0 \/ (MaxCrashes = 0 /\ MaxStops = 0)
    PROVE  Spec => []BalanceInv
  <1> DEFINE Mirror == MaxFailedWrites = 0 => Mirrored
  <1>1. Init => BalanceInv
    BY NothingBalances DEF Init, BalanceInv
  <1>2. StoreInv /\ Mirror /\ BalanceInv /\ [Next]_vars => BalanceInv'
    <2> SUFFICES ASSUME StoreInv, Mirror, BalanceInv, [Next]_vars PROVE BalanceInv'
      OBVIOUS
    <2>s. StoreStep
      BY StepsOfTheStore DEF StoreInv
    <2>p. MaxFailedWrites # 0 => phase' = "running"
      <3> SUFFICES ASSUME MaxFailedWrites # 0 PROVE phase' = "running"
        OBVIOUS
      <3>1. faults.crash \in Nat /\ faults.stop \in Nat
        BY DEF StoreInv, TypeOK
      <3>2. phase = "running" /\ ~(faults.crash < MaxCrashes) /\ ~(faults.stop < MaxStops)
        BY <3>1 DEF BalanceInv
      <3>3. ~Crash /\ ~Shutdown /\ ~Exit /\ ~Restart
        BY <3>2 DEF Crash, Shutdown, Exit, Restart
      <3> QED BY <3>2, <3>3 DEF Next, Message, Work, Process, HandlePlaceOrder,
                HandlePlaceBracket, HandleCancelLive, HandleCancelFinal, HandleTick, StoreChild,
                FillOnPlace, RestOnPlace, FillOnTick, ActivateChild, FillActivated, Return,
                ReturnCancellingSibling, ReturnOnly, EndTick, Reply, Fill, vars
    <2>1. ASSUME NEW i \in OrderId, NEW o \in Order, NEW status \in Status,
                 Moved(i, o, status)
          PROVE  BalanceInv'
      <3>1. orders[i].status # "filled" /\ phase # "down" /\ phase' = phase
        BY <2>1 DEF Moved, StoreInv, StagedIsNew, NoOrder, Terminal
      <3>2. orders' = [orders EXCEPT ![i] = [o EXCEPT !.status = status]]
        BY <2>1 DEF Moved
      <3>3. pos' = IF status = "filled" THEN pos + SignedQty(o) ELSE pos
        BY <2>1 DEF Moved
      <3>4. Balanced(orders', pos')
        <4>1. Balanced(orders, pos) /\ orders \in [OrderId -> Order]
          BY <3>1 DEF BalanceInv, StoreInv, TypeOK
        <4>2. Balanced(orders', IF status = "filled" THEN pos + SignedQty(o) ELSE pos)
          BY <3>1, <3>2, <4>1, MoveBalances
        <4> QED BY <3>3, <4>2
      <3>5. MaxFailedWrites = 0 => Balanced(dbOrders', dbPos')
        <4> SUFFICES ASSUME MaxFailedWrites = 0 PROVE Balanced(dbOrders', dbPos')
          OBVIOUS
        <4>1. Balanced(dbOrders, dbPos)
          BY DEF BalanceInv
        <4>2. CASE UNCHANGED store
          BY <4>1, <4>2 DEF store
        <4>3. CASE ~ UNCHANGED store
          <5>1. /\ phase = "running"
                /\ dbOrders' = [dbOrders EXCEPT ![i] = [o EXCEPT !.status = status]]
                /\ dbPos' = IF status = "filled" THEN pos' ELSE dbPos
            BY <2>1, <4>3, CommittedWrite
          <5>2. pos = dbPos /\ orders = dbOrders
            BY <5>1 DEF Mirrored
          <5>3. Balanced(dbOrders', IF status = "filled" THEN dbPos + SignedQty(o) ELSE dbPos)
            <6>1. dbOrders \in [OrderId -> Order] /\ dbOrders[i].status # "filled"
              BY <3>1, <5>2 DEF StoreInv, TypeOK
            <6> QED BY <4>1, <5>1, <6>1, MoveBalances
          <5> QED BY <3>3, <5>1, <5>2, <5>3
        <4> QED BY <4>2, <4>3
      <3> QED BY <2>p, <3>4, <3>5 DEF BalanceInv
    <2>2. CASE \E ids \in SUBSET OrderId : Begun(ids)
      BY <2>2, <2>p DEF BalanceInv, Begun, store
    <2>3. CASE Untouched
      BY <2>3, <2>p DEF BalanceInv, Untouched, store
    <2>4. CASE LoseMemory
      BY <2>4, <2>p DEF BalanceInv, LoseMemory, store
    <2>5. CASE Restart
      BY <2>5, <2>p DEF BalanceInv, Restart, store
    <2> QED BY <2>s, <2>1, <2>2, <2>3, <2>4, <2>5 DEF StoreStep
  <1>3. Spec => []Mirror
    <2>1. CASE MaxFailedWrites = 0
      <3>1. Spec => []Mirrored
        BY <2>1, MirroredHolds
      <3>2. Mirrored => Mirror
        OBVIOUS
      <3> QED BY <3>1, <3>2, PTL
    <2>2. CASE MaxFailedWrites # 0
      <3>1. Mirror
        BY <2>2
      <3> QED BY <3>1, PTL
    <2> QED BY <2>1, <2>2
  <1> QED BY <1>1, <1>2, <1>3, StoreInvHolds, PTL DEF Spec

(* The position that the actor holds is the sum of the fills that it       *)
(* holds: through kills, shutdowns and restarts if Postgres refuses no     *)
(* write, and through refused writes as long as the process lives.  Of the *)
(* rows it says nothing: after a refused fill the next one stores a        *)
(* position that counts both (persistFill, actor_state.go).                *)
THEOREM PositionIsSumOfFills ==
    ASSUME MaxFailedWrites = 0 \/ (MaxCrashes = 0 /\ MaxStops = 0)
    PROVE  Spec => []PositionMatchesFills
  <1>1. BalanceInv => PositionMatchesFills
    BY DEF BalanceInv, Balanced, PositionMatchesFills
  <1> QED BY <1>1, AlwaysBalanced, PTL

(* If Postgres refuses no write, the stored position is the sum of the     *)
(* stored fills whenever the process may die (SaveFillTransition,          *)
(* order_store.go).                                                        *)
THEOREM StoredPositionIsSumOfFills ==
    ASSUME MaxFailedWrites = 0
    PROVE  Spec => []StoredPositionMatchesFills
  <1>1. BalanceInv => StoredPositionMatchesFills
    BY DEF BalanceInv, Balanced, StoredPositionMatchesFills
  <1> QED BY <1>1, AlwaysBalanced, PTL

-----------------------------------------------------------------------------
(* What set says of orders holds of table t: set is what callers were told, *)
(* or what they are about to be told.                                       *)
HoldsOf(t, set) ==
    \A i \in OrderId, outcome \in Outcome :
        <<i, outcome>> \in set =>
            IF outcome = "accepted" THEN t[i] # NoOrder ELSE t[i].status = outcome

(* Memory forgets no order and changes no order that is final.             *)
MemoryKept ==
    \A i \in OrderId : orders[i] # NoOrder =>
        /\ orders'[i] # NoOrder
        /\ orders[i].status \in Terminal => orders'[i] = orders[i]

(* Memory only gains orders, and what is final in it stays as it is.       *)
LEMMA MemoryIsKept ==
    ASSUME StoreInv, [Next]_vars, phase # "down", phase' # "down"
    PROVE  MemoryKept
  <1>1. StoreStep
    BY StepsOfTheStore DEF StoreInv
  <1>2. ASSUME NEW i \in OrderId, NEW o \in Order, NEW status \in Status,
               Moved(i, o, status)
        PROVE  MemoryKept
    <2>1. orders' = [orders EXCEPT ![i] = [o EXCEPT !.status = status]]
      BY <1>2 DEF Moved
    <2>2. orders \in [OrderId -> Order]
      BY DEF StoreInv, TypeOK
    <2>3. orders'[i].status = status
      BY <2>1, <2>2, NewStatus
    <2>4. NoOrder.status = "none"
      BY DEF NoOrder
    <2>5. orders'[i] # NoOrder
      BY <2>3, <2>4 DEF Status
    <2>6. orders[i].status \notin Terminal
      <3>1. CASE Staged(i)
        BY <2>4, <3>1 DEF StoreInv, StagedIsNew, Terminal
      <3>2. CASE o = orders[i] /\ o.status \in Status \ Terminal
        BY <3>2
      <3> QED BY <1>2, <3>1, <3>2 DEF Moved
    <2>7. \A j \in OrderId \ {i} : orders'[j] = orders[j]
      BY <2>1, <2>2
    <2> QED BY <2>5, <2>6, <2>7 DEF MemoryKept
  <1>3. orders' = orders => MemoryKept
    BY DEF MemoryKept
  <1> QED BY <1>1, <1>2, <1>3 DEF StoreStep, Begun, Untouched, LoseMemory, Restart

(* What was said or is about to be stays true of a living process.         *)
LEMMA AnswersHold ==
    ASSUME StoreInv, [Next]_vars, phase # "down", phase' # "down",
           HoldsOf(orders, told \cup answer)
    PROVE  HoldsOf(orders', told' \cup answer')
  <1>types. orders \in [OrderId -> Order] /\ staged \in [OrderId -> Order]
    BY DEF StoreInv, TypeOK
  <1>none. NoOrder.status = "none" /\ NoOrder.entry = NoId
    BY DEF NoOrder
  <1>kept. HoldsOf(orders', told \cup answer)
    BY MemoryIsKept, <1>none DEF MemoryKept, HoldsOf, Outcome, Terminal
  <1>old. ASSUME told' \cup answer' \subseteq told \cup answer
          PROVE  HoldsOf(orders', told' \cup answer')
    BY <1>old, <1>kept DEF HoldsOf
  <1>new. ASSUME NEW i \in OrderId, NEW o \in Order, NEW status \in Status,
                 orders' = [orders EXCEPT ![i] = [o EXCEPT !.status = status]]
          PROVE  orders'[i].status = status /\ orders'[i] # NoOrder
    <2>1. orders'[i].status = status
      BY <1>new, <1>types, NewStatus
    <2> QED BY <2>1, <1>none DEF Status
  <1>placed. ASSUME NEW i \in OrderId, NEW outcome \in {"accepted", "filled"},
                    told' = told, answer' = Placed(i, outcome),
                    orders'[i] # NoOrder,
                    outcome = "filled" => orders'[i].status = "filled"
             PROVE  HoldsOf(orders', told' \cup answer')
    <2>1. \A j \in ChildrenOf(i) : orders'[j] # NoOrder
      <3>1. \A j \in ChildrenOf(i) : j \in OrderId /\ orders[j] # NoOrder
        BY <1>none, NoIdAssumption DEF ChildrenOf
      <3> QED BY <3>1, MemoryIsKept DEF MemoryKept
    <2>2. ASSUME NEW j \in OrderId, NEW out \in Outcome, <<j, out>> \in Placed(i, outcome)
          PROVE  IF out = "accepted" THEN orders'[j] # NoOrder ELSE orders'[j].status = out
      <3>1. \/ j = i /\ out = outcome
            \/ j \in ChildrenOf(i) /\ out = "accepted"
        BY <2>2 DEF Placed
      <3> QED BY <1>placed, <2>1, <3>1
    <2> QED BY <1>placed, <1>kept, <2>2 DEF HoldsOf
  <1>1. ASSUME NEW i \in OrderId, FillOnPlace(i)
        PROVE  HoldsOf(orders', told' \cup answer')
    <2>1. /\ orders' = [orders EXCEPT ![i] = [staged[i] EXCEPT !.status = "filled"]]
          /\ told' = told /\ answer' = Placed(i, "filled")
      BY <1>1 DEF FillOnPlace, Fill
    <2>2. orders'[i].status = "filled" /\ orders'[i] # NoOrder
      BY <2>1, <1>types, <1>new DEF Status
    <2> QED BY <2>1, <2>2, <1>placed
  <1>2. ASSUME NEW i \in OrderId, RestOnPlace(i)
        PROVE  HoldsOf(orders', told' \cup answer')
    <2>1. /\ orders' = [orders EXCEPT ![i] = [staged[i] EXCEPT !.status = "resting"]]
          /\ told' = told /\ answer' = Placed(i, "accepted")
      BY <1>2 DEF RestOnPlace, SetStatus
    <2>2. orders'[i] # NoOrder
      BY <2>1, <1>types, <1>new DEF Status
    <2> QED BY <2>1, <2>2, <1>placed
  <1>3. ASSUME NEW i \in OrderId, HandleCancelLive(i)
        PROVE  HoldsOf(orders', told' \cup answer')
    <2>1. /\ orders' = [orders EXCEPT ![i] = [orders[i] EXCEPT !.status = "cancelled"]]
          /\ told' = told /\ answer' = {<<i, "cancelled">>}
      BY <1>3 DEF HandleCancelLive, SetStatus
    <2>2. orders'[i].status = "cancelled"
      BY <2>1, <1>types, <1>new DEF Status
    <2> QED BY <2>1, <2>2, <1>kept DEF HoldsOf
  <1>4. ASSUME NEW i \in OrderId, HandleCancelFinal(i)
        PROVE  HoldsOf(orders', told' \cup answer')
    <2>1. /\ orders[i].status \in Terminal /\ orders' = orders
          /\ told' = told \cup {<<i, orders[i].status>>} /\ answer' = answer
      BY <1>4 DEF HandleCancelFinal, memory, control
    <2> QED BY <2>1, <1>kept DEF HoldsOf, Terminal
  <1>5. \/ \E i \in OrderId, r \in Requests : HandlePlaceOrder(i, r)
        \/ \E e, t, s \in OrderId, b \in Brackets : HandlePlaceBracket(e, t, s, b)
        \/ \E i \in OrderId : StoreChild(i) \/ FillOnTick(i) \/ ReturnOnly(i)
        \/ \E i, j \in OrderId : ActivateChild(i, j) \/ FillActivated(i, j)
        \/ \E i, j \in OrderId : ReturnCancellingSibling(i, j)
        \/ \E ltp \in Price : HandleTick(ltp)
        \/ EndTick \/ Reply \/ Shutdown \/ Restart \/ UNCHANGED vars
        => told' \cup answer' \subseteq told \cup answer
    BY DEF HandlePlaceOrder, HandlePlaceBracket, StoreChild, FillOnTick, Fill, ReturnOnly,
           Return, ActivateChild, FillActivated, ReturnCancellingSibling, HandleTick,
           EndTick, Reply, Shutdown, Restart, vars, control
  <1>6. ~Crash /\ ~Exit
    BY DEF Crash, Exit, LoseMemory
  <1> QED
    BY <1>old, <1>1, <1>2, <1>3, <1>4, <1>5, <1>6 DEF Next, Message, Work, Process

(* In one process lifetime, whatever Postgres refuses to write, what a     *)
(* caller was told stays true: an order answered cancelled never fills, a  *)
(* fill is never undone, an accepted order is never forgotten.             *)
THEOREM ToldStaysTrue ==
    ASSUME MaxCrashes = 0, MaxStops = 0
    PROVE  Spec => []ToldIsTrue
  <1> DEFINE Inv == phase = "running" /\ HoldsOf(orders, told \cup answer)
  <1>1. Init => Inv
    BY DEF Init, HoldsOf
  <1>2. StoreInv /\ Inv /\ [Next]_vars => Inv'
    <2> SUFFICES ASSUME StoreInv, Inv, [Next]_vars PROVE Inv'
      OBVIOUS
    <2>1. faults.crash \in Nat /\ faults.stop \in Nat
      BY DEF StoreInv, TypeOK
    <2>2. ~Crash /\ ~Shutdown /\ ~Exit /\ ~Restart
      BY <2>1 DEF Crash, Shutdown, Exit, Restart
    <2>3. phase' = "running"
      <3>1. Message \/ Work \/ UNCHANGED vars
        BY <2>2 DEF Next, Process
      <3> QED BY <3>1 DEF Message, HandlePlaceOrder, HandlePlaceBracket,
                          HandleCancelLive, HandleCancelFinal, HandleTick, Work,
                          StoreChild, FillOnPlace, RestOnPlace, Fill, FillOnTick,
                          ActivateChild, FillActivated, ReturnCancellingSibling,
                          ReturnOnly, Return, EndTick, Reply, vars
    <2>4. HoldsOf(orders', told' \cup answer')
      BY <2>3, AnswersHold
    <2> QED BY <2>3, <2>4 DEF HoldsOf
  <1>3. Inv => ToldIsTrue
    BY DEF HoldsOf, ToldIsTrue, Honoured
  <1> QED BY <1>1, <1>2, <1>3, StoreInvHolds, PTL DEF Spec

(* While Postgres refuses nothing and no shutdown cancels the context of a *)
(* write, what a caller was told is in the rows, whenever and however      *)
(* often the process is killed.                                            *)
THEOREM ToldStaysDurable ==
    ASSUME MaxFailedWrites = 0, MaxStops = 0
    PROVE  Spec => []ToldIsDurable
  <1> DEFINE Inv == phase # "stopping" /\ HoldsOf(dbOrders, told \cup answer)
  <1>1. Init => Inv
    BY DEF Init, HoldsOf
  <1>2. StoreInv /\ Mirrored /\ Mirrored' /\ Inv /\ [Next]_vars => Inv'
    <2> SUFFICES ASSUME StoreInv, Mirrored, Mirrored', Inv, [Next]_vars PROVE Inv'
      OBVIOUS
    <2>1. faults.stop \in Nat /\ phase \in {"running", "down"}
      BY DEF StoreInv, TypeOK
    <2>2. ~Shutdown /\ ~Exit
      BY <2>1 DEF Shutdown, Exit
    <2>3. CASE phase = "running" /\ phase' = "running"
      <3>1. HoldsOf(orders', told' \cup answer')
        BY <2>3, AnswersHold DEF Mirrored
      <3> QED BY <2>3, <3>1 DEF Mirrored, HoldsOf
    <2>4. ASSUME Crash \/ Restart \/ UNCHANGED vars PROVE Inv'
      BY <2>4 DEF Crash, LoseMemory, Restart, control, store, vars, HoldsOf
    <2>5. CASE phase = "running" /\ (Message \/ Work)
      <3>1. phase' = phase
        BY <2>5 DEF Message, HandlePlaceOrder, HandlePlaceBracket, HandleCancelLive,
                    HandleCancelFinal, HandleTick, Work, StoreChild, FillOnPlace,
                    RestOnPlace, Fill, FillOnTick, ActivateChild, FillActivated,
                    ReturnCancellingSibling, ReturnOnly, Return, EndTick, Reply
      <3> QED BY <2>3, <2>5, <3>1
    <2>6. phase = "down" => ~Message /\ ~Work
      BY DEF Message, HandlePlaceOrder, HandlePlaceBracket, HandleCancelLive, Idle,
             HandleCancelFinal, HandleTick, Work, StoreChild, FillOnPlace, RestOnPlace,
             EntryNext, FillOnTick, ActivateChild, FillActivated,
             ReturnCancellingSibling, ReturnOnly, Return, EndTick, Reply
    <2> QED BY <2>1, <2>2, <2>4, <2>5, <2>6 DEF Next, Process
  <1>3. Inv => ToldIsDurable
    BY DEF HoldsOf, ToldIsDurable, Honoured
  <1> QED BY <1>1, <1>2, <1>3, StoreInvHolds, MirroredHolds, PTL DEF Spec

-----------------------------------------------------------------------------
(* What an instrument's price may do: nothing fills without a price that   *)
(* triggers it, and subscribers end up with the current price and position.*)

(* A price is one the feed delivered, and a dead process has none.          *)
PriceKnown == /\ hasLTP => lastLTP \in Price
              /\ phase = "down" => ~hasLTP

(* Fills that have not been published are those of open calls; a tick that  *)
(* has not been published is being swept.                                   *)
NothingUnsent == /\ calls # {} => pc # "idle"
                 /\ calls = {} /\ hasLTP /\ pc # "sweeping"
                        => published = <<pos, lastLTP>>

PriceInv == PriceKnown /\ NothingUnsent

(* A step that keeps prices, position and publication, and opens or closes  *)
(* no call.                                                                 *)
LEMMA QuietStep ==
    ASSUME PriceInv,
           UNCHANGED <<phase, lastLTP, hasLTP, pos, calls, published>>,
           pc' = "idle" => calls = {},
           pc = "sweeping" => pc' = "sweeping"
    PROVE  PriceInv'
  BY DEF PriceInv, PriceKnown, NothingUnsent

(* A fill opens a call, so its position need not have been published yet.   *)
LEMMA FillStep ==
    ASSUME PriceInv, NEW i \in OrderId, NEW o, Fill(i, o), pc' # "idle"
    PROVE  PriceInv'
  BY DEF Fill, PriceInv, PriceKnown, NothingUnsent

(* A call that returns has published.                                       *)
LEMMA ReturnStep ==
    ASSUME PriceInv, NEW i \in OrderId, Return(i)
    PROVE  PriceInv'
  <1>1. i \in calls
    BY DEF Return, Innermost
  <1> QED BY <1>1 DEF Return, Publish, PriceInv, PriceKnown, NothingUnsent

(* A crash takes the price with the rest of the memory.                    *)
LEMMA LossStep ==
    ASSUME LoseMemory
    PROVE  PriceInv'
  BY DEF LoseMemory, PriceInv, PriceKnown, NothingUnsent

(* Every step keeps what the actor knows of the price.                     *)
LEMMA PriceInvHolds == Spec => []PriceInv
  <1>1. Init => PriceInv
    BY DEF Init, PriceInv, PriceKnown, NothingUnsent
  <1>2. PriceInv /\ [Next]_vars => PriceInv'
    <2> SUFFICES ASSUME PriceInv, [Next]_vars PROVE PriceInv'
      OBVIOUS
    <2>1. ASSUME NEW i \in OrderId, NEW r \in Requests, HandlePlaceOrder(i, r)
          PROVE  PriceInv'
      BY <2>1, QuietStep DEF HandlePlaceOrder, Idle, memory
    <2>2. ASSUME NEW e \in OrderId, NEW t \in OrderId, NEW s \in OrderId,
                 NEW b \in Brackets, HandlePlaceBracket(e, t, s, b)
          PROVE  PriceInv'
      BY <2>2, QuietStep DEF HandlePlaceBracket, Idle, memory
    <2>3. ASSUME NEW i \in OrderId, StoreChild(i) PROVE PriceInv'
      BY <2>3, QuietStep DEF StoreChild
    <2>4. ASSUME NEW i \in OrderId, FillOnPlace(i) PROVE PriceInv'
      BY <2>4, FillStep DEF FillOnPlace, EntryNext
    <2>5. ASSUME NEW i \in OrderId, RestOnPlace(i) PROVE PriceInv'
      BY <2>5, QuietStep DEF RestOnPlace, EntryNext
    <2>6. CASE Reply
      BY <2>6, QuietStep DEF Reply, memory
    <2>7. ASSUME NEW i \in OrderId, HandleCancelLive(i) PROVE PriceInv'
      BY <2>7, QuietStep DEF HandleCancelLive, Idle
    <2>8. ASSUME NEW i \in OrderId, HandleCancelFinal(i) PROVE PriceInv'
      BY <2>8, QuietStep DEF HandleCancelFinal, Idle, memory, control,
                             PriceInv, NothingUnsent
    <2>9. ASSUME NEW ltp \in Price, HandleTick(ltp) PROVE PriceInv'
      BY <2>9 DEF HandleTick, Idle, PriceInv, PriceKnown, NothingUnsent
    <2>10. ASSUME NEW i \in OrderId, FillOnTick(i) PROVE PriceInv'
      BY <2>10, FillStep DEF FillOnTick
    <2>11. CASE EndTick
      BY <2>11 DEF EndTick, Publish, memory, PriceInv, PriceKnown, NothingUnsent
    <2>12. ASSUME NEW i \in OrderId, NEW j \in OrderId, ActivateChild(i, j)
           PROVE  PriceInv'
      BY <2>12, QuietStep DEF ActivateChild, control, PriceInv, NothingUnsent
    <2>13. ASSUME NEW i \in OrderId, NEW j \in OrderId, FillActivated(i, j)
           PROVE  PriceInv'
      <3>1. pc' # "idle"
        BY <2>13 DEF FillActivated, Innermost, PriceInv, NothingUnsent
      <3> QED BY <2>13, <3>1, FillStep DEF FillActivated
    <2>14. ASSUME NEW i \in OrderId, NEW j \in OrderId, ReturnCancellingSibling(i, j)
           PROVE  PriceInv'
      BY <2>14, ReturnStep DEF ReturnCancellingSibling
    <2>15. ASSUME NEW i \in OrderId, ReturnOnly(i) PROVE PriceInv'
      BY <2>15, ReturnStep DEF ReturnOnly
    <2>16. CASE Crash
      BY <2>16, LossStep DEF Crash
    <2>17. CASE Shutdown
      BY <2>17 DEF Shutdown, memory, control, PriceInv, PriceKnown, NothingUnsent
    <2>18. CASE Exit
      BY <2>18, LossStep DEF Exit
    <2>19. CASE Restart
      BY <2>19 DEF Restart, control, PriceInv, PriceKnown, NothingUnsent
    <2>20. CASE UNCHANGED vars
      BY <2>20 DEF vars, memory, control, PriceInv, PriceKnown, NothingUnsent
    <2> QED
      BY <2>1, <2>2, <2>3, <2>4, <2>5, <2>6, <2>7, <2>8, <2>9, <2>10, <2>11, <2>12,
         <2>13, <2>14, <2>15, <2>16, <2>17, <2>18, <2>19, <2>20
      DEF Next, Message, Work, Process
  <1> QED BY <1>1, <1>2, PTL DEF Spec

(* Between messages, once a price is known, subscribers were last sent what *)
(* a Snapshot would return, whatever the handlers before did and whatever   *)
(* write failed (publish, at the end of fillOrder and of handleTick).       *)
THEOREM AlwaysPublished == Spec => []PublishedIsCurrent
  <1>1. PriceInv => PublishedIsCurrent
    BY DEF PriceInv, NothingUnsent, PublishedIsCurrent, Idle
  <1> QED BY <1>1, PriceInvHolds, PTL

-----------------------------------------------------------------------------
(* The orders that a step fills, in a process that is up.                   *)
JustFilled == Filled(orders') \ Filled(orders)

Triggered == \A i \in JustFilled : 
                hasLTP /\ lastLTP \in Price /\ WouldFill(orders'[i], lastLTP)

(* A fill of a marketable order is at a price that triggers it.            *)
LEMMA FilledByFill ==
    ASSUME TypeOK, PriceInv, NEW i \in OrderId, NEW o \in Order, Fill(i, o), Marketable(o)
    PROVE  Triggered
  <1>1. orders' = [orders EXCEPT ![i] = [o EXCEPT !.status = "filled"]]
    BY DEF Fill
  <1>2. orders \in [OrderId -> Order]
    BY DEF TypeOK
  <1>3. JustFilled \subseteq {i}
    BY <1>1, <1>2 DEF JustFilled, Filled
  <1>4. orders'[i] = [o EXCEPT !.status = "filled"]
    BY <1>1, <1>2
  <1>5. WouldFill(orders'[i], lastLTP)
    BY <1>4 DEF Marketable, WouldFill, Order
  <1> QED BY <1>3, <1>5 DEF Triggered, Marketable, PriceInv, PriceKnown

(* Setting another status fills nothing.                                   *)
LEMMA NotFilledByStatus ==
    ASSUME TypeOK, NEW i \in OrderId, NEW o \in Order, NEW status \in Status \ {"filled"},
           SetStatus(i, o, status)
    PROVE  Triggered
  <1>1. orders' = [orders EXCEPT ![i] = [o EXCEPT !.status = status]]
    BY DEF SetStatus
  <1>2. orders \in [OrderId -> Order]
    BY DEF TypeOK
  <1>3. [o EXCEPT !.status = status].status # "filled"
    BY DEF Order
  <1>4. JustFilled = {}
    BY <1>1, <1>2, <1>3 DEF JustFilled, Filled
  <1> QED BY <1>4 DEF Triggered

(* An order fills only while the process knows a price that the feed has    *)
(* delivered to it since it started, and only at a price that triggers the  *)
(* order: when placed, on a tick, or on activation (fillOrder's callers).   *)
THEOREM NothingFabricated == Spec => NoFabricatedFill
  <1>1. TypeOK /\ PriceInv /\ [Next]_vars => (phase # "down" => Triggered)
    <2> SUFFICES ASSUME TypeOK, PriceInv, [Next]_vars, phase # "down"
                 PROVE  Triggered
      OBVIOUS
    <2> USE DEF TypeOK
    <2>same. orders' = orders => Triggered
      BY DEF Triggered, JustFilled
    <2>new. /\ "pending" \in Status \ {"filled"} /\ "resting" \in Status \ {"filled"}
            /\ "cancelled" \in Status \ {"filled"}
      BY DEF Status
    <2>lost. LoseMemory => Triggered
      BY DEF LoseMemory, Triggered, JustFilled, Filled, NoOrders, NoOrder
    <2>1. ASSUME NEW i \in OrderId, StoreChild(i) PROVE Triggered
      BY <2>1, <2>new, NotFilledByStatus DEF StoreChild
    <2>2. ASSUME NEW i \in OrderId, FillOnPlace(i) PROVE Triggered
      BY <2>2, FilledByFill DEF FillOnPlace
    <2>3. ASSUME NEW i \in OrderId, RestOnPlace(i) PROVE Triggered
      BY <2>3, <2>new, NotFilledByStatus DEF RestOnPlace
    <2>4. ASSUME NEW i \in OrderId, HandleCancelLive(i) PROVE Triggered
      BY <2>4, <2>new, NotFilledByStatus DEF HandleCancelLive
    <2>5. ASSUME NEW i \in OrderId, i \in Crossed, Fill(i, orders[i]) PROVE Triggered
      BY <2>5, FilledByFill DEF Crossed
    <2>6. ASSUME NEW i \in OrderId, NEW j \in OrderId, ActivateChild(i, j)
          PROVE  Triggered
      BY <2>6, <2>new, NotFilledByStatus DEF ActivateChild
    <2>7. ASSUME NEW i \in OrderId, NEW j \in OrderId, ReturnCancellingSibling(i, j)
          PROVE  Triggered
      BY <2>7, <2>new, NotFilledByStatus DEF ReturnCancellingSibling
    <2>8. \/ \E i \in OrderId, r \in Requests : HandlePlaceOrder(i, r)
          \/ \E e, t, s \in OrderId, b \in Brackets : HandlePlaceBracket(e, t, s, b)
          \/ \E i \in OrderId : HandleCancelFinal(i) \/ ReturnOnly(i)
          \/ \E ltp \in Price : HandleTick(ltp)
          \/ EndTick \/ Reply \/ Shutdown \/ UNCHANGED vars
          => orders' = orders
      BY DEF HandlePlaceOrder, HandlePlaceBracket, HandleCancelFinal, ReturnOnly,
             HandleTick, EndTick, Reply, Shutdown, vars, memory
    <2>9. Crash \/ Exit => Triggered
      BY <2>lost DEF Crash, Exit
    <2>10. ~Restart
      BY DEF Restart
    <2> QED
      BY <2>same, <2>1, <2>2, <2>3, <2>4, <2>5, <2>6, <2>7, <2>8, <2>9, <2>10
      DEF Next, Message, Work, Process, FillOnTick, FillActivated, ToFillNow
  <1>2. TypeOK /\ PriceInv /\ [Next]_vars
          => [phase # "down" =>
                \A i \in Filled(orders') \ Filled(orders) :
                   hasLTP /\ lastLTP \in Price /\ WouldFill(orders'[i], lastLTP)]_vars
    BY <1>1 DEF Triggered, JustFilled
  <1> QED BY <1>2, TypeCorrect, PriceInvHolds, PTL DEF Spec, NoFabricatedFill

-----------------------------------------------------------------------------
(* But for the tick being swept, a resting order that the price triggers is *)
(* a leg just activated, by a call that is still open to fill it.           *)
CrossedIsOpen == pc # "sweeping" => \A k \in Crossed : orders[k].entry \in calls

(* An order with another status is the same in every other respect.        *)
LEMMA StatusOnly ==
    ASSUME NEW o \in Order, NEW status, NEW n, n = [o EXCEPT !.status = status]
    PROVE  /\ n.status = status /\ n.entry = o.entry /\ n.sibling = o.sibling
           /\ n.type = o.type /\ n.side = o.side /\ n.limit = o.limit /\ n.qty = o.qty
  BY DEF Order

(* One order stored with a new status changes no other order.               *)
LEMMA CrossedByStatus ==
    ASSUME TypeOK, NEW i \in OrderId, NEW o \in Order, NEW status \in Status,
           orders' = [orders EXCEPT ![i] = [o EXCEPT !.status = status]],
           UNCHANGED <<lastLTP, hasLTP>>
    PROVE  /\ \A k \in Crossed' \ {i} : k \in Crossed /\ orders'[k].entry = orders[k].entry
           /\ i \in Crossed' => status = "resting" /\ Marketable(o)
           /\ orders'[i].entry = o.entry
  <1>1. orders \in [OrderId -> Order]
    BY DEF TypeOK
  <1>2. orders'[i] = [o EXCEPT !.status = status]
    BY <1>1
  <1>3. \A k \in OrderId \ {i} : orders'[k] = orders[k]
    BY <1>1
  <1>4. /\ orders'[i].status = status /\ orders'[i].entry = o.entry
        /\ orders'[i].type = o.type /\ orders'[i].side = o.side
        /\ orders'[i].limit = o.limit
    BY <1>2, StatusOnly
  <1>5. WouldFill(orders'[i], lastLTP) => WouldFill(o, lastLTP)
    BY <1>4 DEF WouldFill
  <1> QED BY <1>3, <1>4, <1>5 DEF Crossed, Marketable

(* A step that makes no order resting and closes no call.                   *)
LEMMA StillOpen ==
    ASSUME TypeOK, CrossedIsOpen, NEW i \in OrderId, NEW o \in Order,
           NEW status \in Status \ {"resting"},
           orders' = [orders EXCEPT ![i] = [o EXCEPT !.status = status]],
           UNCHANGED <<lastLTP, hasLTP>>, calls \subseteq calls',
           pc = "sweeping" => pc' = "sweeping"
    PROVE  CrossedIsOpen'
  <1>1. /\ \A k \in Crossed' \ {i} : k \in Crossed /\ orders'[k].entry = orders[k].entry
        /\ i \notin Crossed'
    BY CrossedByStatus
  <1> QED BY <1>1 DEF CrossedIsOpen

(* A fill closes its order and leaves the others that crossed open.         *)
LEMMA FillStillOpen ==
    ASSUME TypeOK, CrossedIsOpen, NEW i \in OrderId, NEW o \in Order, Fill(i, o),
           pc = "sweeping" => pc' = "sweeping"
    PROVE  CrossedIsOpen'
  <1>1. "filled" \in Status \ {"resting"}
    BY DEF Status
  <1>2. /\ orders' = [orders EXCEPT ![i] = [o EXCEPT !.status = "filled"]]
        /\ UNCHANGED <<lastLTP, hasLTP>> /\ calls \subseteq calls'
    BY DEF Fill
  <1> QED BY <1>1, <1>2, StillOpen

(* An innermost call that returns leaves no leg of its own to fill.         *)
LEMMA ReturnFillsLegs ==
    ASSUME CrossedIsOpen, NEW i \in OrderId, Return(i),
           \A k \in Crossed' : k \in Crossed /\ orders'[k].entry = orders[k].entry
    PROVE  CrossedIsOpen'
  <1>1. ChildrenOf(i) \cap Crossed = {} /\ calls' = calls \ {i} /\ pc' = pc
    BY DEF Return, ToFillNow
  <1>2. \A k \in Crossed : orders[k].entry # i
    BY <1>1 DEF ChildrenOf, Crossed
  <1> QED BY <1>1, <1>2 DEF CrossedIsOpen

(* Between messages no order rests that the last price would fill, in any   *)
(* lifetime and whatever failed (handleTick, handlePlaceOrder and           *)
(* activateChildrenOf).                                                     *)
THEOREM NothingMarketableRests == Spec => []NoMarketableOrderRests
  <1>1. Init => CrossedIsOpen
    BY DEF Init, CrossedIsOpen, Crossed, Marketable
  <1>2. TypeOK /\ PriceInv /\ CrossedIsOpen /\ [Next]_vars => CrossedIsOpen'
    <2> SUFFICES ASSUME TypeOK, PriceInv, CrossedIsOpen, [Next]_vars PROVE CrossedIsOpen'
      OBVIOUS
    <2>types. orders \in [OrderId -> Order] /\ staged \in [OrderId -> Order]
      BY DEF TypeOK
    <2>statuses. /\ "pending" \in Status \ {"resting"}
                 /\ "cancelled" \in Status \ {"resting"}
                 /\ "resting" \in Status
      BY DEF Status
    <2>same. ASSUME UNCHANGED <<orders, lastLTP, hasLTP, calls>>,
                    pc = "sweeping" => pc' = "sweeping"
             PROVE  CrossedIsOpen'
      BY <2>same DEF CrossedIsOpen, Crossed, Marketable
    <2>1. ASSUME NEW i \in OrderId, StoreChild(i) PROVE CrossedIsOpen'
      BY <2>1, <2>types, <2>statuses, StillOpen DEF StoreChild, SetStatus
    <2>2. ASSUME NEW i \in OrderId, FillOnPlace(i) PROVE CrossedIsOpen'
      BY <2>2, <2>types, FillStillOpen DEF FillOnPlace, EntryNext
    <2>3. ASSUME NEW i \in OrderId, RestOnPlace(i) PROVE CrossedIsOpen'
      <3>1. \A k \in Crossed' : k \in Crossed /\ orders'[k].entry = orders[k].entry
        BY <2>3, <2>types, <2>statuses, CrossedByStatus DEF RestOnPlace, SetStatus
      <3> QED BY <2>3, <3>1 DEF RestOnPlace, EntryNext, CrossedIsOpen
    <2>4. ASSUME NEW i \in OrderId, HandleCancelLive(i) PROVE CrossedIsOpen'
      BY <2>4, <2>types, <2>statuses, StillOpen DEF HandleCancelLive, SetStatus, Idle
    <2>5. ASSUME NEW i \in OrderId, Fill(i, orders[i]), pc' = pc PROVE CrossedIsOpen'
      BY <2>5, <2>types, FillStillOpen
    <2>6. ASSUME NEW i \in OrderId, NEW j \in OrderId, ActivateChild(i, j)
          PROVE  CrossedIsOpen'
      <3>1. orders[j].entry = i /\ i \in calls /\ calls' = calls /\ pc' = pc
        BY <2>6 DEF ActivateChild, Innermost, PendingChildren, ChildrenOf, control
      <3>2. /\ \A k \in Crossed' \ {j} : k \in Crossed /\ orders'[k].entry = orders[k].entry
            /\ orders'[j].entry = orders[j].entry
        BY <2>6, <2>types, <2>statuses, CrossedByStatus DEF ActivateChild, SetStatus
      <3> QED BY <3>1, <3>2 DEF CrossedIsOpen
    <2>7. ASSUME NEW i \in OrderId, NEW j \in OrderId, ReturnCancellingSibling(i, j)
          PROVE  CrossedIsOpen'
      <3>1. \A k \in Crossed' : k \in Crossed /\ orders'[k].entry = orders[k].entry
        BY <2>7, <2>types, <2>statuses, CrossedByStatus
        DEF ReturnCancellingSibling, Return, SetStatus
      <3> QED BY <2>7, <3>1, ReturnFillsLegs DEF ReturnCancellingSibling
    <2>8. ASSUME NEW i \in OrderId, ReturnOnly(i) PROVE CrossedIsOpen'
      <3>1. \A k \in Crossed' : k \in Crossed /\ orders'[k].entry = orders[k].entry
        BY <2>8 DEF ReturnOnly, Return, Crossed, Marketable
      <3> QED BY <2>8, <3>1, ReturnFillsLegs DEF ReturnOnly
    <2>9. CASE EndTick
      BY <2>9 DEF EndTick, memory, CrossedIsOpen, Crossed, Marketable
    <2>10. ASSUME NEW ltp \in Price, HandleTick(ltp) PROVE CrossedIsOpen'
      BY <2>10 DEF HandleTick, CrossedIsOpen
    <2>11. Crash \/ Exit \/ Restart => CrossedIsOpen'
      BY DEF Crash, Exit, LoseMemory, Restart, PriceInv, PriceKnown, CrossedIsOpen,
             Crossed, Marketable
    <2>12. \/ \E i \in OrderId, r \in Requests : HandlePlaceOrder(i, r)
           \/ \E e, t, s \in OrderId, b \in Brackets : HandlePlaceBracket(e, t, s, b)
           \/ \E i \in OrderId : HandleCancelFinal(i)
           \/ Reply \/ Shutdown \/ UNCHANGED vars
           => CrossedIsOpen'
      <3>1. ASSUME NEW i \in OrderId, NEW r \in Requests, HandlePlaceOrder(i, r)
            PROVE  CrossedIsOpen'
        BY <2>same, <3>1 DEF HandlePlaceOrder, Idle, memory, control
      <3>2. ASSUME NEW e \in OrderId, NEW t \in OrderId, NEW s \in OrderId, NEW b \in Brackets,
                   HandlePlaceBracket(e, t, s, b)
            PROVE  CrossedIsOpen'
        BY <2>same, <3>2 DEF HandlePlaceBracket, Idle, memory, control
      <3>3. ASSUME NEW i \in OrderId, HandleCancelFinal(i) PROVE CrossedIsOpen'
        BY <2>same, <3>3 DEF HandleCancelFinal, Idle, memory, control
      <3>4. Reply \/ Shutdown \/ UNCHANGED vars => CrossedIsOpen'
        BY <2>same DEF Reply, Shutdown, vars, memory, control
      <3> QED BY <3>1, <3>2, <3>3, <3>4
    <2> QED
      BY <2>1, <2>2, <2>3, <2>4, <2>5, <2>6, <2>7, <2>8, <2>9, <2>10, <2>11, <2>12
      DEF Next, Message, Work, Process, FillOnTick, FillActivated
  <1>3. PriceInv /\ CrossedIsOpen => NoMarketableOrderRests
    BY DEF PriceInv, NothingUnsent, CrossedIsOpen, NoMarketableOrderRests, Idle,
           Crossed, Marketable
  <1> QED BY <1>1, <1>2, <1>3, TypeCorrect, PriceInvHolds, PTL DEF Spec
=============================================================================
