--------------------------- MODULE Bracket_proofs ---------------------------
(* The legs of a bracket, for any number of brackets, prices and refused   *)
(* writes: in a process that is not killed one cancels the other.          *)
EXTENDS InstrumentActor_proofs

(* The links of an order, whether it is stored or still staged.            *)
Sib(i) == IF Staged(i) THEN staged[i].sibling ELSE orders[i].sibling
Ent(i) == IF Staged(i) THEN staged[i].entry ELSE orders[i].entry

(* The two legs of a bracket name each other and the same entry.           *)
Links == \A i \in OrderId : Sib(i) # NoId =>
            /\ Sib(i) # i
            /\ Sib(Sib(i)) = i
            /\ Ent(Sib(i)) = Ent(i)
            /\ Ent(i) # NoId

(* Orders are staged only while placing, and nothing is filled meanwhile.  *)
Stages == /\ phase = "running"
          /\ pc # "placing" => \A i \in OrderId : ~Staged(i)
          /\ calls # {} => pc \in {"sweeping", "replying"}

(* One message is placed at a time, so one entry is staged at a time.      *)
OneEntryStaged ==
    \A i, j \in OrderId :
        /\ Staged(i) /\ ~IsChild(staged[i])
        /\ Staged(j) /\ ~IsChild(staged[j])
        => i = j

PairInv == StoreInv /\ Links /\ Stages /\ OneEntryStaged /\ OneCancelsOther

(* A sibling is an order or none.                                          *)
LEMMA SibType == StoreInv => \A i \in OrderId : Sib(i) \in OrderId \cup {NoId}
  BY DEF StoreInv, TypeOK, Order, Sib

(* A stored order is not staged: its links are those of the book.          *)
LEMMA StoredLinks ==
    ASSUME StoreInv, NEW i \in OrderId, orders[i] # NoOrder
    PROVE  Sib(i) = orders[i].sibling /\ Ent(i) = orders[i].entry
  BY DEF StoreInv, StagedIsNew, Sib, Ent

(* A missing order has no links.                                           *)
LEMMA NoOrderLinks == NoOrder.sibling = NoId /\ NoOrder.entry = NoId
  BY DEF NoOrder

(* A change of status touches no link.                                     *)
LEMMA MovedLinks ==
    ASSUME StoreInv, NEW i \in OrderId, NEW o \in Order, NEW status \in Status,
           Moved(i, o, status), NEW j \in OrderId
    PROVE  Sib(j)' = Sib(j) /\ Ent(j)' = Ent(j)
  <1> DEFINE stored == [o EXCEPT !.status = status]
  <1>1. orders' = [orders EXCEPT ![i] = stored]
    BY DEF Moved
  <1>2. stored.sibling = o.sibling /\ stored.entry = o.entry
    BY DEF Order
  <1>3. orders \in [OrderId -> Order] /\ staged \in [OrderId -> Order]
    BY DEF StoreInv, TypeOK
  <1> HIDE DEF stored
  <1>4. CASE /\ Staged(i) /\ o = staged[i]
             /\ staged' = [staged EXCEPT ![i] = NoOrder]
    BY <1>1, <1>2, <1>3, <1>4 DEF Sib, Ent, Staged
  <1>5. CASE /\ o = orders[i] /\ o.status \in Status \ Terminal
             /\ staged' = staged
    <2>1. ~Staged(i)
      BY <1>5 DEF StoreInv, StagedIsNew, NoOrder, Status
    <2> QED BY <1>1, <1>2, <1>3, <1>5, <2>1 DEF Sib, Ent, Staged
  <1> QED BY <1>4, <1>5 DEF Moved

(* A step that changes no link keeps the pairs.                            *)
LEMMA SameLinks ==
    ASSUME PairInv, \A j \in OrderId : Sib(j)' = Sib(j) /\ Ent(j)' = Ent(j)
    PROVE  Links'
  <1>1. StoreInv /\ Links
    BY DEF PairInv
  <1>2. \A j \in OrderId : Sib(j) # NoId => Sib(j) \in OrderId
    BY <1>1, SibType
  <1> QED BY <1>1, <1>2 DEF Links

(* A standalone order has no links.                                        *)
LEMMA BegunOrderLinks ==
    ASSUME PairInv, NEW i \in OrderId, NEW r \in Requests, HandlePlaceOrder(i, r)
    PROVE  Links'
  <1>1. staged \in [OrderId -> Order] /\ orders' = orders
    BY DEF PairInv, StoreInv, TypeOK, HandlePlaceOrder, memory
  <1>2. orders[i] = NoOrder /\ staged[i] = NoOrder
    BY DEF PairInv, StoreInv, FreshIds, HandlePlaceOrder, NewOrderIDs
  <1>3. NewOrder(r).sibling = NoId /\ NewOrder(r).entry = NoId
    BY DEF NewOrder
  <1>4. staged' = [staged EXCEPT ![i] = NewOrder(r)]
    BY DEF HandlePlaceOrder
  <1>5. \A j \in OrderId : Sib(j)' = Sib(j) /\ Ent(j)' = Ent(j)
    BY <1>1, <1>2, <1>3, <1>4, NoOrderLinks DEF Sib, Ent, Staged
  <1> QED BY <1>5, SameLinks

(* A bracket links its two legs to each other.                             *)
LEMMA BegunBracketLinks ==
    ASSUME PairInv, NEW e \in OrderId, NEW t \in OrderId, NEW s \in OrderId,
           NEW b \in Brackets, HandlePlaceBracket(e, t, s, b)
    PROVE  Links'
  <1> DEFINE target == Link(TargetLeg(b), e, s)
             stop   == Link(StopLeg(b), e, t)
             entry  == EntryLeg(b)
  <1>1. staged \in [OrderId -> Order] /\ orders' = orders
    BY DEF PairInv, StoreInv, TypeOK, HandlePlaceBracket, memory
  <1>2. \A i \in {e, t, s} : orders[i] = NoOrder /\ staged[i] = NoOrder
    BY DEF PairInv, StoreInv, FreshIds, HandlePlaceBracket, NewOrderIDs
  <1>3. /\ entry.sibling = NoId /\ entry.entry = NoId
        /\ target.sibling = s /\ target.entry = e
        /\ stop.sibling = t /\ stop.entry = e
    BY DEF EntryLeg, TargetLeg, StopLeg, NewOrder, Link
  <1>4. staged' = [staged EXCEPT ![e] = entry, ![t] = target, ![s] = stop]
    BY DEF HandlePlaceBracket
  <1>5. e # t /\ e # s /\ t # s
    BY DEF HandlePlaceBracket
  <1> HIDE DEF target, stop, entry
  <1>6. /\ staged'[e] = entry /\ staged'[t] = target /\ staged'[s] = stop
        /\ \A j \in OrderId \ {e, t, s} : staged'[j] = staged[j]
    BY <1>1, <1>4, <1>5
  <1>7. /\ Sib(e)' = NoId
        /\ Sib(t)' = s /\ Ent(t)' = e
        /\ Sib(s)' = t /\ Ent(s)' = e
    BY <1>1, <1>2, <1>3, <1>6, NoIdAssumption, NoOrderLinks DEF Sib, Ent, Staged
  <1>8. \A j \in OrderId \ {e, t, s} : Sib(j)' = Sib(j) /\ Ent(j)' = Ent(j)
    BY <1>1, <1>6 DEF Sib, Ent, Staged
  <1>9. Sib(e) = NoId /\ Sib(t) = NoId /\ Sib(s) = NoId
    BY <1>2, NoOrderLinks DEF Sib, Staged
  <1>10. ASSUME NEW j \in OrderId \ {e, t, s}, Sib(j) # NoId
         PROVE  Sib(j) \in OrderId \ {e, t, s}
    <2>1. Sib(j) \in OrderId /\ Sib(Sib(j)) = j
      BY <1>10, SibType DEF PairInv, Links
    <2> QED BY <1>9, <2>1, NoIdAssumption
  <1>11. ASSUME NEW j \in OrderId \ {e, t, s}, NEW k, k = Sib(j)', k # NoId
         PROVE  /\ k # j /\ Sib(k)' = j
                /\ Ent(k)' = Ent(j)' /\ Ent(j)' # NoId
    BY <1>8, <1>10, <1>11 DEF PairInv, Links
  <1> QED BY <1>5, <1>7, <1>11, NoIdAssumption DEF Links

-----------------------------------------------------------------------------
(* An order that is stored and not filled next to a filled sibling.        *)
LEMMA PairOfFilled ==
    ASSUME PairInv, NEW m \in Filled(orders), orders[m].sibling # NoId
    PROVE  LET i == orders[m].sibling
           IN  /\ i \in OrderId \ {m} /\ orders[i] # NoOrder
               /\ orders[i].sibling = m /\ orders[i].entry = orders[m].entry
               /\ \/ i \in Cancelled(orders)
                  \/ m \in calls /\ orders[i].status \in Cancellable
  <1> DEFINE i == orders[m].sibling
  <1>1. m \in OrderId /\ orders[m] # NoOrder
    BY DEF Filled, NoOrder
  <1>2. Sib(m) = i /\ Ent(m) = orders[m].entry
    BY <1>1, StoredLinks DEF PairInv
  <1>3. i \in OrderId
    BY <1>1, <1>2, SibType DEF PairInv
  <1>4. \/ i \in Cancelled(orders)
        \/ m \in calls /\ orders[i].status \in Cancellable
    BY DEF PairInv, OneCancelsOther
  <1>5. orders[i] # NoOrder
    BY <1>4 DEF Cancelled, Cancellable, NoOrder
  <1>6. Sib(i) = orders[i].sibling /\ Ent(i) = orders[i].entry
    BY <1>3, <1>5, StoredLinks DEF PairInv
  <1>7. i # m /\ Sib(i) = m /\ Ent(i) = Ent(m)
    BY <1>1, <1>2 DEF PairInv, Links
  <1> QED BY <1>2, <1>3, <1>4, <1>5, <1>6, <1>7

(* A status other than filled, given to an order that is not final.        *)
LEMMA QuietMove ==
    ASSUME PairInv, NEW i \in OrderId, NEW o \in Order, NEW status \in Status \ {"filled"},
           Moved(i, o, status), calls' = calls
    PROVE  OneCancelsOther'
  <1> DEFINE stored == [o EXCEPT !.status = status]
  <1>1. /\ orders' = [orders EXCEPT ![i] = stored]
        /\ orders \in [OrderId -> Order]
    BY DEF Moved, PairInv, StoreInv, TypeOK
  <1>2. stored.status = status
    BY NewStatus
  <1>3. orders[i].status \notin Terminal
    BY DEF Moved, PairInv, StoreInv, StagedIsNew, NoOrder, Terminal
  <1> HIDE DEF stored
  <1> SUFFICES ASSUME NEW m \in Filled(orders'), orders'[m].sibling # NoId
               PROVE  \/ orders'[m].sibling \in Cancelled(orders')
                      \/ /\ m \in calls'
                         /\ orders'[orders'[m].sibling].status \in Cancellable
    BY DEF OneCancelsOther
  <1>4. m \in OrderId /\ m # i /\ orders'[m] = orders[m]
    BY <1>1, <1>2 DEF Filled
  <1>5. m \in Filled(orders)
    BY <1>4 DEF Filled
  <1>6. orders[m].sibling \in OrderId
    BY <1>4, <1>5, PairOfFilled
  <1>7. \/ orders[m].sibling \in Cancelled(orders)
        \/ m \in calls /\ orders[orders[m].sibling].status \in Cancellable
    BY <1>4, <1>5, PairOfFilled
  <1>8. CASE orders[m].sibling = i
    BY <1>1, <1>2, <1>3, <1>4, <1>7, <1>8 DEF Cancelled, Terminal, Status, Cancellable
  <1>9. CASE orders[m].sibling # i
    BY <1>1, <1>4, <1>6, <1>7, <1>9 DEF Cancelled
  <1> QED BY <1>8, <1>9

(* A fill of an order none of whose siblings is filled.                    *)
LEMMA FillMove ==
    ASSUME PairInv, NEW i \in OrderId, NEW o \in Order, Moved(i, o, "filled"),
           calls' = calls \cup {i},
           \A m \in Filled(orders) : orders[m].sibling # i,
           o.sibling # NoId =>
               /\ o.sibling \in OrderId \ {i}
               /\ \/ o.sibling \in Cancelled(orders)
                  \/ orders[o.sibling].status \in Cancellable
    PROVE  OneCancelsOther'
  <1> DEFINE stored == [o EXCEPT !.status = "filled"]
  <1>1. /\ orders' = [orders EXCEPT ![i] = stored]
        /\ orders \in [OrderId -> Order]
    BY DEF Moved, PairInv, StoreInv, TypeOK
  <1>2. stored.sibling = o.sibling
    BY DEF Order
  <1> HIDE DEF stored
  <1> SUFFICES ASSUME NEW m \in Filled(orders'), orders'[m].sibling # NoId
               PROVE  \/ orders'[m].sibling \in Cancelled(orders')
                      \/ /\ m \in calls'
                         /\ orders'[orders'[m].sibling].status \in Cancellable
    BY DEF OneCancelsOther
  <1>3. CASE m = i
    <2>1. orders'[m].sibling = o.sibling /\ o.sibling # i
      BY <1>1, <1>2, <1>3
    <2>2. o.sibling \in OrderId /\ orders'[o.sibling] = orders[o.sibling]
      BY <1>1, <2>1
    <2> QED BY <1>3, <2>1, <2>2 DEF Cancelled
  <1>4. CASE m # i
    <2>1. m \in Filled(orders) /\ orders'[m] = orders[m]
      BY <1>1, <1>4 DEF Filled
    <2>2. orders[m].sibling \in OrderId \ {i}
      BY <2>1, PairOfFilled
    <2>3. orders'[orders[m].sibling] = orders[orders[m].sibling]
      BY <1>1, <2>2
    <2> QED BY <2>1, <2>2, <2>3, PairOfFilled DEF Cancelled
  <1> QED BY <1>3, <1>4

(* A resting order fills while no leg of the same entry is being filled.   *)
LEMMA FillOfResting ==
    ASSUME PairInv, NEW i \in OrderId, orders[i].status = "resting",
           pc # "placing", Fill(i, orders[i]), staged' = staged,
           \A m \in calls : orders[m].entry # orders[i].entry \/ orders[i].entry = NoId
    PROVE  OneCancelsOther'
  <1>1. Moved(i, orders[i], "filled") /\ calls' = calls \cup {i} /\ orders[i] \in Order
    BY DEF Moved, Fill, PersistFill, PairInv, StoreInv, TypeOK, Stages, Status, Terminal
  <1>2. orders[i] # NoOrder
    BY DEF NoOrder
  <1>3. ASSUME NEW m \in Filled(orders) PROVE orders[m].sibling # i
    <2> SUFFICES ASSUME orders[m].sibling = i PROVE FALSE
      OBVIOUS
    <2>1. orders[m].sibling # NoId
      BY NoIdAssumption
    <2>2. /\ orders[i].sibling = m /\ orders[i].entry = orders[m].entry
          /\ i \in Cancelled(orders) \/ m \in calls
      BY <2>1, PairOfFilled
    <2>3. m \in calls
      BY <2>2 DEF Cancelled
    <2>4. Ent(i) # NoId
      <3>1. Sib(i) = m /\ m \in OrderId
        BY <1>2, <2>2, StoredLinks DEF PairInv, Filled
      <3> QED BY <3>1, NoIdAssumption DEF PairInv, Links
    <2>5. orders[i].entry # NoId
      BY <1>2, <2>4, StoredLinks DEF PairInv
    <2> QED BY <2>2, <2>3, <2>5
  <1>4. ASSUME orders[i].sibling # NoId
        PROVE  /\ orders[i].sibling \in OrderId \ {i}
               /\ \/ orders[i].sibling \in Cancelled(orders)
                  \/ orders[orders[i].sibling].status \in Cancellable
    <2> DEFINE k == orders[i].sibling
    <2>1. Sib(i) = k
      BY <1>2, StoredLinks DEF PairInv
    <2>2. k \in OrderId /\ k # i /\ Sib(k) = i
      BY <1>4, <2>1, SibType DEF PairInv, Links
    <2>3. ~Staged(k)
      BY <2>2 DEF PairInv, Stages
    <2>4. orders[k].sibling = i
      BY <2>2, <2>3 DEF Sib
    <2>5. orders[k] # NoOrder
      BY <2>4, NoOrderLinks, NoIdAssumption
    <2>6. orders[k].status \in Status \ {"filled"}
      BY <1>3, <2>2, <2>4, <2>5, NoIdAssumption, PairOfFilled
      DEF PairInv, StoreInv, Statuses, Filled
    <2> QED BY <2>2, <2>6 DEF Cancelled, Status, Cancellable
  <1> QED BY <1>1, <1>3, <1>4, FillMove

(* The entry of a bracket has no sibling.                                  *)
LEMMA FillOfEntry ==
    ASSUME PairInv, NEW i \in OrderId, FillOnPlace(i)
    PROVE  OneCancelsOther'
  <1>1. /\ Moved(i, staged[i], "filled") /\ calls' = calls \cup {i}
        /\ staged[i] \in Order /\ Staged(i) /\ staged[i].entry = NoId
    BY DEF FillOnPlace, EntryNext, IsChild, Moved, Fill, PersistFill, Unstage,
           PairInv, StoreInv, TypeOK, Status
  <1>2. Sib(i) = NoId /\ staged[i].sibling = NoId
    BY <1>1 DEF Sib, Ent, PairInv, Links
  <1>3. ASSUME NEW m \in Filled(orders) PROVE orders[m].sibling # i
    <2>1. orders[i] = NoOrder
      BY <1>1 DEF PairInv, StoreInv, StagedIsNew
    <2> QED BY <2>1, NoIdAssumption, PairOfFilled
  <1> QED BY <1>1, <1>2, <1>3, FillMove

(* The end of fillOrder, where the sibling is cancelled.                   *)
LEMMA ReturnMove ==
    ASSUME PairInv, NEW i \in OrderId, Return(i),
           \/ \E j \in OrderId : ReturnCancellingSibling(i, j)
           \/ ReturnOnly(i)
    PROVE  OneCancelsOther'
  <1>0. orders \in [OrderId -> Order]
    BY DEF PairInv, StoreInv, TypeOK
  <1> SUFFICES ASSUME NEW m \in Filled(orders'), orders'[m].sibling # NoId
               PROVE  \/ orders'[m].sibling \in Cancelled(orders')
                      \/ /\ m \in calls'
                         /\ orders'[orders'[m].sibling].status \in Cancellable
    BY DEF OneCancelsOther
  <1>1. calls' = calls \ {i}
    BY DEF Return
  <1>2. ASSUME NEW j \in OrderId, ReturnCancellingSibling(i, j)
        PROVE  orders'[m].sibling \in Cancelled(orders') \/
               (m \in calls' /\ orders'[orders'[m].sibling].status \in Cancellable)
    <2> DEFINE stored == [orders[j] EXCEPT !.status = "cancelled"]
    <2>1. /\ orders' = [orders EXCEPT ![j] = stored]
          /\ j = orders[i].sibling
      BY <1>2 DEF ReturnCancellingSibling, SetStatus, LiveSibling
    <2>2. stored.status = "cancelled"
      BY <1>0, NewStatus DEF Status
    <2> HIDE DEF stored
    <2>3. m # j /\ m \in Filled(orders) /\ orders'[m] = orders[m]
      BY <1>0, <2>1, <2>2 DEF Filled
    <2>4. orders[m].sibling \in OrderId
      BY <2>3, PairOfFilled
    <2>5. \/ orders[m].sibling \in Cancelled(orders)
          \/ m \in calls /\ orders[orders[m].sibling].status \in Cancellable
      BY <2>3, PairOfFilled
    <2>6. CASE orders[m].sibling = j
      BY <1>0, <2>1, <2>2, <2>3, <2>6 DEF Cancelled
    <2>7. CASE orders[m].sibling # j
      BY <1>0, <1>1, <2>1, <2>3, <2>4, <2>5, <2>7 DEF Cancelled
    <2> QED BY <2>6, <2>7
  <1>3. CASE ReturnOnly(i)
    <2>1. orders' = orders /\ LiveSibling(i) = {}
      BY <1>3 DEF ReturnOnly
    <2>2. m \in Filled(orders) /\ orders[m].sibling # NoId
      BY <2>1
    <2>3. orders[m].sibling \in OrderId
      BY <2>2, PairOfFilled
    <2>4. \/ orders[m].sibling \in Cancelled(orders)
          \/ m \in calls /\ orders[orders[m].sibling].status \in Cancellable
      BY <2>2, PairOfFilled
    <2> QED BY <1>1, <2>1, <2>3, <2>4 DEF LiveSibling
  <1> QED BY <1>2, <1>3

(* Every step keeps Stages.                                                *)
LEMMA StagesStep ==
    ASSUME PairInv, MaxCrashes = 0, MaxStops = 0, Next
    PROVE  Stages'
  <1>1. faults.crash \in Nat /\ faults.stop \in Nat
    BY DEF PairInv, StoreInv, TypeOK
  <1>2. ~Crash /\ ~Shutdown /\ ~Exit /\ ~Restart
    BY <1>1 DEF PairInv, Stages, Crash, Shutdown, Exit, Restart
  <1>3. CASE Message
    <2>1. ASSUME NEW i \in OrderId, NEW r \in Requests, HandlePlaceOrder(i, r)
          PROVE  Stages'
      BY <2>1 DEF HandlePlaceOrder, Idle, PairInv, Stages, control
    <2>2. ASSUME NEW e \in OrderId, NEW t \in OrderId, NEW s \in OrderId,
                 NEW b \in Brackets, HandlePlaceBracket(e, t, s, b)
          PROVE  Stages'
      BY <2>2 DEF HandlePlaceBracket, Idle, PairInv, Stages, control
    <2>3. ASSUME \/ \E i \in OrderId : HandleCancelLive(i) \/ HandleCancelFinal(i)
                 \/ \E ltp \in Price : HandleTick(ltp)
          PROVE  Stages'
      BY <2>3 DEF HandleCancelLive, HandleCancelFinal, HandleTick, Idle, PairInv, Stages,
                  Staged, control
    <2> QED BY <1>3, <2>1, <2>2, <2>3 DEF Message
  <1>4. ASSUME NEW i \in OrderId, StoreChild(i) PROVE Stages'
    BY <1>4 DEF StoreChild, PairInv, Stages
  <1>5. ASSUME NEW i \in OrderId, FillOnPlace(i) \/ RestOnPlace(i) PROVE Stages'
    <2>1. /\ EntryNext(i) /\ phase' = phase /\ pc' = "replying"
          /\ staged' = [staged EXCEPT ![i] = NoOrder]
      BY <1>5 DEF FillOnPlace, RestOnPlace, EntryNext, Fill, Unstage
    <2>2. \A j \in OrderId : ~Staged(j)'
      <3> SUFFICES ASSUME NEW j \in OrderId, Staged(j)' PROVE FALSE
        OBVIOUS
      <3>1. j # i /\ Staged(j)
        BY <2>1 DEF PairInv, StoreInv, TypeOK, Staged
      <3>2. /\ Staged(i) /\ ~IsChild(staged[i])
            /\ ~IsChild(staged[j])
        BY <2>1, <3>1 DEF EntryNext
      <3> QED BY <3>1, <3>2 DEF PairInv, OneEntryStaged
    <2> QED BY <2>1, <2>2 DEF PairInv, Stages
  <1>6. ASSUME NEW i \in OrderId, NEW j \in OrderId,
               \/ FillOnTick(i) \/ ActivateChild(i, j) \/ FillActivated(i, j)
               \/ ReturnCancellingSibling(i, j) \/ ReturnOnly(i)
        PROVE  Stages'
    BY <1>6 DEF FillOnTick, ActivateChild, FillActivated, ReturnCancellingSibling,
                ReturnOnly, Return, Fill, Innermost, PairInv, Stages, Staged, control
  <1>7. CASE EndTick \/ Reply
    BY <1>7 DEF EndTick, Reply, PairInv, Stages, Staged
  <1> QED BY <1>2, <1>3, <1>4, <1>5, <1>6, <1>7 DEF Next, Work, Process

(* Every step keeps one entry staged.                                      *)
LEMMA OneEntryStep ==
    ASSUME PairInv, Next
    PROVE  OneEntryStaged'
  <1>0. /\ staged \in [OrderId -> Order]
        /\ NoOrder.entry = NoId
    BY NoOrderLinks DEF PairInv, StoreInv, TypeOK
  <1>1. ASSUME NEW i \in OrderId, NEW r \in Requests, HandlePlaceOrder(i, r)
        PROVE  OneEntryStaged'
    <2>1. /\ \A j \in OrderId : ~Staged(j)
          /\ staged' = [staged EXCEPT ![i] = NewOrder(r)]
      BY <1>1 DEF HandlePlaceOrder, Idle, PairInv, Stages
    <2> QED BY <1>0, <2>1 DEF OneEntryStaged, Staged
  <1>2. ASSUME NEW e \in OrderId, NEW t \in OrderId, NEW s \in OrderId,
               NEW b \in Brackets, HandlePlaceBracket(e, t, s, b)
        PROVE  OneEntryStaged'
    <2> DEFINE target == Link(TargetLeg(b), e, s)
               stop   == Link(StopLeg(b), e, t)
               entry  == EntryLeg(b)
    <2>1. /\ \A j \in OrderId : ~Staged(j)
          /\ staged' = [staged EXCEPT ![e] = entry, ![t] = target, ![s] = stop]
          /\ e # t /\ e # s /\ t # s
      BY <1>2 DEF HandlePlaceBracket, Idle, PairInv, Stages
    <2>2. target.entry = e /\ stop.entry = e
      BY DEF TargetLeg, StopLeg, NewOrder, Link
    <2> HIDE DEF target, stop, entry
    <2>3. \A j \in OrderId : Staged(j)' /\ ~IsChild(staged'[j]) => j = e
      BY <1>0, <2>1, <2>2, NoIdAssumption DEF Staged, IsChild
    <2> QED BY <2>3 DEF OneEntryStaged
  <1>3. ASSUME \A j \in OrderId : staged'[j] \in {staged[j], NoOrder}
        PROVE  OneEntryStaged'
    BY <1>0, <1>3 DEF PairInv, OneEntryStaged, Staged, IsChild
  <1>4. CASE LoseMemory
    BY <1>3, <1>4 DEF LoseMemory, NoOrders
  <1>5. CASE Restart
    BY <1>3, <1>5 DEF Restart, control
  <1>9. ASSUME NEW i \in OrderId, HandleCancelLive(i) \/ HandleCancelFinal(i)
        PROVE  OneEntryStaged'
    BY <1>3, <1>9 DEF HandleCancelLive, HandleCancelFinal, control
  <1>10. ASSUME NEW ltp \in Price, HandleTick(ltp) PROVE OneEntryStaged'
    BY <1>3, <1>10 DEF HandleTick
  <1>11. CASE Message
    BY <1>1, <1>2, <1>9, <1>10, <1>11 DEF Message
  <1>12. CASE Work
    <2>1. ASSUME NEW i \in OrderId,
                 StoreChild(i) \/ FillOnPlace(i) \/ RestOnPlace(i)
          PROVE  staged' = [staged EXCEPT ![i] = NoOrder]
      BY <2>1 DEF StoreChild, FillOnPlace, RestOnPlace, EntryNext, Unstage
    <2>2. ASSUME NEW i \in OrderId, NEW j \in OrderId,
                 \/ FillOnTick(i) \/ ActivateChild(i, j) \/ FillActivated(i, j)
                 \/ ReturnCancellingSibling(i, j) \/ ReturnOnly(i)
                 \/ EndTick \/ Reply
          PROVE  staged' = staged
      BY <2>2 DEF FillOnTick, ActivateChild, FillActivated, EndTick, Reply,
                  ReturnCancellingSibling, ReturnOnly, Return, control
    <2> QED BY <1>0, <1>3, <1>12, <2>1, <2>2 DEF Work
  <1>13. CASE Process
    BY <1>3, <1>4, <1>5, <1>13 DEF Process, Crash, Exit, Shutdown, control
  <1> QED BY <1>11, <1>12, <1>13 DEF Next

(* Every step keeps the pairs.                                             *)
LEMMA LinksStep ==
    ASSUME PairInv, Next, Stages'
    PROVE  Links'
  <1>1. ASSUME NEW i \in OrderId, NEW o \in Order, NEW status \in Status,
               Moved(i, o, status)
        PROVE  Links'
    BY <1>1, MovedLinks, SameLinks DEF PairInv
  <1>2. ASSUME UNCHANGED <<orders, staged>> PROVE Links'
    <2>1. \A j \in OrderId : Sib(j)' = Sib(j) /\ Ent(j)' = Ent(j)
      BY <1>2 DEF Sib, Ent, Staged
    <2> QED BY <2>1, SameLinks
  <1>3. ASSUME NEW ids \in SUBSET OrderId, Begun(ids) PROVE Links'
    BY <1>3, BegunOrderLinks, BegunBracketLinks DEF Begun, Placement
  <1>4. CASE Untouched
    BY <1>2, <1>4 DEF Untouched
  <1>5. ~LoseMemory /\ ~Restart
    BY DEF LoseMemory, Restart, PairInv, Stages
  <1>6. StoreStep
    BY StepsOfTheStore DEF PairInv, StoreInv
  <1> QED BY <1>1, <1>3, <1>4, <1>5, <1>6 DEF StoreStep

(* Every step keeps the property.                                          *)
LEMMA OneCancelsOtherStep ==
    ASSUME PairInv, MaxCrashes = 0, MaxStops = 0, Next
    PROVE  OneCancelsOther'
  <1>0. /\ \A i \in OrderId : orders[i] \in Order /\ staged[i] \in Order
        /\ phase = "running" /\ TypeOK
    BY DEF PairInv, StoreInv, TypeOK, Stages
  <1>1. ASSUME UNCHANGED <<orders, calls>> PROVE OneCancelsOther'
    BY <1>1 DEF PairInv, OneCancelsOther, Filled, Cancelled
  <1>2. CASE Message
    <2>1. ASSUME NEW i \in OrderId, HandleCancelLive(i) PROVE OneCancelsOther'
      <3>1. Moved(i, orders[i], "cancelled") /\ calls' = calls
        BY <1>0, <2>1 DEF HandleCancelLive, Idle, Cancellable, Moved, SetStatus,
                          PersistOrder, Status, Terminal
      <3> QED BY <1>0, <3>1, QuietMove DEF Status
    <2>2. CASE Placement
      <3>1. UNCHANGED <<orders, calls>>
        BY <2>2 DEF Placement, HandlePlaceOrder, HandlePlaceBracket, memory, control
      <3> QED BY <1>1, <3>1
    <2>3. CASE (\E i \in OrderId : HandleCancelFinal(i)) \/ (\E ltp \in Price : HandleTick(ltp))
      BY <1>1, <2>3 DEF HandleCancelFinal, HandleTick, memory, control
    <2> QED BY <1>2, <2>1, <2>2, <2>3 DEF Message, Placement
  <1>3. ASSUME NEW i \in OrderId, StoreChild(i) PROVE OneCancelsOther'
    <2>1. Moved(i, staged[i], "pending") /\ calls' = calls
      BY <1>0, <1>3 DEF StoreChild, Moved, SetStatus, PersistOrder, Unstage, Status
    <2> QED BY <1>0, <2>1, QuietMove DEF Status
  <1>4. ASSUME NEW i \in OrderId, RestOnPlace(i) PROVE OneCancelsOther'
    <2>1. Moved(i, staged[i], "resting") /\ calls' = calls
      BY <1>0, <1>4 DEF RestOnPlace, EntryNext, Moved, SetStatus, PersistOrder,
                        Unstage, Status
    <2> QED BY <1>0, <2>1, QuietMove DEF Status
  <1>5. ASSUME NEW i \in OrderId, FillOnTick(i) PROVE OneCancelsOther'
    <2>1. /\ orders[i].status = "resting" /\ pc # "placing" /\ calls = {}
          /\ Fill(i, orders[i]) /\ staged' = staged
      BY <1>5 DEF FillOnTick, Crossed
    <2> QED BY <2>1, FillOfResting
  <1>6. ASSUME NEW i \in OrderId, NEW j \in OrderId, FillActivated(i, j)
        PROVE  OneCancelsOther'
    <2>1. /\ orders[j].status = "resting" /\ orders[j].entry = i
          /\ Fill(j, orders[j]) /\ staged' = staged
      BY <1>6 DEF FillActivated, ToFillNow, Crossed, ChildrenOf
    <2>2. pc # "placing"
      BY <1>6 DEF FillActivated, Innermost, PairInv, Stages
    <2>3. \A m \in calls : orders[m].entry # i
      BY <1>6 DEF FillActivated, Innermost, ChildrenOf, PairInv, StoreInv, TypeOK
    <2> QED BY <2>1, <2>2, <2>3, FillOfResting
  <1>7. ASSUME NEW i \in OrderId, NEW j \in OrderId, ActivateChild(i, j)
        PROVE  OneCancelsOther'
    <2>1. Moved(j, orders[j], "resting") /\ calls' = calls
      BY <1>0, <1>7 DEF ActivateChild, PendingChildren, Moved, SetStatus,
                        PersistOrder, control, Status, Terminal
    <2> QED BY <1>0, <2>1, QuietMove DEF Status
  <1>8. ASSUME NEW i \in OrderId, NEW j \in OrderId,
               ReturnCancellingSibling(i, j) \/ ReturnOnly(i)
        PROVE  OneCancelsOther'
    BY <1>8, ReturnMove DEF ReturnCancellingSibling, ReturnOnly
  <1>9. CASE EndTick \/ Reply
    BY <1>1, <1>9 DEF EndTick, Reply, memory
  <1>10. ~Process
    BY <1>0 DEF TypeOK, Process, Crash, Shutdown, Exit, Restart
  <1>11. CASE Work
    BY <1>3, <1>4, <1>5, <1>6, <1>7, <1>8, <1>9, <1>11, FillOfEntry DEF Work
  <1> QED BY <1>2, <1>10, <1>11 DEF Next

(* The pairs of a process that is not killed.                              *)
LEMMA PairInvHolds ==
    ASSUME MaxCrashes = 0, MaxStops = 0
    PROVE  Spec => []PairInv
  <1>1. Init /\ StoreInv => PairInv
    BY NoOrderLinks, NoIdAssumption
    DEF Init, NoOrders, PairInv, Links, Sib, Stages, Staged, OneEntryStaged,
        OneCancelsOther, Filled, NoOrder
  <1>2. PairInv /\ StoreInv' /\ [Next]_vars => PairInv'
    <2> SUFFICES ASSUME PairInv, StoreInv', [Next]_vars PROVE PairInv'
      OBVIOUS
    <2>1. CASE Next
      <3>1. Stages'
        BY <2>1, StagesStep
      <3>2. Links' /\ OneEntryStaged' /\ OneCancelsOther'
        BY <2>1, <3>1, LinksStep, OneEntryStep, OneCancelsOtherStep
      <3> QED BY <3>1, <3>2 DEF PairInv
    <2>2. CASE UNCHANGED vars
      BY <2>2 DEF vars, memory, control, store, PairInv, Links, Sib, Ent, Stages,
                  Staged, OneEntryStaged, IsChild, OneCancelsOther, Filled, Cancelled
    <2> QED BY <2>1, <2>2
  <1> QED BY <1>1, <1>2, StoreInvHolds, PTL DEF Spec

(* In one process lifetime, whatever Postgres refuses to write, the fill   *)
(* of a leg leaves its sibling cancelled: two legs never both fill, whether *)
(* a tick crosses both, an entry activates both or a cancel intervenes.    *)
THEOREM LegsExclude ==
    ASSUME MaxCrashes = 0, MaxStops = 0
    PROVE  Spec => []OneCancelsOther
  <1>1. PairInv => OneCancelsOther
    BY DEF PairInv
  <1> QED BY <1>1, PairInvHolds, PTL

-----------------------------------------------------------------------------
(* The legs of a bracket follow its entry: none is live before the entry   *)
(* has filled, and none is left waiting after.                             *)

(* ChildrenFollowEntry, said of a table of orders.                          *)
FollowsEntry(t) ==
    \A j \in OrderId : t[j].entry # NoId /\ t[j].status \in {"resting", "filled"}
                         => t[j].entry \in Filled(t)

CallsFilled == calls \subseteq Filled(orders)

EntryInv == CallsFilled /\ FollowsEntry(orders) /\ FollowsEntry(dbOrders)

-----------------------------------------------------------------------------
(* What a new status of one order does to the filled orders: the order was  *)
(* not filled, and is now if that is its status.                            *)
LEMMA FilledByStatus ==
    ASSUME StoreInv, NEW i \in OrderId, NEW o \in Order, NEW status \in Status,
           orders' = [orders EXCEPT ![i] = [o EXCEPT !.status = status]],
           orders[i].status # "filled"
    PROVE  /\ Filled(orders') = Filled(orders)
                                  \cup (IF status = "filled" THEN {i} ELSE {})
           /\ orders'[i].status = status /\ orders'[i].entry = o.entry
           /\ \A j \in OrderId \ {i} : orders'[j] = orders[j]
  <1>1. orders \in [OrderId -> Order]
    BY DEF StoreInv, TypeOK
  <1>2. orders'[i] = [o EXCEPT !.status = status]
    BY <1>1
  <1>3. \A j \in OrderId \ {i} : orders'[j] = orders[j]
    BY <1>1
  <1>4. orders'[i].status = status /\ orders'[i].entry = o.entry
    BY <1>2, StatusOnly
  <1> QED BY <1>3, <1>4 DEF Filled

(* An order being stored for the first time is not filled yet.              *)
LEMMA StagedNotFilled ==
    ASSUME StoreInv, NEW i \in OrderId, Staged(i)
    PROVE  orders[i].status # "filled" /\ i \notin Filled(orders)
  BY DEF StoreInv, StagedIsNew, NoOrder, Filled

(* Memory follows the entry if the order that moves does.                   *)
LEMMA MoveFollows ==
    ASSUME StoreInv, EntryInv, NEW i \in OrderId, NEW o \in Order,
           NEW status \in Status,
           orders' = [orders EXCEPT ![i] = [o EXCEPT !.status = status]],
           orders[i].status # "filled",
           o.entry # NoId /\ status \in {"resting", "filled"}
               => o.entry \in Filled(orders),
           calls' \subseteq calls \cup (IF status = "filled" THEN {i} ELSE {})
    PROVE  CallsFilled' /\ FollowsEntry(orders')
  <1>1. /\ Filled(orders') = Filled(orders)
                               \cup (IF status = "filled" THEN {i} ELSE {})
        /\ orders'[i].status = status /\ orders'[i].entry = o.entry
        /\ \A j \in OrderId \ {i} : orders'[j] = orders[j]
    BY FilledByStatus
  <1>2. CallsFilled'
    <2>1. calls' \subseteq Filled(orders')
      BY <1>1 DEF EntryInv, CallsFilled
    <2> QED BY <2>1 DEF CallsFilled, Filled
  <1>3. FollowsEntry(orders')
    BY <1>1 DEF EntryInv, FollowsEntry
  <1> QED BY <1>2, <1>3

(* Each step keeps memory in line with the entries.                         *)
LEMMA MemoryFollows ==
    ASSUME StoreInv, EntryInv, [Next]_vars
    PROVE  CallsFilled' /\ FollowsEntry(orders')
  <1> DEFINE Goal == CallsFilled' /\ FollowsEntry(orders')
  <1>types. orders \in [OrderId -> Order] /\ staged \in [OrderId -> Order]
    BY DEF StoreInv, TypeOK
  <1>statuses. {"pending", "resting", "cancelled", "filled"} \subseteq Status
    BY DEF Status
  <1>same. ASSUME orders' = orders, calls' \subseteq calls PROVE Goal
    BY <1>same DEF EntryInv, CallsFilled
  <1>lost. LoseMemory => Goal
    BY DEF LoseMemory, CallsFilled, FollowsEntry, NoOrders, NoOrder
  <1>fill. ASSUME NEW i \in OrderId, i \in Crossed, Fill(i, orders[i])
           PROVE  Goal
    <2>1. orders[i].status = "resting"
      BY <1>fill DEF Crossed
    <2>2. orders[i].entry # NoId => orders[i].entry \in Filled(orders)
      BY <2>1 DEF EntryInv, FollowsEntry
    <2> QED BY <1>fill, <1>types, <1>statuses, <2>1, <2>2, MoveFollows DEF Fill
  <1>1. ASSUME NEW i \in OrderId, StoreChild(i) PROVE Goal
    BY <1>1, <1>types, <1>statuses, StagedNotFilled, MoveFollows
    DEF StoreChild, SetStatus
  <1>2. ASSUME NEW i \in OrderId, FillOnPlace(i) \/ RestOnPlace(i) PROVE Goal
    <2>1. Staged(i) /\ staged[i].entry = NoId
      BY <1>2 DEF FillOnPlace, RestOnPlace, EntryNext, IsChild
    <2>2. CASE FillOnPlace(i)
      BY <2>1, <2>2, <1>types, <1>statuses, StagedNotFilled, MoveFollows
      DEF FillOnPlace, Fill
    <2>3. CASE RestOnPlace(i)
      BY <2>1, <2>3, <1>types, <1>statuses, StagedNotFilled, MoveFollows
      DEF RestOnPlace, SetStatus
    <2> QED BY <1>2, <2>2, <2>3
  <1>3. ASSUME NEW i \in OrderId, HandleCancelLive(i) PROVE Goal
    BY <1>3, <1>types, <1>statuses, MoveFollows
    DEF HandleCancelLive, SetStatus, Cancellable
  <1>4. ASSUME NEW i \in OrderId, NEW j \in OrderId, ActivateChild(i, j) PROVE Goal
    <2>1. orders[j].entry = i /\ orders[j].status = "pending" /\ i \in Filled(orders)
      BY <1>4 DEF ActivateChild, PendingChildren, ChildrenOf, Innermost,
                  EntryInv, CallsFilled
    <2> QED BY <1>4, <2>1, <1>types, <1>statuses, MoveFollows
            DEF ActivateChild, SetStatus, control
  <1>5. ASSUME NEW i \in OrderId, NEW j \in OrderId, ReturnCancellingSibling(i, j)
        PROVE  Goal
    BY <1>5, <1>types, <1>statuses, MoveFollows
    DEF ReturnCancellingSibling, Return, SetStatus, LiveSibling, Cancellable
  <1>6. Crash \/ Exit => Goal
    BY <1>lost DEF Crash, Exit
  <1>7. CASE Restart
    <2>1. calls' \subseteq Filled(orders')
      <3>1. calls = {}
        BY <1>7 DEF Restart, EntryInv, CallsFilled, StoreInv, DownIsEmpty, Filled,
                    NoOrders, NoOrder
      <3> QED BY <1>7, <3>1 DEF Restart, control
    <2> QED BY <1>7, <2>1 DEF Restart, EntryInv, CallsFilled
  <1>8. \/ \E i \in OrderId, r \in Requests : HandlePlaceOrder(i, r)
        \/ \E e, t, s \in OrderId, b \in Brackets : HandlePlaceBracket(e, t, s, b)
        \/ \E i \in OrderId : HandleCancelFinal(i) \/ ReturnOnly(i)
        \/ \E ltp \in Price : HandleTick(ltp)
        \/ EndTick \/ Reply \/ Shutdown \/ UNCHANGED vars
        => Goal
    BY <1>same DEF HandlePlaceOrder, HandlePlaceBracket, HandleCancelFinal, ReturnOnly,
                   Return, HandleTick, EndTick, Reply, Shutdown, vars, memory, control
  <1> QED
    BY <1>fill, <1>1, <1>2, <1>3, <1>4, <1>5, <1>6, <1>7, <1>8
    DEF Next, Message, Work, Process, FillOnTick, FillActivated, ToFillNow

(* The rows follow memory while the process runs, and stand still after.    *)
LEMMA RowsFollow ==
    ASSUME MaxFailedWrites = 0, StoreInv, Mirrored, Mirrored', EntryInv, [Next]_vars,
           FollowsEntry(orders')
    PROVE  FollowsEntry(dbOrders')
  <1>1. StoreStep
    BY StepsOfTheStore DEF StoreInv
  <1>2. ASSUME UNCHANGED store PROVE FollowsEntry(dbOrders')
    BY <1>2 DEF store, EntryInv
  <1>3. ASSUME NEW i \in OrderId, NEW o \in Order, NEW status \in Status,
               Moved(i, o, status)
        PROVE  FollowsEntry(dbOrders')
    <2>1. CASE phase = "running"
      BY <1>3, <2>1 DEF Moved, Mirrored
    <2>2. CASE phase # "running"
      BY <1>2, <1>3, <2>2, CommittedWrite
    <2> QED BY <2>1, <2>2
  <1> QED BY <1>1, <1>2, <1>3 DEF StoreStep, Begun, Untouched, LoseMemory, Restart

(* A leg rests or fills only if its entry has filled, over any number of    *)
(* kills, shutdowns and restarts, while Postgres refuses no write: the      *)
(* entry's fill is stored before a leg is activated (activateChildrenOf).   *)
THEOREM LegsFollowEntry ==
    ASSUME MaxFailedWrites = 0
    PROVE  Spec => []ChildrenFollowEntry
  <1>1. Init => EntryInv
    BY DEF Init, EntryInv, CallsFilled, FollowsEntry, NoOrders, NoOrder
  <1>2. StoreInv /\ Mirrored /\ Mirrored' /\ EntryInv /\ [Next]_vars => EntryInv'
    <2> SUFFICES ASSUME StoreInv, Mirrored, Mirrored', EntryInv, [Next]_vars
                 PROVE  EntryInv'
      OBVIOUS
    <2>1. CallsFilled' /\ FollowsEntry(orders')
      BY MemoryFollows
    <2>2. FollowsEntry(dbOrders')
      BY <2>1, RowsFollow
    <2> QED BY <2>1, <2>2 DEF EntryInv, FollowsEntry, Filled
  <1>3. EntryInv => ChildrenFollowEntry
    BY DEF EntryInv, FollowsEntry, ChildrenFollowEntry
  <1> QED BY <1>1, <1>2, <1>3, StoreInvHolds, MirroredHolds, PTL DEF Spec

-----------------------------------------------------------------------------
(* While a process lives: a leg still waiting under a filled entry waits    *)
(* for the open call that filled the entry.                                 *)
WaitsOnCall ==
    \A j \in OrderId : orders[j].status = "pending" /\ orders[j].entry \in Filled(orders)
                         => orders[j].entry \in calls

(* A leg is stored before its entry, which is nobody's leg.                 *)
EntryIsLast ==
    \A j \in OrderId : Staged(j) /\ IsChild(staged[j]) =>
        Staged(staged[j].entry) /\ ~IsChild(staged[staged[j].entry])

Alive == phase = "running" /\ (calls # {} => pc # "idle")

WaitInv == WaitsOnCall /\ EntryIsLast /\ Alive

(* A change of status that opens a call if it fills, and leaves no order    *)
(* pending whose entry was filled.                                          *)
LEMMA MoveWaits ==
    ASSUME StoreInv, WaitsOnCall, NEW i \in OrderId, NEW o \in Order,
           NEW status \in Status,
           orders' = [orders EXCEPT ![i] = [o EXCEPT !.status = status]],
           orders[i].status # "filled",
           status = "pending" => o.entry \notin Filled(orders),
           calls \cup (IF status = "filled" THEN {i} ELSE {}) \subseteq calls'
    PROVE  WaitsOnCall'
  <1>1. /\ Filled(orders') = Filled(orders)
                               \cup (IF status = "filled" THEN {i} ELSE {})
        /\ orders'[i].status = status /\ orders'[i].entry = o.entry
        /\ \A j \in OrderId \ {i} : orders'[j] = orders[j]
    BY FilledByStatus
  <1>2. SUFFICES ASSUME NEW j \in OrderId, orders'[j].status = "pending",
                        orders'[j].entry \in Filled(orders')
                 PROVE  orders'[j].entry \in calls'
    BY DEF WaitsOnCall, Filled
  <1>3. CASE j = i
    BY <1>1, <1>2, <1>3
  <1>4. CASE j # i
    BY <1>1, <1>2, <1>4 DEF WaitsOnCall
  <1> QED BY <1>3, <1>4

(* A call that returns has activated every leg of its entry.                *)
LEMMA ReturnWaits ==
    ASSUME StoreInv, WaitsOnCall, NEW i \in OrderId, Return(i),
           \A j \in OrderId : \/ orders'[j] = orders[j]
                              \/ orders'[j].status = "cancelled"
    PROVE  WaitsOnCall'
  <1>1. \A j \in OrderId : orders[j].status = "pending" => orders[j].entry # i
    BY DEF Return, PendingChildren, ChildrenOf
  <1>2. calls' = calls \ {i}
    BY DEF Return
  <1>3. Filled(orders') \subseteq Filled(orders)
    BY DEF Filled
  <1> QED BY <1>1, <1>2, <1>3 DEF WaitsOnCall, Filled

(* Each step keeps the waiting legs attached to a call.                     *)
LEMMA WaitsStep ==
    ASSUME StoreInv, WaitInv, [Next]_vars, Alive'
    PROVE  WaitsOnCall'
  <1>types. orders \in [OrderId -> Order] /\ staged \in [OrderId -> Order]
    BY DEF StoreInv, TypeOK
  <1>statuses. {"pending", "resting", "cancelled", "filled"} \subseteq Status
    BY DEF Status
  <1>same. ASSUME orders' = orders, calls' = calls PROVE WaitsOnCall'
    BY <1>same DEF WaitInv, WaitsOnCall, Filled
  <1>fill. ASSUME NEW i \in OrderId, i \in Crossed, Fill(i, orders[i])
           PROVE  WaitsOnCall'
    BY <1>fill, <1>types, <1>statuses, MoveWaits DEF Fill, WaitInv, Crossed
  <1>1. ASSUME NEW i \in OrderId, StoreChild(i) PROVE WaitsOnCall'
    <2>1. /\ Staged(i) /\ IsChild(staged[i])
          /\ orders' = [orders EXCEPT ![i] = [staged[i] EXCEPT !.status = "pending"]]
          /\ calls' = calls
      BY <1>1 DEF StoreChild, SetStatus
    <2>2. staged[i].entry \in OrderId /\ Staged(staged[i].entry)
      BY <2>1, <1>types DEF WaitInv, EntryIsLast, IsChild, Order
    <2>3. staged[i].entry \notin Filled(orders) /\ orders[i].status # "filled"
      BY <2>1, <2>2, StagedNotFilled
    <2> QED BY <2>1, <2>3, <1>types, <1>statuses, MoveWaits DEF WaitInv
  <1>2. ASSUME NEW i \in OrderId, FillOnPlace(i) PROVE WaitsOnCall'
    BY <1>2, <1>types, <1>statuses, StagedNotFilled, MoveWaits
    DEF FillOnPlace, EntryNext, Fill, WaitInv
  <1>3. ASSUME NEW i \in OrderId, RestOnPlace(i) PROVE WaitsOnCall'
    <2>1. /\ Staged(i) /\ calls' = calls
          /\ orders' = [orders EXCEPT ![i] = [staged[i] EXCEPT !.status = "resting"]]
      BY <1>3 DEF RestOnPlace, EntryNext, SetStatus
    <2>2. staged[i] \in Order /\ orders[i].status # "filled" /\ "resting" \in Status
      BY <2>1, <1>types, <1>statuses, StagedNotFilled
    <2> QED BY <2>1, <2>2, MoveWaits DEF WaitInv
  <1>4. ASSUME NEW i \in OrderId, HandleCancelLive(i) PROVE WaitsOnCall'
    BY <1>4, <1>types, <1>statuses, MoveWaits
    DEF HandleCancelLive, SetStatus, Cancellable, WaitInv
  <1>5. ASSUME NEW i \in OrderId, NEW j \in OrderId, ActivateChild(i, j)
        PROVE  WaitsOnCall'
    BY <1>5, <1>types, <1>statuses, MoveWaits
    DEF ActivateChild, PendingChildren, ChildrenOf, SetStatus, control, WaitInv
  <1>6. ASSUME NEW i \in OrderId, NEW j \in OrderId, ReturnCancellingSibling(i, j)
        PROVE  WaitsOnCall'
    <2>1. orders' = [orders EXCEPT ![j] = [orders[j] EXCEPT !.status = "cancelled"]]
      BY <1>6 DEF ReturnCancellingSibling, SetStatus
    <2>2. \A k \in OrderId : orders'[k] = orders[k] \/ orders'[k].status = "cancelled"
      BY <2>1, <1>types DEF Order
    <2> QED BY <1>6, <2>2, ReturnWaits DEF ReturnCancellingSibling, WaitInv
  <1>7. ASSUME NEW i \in OrderId, ReturnOnly(i) PROVE WaitsOnCall'
    BY <1>7, ReturnWaits DEF ReturnOnly, WaitInv
  <1>8. ~Crash /\ ~Exit /\ ~Restart
    BY DEF Crash, Exit, Restart, LoseMemory, WaitInv, Alive
  <1>9. \/ \E i \in OrderId, r \in Requests : HandlePlaceOrder(i, r)
        \/ \E e, t, s \in OrderId, b \in Brackets : HandlePlaceBracket(e, t, s, b)
        \/ \E i \in OrderId : HandleCancelFinal(i)
        \/ \E ltp \in Price : HandleTick(ltp)
        \/ EndTick \/ Reply \/ Shutdown \/ UNCHANGED vars
        => WaitsOnCall'
    BY <1>same DEF HandlePlaceOrder, HandlePlaceBracket, HandleCancelFinal,
                   HandleTick, EndTick, Reply, Shutdown, vars, memory, control
  <1> QED
    BY <1>fill, <1>1, <1>2, <1>3, <1>4, <1>5, <1>6, <1>7, <1>8, <1>9
    DEF Next, Message, Work, Process, FillOnTick, FillActivated, ToFillNow

(* A staged order is never a missing one, and a new one is staged afresh.   *)
LEMMA FreshIsUnstaged ==
    ASSUME StoreInv, NEW i \in OrderId, i \notin issued
    PROVE  ~Staged(i)
  BY DEF StoreInv, FreshIds, Staged

(* What a placement creates is an order, and no leg of a bracket.           *)
LEMMA NewIsNotMissing ==
    /\ \A r \in OrderRequest : NewOrder(r) # NoOrder /\ ~IsChild(NewOrder(r))
    /\ \A b \in BracketRequest : EntryLeg(b) # NoOrder /\ ~IsChild(EntryLeg(b))
  <1>1. NoOrder.status = "none"
    BY DEF NoOrder
  <1>2. \A r : NewOrder(r).status = "" /\ NewOrder(r).entry = NoId
    BY DEF NewOrder
  <1> QED BY <1>1, <1>2 DEF EntryLeg, IsChild

(* Each step stores the legs before the entry.                              *)
LEMMA LegsBeforeEntry ==
    ASSUME StoreInv, EntryIsLast, [Next]_vars
    PROVE  EntryIsLast'
  <1>types. staged \in [OrderId -> Order]
    BY DEF StoreInv, TypeOK
  <1>none. NoOrder.entry = NoId
    BY DEF NoOrder
  <1>same. ASSUME staged' = staged PROVE EntryIsLast'
    BY <1>same DEF EntryIsLast, Staged, IsChild
  <1>1. ASSUME NEW i \in OrderId, NEW r \in Requests, HandlePlaceOrder(i, r)
        PROVE  EntryIsLast'
    <2>1. staged' = [staged EXCEPT ![i] = NewOrder(r)] /\ ~Staged(i)
      BY <1>1, FreshIsUnstaged DEF HandlePlaceOrder, NewOrderIDs
    <2>2. ~IsChild(NewOrder(r))
      BY NewIsNotMissing, ConstantsAssumption
    <2> QED BY <2>1, <2>2, <1>types DEF EntryIsLast, Staged, IsChild, Order
  <1>2. ASSUME NEW e \in OrderId, NEW t \in OrderId, NEW s \in OrderId,
               NEW b \in Brackets, HandlePlaceBracket(e, t, s, b)
        PROVE  EntryIsLast'
    <2> DEFINE target == Link(TargetLeg(b), e, s)
               stop   == Link(StopLeg(b), e, t)
               entry  == EntryLeg(b)
    <2>1. /\ staged' = [staged EXCEPT ![e] = entry, ![t] = target, ![s] = stop]
          /\ ~Staged(e) /\ ~Staged(t) /\ ~Staged(s)
          /\ e # t /\ e # s /\ t # s
      BY <1>2, FreshIsUnstaged DEF HandlePlaceBracket, NewOrderIDs
    <2>2. target.entry = e /\ stop.entry = e
      BY DEF TargetLeg, StopLeg, NewOrder, Link
    <2>3. entry # NoOrder /\ ~IsChild(entry)
      BY NewIsNotMissing, ConstantsAssumption
    <2> HIDE DEF target, stop, entry
    <2>4. Staged(e)'
      BY <2>1, <2>3, <1>types DEF Staged
    <2>5. \A j \in OrderId \ {e, t, s} : staged'[j] = staged[j]
      BY <2>1, <1>types
    <2>6. staged'[e] = entry /\ staged'[t].entry = e /\ staged'[s].entry = e
      BY <2>1, <2>2, <1>types
    <2>7. SUFFICES ASSUME NEW j \in OrderId, Staged(j)', IsChild(staged'[j])
                   PROVE  /\ Staged(staged[j].entry)'
                          /\ ~IsChild(staged[staged[j].entry])'
      BY DEF EntryIsLast
    <2>8. CASE j \in {e, t, s}
      BY <2>3, <2>4, <2>6, <2>7, <2>8
    <2>9. CASE j \notin {e, t, s}
      <3>1. Staged(j) /\ staged'[j] = staged[j]
        BY <2>5, <2>7, <2>9 DEF Staged
      <3>2. /\ staged[j].entry \in OrderId /\ Staged(staged[j].entry)
            /\ ~IsChild(staged[staged[j].entry])
        BY <2>7, <3>1, <1>types DEF EntryIsLast, IsChild, Order
      <3>3. staged[j].entry \notin {e, t, s}
        BY <2>1, <3>2
      <3> QED BY <2>5, <3>1, <3>2, <3>3 DEF Staged
    <2> QED BY <2>8, <2>9
  <1>3. ASSUME NEW i \in OrderId, StoreChild(i) PROVE EntryIsLast'
    <2>1. IsChild(staged[i]) /\ staged' = [staged EXCEPT ![i] = NoOrder]
      BY <1>3 DEF StoreChild, Unstage
    <2> QED BY <2>1, <1>types, <1>none DEF EntryIsLast, Staged, IsChild, Order
  <1>4. ASSUME NEW i \in OrderId, FillOnPlace(i) \/ RestOnPlace(i)
        PROVE  EntryIsLast'
    <2>1. EntryNext(i) /\ staged' = [staged EXCEPT ![i] = NoOrder]
      BY <1>4 DEF FillOnPlace, RestOnPlace, EntryNext, Unstage
    <2>2. \A j \in OrderId : Staged(j)' => ~IsChild(staged'[j])
      BY <2>1, <1>types DEF EntryNext, Staged
    <2> QED BY <2>2 DEF EntryIsLast
  <1>5. LoseMemory => EntryIsLast'
    BY DEF LoseMemory, EntryIsLast, Staged, NoOrders
  <1>6. \/ \E i \in OrderId : HandleCancelLive(i) \/ HandleCancelFinal(i)
        \/ \E i \in OrderId : FillOnTick(i) \/ ReturnOnly(i)
        \/ \E i, j \in OrderId : ActivateChild(i, j) \/ FillActivated(i, j)
        \/ \E i, j \in OrderId : ReturnCancellingSibling(i, j)
        \/ \E ltp \in Price : HandleTick(ltp)
        \/ EndTick \/ Reply \/ Shutdown \/ Restart \/ UNCHANGED vars
        => staged' = staged
    BY DEF HandleCancelLive, HandleCancelFinal, FillOnTick, ReturnOnly, Return,
           ActivateChild, FillActivated, ReturnCancellingSibling, HandleTick, EndTick,
           Reply, Shutdown, Restart, vars, control
  <1> QED
    BY <1>same, <1>1, <1>2, <1>3, <1>4, <1>5, <1>6
    DEF Next, Message, Work, Process, Crash, Exit

(* In one process lifetime, whatever Postgres refuses to write, no filled   *)
(* entry is left with a leg that no tick will look at: before its handler   *)
(* ends, each leg is made live or is cancelled (activateChildrenOf).        *)
THEOREM NoLegIsStranded ==
    ASSUME MaxCrashes = 0, MaxStops = 0
    PROVE  Spec => []NoStrandedChild
  <1>1. Init => WaitInv
    BY DEF Init, WaitInv, WaitsOnCall, EntryIsLast, Alive, Staged, NoOrders, NoOrder
  <1>2. StoreInv /\ WaitInv /\ [Next]_vars => WaitInv'
    <2> SUFFICES ASSUME StoreInv, WaitInv, [Next]_vars PROVE WaitInv'
      OBVIOUS
    <2>1. faults.crash \in Nat /\ faults.stop \in Nat
      BY DEF StoreInv, TypeOK
    <2>2. ~Crash /\ ~Shutdown /\ ~Exit /\ ~Restart
      BY <2>1 DEF WaitInv, Alive, Crash, Shutdown, Exit, Restart
    <2>3. ASSUME Message \/ UNCHANGED vars PROVE Alive'
      <3>1. CASE Placement
        BY <3>1 DEF Placement, HandlePlaceOrder, HandlePlaceBracket, control, WaitInv, Alive
      <3>2. CASE (\E i \in OrderId : HandleCancelLive(i) \/ HandleCancelFinal(i))
                 \/ (\E ltp \in Price : HandleTick(ltp))
        BY <3>2 DEF HandleCancelLive, HandleCancelFinal, HandleTick, control, WaitInv, Alive
      <3>3. CASE UNCHANGED vars
        BY <3>3 DEF vars, control, WaitInv, Alive
      <3> QED BY <2>3, <3>1, <3>2, <3>3 DEF Message, Placement
    <2>4. ASSUME Work PROVE Alive'
      BY <2>4 DEF Work, StoreChild, FillOnPlace, RestOnPlace, EntryNext, Fill,
                  FillOnTick, ActivateChild, FillActivated, ReturnCancellingSibling,
                  ReturnOnly, Return, Innermost, EndTick, Reply, control, WaitInv, Alive
    <2>5. Alive' => WaitInv'
      BY WaitsStep, LegsBeforeEntry DEF WaitInv
    <2> QED BY <2>2, <2>3, <2>4, <2>5 DEF Next, Process
  <1>3. WaitInv => NoStrandedChild
    BY DEF WaitInv, WaitsOnCall, Alive, NoStrandedChild, Idle
  <1> QED BY <1>1, <1>2, <1>3, StoreInvHolds, PTL DEF Spec
=============================================================================
