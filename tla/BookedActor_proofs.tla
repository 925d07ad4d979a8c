------------------------- MODULE BookedActor_proofs --------------------------
(***************************************************************************)
(* In one process lifetime each message is one step of the order book,     *)
(* whatever Postgres refuses.  While a handler runs, shown is the book     *)
(* before the message; the invariant says how far memory has come from it, *)
(* and the theorems about bracket legs and prices say that what is reached *)
(* when the handler ends is where a step of the book leads.                *)
(***************************************************************************)
EXTENDS BookedActor, Bracket_proofs

(* The book with the orders of the message in it, before anything matches. *)
PlainBase(i, r) == [shown.orders EXCEPT ![i] = [NewOrder(r) EXCEPT !.status = "resting"]]

BracketBase(e, t, s, b) ==
    [shown.orders EXCEPT
        ![e] = [EntryLeg(b) EXCEPT !.status = "resting"],
        ![t] = [Link(TargetLeg(b), e, s) EXCEPT !.status = "pending"],
        ![s] = [Link(StopLeg(b), e, t) EXCEPT !.status = "pending"]]

IsBase(base) ==
    \/ \E i \in OrderId, r \in Requests :
          /\ shown.orders[i] = NoOrder /\ Validate(NewOrder(r))
          /\ base = PlainBase(i, r)
    \/ \E e, t, s \in OrderId, b \in Brackets :
          /\ e # t /\ e # s /\ t # s
          /\ shown.orders[e] = NoOrder /\ shown.orders[t] = NoOrder
          /\ shown.orders[s] = NoOrder
          /\ ValidateBracket(EntryLeg(b), TargetLeg(b), StopLeg(b))
          /\ base = BracketBase(e, t, s, b)

(* What is staged is what memory still lacks of base.                      *)
ToPlace(base) ==
    \E e \in OrderId :
        /\ Staged(e) /\ ~IsChild(staged[e])
        /\ base[e] = [staged[e] EXCEPT !.status = "resting"]
        /\ \A i \in OrderId \ {e} :
              IF Staged(i) THEN /\ IsChild(staged[i])
                                /\ base[i] = [staged[i] EXCEPT !.status = "pending"]
              ELSE orders[i] = base[i]

(* The orders that have left table t for a status.                         *)
Changed(t, status) == {i \in OrderId : orders[i].status = status /\ t[i].status # status}

FillsOf(t) == Changed(t, "filled")

(* Memory is table t after some of the changes that matching may make.     *)
Matching(t) ==
    /\ t \in [OrderId -> Order]
    /\ \A i \in OrderId : orders[i] = [t[i] EXCEPT !.status = orders[i].status]
    /\ \A i \in FillsOf(t) :
          /\ t[i].status \in Cancellable /\ lastLTP # 0 /\ WouldFill(t[i], lastLTP)
          /\ t[i].status = "pending" => t[i].entry \in FillsOf(t)
    /\ \A i \in Changed(t, "cancelled") :
          t[i].status \in Cancellable /\ t[i].sibling \in FillsOf(t)
    /\ \A i \in Changed(t, "resting") : t[i].status = "pending" /\ t[i].entry \in FillsOf(t)
    /\ Changed(t, "pending") = {}
    /\ calls \subseteq FillsOf(t)
    /\ IsFiniteSet(FillsOf(t)) /\ pos = shown.pos + NetQty(t, FillsOf(t))

Cancelling ==
    /\ \E i \in OrderId : /\ shown.orders[i].status \in Cancellable
                          /\ orders = [shown.orders EXCEPT ![i].status = "cancelled"]
    /\ pos = shown.pos /\ calls = {}

(* Where the handler stands.                                               *)
Progress ==
    /\ pc = "idle" => shown = Snapshot
    /\ pc = "sweeping" => hasLTP /\ \E base : base = shown.orders /\ Matching(base)
    /\ pc = "placing" => /\ pos = shown.pos /\ lastLTP = shown.ltp /\ calls = {}
                         /\ \E base : IsBase(base) /\ ToPlace(base)
    /\ pc = "replying" => /\ lastLTP = shown.ltp
                          /\ Cancelling \/ \E base : IsBase(base) /\ Matching(base)

(* A zero price is no price, and only legs wait.                           *)
Plain ==
    /\ shown \in [orders : [OrderId -> Order], pos : Int, ltp : Price \cup {0}]
    /\ hasLTP <=> lastLTP # 0
    /\ \A i \in OrderId : orders[i].status = "pending" => orders[i].entry # NoId

ShownInv == Progress /\ Plain

-----------------------------------------------------------------------------
(* Orders on the same terms fill at the same prices and count the same.    *)
LEMMA SameButStatus ==
    ASSUME NEW o \in Order, NEW status \in Status \cup {"", "none"}
    PROVE  LET n == [o EXCEPT !.status = status]
           IN  /\ n.status = status /\ n.entry = o.entry /\ n.sibling = o.sibling
               /\ SignedQty(n) = SignedQty(o)
               /\ \A p : WouldFill(n, p) <=> WouldFill(o, p)
               /\ \A other : [n EXCEPT !.status = other] = [o EXCEPT !.status = other]
  <1> DEFINE n == [o EXCEPT !.status = status]
  <1>1. /\ n.status = status /\ n.entry = o.entry /\ n.sibling = o.sibling
        /\ n.side = o.side /\ n.type = o.type /\ n.limit = o.limit /\ n.qty = o.qty
    BY DEF Order
  <1>2. \A other : [n EXCEPT !.status = other] = [o EXCEPT !.status = other]
    BY DEF Order
  <1> HIDE DEF n
  <1>3. SignedQty(n) = SignedQty(o)
    BY <1>1 DEF SignedQty
  <1>4. \A p : WouldFill(n, p) <=> WouldFill(o, p)
    BY <1>1 DEF WouldFill
  <1> QED BY <1>1, <1>2, <1>3, <1>4 DEF n

(* Memory that is the table has matched nothing.                           *)
LEMMA MatchStarts ==
    ASSUME NEW t \in [OrderId -> Order], orders' = t, calls' = {}, pos' = shown'.pos,
           pos' \in Int
    PROVE  Matching(t)'
  <1>1. \A status : Changed(t, status)' = {}
    BY DEF Changed
  <1>2. FillsOf(t)' = {}
    BY <1>1 DEF FillsOf
  <1>3. NetQty(t, {}) = 0 /\ IsFiniteSet({})
    BY SumEmpty, FS_EmptySet DEF NetQty
  <1>4. \A i \in OrderId : t[i] = [t[i] EXCEPT !.status = t[i].status]
    BY DEF Order
  <1> QED BY <1>1, <1>2, <1>3, <1>4 DEF Matching

(* What becomes of memory's matching when nothing but calls changes.       *)
LEMMA MatchStays ==
    ASSUME NEW t, Matching(t), UNCHANGED <<orders, pos, lastLTP, shown>>,
           calls' \subseteq calls
    PROVE  Matching(t)'
  <1>1. \A status : Changed(t, status)' = Changed(t, status)
    BY DEF Changed
  <1>2. FillsOf(t)' = FillsOf(t)
    BY <1>1 DEF FillsOf
  <1> QED BY <1>1, <1>2 DEF Matching

(* Memory matches on: a resting order fills, a leg of a filled entry rests *)
(* or the leg beside a filled one is cancelled.                            *)
LEMMA MatchMoves ==
    ASSUME TypeOK, NEW t, Matching(t), NEW j \in OrderId, NEW status \in Status,
           orders' = [orders EXCEPT ![j] = [orders[j] EXCEPT !.status = status]],
           UNCHANGED <<lastLTP, shown>>, shown.pos \in Int,
           \/ /\ status = "filled" /\ orders[j].status = "resting"
              /\ lastLTP # 0 /\ WouldFill(orders[j], lastLTP)
              /\ pos' = pos + SignedQty(orders[j]) /\ calls' = calls \cup {j}
           \/ /\ status = "resting" /\ orders[j].status = "pending"
              /\ orders[j].entry \in calls
              /\ pos' = pos /\ calls' = calls
           \/ /\ status = "cancelled" /\ orders[j].status \in Cancellable
              /\ orders[j].sibling \in calls
              /\ pos' = pos /\ calls' \subseteq calls
    PROVE  Matching(t)'
  <1> DEFINE F == FillsOf(t)
             f == [i \in OrderId |-> SignedQty(t[i])]
  <1>1. /\ orders \in [OrderId -> Order] /\ t \in [OrderId -> Order]
        /\ orders[j] \in Order /\ t[j] \in Order
        /\ orders[j].status \in Status \cup {"", "none"}
        /\ orders[j] = [t[j] EXCEPT !.status = orders[j].status]
    BY DEF TypeOK, Matching, Order
  <1>2. /\ orders[j].entry = t[j].entry /\ orders[j].sibling = t[j].sibling
        /\ SignedQty(orders[j]) = SignedQty(t[j])
        /\ WouldFill(orders[j], lastLTP) <=> WouldFill(t[j], lastLTP)
        /\ [orders[j] EXCEPT !.status = status] = [t[j] EXCEPT !.status = status]
    <2> DEFINE was == orders[j].status
    <2>1. was \in Status \cup {"", "none"} /\ orders[j] = [t[j] EXCEPT !.status = was]
      BY <1>1
    <2> HIDE DEF was
    <2>2. LET n == [t[j] EXCEPT !.status = was]
          IN  /\ n.entry = t[j].entry /\ n.sibling = t[j].sibling
              /\ SignedQty(n) = SignedQty(t[j])
              /\ \A p : WouldFill(n, p) <=> WouldFill(t[j], p)
              /\ [n EXCEPT !.status = status] = [t[j] EXCEPT !.status = status]
      BY <1>1, <2>1, SameButStatus
    <2> QED BY <2>1, <2>2
  <1>3. /\ orders'[j] = [t[j] EXCEPT !.status = status] /\ orders'[j].status = status
        /\ \A i \in OrderId \ {j} : orders'[i] = orders[i]
    <2>1. orders'[j] = [t[j] EXCEPT !.status = status]
      BY <1>1, <1>2
    <2>2. [t[j] EXCEPT !.status = status].status = status
      <3>1. t[j] \in Order
        BY <1>1
      <3> QED BY <3>1 DEF Order
    <2>3. \A i \in OrderId \ {j} : orders'[i] = orders[i]
      BY <1>1
    <2> QED BY <2>1, <2>2, <2>3, Zenon
  <1>4. /\ t[j].status \in Cancellable /\ j \notin F
        /\ t[j].status = "pending" /\ orders[j].status = "resting" => t[j].entry \in F
        /\ orders[j].status = "pending" => t[j].status = "pending"
    BY DEF Matching, Changed, FillsOf, Cancellable
  <1>5. /\ FillsOf(t)' = IF status = "filled" THEN F \cup {j} ELSE F
        /\ \A s \in {"cancelled", "resting"} :
              Changed(t, s)' \subseteq Changed(t, s) \cup (IF s = status THEN {j} ELSE {})
        /\ Changed(t, "pending")' = {}
    <2>1. status \in {"filled", "resting", "cancelled"} /\ Changed(t, "pending") = {}
      BY DEF Matching
    <2> QED BY <1>3, <1>4, <2>1 DEF Changed, FillsOf, Cancellable
  <1>6. F \subseteq FillsOf(t)'
    BY <1>5
  <1>7. \A i \in OrderId : orders'[i] = [t[i] EXCEPT !.status = orders'[i].status]
    BY <1>3 DEF Matching
  <1>8. \A i \in FillsOf(t)' :
          /\ t[i].status \in Cancellable /\ lastLTP # 0 /\ WouldFill(t[i], lastLTP)
          /\ t[i].status = "pending" => t[i].entry \in FillsOf(t)'
    <2>1. \A i \in F : /\ t[i].status \in Cancellable /\ lastLTP # 0
                       /\ WouldFill(t[i], lastLTP)
                       /\ t[i].status = "pending" => t[i].entry \in F
      BY DEF Matching
    <2>2. status = "filled" => /\ lastLTP # 0 /\ WouldFill(t[j], lastLTP)
                               /\ orders[j].status = "resting"
      BY <1>2
    <2> QED BY <1>4, <1>5, <1>6, <2>1, <2>2
  <1>9. \A i \in Changed(t, "cancelled")' :
           t[i].status \in Cancellable /\ t[i].sibling \in FillsOf(t)'
    <2>1. status = "cancelled" => t[j].sibling \in F
      BY <1>2 DEF Matching
    <2> QED BY <1>4, <1>5, <1>6, <2>1 DEF Matching
  <1>10. \A i \in Changed(t, "resting")' :
            t[i].status = "pending" /\ t[i].entry \in FillsOf(t)'
    <2>1. status = "resting" => t[j].status = "pending" /\ t[j].entry \in F
      BY <1>2, <1>4 DEF Matching
    <2> QED BY <1>5, <1>6, <2>1 DEF Matching
  <1>11. calls' \subseteq FillsOf(t)'
    <2>1. calls \subseteq F
      BY DEF Matching
    <2> QED BY <1>5, <1>6, <2>1
  <1>12. IsFiniteSet(FillsOf(t)') /\ pos' = shown'.pos + NetQty(t, FillsOf(t)')
    <2>1. IsFiniteSet(F) /\ pos = shown.pos + SumFunctionOnSet(f, F)
      BY DEF Matching, NetQty
    <2>2. \A i \in OrderId : f[i] \in Int
      BY <1>1, SignedQtyType
    <2>3. F \subseteq OrderId /\ f[j] = SignedQty(orders[j])
      BY <1>2 DEF FillsOf, Changed
    <2>4. NetQty(t, FillsOf(t)') = SumFunctionOnSet(f, FillsOf(t)')
      BY DEF NetQty
    <2> HIDE DEF f, F
    <2>5. SumFunctionOnSet(f, F) \in Int
      BY <2>1, <2>2, <2>3, SumType
    <2>6. CASE status # "filled"
      BY <1>5, <2>1, <2>4, <2>6
    <2>7. CASE status = "filled"
      <3>1. \A i \in F \cup {j} : f[i] \in Int
        BY <2>2, <2>3
      <3>2. SumFunctionOnSet(f, F \cup {j}) = SumFunctionOnSet(f, F) + f[j]
        BY <1>4, <2>1, <3>1, SumWith
      <3>3. IsFiniteSet(F \cup {j})
        BY <2>1, FS_AddElement
      <3>4. pos' = pos + f[j] /\ f[j] \in Int
        BY <2>2, <2>3, <2>7
      <3>5. FillsOf(t)' = F \cup {j}
        BY <1>5, <2>7
      <3> QED BY <2>1, <2>4, <2>5, <3>2, <3>3, <3>4, <3>5
    <2> QED BY <2>6, <2>7
  <1> QED BY <1>1, <1>5, <1>7, <1>8, <1>9, <1>10, <1>11, <1>12 DEF Matching
-----------------------------------------------------------------------------
(* A base is a table of orders.                                            *)
LEMMA BaseType ==
    ASSUME Plain, NEW base, IsBase(base)
    PROVE  base \in [OrderId -> Order]
  <1>1. shown.orders \in [OrderId -> Order] /\ {"resting", "pending"} \subseteq Status
    BY DEF Plain, Status
  <1>2. ASSUME NEW i \in OrderId, NEW r \in Requests, Validate(NewOrder(r))
        PROVE  PlainBase(i, r) \in [OrderId -> Order]
    <2>1. r \in OrderRequest
      BY ConstantsAssumption
    <2>2. [NewOrder(r) EXCEPT !.status = "resting"] \in Order
      BY <1>1, <1>2, <2>1, NewOrderType, StatusType
    <2> QED BY <1>1, <2>2 DEF PlainBase
  <1>3. ASSUME NEW e \in OrderId, NEW t \in OrderId, NEW s \in OrderId, NEW b \in Brackets,
               ValidateBracket(EntryLeg(b), TargetLeg(b), StopLeg(b))
        PROVE  BracketBase(e, t, s, b) \in [OrderId -> Order]
    <2>1. EntryLeg(b) \in Order /\ TargetLeg(b) \in Order /\ StopLeg(b) \in Order
      BY <1>3, LegTypes, ConstantsAssumption
    <2>2. Link(TargetLeg(b), e, s) \in Order /\ Link(StopLeg(b), e, t) \in Order
      BY <2>1, LinkType
    <2>3. /\ [EntryLeg(b) EXCEPT !.status = "resting"] \in Order
          /\ [Link(TargetLeg(b), e, s) EXCEPT !.status = "pending"] \in Order
          /\ [Link(StopLeg(b), e, t) EXCEPT !.status = "pending"] \in Order
      BY <1>1, <2>1, <2>2, StatusType
    <2> QED BY <1>1, <2>3 DEF BracketBase
  <1> QED BY <1>2, <1>3 DEF IsBase

(* A base is one until the next message.                                   *)
LEMMA BaseStays == ASSUME NEW base, IsBase(base), shown' = shown PROVE IsBase(base)'
  BY DEF IsBase, PlainBase, BracketBase

(* The message of a single order.                                          *)
LEMMA PlainBegins ==
    ASSUME TypeOK, Stages, ShownInv, NEW i \in OrderId, NEW r \in Requests,
           HandlePlaceOrder(i, r), shown' = shown
    PROVE  \E base : IsBase(base)' /\ ToPlace(base)'
  <1>0. PICK base : base = PlainBase(i, r)
    OBVIOUS
  <1>1. /\ Idle /\ Validate(NewOrder(r)) /\ orders[i] = NoOrder /\ orders' = orders
        /\ staged' = [staged EXCEPT ![i] = NewOrder(r)]
    BY DEF HandlePlaceOrder, Known, memory
  <1>2. /\ shown.orders = orders /\ orders \in [OrderId -> Order]
        /\ staged \in [OrderId -> Order] /\ \A k \in OrderId : ~Staged(k)
    BY <1>1 DEF ShownInv, Progress, Idle, Snapshot, TypeOK, Stages
  <1>3. IsBase(base)
    BY <1>0, <1>1, <1>2 DEF IsBase
  <1>4. NewOrder(r) # NoOrder /\ ~IsChild(NewOrder(r))
    BY NewIsNotMissing, ConstantsAssumption
  <1>5. /\ base[i] = [NewOrder(r) EXCEPT !.status = "resting"]
        /\ \A k \in OrderId \ {i} : base[k] = orders[k]
    BY <1>0, <1>2 DEF PlainBase
  <1>6. staged'[i] = NewOrder(r) /\ \A k \in OrderId \ {i} : staged'[k] = staged[k]
    BY <1>1, <1>2
  <1>7. ToPlace(base)'
    <2>1. Staged(i)' /\ \A k \in OrderId \ {i} : ~Staged(k)'
      BY <1>2, <1>4, <1>6 DEF Staged
    <2> QED BY <1>1, <1>4, <1>5, <1>6, <2>1 DEF ToPlace
  <1> QED BY <1>3, <1>7, BaseStays

(* The message of a bracket.                                               *)
LEMMA BracketBegins ==
    ASSUME TypeOK, Stages, ShownInv, NEW e \in OrderId, NEW t \in OrderId,
           NEW s \in OrderId, NEW b \in Brackets, HandlePlaceBracket(e, t, s, b),
           shown' = shown
    PROVE  \E base : IsBase(base)' /\ ToPlace(base)'
  <1>0. PICK base : base = BracketBase(e, t, s, b)
    OBVIOUS
  <1> DEFINE target == Link(TargetLeg(b), e, s)
             stop   == Link(StopLeg(b), e, t)
             entry  == EntryLeg(b)
  <1>1. /\ Idle /\ ValidateBracket(EntryLeg(b), TargetLeg(b), StopLeg(b))
        /\ orders[e] = NoOrder /\ orders[t] = NoOrder /\ orders[s] = NoOrder
        /\ orders' = orders /\ e # t /\ e # s /\ t # s
        /\ staged' = [staged EXCEPT ![e] = entry, ![t] = target, ![s] = stop]
    BY DEF HandlePlaceBracket, Known, memory
  <1>2. /\ shown.orders = orders /\ orders \in [OrderId -> Order]
        /\ staged \in [OrderId -> Order] /\ \A k \in OrderId : ~Staged(k)
    BY <1>1 DEF ShownInv, Progress, Idle, Snapshot, TypeOK, Stages
  <1>3. IsBase(base)
    BY <1>0, <1>1, <1>2 DEF IsBase
  <1>4. /\ entry # NoOrder /\ ~IsChild(entry)
        /\ target.entry = e /\ stop.entry = e
    BY NewIsNotMissing, ConstantsAssumption DEF TargetLeg, StopLeg, NewOrder, Link
  <1>5. target # NoOrder /\ stop # NoOrder /\ IsChild(target) /\ IsChild(stop)
    BY <1>4, NoOrderLinks, NoIdAssumption DEF IsChild
  <1>6. /\ base[e] = [entry EXCEPT !.status = "resting"]
        /\ base[t] = [target EXCEPT !.status = "pending"]
        /\ base[s] = [stop EXCEPT !.status = "pending"]
        /\ \A k \in OrderId \ {e, t, s} : base[k] = orders[k]
    BY <1>0, <1>1, <1>2 DEF BracketBase
  <1> HIDE DEF target, stop, entry
  <1>7. /\ staged'[e] = entry /\ staged'[t] = target /\ staged'[s] = stop
        /\ \A k \in OrderId \ {e, t, s} : staged'[k] = staged[k]
    BY <1>1, <1>2
  <1>8. ToPlace(base)'
    <2>1. /\ Staged(e)' /\ Staged(t)' /\ Staged(s)'
          /\ \A k \in OrderId \ {e, t, s} : ~Staged(k)'
      BY <1>2, <1>4, <1>5, <1>7 DEF Staged
    <2>2. \A k \in OrderId \ {e} :
              IF Staged(k)' THEN /\ IsChild(staged'[k])
                                 /\ base[k] = [staged'[k] EXCEPT !.status = "pending"]
              ELSE orders'[k] = base[k]
      <3> TAKE k \in OrderId \ {e}
      <3>1. CASE k = t
        BY <1>5, <1>6, <1>7, <2>1, <3>1
      <3>2. CASE k = s
        BY <1>5, <1>6, <1>7, <2>1, <3>2
      <3>3. CASE k \notin {t, s}
        BY <1>1, <1>6, <2>1, <3>3
      <3> QED BY <3>1, <3>2, <3>3
    <2> QED BY <1>4, <1>6, <1>7, <2>1, <2>2 DEF ToPlace
  <1> QED BY <1>3, <1>8, BaseStays

(* A leg is stored.                                                        *)
LEMMA LegStored ==
    ASSUME TypeOK, NEW base, ToPlace(base), NEW i \in OrderId, StoreChild(i)
    PROVE  ToPlace(base)'
  <1>1. /\ Staged(i) /\ IsChild(staged[i])
        /\ orders' = [orders EXCEPT ![i] = [staged[i] EXCEPT !.status = "pending"]]
        /\ staged' = [staged EXCEPT ![i] = NoOrder]
    BY DEF StoreChild, SetStatus, Unstage
  <1>2. /\ orders'[i] = [staged[i] EXCEPT !.status = "pending"] /\ staged'[i] = NoOrder
        /\ \A k \in OrderId \ {i} : orders'[k] = orders[k] /\ staged'[k] = staged[k]
    BY <1>1 DEF TypeOK
  <1>3. PICK e \in OrderId :
            /\ Staged(e) /\ ~IsChild(staged[e])
            /\ base[e] = [staged[e] EXCEPT !.status = "resting"]
            /\ \A k \in OrderId \ {e} :
                  IF Staged(k) THEN /\ IsChild(staged[k])
                                    /\ base[k] = [staged[k] EXCEPT !.status = "pending"]
                  ELSE orders[k] = base[k]
    BY DEF ToPlace
  <1>4. e # i /\ Staged(e)' /\ ~Staged(i)' /\ \A k \in OrderId \ {i} : Staged(k)' <=> Staged(k)
    BY <1>1, <1>2, <1>3 DEF Staged
  <1>5. base[i] = [staged[i] EXCEPT !.status = "pending"]
    BY <1>1, <1>3, <1>4
  <1>6. \A k \in OrderId \ {e} :
            IF Staged(k)' THEN /\ IsChild(staged'[k])
                               /\ base[k] = [staged'[k] EXCEPT !.status = "pending"]
            ELSE orders'[k] = base[k]
    <2> TAKE k \in OrderId \ {e}
    <2>1. CASE k = i
      BY <1>2, <1>4, <1>5, <2>1
    <2>2. CASE k # i
      BY <1>2, <1>3, <1>4, <2>2
    <2> QED BY <2>1, <2>2
  <1> QED BY <1>2, <1>3, <1>4, <1>6 DEF ToPlace

(* The entry is next: memory has everything else.                          *)
LEMMA EntryIsLeft ==
    ASSUME TypeOK, NEW base, ToPlace(base), NEW i \in OrderId, EntryNext(i)
    PROVE  /\ Staged(i) /\ ~IsChild(staged[i])
           /\ base[i] = [staged[i] EXCEPT !.status = "resting"]
           /\ \A k \in OrderId \ {i} : orders[k] = base[k]
  <1>1. Staged(i) /\ ~IsChild(staged[i]) /\ \A k \in OrderId : Staged(k) => ~IsChild(staged[k])
    BY DEF EntryNext
  <1> QED BY <1>1 DEF ToPlace

(* The entry rests, or fills.                                              *)
LEMMA EntryStored ==
    ASSUME TypeOK, NEW base \in [OrderId -> Order], ToPlace(base), NEW i \in OrderId,
           FillOnPlace(i) \/ RestOnPlace(i), hasLTP => lastLTP # 0,
           shown' = shown, pos = shown.pos, calls = {}
    PROVE  Matching(base)'
  <1>1. EntryNext(i) /\ orders \in [OrderId -> Order] /\ staged[i] \in Order /\ pos \in Int
    BY DEF FillOnPlace, RestOnPlace, TypeOK
  <1>2. /\ base[i] = [staged[i] EXCEPT !.status = "resting"]
        /\ \A k \in OrderId \ {i} : orders[k] = base[k]
    BY <1>1, EntryIsLeft
  <1>3. CASE RestOnPlace(i)
    <2>1. /\ orders' = [orders EXCEPT ![i] = base[i]] /\ pos' = pos /\ calls' = calls
      BY <1>2, <1>3 DEF RestOnPlace, SetStatus
    <2>2. orders' = base
      BY <1>1, <1>2, <2>1
    <2> QED BY <1>1, <2>1, <2>2, MatchStarts
  <1>4. CASE FillOnPlace(i)
    <2> DEFINE f == [k \in OrderId |-> SignedQty(base[k])]
    <2>1. /\ orders' = [orders EXCEPT ![i] = [staged[i] EXCEPT !.status = "filled"]]
          /\ pos' = pos + SignedQty(staged[i]) /\ calls' = {i} /\ lastLTP' = lastLTP
          /\ lastLTP # 0 /\ WouldFill(staged[i], lastLTP)
      BY <1>4 DEF FillOnPlace, Fill, Marketable
    <2>2. {"filled", "resting"} \subseteq Status
      BY DEF Status
    <2>3. /\ base[i].status = "resting" /\ SignedQty(base[i]) = SignedQty(staged[i])
          /\ WouldFill(base[i], lastLTP)
          /\ [base[i] EXCEPT !.status = "filled"] = [staged[i] EXCEPT !.status = "filled"]
        <3>1. LET n == [staged[i] EXCEPT !.status = "resting"]
            IN  /\ n.status = "resting" /\ SignedQty(n) = SignedQty(staged[i])
                /\ \A p : WouldFill(n, p) <=> WouldFill(staged[i], p)
                /\ [n EXCEPT !.status = "filled"] = [staged[i] EXCEPT !.status = "filled"]
        BY <1>1, <2>2, SameButStatus
      <3> QED BY <1>2, <2>1, <3>1
    <2>4. /\ orders'[i] = [base[i] EXCEPT !.status = "filled"] /\ orders'[i].status = "filled"
          /\ \A k \in OrderId \ {i} : orders'[k] = base[k]
      <3>1. orders'[i] = [staged[i] EXCEPT !.status = "filled"]
        BY <1>1, <2>1
      <3>2. orders'[i].status = "filled"
        BY <1>1, <3>1, StatusOnly
      <3>3. \A k \in OrderId \ {i} : orders'[k] = base[k]
        BY <1>1, <1>2, <2>1
      <3> QED BY <2>3, <3>1, <3>2, <3>3
    <2>5. /\ FillsOf(base)' = {i} /\ Changed(base, "cancelled")' = {}
          /\ Changed(base, "resting")' = {} /\ Changed(base, "pending")' = {}
      <3>1. ASSUME NEW status
            PROVE  Changed(base, status)' = IF status = "filled" THEN {i} ELSE {}
        BY <2>3, <2>4 DEF Changed
      <3> QED BY <3>1 DEF FillsOf
    <2>6. \A k \in OrderId : orders'[k] = [base[k] EXCEPT !.status = orders'[k].status]
      <3>1. \A k \in OrderId : base[k] = [base[k] EXCEPT !.status = base[k].status]
        BY DEF Order
      <3> QED BY <2>4, <3>1
    <2>7. NetQty(base, {i}) = f[i] /\ f[i] = SignedQty(staged[i]) /\ f[i] \in Int
      <3>1. f[i] = SignedQty(staged[i]) /\ f[i] \in Int
        BY <1>1, <2>3, SignedQtyType
      <3>2. NetQty(base, {i}) = SumFunctionOnSet(f, {i})
        BY DEF NetQty
      <3> HIDE DEF f
      <3>3. SumFunctionOnSet(f, {} \cup {i}) = SumFunctionOnSet(f, {}) + f[i]
        BY <3>1, FS_EmptySet, SumWith
      <3>4. {} \cup {i} = {i} /\ SumFunctionOnSet(f, {}) = 0
        BY SumEmpty
      <3>5. SumFunctionOnSet(f, {i}) = 0 + f[i]
        BY <3>3, <3>4
      <3> QED BY <3>1, <3>2, <3>5
    <2>8. IsFiniteSet({i}) /\ pos' = shown'.pos + NetQty(base, {i})
      BY <2>1, <2>7, FS_Singleton
    <2> HIDE DEF f
    <2> QED BY <2>1, <2>3, <2>5, <2>6, <2>8 DEF Matching, Cancellable
  <1> QED BY <1>3, <1>4
-----------------------------------------------------------------------------
(* Every step between messages' begin and end matches on.                  *)
LEMMA MatchSteps ==
    ASSUME PairInv, Plain, NEW base, Matching(base), shown' = shown,
           NEW i \in OrderId, NEW j \in OrderId,
           \/ FillOnTick(i) \/ ActivateChild(i, j) \/ FillActivated(i, j)
           \/ ReturnCancellingSibling(i, j) \/ ReturnOnly(i)
    PROVE  Matching(base)'
  <1>1. /\ TypeOK /\ StoreInv /\ shown.pos \in Int
        /\ {"filled", "resting", "cancelled"} \subseteq Status
    BY DEF PairInv, StoreInv, Plain, Status
  <1>2. ASSUME NEW k \in OrderId, k \in Crossed, Fill(k, orders[k])
        PROVE  Matching(base)'
    <2>1. /\ orders[k].status = "resting" /\ lastLTP # 0 /\ WouldFill(orders[k], lastLTP)
      BY <1>2 DEF Crossed, Marketable, Plain
    <2>2. /\ orders' = [orders EXCEPT ![k] = [orders[k] EXCEPT !.status = "filled"]]
          /\ pos' = pos + SignedQty(orders[k]) /\ calls' = calls \cup {k}
          /\ lastLTP' = lastLTP
      BY <1>2 DEF Fill
    <2> QED BY <1>1, <2>1, <2>2, MatchMoves
  <1>3. CASE FillOnTick(i) \/ FillActivated(i, j)
    BY <1>2, <1>3 DEF FillOnTick, FillActivated, ToFillNow
  <1>4. CASE ActivateChild(i, j)
    <2>1. /\ orders[j].status = "pending" /\ orders[j].entry \in calls
          /\ orders' = [orders EXCEPT ![j] = [orders[j] EXCEPT !.status = "resting"]]
          /\ UNCHANGED <<pos, lastLTP, calls>>
      BY <1>4 DEF ActivateChild, Innermost, PendingChildren, ChildrenOf, SetStatus, control
    <2> QED BY <1>1, <2>1, MatchMoves
  <1>5. CASE ReturnCancellingSibling(i, j)
    <2>1. /\ i \in calls /\ j = orders[i].sibling /\ orders[j].status \in Cancellable
          /\ orders' = [orders EXCEPT ![j] = [orders[j] EXCEPT !.status = "cancelled"]]
          /\ UNCHANGED <<pos, lastLTP>> /\ calls' \subseteq calls
      BY <1>5 DEF ReturnCancellingSibling, Return, Innermost, LiveSibling, SetStatus
    <2>2. orders[i] # NoOrder /\ orders[j] # NoOrder
      BY <2>1 DEF Matching, FillsOf, Changed, NoOrder, Cancellable
    <2>3. Sib(i) = j /\ Sib(j) = orders[j].sibling /\ j # NoId
      BY <1>1, <2>1, <2>2, StoredLinks, NoIdAssumption
    <2>4. orders[j].sibling \in calls
      BY <2>1, <2>3 DEF PairInv, Links
    <2> QED BY <1>1, <2>1, <2>4, MatchMoves
  <1>6. CASE ReturnOnly(i)
    BY <1>6, MatchStays DEF ReturnOnly, Return
  <1> QED BY <1>3, <1>4, <1>5, <1>6

(* A change of status leaves no order pending that is not a leg.           *)
LEMMA PendingStays ==
    ASSUME TypeOK, Plain, NEW i \in OrderId, NEW o \in Order, NEW status \in Status,
           orders' = [orders EXCEPT ![i] = [o EXCEPT !.status = status]],
           status = "pending" => o.entry # NoId
    PROVE  \A k \in OrderId : orders'[k].status = "pending" => orders'[k].entry # NoId
  <1>1. /\ orders'[i].status = status /\ orders'[i].entry = o.entry
        /\ \A k \in OrderId \ {i} : orders'[k] = orders[k]
    BY SameButStatus DEF TypeOK
  <1> QED BY <1>1 DEF Plain

(* Every step keeps prices and legs plain.                                 *)
LEMMA PlainStep ==
    ASSUME PairInv, TypeOK', phase' = "running", Plain, Next, HandleSnapshot
    PROVE  Plain'
  <1>0. /\ TypeOK /\ orders \in [OrderId -> Order] /\ staged \in [OrderId -> Order]
        /\ {"pending", "resting", "cancelled", "filled"} \subseteq Status
    BY DEF PairInv, StoreInv, TypeOK, Status
  <1>1. shown' \in [orders : [OrderId -> Order], pos : Int, ltp : Price \cup {0}]
    <2>1. Snapshot' \in [orders : [OrderId -> Order], pos : Int, ltp : Price \cup {0}]
      BY DEF TypeOK, Snapshot
    <2> QED BY <2>1 DEF HandleSnapshot, Plain
  <1>2. phase = "running"
    BY DEF PairInv, Stages
  <1>3. ~Crash /\ ~Shutdown /\ ~Exit /\ ~Restart
    BY <1>2 DEF Crash, Shutdown, Exit, Restart, LoseMemory
  <1>4. hasLTP' <=> lastLTP' # 0
    <2>1. (\E ltp \in Price : HandleTick(ltp)) \/ UNCHANGED <<lastLTP, hasLTP>>
      <3>1. CASE Message
        <4>1. ASSUME \/ \E i \in OrderId, r \in Requests : HandlePlaceOrder(i, r)
                     \/ \E e, u, s \in OrderId, b \in Brackets : HandlePlaceBracket(e, u, s, b)
              PROVE  UNCHANGED <<lastLTP, hasLTP>>
          BY <4>1 DEF HandlePlaceOrder, HandlePlaceBracket, memory
        <4>2. ASSUME NEW i \in OrderId, HandleCancelLive(i) \/ HandleCancelFinal(i)
              PROVE  UNCHANGED <<lastLTP, hasLTP>>
          BY <4>2 DEF HandleCancelLive, HandleCancelFinal, memory
        <4> QED BY <3>1, <4>1, <4>2 DEF Message
      <3>2. ASSUME Work PROVE UNCHANGED <<lastLTP, hasLTP>>
        <4>1. ASSUME NEW i \in OrderId,
                     StoreChild(i) \/ FillOnPlace(i) \/ RestOnPlace(i) \/ FillOnTick(i)
              PROVE  UNCHANGED <<lastLTP, hasLTP>>
          BY <4>1 DEF StoreChild, FillOnPlace, RestOnPlace, FillOnTick, Fill
        <4>2. ASSUME NEW i \in OrderId, NEW k \in OrderId,
                     \/ ActivateChild(i, k) \/ FillActivated(i, k)
                     \/ ReturnCancellingSibling(i, k)
              PROVE  UNCHANGED <<lastLTP, hasLTP>>
          BY <4>2 DEF ActivateChild, FillActivated, Fill, ReturnCancellingSibling, Return
        <4>3. ASSUME NEW i \in OrderId, ReturnOnly(i) PROVE UNCHANGED <<lastLTP, hasLTP>>
          BY <4>3 DEF ReturnOnly, Return
        <4>4. ASSUME EndTick \/ Reply PROVE UNCHANGED <<lastLTP, hasLTP>>
          BY <4>4 DEF EndTick, Reply, memory
        <4> QED BY <3>2, <4>1, <4>2, <4>3, <4>4 DEF Work
      <3> QED BY <1>3, <3>1, <3>2 DEF Next, Process
    <2>2. 0 \notin Price
      BY ConstantsAssumption
    <2> QED BY <2>1, <2>2 DEF HandleTick, Plain
  <1> DEFINE Goal == \A k \in OrderId : orders'[k].status = "pending"
                                           => orders'[k].entry # NoId
  <1>5. orders' = orders => Goal
    BY DEF Plain
  <1>6. ASSUME NEW i \in OrderId, NEW o \in Order, Fill(i, o) PROVE Goal
    BY <1>0, <1>6, PendingStays DEF Fill
  <1>7. ASSUME NEW i \in OrderId, NEW o \in Order,
               NEW status \in {"resting", "cancelled"}, SetStatus(i, o, status)
        PROVE  Goal
    BY <1>0, <1>7, PendingStays DEF SetStatus
  <1>8. ASSUME NEW i \in OrderId, StoreChild(i) PROVE Goal
    BY <1>0, <1>8, PendingStays DEF StoreChild, SetStatus, IsChild
  <1>a. ASSUME NEW i \in OrderId, HandleCancelLive(i) PROVE Goal
    <2>1. SetStatus(i, orders[i], "cancelled") /\ orders[i] \in Order
      BY <1>0, <1>a DEF HandleCancelLive
    <2> QED BY <1>7, <2>1
  <1>b. \/ Placement \/ (\E i \in OrderId : HandleCancelFinal(i))
        \/ (\E ltp \in Price : HandleTick(ltp))
        => orders' = orders
    BY DEF Placement, HandlePlaceOrder, HandlePlaceBracket, HandleCancelFinal,
           HandleTick, memory
  <1> HIDE DEF Goal
  <1>9. ASSUME Message PROVE Goal
    BY <1>5, <1>9, <1>a, <1>b DEF Message, Placement
  <1>10. ASSUME Work PROVE Goal
    <2>1. ASSUME NEW i \in OrderId, FillOnPlace(i) \/ FillOnTick(i) PROVE Goal
      BY <1>0, <1>6, <2>1 DEF FillOnPlace, FillOnTick
    <2>2. ASSUME NEW i \in OrderId, RestOnPlace(i) PROVE Goal
      BY <1>0, <1>7, <2>2 DEF RestOnPlace
    <2>3. ASSUME NEW i \in OrderId, NEW j \in OrderId,
                 ActivateChild(i, j) \/ ReturnCancellingSibling(i, j)
          PROVE  Goal
      BY <1>0, <1>7, <2>3 DEF ActivateChild, ReturnCancellingSibling
    <2>4. ASSUME NEW i \in OrderId, NEW j \in OrderId, FillActivated(i, j) PROVE Goal
      BY <1>0, <1>6, <2>4 DEF FillActivated
    <2>5. (\E i \in OrderId : ReturnOnly(i)) \/ EndTick \/ Reply => orders' = orders
      BY DEF ReturnOnly, EndTick, Reply, memory
    <2> QED BY <1>5, <1>8, <1>10, <2>1, <2>2, <2>3, <2>4, <2>5 DEF Work
  <1>11. Goal
    BY <1>3, <1>9, <1>10 DEF Next, Process
  <1> QED BY <1>1, <1>4, <1>11 DEF Plain, Goal

(* Every step of a handler is accounted for.                               *)
LEMMA ProgressStep ==
    ASSUME PairInv, PairInv', ShownInv, Next, HandleSnapshot
    PROVE  Progress'
  <1>0. /\ TypeOK /\ TypeOK' /\ phase = "running" /\ phase' = "running" /\ Plain /\ Stages
        /\ orders \in [OrderId -> Order] /\ staged \in [OrderId -> Order]
        /\ pc # "idle" => phase # "down"
    BY DEF PairInv, StoreInv, TypeOK, Stages, ShownInv
  <1>1. ~Crash /\ ~Shutdown /\ ~Exit /\ ~Restart
    BY <1>0 DEF Crash, Shutdown, Exit, Restart, LoseMemory
  <1>2. CASE pc' = "idle"
    BY <1>0, <1>2 DEF Progress, HandleSnapshot, Idle
  <1>3. ASSUME pc' # "idle" PROVE shown' = shown
    BY <1>0, <1>3 DEF HandleSnapshot, Idle
  <1>4. ASSUME Idle PROVE shown = Snapshot /\ calls = {} /\ pc = "idle"
    BY <1>0, <1>4 DEF Idle, ShownInv, Progress, Stages
  <1>5. ASSUME Placement PROVE Progress'
    <2>1. /\ pc' = "placing" /\ Idle /\ UNCHANGED <<pos, lastLTP, calls>>
      BY <1>5 DEF Placement, HandlePlaceOrder, HandlePlaceBracket, memory
    <2>2. shown' = shown /\ pos' = shown'.pos /\ lastLTP' = shown'.ltp /\ calls' = {}
      BY <1>3, <1>4, <2>1 DEF Snapshot
    <2>3. \E base : IsBase(base)' /\ ToPlace(base)'
      BY <1>0, <1>5, <2>2, PlainBegins, BracketBegins DEF Placement
    <2> QED BY <2>1, <2>2, <2>3 DEF Progress
  <1>6. ASSUME NEW i \in OrderId, HandleCancelLive(i) PROVE Progress'
    <2>1. /\ pc' = "replying" /\ Idle /\ UNCHANGED <<pos, lastLTP, calls>>
          /\ orders' = [orders EXCEPT ![i] = [orders[i] EXCEPT !.status = "cancelled"]]
          /\ orders[i].status \in Cancellable
      BY <1>6 DEF HandleCancelLive, SetStatus
    <2>2. /\ shown' = shown /\ pos' = shown'.pos /\ lastLTP' = shown'.ltp /\ calls' = {}
          /\ shown.orders = orders
      BY <1>3, <1>4, <2>1 DEF Snapshot
    <2>3. Cancelling'
      BY <2>1, <2>2 DEF Cancelling
    <2> QED BY <2>1, <2>2, <2>3 DEF Progress
  <1>7. ASSUME NEW i \in OrderId, HandleCancelFinal(i) PROVE Progress'
    BY <1>2, <1>4, <1>7 DEF HandleCancelFinal, control
  <1>8. ASSUME NEW ltp \in Price, HandleTick(ltp) PROVE Progress'
    <2>1. /\ pc' = "sweeping" /\ Idle /\ UNCHANGED <<orders, pos, calls>> /\ hasLTP'
      BY <1>8 DEF HandleTick
    <2>2. /\ shown' = shown /\ pos' = shown'.pos /\ calls' = {} /\ shown.orders = orders
          /\ pos' \in Int
      BY <1>0, <1>3, <1>4, <2>1 DEF Snapshot, TypeOK
    <2>3. PICK base : base = orders
      OBVIOUS
    <2>4. Matching(base)'
      BY <1>0, <2>1, <2>2, <2>3, MatchStarts
    <2> QED BY <2>1, <2>2, <2>3, <2>4 DEF Progress
  <1>9. ASSUME pc = "placing"
        PROVE  /\ pos = shown.pos /\ lastLTP = shown.ltp /\ calls = {}
               /\ \E base : IsBase(base) /\ ToPlace(base)
    BY <1>9 DEF ShownInv, Progress
  <1>10. ASSUME NEW i \in OrderId, StoreChild(i) PROVE Progress'
    <2>1. /\ pc = "placing" /\ pc' = "placing" /\ UNCHANGED <<pos, lastLTP, calls>>
      BY <1>10 DEF StoreChild
    <2>2. shown' = shown
      BY <1>3, <2>1
    <2>3. PICK base : IsBase(base) /\ ToPlace(base)
      BY <1>9, <2>1
    <2>4. IsBase(base)' /\ ToPlace(base)'
      BY <1>0, <1>10, <2>2, <2>3, BaseStays, LegStored
    <2> QED BY <1>9, <2>1, <2>2, <2>4 DEF Progress
  <1>11. ASSUME NEW i \in OrderId, FillOnPlace(i) \/ RestOnPlace(i) PROVE Progress'
    <2>1. pc = "placing" /\ pc' = "replying" /\ lastLTP' = lastLTP
      BY <1>11 DEF FillOnPlace, RestOnPlace, EntryNext, Fill
    <2>2. shown' = shown
      BY <1>3, <2>1
    <2>3. PICK base : IsBase(base) /\ ToPlace(base)
      BY <1>9, <2>1
    <2>4. base \in [OrderId -> Order] /\ (hasLTP => lastLTP # 0)
      BY <1>0, <2>3, BaseType DEF Plain
    <2>5. IsBase(base)' /\ Matching(base)'
      BY <1>0, <1>9, <1>11, <2>1, <2>2, <2>3, <2>4, BaseStays, EntryStored
    <2> QED BY <1>9, <2>1, <2>2, <2>5 DEF Progress
  <1>12. ASSUME NEW i \in OrderId, NEW j \in OrderId,
                \/ FillOnTick(i) \/ ActivateChild(i, j) \/ FillActivated(i, j)
                \/ ReturnCancellingSibling(i, j) \/ ReturnOnly(i)
         PROVE  Progress'
    <2>1. pc' = pc /\ UNCHANGED <<lastLTP, hasLTP>>
      BY <1>12 DEF FillOnTick, ActivateChild, FillActivated, ReturnCancellingSibling,
                   ReturnOnly, Return, Fill, control
    <2>2. pc = "sweeping" \/ (pc = "replying" /\ calls # {})
      BY <1>0, <1>12 DEF FillOnTick, ActivateChild, FillActivated, ReturnCancellingSibling,
                   ReturnOnly, Return, Innermost, Stages
    <2>3. shown' = shown
      BY <1>3, <2>1, <2>2
    <2>4. CASE pc = "sweeping"
      <3>1. PICK base : base = shown.orders /\ Matching(base)
        BY <2>4 DEF ShownInv, Progress
      <3>2. Matching(base)'
        BY <1>0, <1>12, <2>3, <3>1, MatchSteps
      <3>3. hasLTP
        BY <2>4 DEF ShownInv, Progress
      <3> QED BY <2>1, <2>3, <2>4, <3>1, <3>2, <3>3 DEF Progress
    <2>5. CASE pc = "replying" /\ calls # {}
      <3>1. PICK base : IsBase(base) /\ Matching(base)
        BY <2>5 DEF ShownInv, Progress, Cancelling
      <3>2. IsBase(base)' /\ Matching(base)'
        BY <1>0, <1>12, <2>3, <3>1, BaseStays, MatchSteps
      <3>3. lastLTP = shown.ltp
        BY <2>5 DEF ShownInv, Progress
      <3> QED BY <2>1, <2>3, <2>5, <3>2, <3>3 DEF Progress
    <2> QED BY <2>2, <2>4, <2>5
  <1>13. EndTick \/ Reply => pc' = "idle"
    BY DEF EndTick, Reply
  <1>14. CASE Message
    BY <1>5, <1>6, <1>7, <1>8, <1>14 DEF Message, Placement
  <1>15. CASE Work
    BY <1>2, <1>10, <1>11, <1>12, <1>13, <1>15 DEF Work
  <1> QED BY <1>1, <1>14, <1>15 DEF Next, Process
-----------------------------------------------------------------------------
(* The book reads requests and prices as the actor does.                   *)
LEMMA BookReads ==
    /\ Book!NoOrder = NoOrder
    /\ \A r : Book!NewOrder(r) = NewOrder(r)
    /\ \A o : Book!Validate(o) <=> Validate(o)
    /\ \A b : /\ Book!EntryLeg(b) = EntryLeg(b) /\ Book!TargetLeg(b) = TargetLeg(b)
              /\ Book!StopLeg(b) = StopLeg(b)
    /\ \A o, e, s : Book!Link(o, e, s) = Link(o, e, s)
    /\ \A o, p : Book!WouldFill(o, p) <=> WouldFill(o, p)
  BY DEF Book!NoOrder, NoOrder, Book!NewOrder, NewOrder, Book!Validate, Validate,
         Book!Side, Side, Book!OrderType, OrderType, Book!EntryLeg, EntryLeg,
         Book!TargetLeg, TargetLeg, Book!StopLeg, StopLeg, Book!ClosingSide, ClosingSide,
         Book!Link, Link, Book!WouldFill, WouldFill

(* It validates brackets as the actor does.                                *)
LEMMA BookValidates ==
    ASSUME NEW entry, NEW target, NEW stop
    PROVE  Book!ValidateBracket(entry, target, stop) <=> ValidateBracket(entry, target, stop)
  BY BookReads DEF Book!ValidateBracket, ValidateBracket

(* And it sums fills as the actor does.                                    *)
LEMMA BookSums == ASSUME NEW t, NEW S PROVE Book!NetQty(t, S) = NetQty(t, S)
  BY DEF Book!NetQty, NetQty, Book!SignedQty, SignedQty, Book!SumFunctionOnSet,
         SumFunctionOnSet, Book!FoldFunctionOnSet, FoldFunctionOnSet,
         Book!MapThenFoldSet, MapThenFoldSet

(* Nothing is left to do in memory.                                        *)
AtRest ==
    /\ calls = {}
    /\ \A i \in OrderId : orders[i].status = "resting" /\ lastLTP # 0
                             => ~WouldFill(orders[i], lastLTP)
    /\ \A i \in OrderId : orders[i].entry \in Filled(orders) => orders[i].status # "pending"

(* Then the book is settled.                                               *)
LEMMA RestIsSettled ==
    ASSUME PairInv, Plain, AtRest
    PROVE  Book!Settled(orders, lastLTP)
  <1>0. /\ StoreInv /\ \A i \in OrderId : orders[i] \in Order
    BY DEF PairInv, StoreInv, TypeOK
  <1>1. SUFFICES ASSUME NEW i \in OrderId
                 PROVE  /\ orders[i].status = "resting" => ~Book!WouldFillAt(orders[i], lastLTP)
                        /\ orders[i].status = "pending" => orders[orders[i].entry].status # "filled"
                        /\ orders[i].status \in {"pending", "resting"} /\ orders[i].sibling # NoId
                              => orders[orders[i].sibling].status # "filled"
    BY DEF Book!Settled
  <1>2. orders[i].status = "resting" => ~Book!WouldFillAt(orders[i], lastLTP)
    BY BookReads DEF AtRest, Book!WouldFillAt
  <1>3. orders[i].status = "pending" => orders[orders[i].entry].status # "filled"
    <2>1. orders[i].status = "pending" => orders[i].entry \in OrderId
      BY <1>0 DEF Plain, Order
    <2> QED BY <2>1 DEF AtRest, Filled
  <1>4. ASSUME orders[i].status \in {"pending", "resting"}, orders[i].sibling # NoId
        PROVE  orders[orders[i].sibling].status # "filled"
    <2> DEFINE k == orders[i].sibling
    <2>1. k \in OrderId
      BY <1>0, <1>4 DEF Order
    <2>2. SUFFICES ASSUME orders[k].status = "filled" PROVE FALSE
      OBVIOUS
    <2>3. orders[i] # NoOrder /\ orders[k] # NoOrder
      BY <1>4, <2>2 DEF NoOrder
    <2>4. Sib(i) = k /\ Sib(k) = orders[k].sibling
      BY <1>0, <2>1, <2>3, StoredLinks
    <2>5. orders[k].sibling = i
      BY <1>4, <2>1, <2>4 DEF PairInv, Links
    <2>6. i \in Cancelled(orders)
      BY <2>1, <2>2, <2>5, NoIdAssumption DEF PairInv, OneCancelsOther, Filled, AtRest
    <2> QED BY <1>4, <2>6 DEF Cancelled
  <1> QED BY <1>2, <1>3, <1>4

(* What memory has matched is then a step of the book.                     *)
LEMMA RestIsMatched ==
    ASSUME PairInv, Plain, AtRest, NEW base, Matching(base), shown' = Snapshot
    PROVE  Book!Match(base, lastLTP)
  <1> DEFINE F == FillsOf(base)
  <1>0. /\ \A i \in OrderId : orders[i] \in Order /\ base[i] \in Order
        /\ shown'.orders = orders /\ shown'.pos = pos /\ shown'.ltp = lastLTP
    BY DEF PairInv, StoreInv, TypeOK, Matching, Snapshot
  <1>1. \A status : Book!Became(base, status) = Changed(base, status)
    BY <1>0 DEF Book!Became, Changed
  <1>2. Book!Became(base, "filled") = F
    BY <1>1 DEF FillsOf
  <1>3. \A i \in OrderId : shown'.orders[i] = [base[i] EXCEPT !.status = shown'.orders[i].status]
    BY <1>0 DEF Matching
  <1>4. \A i \in F :
           /\ base[i].status \in {"pending", "resting"} /\ Book!WouldFillAt(base[i], lastLTP)
           /\ base[i].status = "pending" => base[i].entry \in F
           /\ base[i].sibling \notin F
    <2> TAKE i \in F
    <2>1. /\ i \in OrderId /\ i \in Filled(orders) /\ orders[i].status \in Status
          /\ orders[i] = [base[i] EXCEPT !.status = orders[i].status]
      BY DEF FillsOf, Changed, Filled, Matching, Status
    <2>2. orders[i].sibling = base[i].sibling
      <3> DEFINE is == orders[i].status
      <3>1. is \in Status /\ orders[i] = [base[i] EXCEPT !.status = is]
        BY <2>1
      <3> HIDE DEF is
      <3>2. [base[i] EXCEPT !.status = is].sibling = base[i].sibling
        BY <1>0, <2>1, <3>1, SameButStatus
      <3> QED BY <3>1, <3>2
    <2>3. orders[i].sibling # NoId => orders[i].sibling \in Cancelled(orders)
      BY <2>1 DEF PairInv, OneCancelsOther, AtRest
    <2>4. base[i].sibling \notin F
      BY <2>2, <2>3, NoIdAssumption DEF Cancelled, FillsOf, Changed
    <2>5. /\ base[i].status \in {"pending", "resting"} /\ lastLTP # 0
          /\ WouldFill(base[i], lastLTP) /\ (base[i].status = "pending" => base[i].entry \in F)
      BY DEF Matching, Cancellable
    <2> QED BY <2>4, <2>5, BookReads DEF Book!WouldFillAt
  <1>5. \A i \in Changed(base, "cancelled") :
           base[i].status \in {"pending", "resting"} /\ base[i].sibling \in F
    BY DEF Matching, Cancellable
  <1>6. \A i \in Changed(base, "resting") :
           base[i].status = "pending" /\ base[i].entry \in F
    BY DEF Matching
  <1>7. Changed(base, "pending") = {}
    BY DEF Matching
  <1>8. Book!Settled(shown'.orders, lastLTP)
    BY <1>0, RestIsSettled
  <1>9. shown'.pos = shown.pos + Book!NetQty(base, F)
    BY <1>0, BookSums DEF Matching
  <1> HIDE DEF F
  <1> QED BY <1>0, <1>1, <1>2, <1>3, <1>4, <1>5, <1>6, <1>7, <1>8, <1>9 DEF Book!Match

(* The message that a base stands for is one of the book's.                *)
LEMMA BaseIsPlaced ==
    ASSUME Plain, NEW base, IsBase(base), Book!Match(base, shown.ltp)
    PROVE  Book!Next
  <1>1. ASSUME NEW i \in OrderId, NEW r \in Requests, shown.orders[i] = NoOrder,
               Validate(NewOrder(r)), base = PlainBase(i, r)
        PROVE  Book!Place(i, r)
    <2>1. base = [shown.orders EXCEPT ![i] = Book!Resting(Book!NewOrder(r))]
      BY <1>1, BookReads DEF PlainBase, Book!Resting
    <2> QED BY <1>1, <2>1, BookReads DEF Book!Place
  <1>2. ASSUME NEW e \in OrderId, NEW t \in OrderId, NEW s \in OrderId, NEW b \in Brackets,
               e # t /\ e # s /\ t # s,
               shown.orders[e] = NoOrder, shown.orders[t] = NoOrder, shown.orders[s] = NoOrder,
               ValidateBracket(EntryLeg(b), TargetLeg(b), StopLeg(b)),
               base = BracketBase(e, t, s, b)
        PROVE  Book!PlaceBracket(e, t, s, b)
    <2>1. base = [shown.orders EXCEPT
                     ![e] = Book!Resting(Book!EntryLeg(b)),
                     ![t] = Book!Pending(Book!Link(Book!TargetLeg(b), e, s)),
                     ![s] = Book!Pending(Book!Link(Book!StopLeg(b), e, t))]
      BY <1>2, BookReads DEF BracketBase, Book!Resting, Book!Pending
    <2>2. {e, t, s} \subseteq Book!Having("none")
      BY <1>2 DEF Book!Having, NoOrder
    <2>3. Book!ValidateBracket(Book!EntryLeg(b), Book!TargetLeg(b), Book!StopLeg(b))
      BY <1>2, BookReads, BookValidates
    <2> QED BY <1>2, <2>1, <2>2, <2>3 DEF Book!PlaceBracket
  <1> QED BY <1>1, <1>2 DEF IsBase, Book!Next

(* A handler that ends makes a step of the book, or none.                  *)
LEMMA HandlerIsStep ==
    ASSUME PairInv, PairInv', ShownInv, ShownInv', NoStrandedChild', NoMarketableOrderRests',
           Next, HandleSnapshot
    PROVE  Book!Next \/ UNCHANGED shown
  <1>0. /\ phase = "running" /\ phase' = "running" /\ Plain /\ Plain' /\ TypeOK
        /\ pc # "idle" => phase # "down"
    BY DEF PairInv, StoreInv, Stages, ShownInv
  <1>1. CASE pc' # "idle"
    BY <1>0, <1>1 DEF HandleSnapshot, Idle
  <1>2. CASE pc' = "idle"
    <2>1. shown' = Snapshot' /\ Idle'
      BY <1>0, <1>2 DEF HandleSnapshot, Idle
    <2>2. \/ EndTick \/ Reply \/ \E i \in OrderId : HandleCancelFinal(i)
      BY <1>0, <1>2 DEF Next, Message, Work, Process, HandlePlaceOrder, HandlePlaceBracket,
             HandleCancelLive, HandleTick, StoreChild, FillOnPlace, RestOnPlace, EntryNext,
             FillOnTick, ActivateChild, FillActivated, ReturnCancellingSibling, ReturnOnly,
             Return, Innermost, Crash, Shutdown, Exit, Restart, LoseMemory, control,
             PairInv, Stages
    <2>3. UNCHANGED <<orders, pos, lastLTP, hasLTP>>
      BY <2>2 DEF EndTick, Reply, HandleCancelFinal, memory
    <2>4. shown' = Snapshot
      BY <2>1, <2>3 DEF Snapshot
    <2>5. ASSUME calls = {} PROVE AtRest
      <3>1. \A i \in OrderId : orders[i].status = "resting" /\ lastLTP # 0
                                  => ~WouldFill(orders[i], lastLTP)
        BY <1>0, <2>1, <2>3 DEF NoMarketableOrderRests, Plain
      <3>2. \A i \in OrderId : orders[i].entry \in Filled(orders)
                                  => orders[i].status # "pending"
        BY <2>1, <2>3 DEF NoStrandedChild, Filled
      <3> QED BY <2>5, <3>1, <3>2 DEF AtRest
    <2>6. CASE \E i \in OrderId : HandleCancelFinal(i)
      <3>1. shown = Snapshot
        BY <2>6 DEF HandleCancelFinal, Idle, ShownInv, Progress
      <3> QED BY <2>4, <3>1
    <2>7. CASE EndTick
      <3>1. pc = "sweeping" /\ AtRest
        BY <2>5, <2>7 DEF EndTick
      <3>2. PICK base : base = shown.orders /\ Matching(base)
        BY <3>1 DEF ShownInv, Progress
      <3>3. lastLTP \in Price
        BY <1>0, <3>1 DEF ShownInv, Progress, Plain, TypeOK
      <3>4. Book!Match(shown.orders, lastLTP)
        BY <1>0, <2>4, <3>1, <3>2, RestIsMatched
      <3> QED BY <3>3, <3>4 DEF Book!Next, Book!Tick
    <2>8. CASE Reply
      <3>1. pc = "replying" /\ AtRest /\ lastLTP = shown.ltp
        BY <2>5, <2>8 DEF Reply, ShownInv, Progress
      <3>2. CASE Cancelling
        <4>1. PICK i \in OrderId : /\ shown.orders[i].status \in Cancellable
                                   /\ orders = [shown.orders EXCEPT ![i].status = "cancelled"]
          BY <3>2 DEF Cancelling
        <4>2. /\ shown'.orders = [shown.orders EXCEPT ![i].status = "cancelled"]
              /\ shown'.pos = shown.pos /\ shown'.ltp = shown.ltp
          BY <2>4, <3>1, <3>2, <4>1 DEF Snapshot, Cancelling
        <4>3. Book!Cancel(i)
          BY <4>1, <4>2 DEF Book!Cancel, Book!Having, Cancellable
        <4> QED BY <4>3 DEF Book!Next
      <3>3. CASE ~Cancelling
        <4>1. PICK base : IsBase(base) /\ Matching(base)
          BY <3>1, <3>3 DEF ShownInv, Progress
        <4>2. Book!Match(base, shown.ltp)
          BY <1>0, <2>4, <3>1, <4>1, RestIsMatched
        <4> QED BY <1>0, <4>1, <4>2, BaseIsPlaced
      <3> QED BY <3>2, <3>3
    <2> QED BY <2>2, <2>6, <2>7, <2>8
  <1> QED BY <1>1, <1>2

(* In one process lifetime, whatever Postgres refuses, each message is one *)
(* step of the order book: a sweep in any order, a bracket whose legs fill *)
(* as its entry does, a cancel between two of them (messages.go, actor.go).*)
THEOREM ActorImplementsBook ==
    ASSUME MaxCrashes = 0, MaxStops = 0
    PROVE  BookedSpec => MessagesAreAtomic
  <1>1. BookedSpec => Spec
    <2>1. BookedInit => Init
      BY DEF BookedInit
    <2>2. [BookedNext]_bookedVars => [Next]_vars
      BY DEF BookedNext, bookedVars
    <2> QED BY <2>1, <2>2, PTL DEF BookedSpec, Spec
  <1>2. BookedInit => ShownInv /\ Book!Init
    <2> SUFFICES ASSUME BookedInit PROVE ShownInv /\ Book!Init
      OBVIOUS
    <2>1. /\ orders = NoOrders /\ pos = 0 /\ lastLTP = 0 /\ ~hasLTP /\ pc = "idle"
          /\ shown = Snapshot
      BY DEF BookedInit, Init
    <2>2. Progress
      BY <2>1 DEF Progress
    <2>3. Plain
      BY <2>1, NoOrdersType DEF Plain, Snapshot, NoOrders, NoOrder
    <2>4. Book!Init
      BY <2>1, BookReads DEF Book!Init, Snapshot, NoOrders
    <2> QED BY <2>2, <2>3, <2>4 DEF ShownInv
  <1>3. PairInv /\ PairInv' /\ ShownInv /\ [BookedNext]_bookedVars => ShownInv'
    <2> SUFFICES ASSUME PairInv, PairInv', ShownInv, [BookedNext]_bookedVars
                 PROVE  ShownInv'
      OBVIOUS
    <2>1. CASE BookedNext
      <3>1. /\ Next /\ HandleSnapshot /\ Plain /\ TypeOK' /\ phase' = "running"
        BY <2>1 DEF BookedNext, ShownInv, PairInv, StoreInv, Stages
      <3> QED BY <3>1, ProgressStep, PlainStep DEF ShownInv
    <2>2. CASE UNCHANGED bookedVars
      <3>1. UNCHANGED <<phase, orders, pos, lastLTP, hasLTP, pc, staged, calls, shown>>
        BY <2>2 DEF bookedVars, vars, memory, control
      <3>2. Plain'
        BY <3>1 DEF ShownInv, Plain
      <3>3. \A base : /\ IsBase(base) => IsBase(base)'
                      /\ Matching(base) => Matching(base)'
        BY <3>1, BaseStays, MatchStays
      <3>4. \A base : ToPlace(base) => ToPlace(base)'
        BY <3>1 DEF ToPlace, Staged, IsChild
      <3>5. Progress'
        BY <3>1, <3>3, <3>4 DEF ShownInv, Progress, Snapshot, Cancelling
      <3> QED BY <3>2, <3>5 DEF ShownInv
    <2> QED BY <2>1, <2>2
  <1>4. BookedSpec => []ShownInv
    BY <1>1, <1>2, <1>3, PairInvHolds, PTL DEF BookedSpec
  <1>5. /\ PairInv /\ PairInv' /\ ShownInv /\ ShownInv' /\ NoStrandedChild'
        /\ NoMarketableOrderRests' /\ [BookedNext]_bookedVars
        => [Book!Next]_(Book!book)
    <2> SUFFICES ASSUME PairInv, PairInv', ShownInv, ShownInv', NoStrandedChild',
                        NoMarketableOrderRests', [BookedNext]_bookedVars
                 PROVE  Book!Next \/ UNCHANGED shown
      BY DEF Book!book
    <2>1. CASE BookedNext
      BY <2>1, HandlerIsStep DEF BookedNext
    <2>2. CASE UNCHANGED bookedVars
      BY <2>2 DEF bookedVars
    <2> QED BY <2>1, <2>2
  <1> QED BY <1>1, <1>2, <1>4, <1>5, PairInvHolds, NoLegIsStranded, NothingMarketableRests,
             PTL DEF BookedSpec, MessagesAreAtomic, Book!Spec
=============================================================================
