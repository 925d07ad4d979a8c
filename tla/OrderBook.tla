------------------------------ MODULE OrderBook ------------------------------
(***************************************************************************)
(* What one instrument's actor promises to everyone but itself: each       *)
(* message is one step of the book (Actor, actor.go; PlaceBracketMsg,      *)
(* messages.go).  The steps are described by what is true before and after *)
(* them; in which order the actor goes about a step is left open.          *)
(***************************************************************************)
EXTENDS Orders

CONSTANTS Price, Requests, Brackets

VARIABLES
    orders,     \* the orders, NoOrder for an identifier not in use
    pos,        \* the signed quantity held
    ltp         \* the last price, 0 before the first tick

book == <<orders, pos, ltp>>

Init == orders = [i \in OrderId |-> NoOrder] /\ pos = 0 /\ ltp = 0

Having(status) == {i \in OrderId : orders[i].status = status}

(* From table t to orders', the orders that end with a status they did not *)
(* have in t.                                                              *)
Became(t, status) ==
    {i \in OrderId : orders'[i].status = status /\ t[i].status # status}

WouldFillAt(o, p) == p # 0 /\ WouldFill(o, p)

(* A message leaves no resting order that the price would fill, no leg     *)
(* waiting for an entry that has filled and no leg beside one that has.    *)
Settled(t, p) ==
    \A i \in OrderId :
        /\ t[i].status = "resting" => ~WouldFillAt(t[i], p)
        /\ t[i].status = "pending" => t[t[i].entry].status # "filled"
        /\ t[i].status \in {"pending", "resting"} /\ t[i].sibling # NoId
              => t[t[i].sibling].status # "filled"

(* Matching what is in table t at price p: orders fill that the price      *)
(* would fill, legs only after their entry and never both; an order is     *)
(* cancelled only by the leg beside it, and rests only as a leg whose      *)
(* entry has just filled.  Nothing else changes but the position, which    *)
(* moves by what has filled.                                               *)
Match(t, p) ==
    LET fills == Became(t, "filled")
    IN  /\ \A i \in OrderId : orders'[i] = [t[i] EXCEPT !.status = orders'[i].status]
        /\ \A i \in fills :
              /\ t[i].status \in {"pending", "resting"} /\ WouldFillAt(t[i], p)
              /\ t[i].status = "pending" => t[i].entry \in fills
              /\ t[i].sibling \notin fills
        /\ \A i \in Became(t, "cancelled") :
              t[i].status \in {"pending", "resting"} /\ t[i].sibling \in fills
        /\ \A i \in Became(t, "resting") :
              t[i].status = "pending" /\ t[i].entry \in fills
        /\ Became(t, "pending") = {}
        /\ Settled(orders', p)
        /\ pos' = pos + NetQty(t, fills)
        /\ ltp' = p

Resting(o) == [o EXCEPT !.status = "resting"]
Pending(o) == [o EXCEPT !.status = "pending"]

Place(i, r) ==
    /\ orders[i] = NoOrder /\ Validate(NewOrder(r))
    /\ Match([orders EXCEPT ![i] = Resting(NewOrder(r))], ltp)

PlaceBracket(e, t, s, b) ==
    /\ {e, t, s} \subseteq Having("none") /\ e # t /\ e # s /\ t # s
    /\ ValidateBracket(EntryLeg(b), TargetLeg(b), StopLeg(b))
    /\ Match([orders EXCEPT ![e] = Resting(EntryLeg(b)),
                            ![t] = Pending(Link(TargetLeg(b), e, s)),
                            ![s] = Pending(Link(StopLeg(b), e, t))], ltp)

(* Cancelling an entry leaves its legs pending.                            *)
Cancel(i) ==
    /\ i \in Having("resting") \cup Having("pending")
    /\ orders' = [orders EXCEPT ![i].status = "cancelled"]
    /\ UNCHANGED <<pos, ltp>>

Tick(p) == Match(orders, p)

Next ==
    \/ \E i \in OrderId, r \in Requests : Place(i, r)
    \/ \E e, t, s \in OrderId, b \in Brackets : PlaceBracket(e, t, s, b)
    \/ \E i \in OrderId : Cancel(i)
    \/ \E p \in Price : Tick(p)

Spec == Init /\ [][Next]_book
=============================================================================
