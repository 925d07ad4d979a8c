------------------------------- MODULE Orders -------------------------------
(***************************************************************************)
(* The order domain: internal/order, and the request decoding of           *)
(* internal/httpapi that turns a POST body into order records.             *)
(*                                                                         *)
(* One instrument is modelled, so an order carries no token.  Prices are   *)
(* natural numbers: the code only compares them.  A map of orders is a     *)
(* total function on OrderId in which NoOrder stands for a missing key.    *)
(***************************************************************************)
EXTENDS Integers, FiniteSetsExt

CONSTANTS
    OrderId,    \* the identifiers newOrderID can return
    NoId        \* the empty string in EntryID and SiblingID

ASSUME NoIdAssumption == NoId \notin OrderId

Side      == {"buy", "sell"}
OrderType == {"market", "limit", "stop"}
Status    == {"pending", "resting", "filled", "cancelled"}
Terminal  == {"filled", "cancelled"}

(* "" is the Status an order has before an actor stores it.                *)
Order == [side: Side, type: OrderType, qty: Nat, limit: Int,
          status: Status \cup {"", "none"},
          entry: OrderId \cup {NoId}, sibling: OrderId \cup {NoId}]

NoOrder == [side |-> "buy", type |-> "market", qty |-> 0, limit |-> 0,
            status |-> "none", entry |-> NoId, sibling |-> NoId]

(* The body of POST /orders and of POST /orders/bracket, without token.    *)
OrderRequest   == [side: STRING, type: STRING, qty: Int, limit: Int]
BracketRequest == [side: STRING, qty: Int, entryType: STRING,
                   entryPrice: Int, targetPrice: Int, stopPrice: Int]

NewOrder(r) == [side |-> r.side, type |-> r.type, qty |-> r.qty,
                limit |-> r.limit, status |-> "",
                entry |-> NoId, sibling |-> NoId]

(* Slip: a negative quantity passes.                                       *)
ValidateNonZero(o) == /\ o.side \in Side /\ o.type \in OrderType
                      /\ o.qty # 0
                      /\ o.type \in {"limit", "stop"} => o.limit > 0

Validate(o) == /\ o.side \in Side
               /\ o.type \in OrderType
               /\ o.qty > 0
               /\ o.type \in {"limit", "stop"} => o.limit > 0

(* A limit waits for a price at least as good as its limit, a stop for one *)
(* at least as bad; a market order takes any price.                        *)
WouldFill(o, ltp) ==
    \/ o.type = "market"
    \/ /\ <<o.type, o.side>> \in {<<"limit", "buy">>, <<"stop", "sell">>}
       /\ ltp <= o.limit
    \/ /\ <<o.type, o.side>> \in {<<"limit", "sell">>, <<"stop", "buy">>}
       /\ ltp >= o.limit

(* The signed quantity a fill of o adds to the position.                   *)
SignedQty(o) == IF o.side = "sell" THEN -o.qty ELSE o.qty

(* What the fills of the orders of table t in set add to it.               *)
NetQty(t, set) == SumFunctionOnSet([i \in OrderId |-> SignedQty(t[i])], set)

-----------------------------------------------------------------------------
(* The three legs of a bracket request: the children close the entry.      *)
ClosingSide(side) == IF side = "sell" THEN "buy" ELSE "sell"

EntryLeg(b)  == NewOrder([side |-> b.side, type |-> b.entryType,
                          qty |-> b.qty, limit |-> b.entryPrice])
TargetLeg(b) == NewOrder([side |-> ClosingSide(b.side), type |-> "limit",
                          qty |-> b.qty, limit |-> b.targetPrice])
StopLeg(b)   == NewOrder([side |-> ClosingSide(b.side), type |-> "stop",
                          qty |-> b.qty, limit |-> b.stopPrice])

ValidateBracket(entry, target, stop) ==
    /\ Validate(entry) /\ Validate(target) /\ Validate(stop)
    /\ entry.type \in {"market", "limit"}
    /\ target.type = "limit" /\ stop.type = "stop"
    /\ target.side = stop.side /\ target.side # entry.side
    /\ target.qty = entry.qty /\ stop.qty = entry.qty

Link(o, entry, sibling) == [o EXCEPT !.entry = entry, !.sibling = sibling]
=============================================================================
