------------------------- MODULE MCInstrumentActor -------------------------
(* The instances of InstrumentActor that TLC checks. *)
EXTENDS InstrumentActor, TLC

Symmetry == Permutations(OrderId)

Body(side, type, qty, limit) ==
    [side |-> side, type |-> type, qty |-> qty, limit |-> limit]

BracketBody(side, qty, entryType, entry, target, stop) ==
    [side |-> side, qty |-> qty, entryType |-> entryType, entryPrice |-> entry,
     targetPrice |-> target, stopPrice |-> stop]

Prices == 1 .. 3

NoBodies == {}

(* A market order, a limit order, and one that Validate refuses.           *)
Orders1 == {Body("sell", "market", 2, 0), Body("buy", "limit", 1, 1),
            Body("sell", "market", -1, 0)}

(* A long with its legs around the entry, a short entered at the market    *)
(* whose two legs both cross at every price, and one that                  *)
(* ValidateBracket refuses.                                                *)
Brackets1 == {BracketBody("buy", 1, "limit", 2, 3, 1),
              BracketBody("sell", 1, "market", 0, 3, 1),
              BracketBody("buy", 1, "stop", 2, 3, 1)}

(* Fewer, for the run with every fault.                                    *)
Orders2   == {Body("buy", "limit", 1, 1), Body("sell", "market", -1, 0)}
Brackets2 == {BracketBody("buy", 1, "limit", 2, 3, 1)}
=============================================================================
