----------------------------- MODULE BookedActor -----------------------------
(***************************************************************************)
(* InstrumentActor together with what a Snapshot message would show.  The  *)
(* actor takes no message while it handles another, so a Snapshot shows    *)
(* the state at the end of the last message handled; this module keeps     *)
(* that state in a variable of its own and compares it with OrderBook.     *)
(***************************************************************************)
EXTENDS InstrumentActor

VARIABLE shown      \* the Snapshot: orders, position and last price

bookedVars == <<vars, shown>>

Snapshot == [orders |-> orders, pos |-> pos, ltp |-> lastLTP]

BookedInit == Init /\ shown = Snapshot

(* Slip: shows what the handler has done so far.                           *)
HandleSnapshotAnytime == shown' = Snapshot'

HandleSnapshot == shown' = IF Idle' THEN Snapshot' ELSE shown

BookedNext == Next /\ HandleSnapshot

BookedSpec == BookedInit /\ [][BookedNext]_bookedVars

Book == INSTANCE OrderBook WITH
            orders <- shown.orders,
            pos    <- shown.pos,
            ltp    <- shown.ltp

(* Each message is atomic: whatever a handler does in between, and in      *)
(* whichever order it visits the orders, what a Snapshot shows moves by    *)
(* steps of the book, as messages.go says of a bracket and actor.go of the *)
(* race between a cancel and a tick.                                       *)
MessagesAreAtomic == Book!Spec
=============================================================================
