------------------------------- MODULE MCWsHub -------------------------------
(* The instance of WsHub that TLC checks. *)
EXTENDS WsHub

CONSTANTS a, b

(* a is published twice, so that an update can overwrite another, and b    *)
(* only subscribed to.                                                     *)
Instruments == {a, b}
Updates     == [t \in Instruments |-> IF t = a THEN 2 ELSE 0]
=============================================================================
