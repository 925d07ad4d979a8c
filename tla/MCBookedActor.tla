---------------------------- MODULE MCBookedActor ----------------------------
(* The instance of BookedActor that TLC checks. *)
EXTENDS BookedActor, MCInstrumentActor
=============================================================================
