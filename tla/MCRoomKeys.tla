----------------------------- MODULE MCRoomKeys -----------------------------
(***************************************************************************)
(* TLC instances of RoomKeys: two hotel purchases share the stay "booked",  *)
(* one is older than stays of purchases, one is a flight.                   *)
(***************************************************************************)
EXTENDS RoomKeys

MCNamed == [p \in Purchases |-> IF p \in {"hotel", "again"} THEN "booked" ELSE "nostay"]
MCRefStay == [p \in Purchases |-> CASE p = "hotel" -> "ref1" [] p = "again" -> "ref2"
                                   [] p = "legacy" -> "ref3" [] OTHER -> "ref4"]

=============================================================================
