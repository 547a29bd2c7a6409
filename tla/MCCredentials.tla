--------------------------- MODULE MCCredentials ---------------------------
(***************************************************************************)
(* TLC instance of Credentials: the keys of MCRoomKeys, two requests       *)
(* about the demo card, and one about a card it may issue.                 *)
(***************************************************************************)
EXTENDS Credentials, MCRoomKeys, TLC

MCCaller == [r \in CardRequests |-> "demo"]
MCCardOf == [r \in CardRequests |-> IF r = 13 THEN "own" ELSE "seeded"]
MCOwner == [c \in {"seeded", "own"} |-> "demo"]
MCInitially == "contactless" :> TRUE @@ "atm" :> FALSE

=============================================================================
