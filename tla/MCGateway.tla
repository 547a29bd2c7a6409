----------------------------- MODULE MCGateway -----------------------------
(***************************************************************************)
(* TLC instance of Gateway: registrations of one email, which is a seeded    *)
(* one, changes of one profile after a registration, polls, and orders and   *)
(* bookings beside a registration, each kind in behaviours of its own.      *)
(***************************************************************************)
EXTENDS Gateway, TLC

MCAddress == 1 :> "phone" @@ 2 :> "phone" @@ 3 :> "phone" @@ 4 :> "phone"
             @@ 5 :> "phone" @@ 6 :> "tablet" @@ 7 :> "phone"
             @@ 8 :> "phone" @@ 9 :> "tablet"
MCWorkloads == {{1, 2}, {1, 3, 4}, {5, 6, 7}, {1, 8}, {8, 9}}
MCLimit == [b \in Buckets |-> IF b = "auth" THEN 2 ELSE 1]
MCPrice == "soup" :> 1450 @@ "tea" :> 633
MCBasePrice == "deal" :> 9999 @@ "car" :> 0
MCCarts == {<<[item |-> "soup", quantity |-> 1]>>,
            <<[item |-> "tea", quantity |-> 2], [item |-> "soup", quantity |-> 1]>>,
            <<[item |-> "soup", quantity |-> 4]>>}
MCEmails == {"demo", "mert", "own"}
MCSeedEmail == 11 :> "demo" @@ 12 :> "mert"
MCSeedGuest == 11 :> 21 @@ 12 :> 22
MCSeedName == 11 :> "ahmet" @@ 12 :> "mert"

=============================================================================
