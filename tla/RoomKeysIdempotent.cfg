SPECIFICATION Spec
CONSTANTS
    Requests = {1, 2}
    Purchases = {"hotel", "again", "legacy", "flight"}
    Hotels = {"hotel", "again", "legacy"}
    Stays = {"booked", "imported"}
    Named <- MCNamed
    RefStay <- MCRefStay
    Unknown = "unknown"
    NoStay = "nostay"
    NoRequest = 0
INVARIANTS
    IdempotentPerPurchase
\* Every request is handled once, so the last answer ends the behaviour.
CHECK_DEADLOCK FALSE
