SPECIFICATION CredentialsSpec
CONSTANTS
    Requests = {1, 2, 3}
    Purchases = {"hotel", "again", "legacy", "flight"}
    Hotels = {"hotel", "again", "legacy"}
    Stays = {"booked", "imported"}
    Named <- MCNamed
    RefStay <- MCRefStay
    Unknown = "unknown"
    NoStay = "nostay"
    NoRequest = 0
    CardRequests = {11, 12, 13}
    Caller <- MCCaller
    CardOf <- MCCardOf
    Owner <- MCOwner
    SeedCards = {"seeded"}
    Controls = {"contactless", "atm"}
    Initially <- MCInitially
    Free = 0
    MaxRestarts = 1
INVARIANTS
    KeyIffVerified
    SecondKeyTakesOverlap
    OneKeyPerLegacyPurchase
    FrozenByToggles
    FrozenTokenTakesOverlap
PROPERTIES
    OnlyNamedControlsChange
\* Every request is handled once, so the last answer ends the behaviour.
CHECK_DEADLOCK FALSE
