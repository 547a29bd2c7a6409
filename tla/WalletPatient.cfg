SPECIFICATION SpendSpec
CONSTANTS
    Guests = {"hurried", "calm"}
    Requests = {1, 2, 4, 5}
    ChatTurns = {2}
    GuestOf <- MCGuestOf
    Patient = {"calm"}
    InitialBudget = 2
    TopUps <- MCTopUps
    Prices = {2}
    TopUpLimit = 2
    MaxCalls = 2
    NoRequest = 0
INVARIANTS
    Conservation
    SummaryHolds
PROPERTIES
    ImplementsLedger
\* Every request is handled once, so the last answer ends the behaviour.
CHECK_DEADLOCK FALSE
