SPECIFICATION FairSpec
CONSTANTS
    Guests = {"hurried"}
    Requests = {1, 2, 3}
    ChatTurns = {2}
    GuestOf <- MCGuestOf
    Patient = {}
    InitialBudget = 2
    TopUps <- MCTopUps
    Prices <- MCPrices
    TopUpLimit = 2
    MaxCalls = 2
    NoRequest = 0
INVARIANTS
    DeductsAtomically
\* Every request is handled once, so the last answer ends the behaviour.
CHECK_DEADLOCK FALSE
