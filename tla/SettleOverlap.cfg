SPECIFICATION FairSpec
CONSTANTS
    Members = {101, 102, 103}
    SeedExpenses = {1, 2}
    SeedPayer <- MCSeedPayer
    SeedAmount <- MCSeedAmount
    Requests = {1, 2, 3}
    Caller <- MCCaller
    ExpenseOf <- MCExpenseOf
    Amounts = {6}
    InitialBudget = 4
    Opened = {101, 102}
    MaxInFlight = 3
    MaxBoots = 1
    NoRow = 0
INVARIANTS
    NonNegative
    BalanceBounds
    DeadlockNeedsOpening
PROPERTIES
    EveryRequestAnswered
\* Every request is handled once, so the last answer ends the behaviour.
CHECK_DEADLOCK FALSE
