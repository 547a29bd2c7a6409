SPECIFICATION FairSpec
CONSTANTS
    Members = {101, 102, 103}
    SeedExpenses = {1, 2}
    SeedPayer <- MCSeedPayer
    SeedAmount <- MCSeedAmount
    Requests = {1, 2, 3, 4}
    Caller <- MCTurns
    ExpenseOf <- MCExpenseOf
    Amounts = {6}
    InitialBudget = 4
    Opened = {101}
    MaxInFlight = 1
    MaxBoots = 0
    NoRow = 0
PROPERTIES
    ImplementsTab
\* Every request is handled once, so the last answer ends the behaviour.
CHECK_DEADLOCK FALSE
