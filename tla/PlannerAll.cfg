SPECIFICATION ConciergeSpec
CONSTANTS
    Prompts <- MCPrompts
    Budgets = {90000}
    Skeletons <- MCSkeletons
    Flights <- MCFlights
    Hotels <- MCHotels
    Restaurants <- MCRestaurants
    Conversations <- MCConversations
    Batches <- MCBatches
    MaxRounds = 6
    Estimate <- MCEstimate
    Opening = 70000
    WalletCurrency = "USD"
    NoBudget = NoBudget
    Malformed = Malformed
    None = None
    Junk = Junk
    Infinite = Infinite
    Blank = Blank
    NoPlan = NoPlan
    Asked = Asked
    Failed = Failed
INVARIANTS
    LegsDegradeAlone
    PlanConfirmable
    ReplyTruthful
PROPERTIES
    EveryRequestAnswered
\* One request and its confirmation, so the behaviour ends.
CHECK_DEADLOCK FALSE
