SPECIFICATION FairSpec
CONSTANTS
    Clients = {"phone", "tablet"}
    Buckets = {"auth", "default"}
    Limit <- MCLimit
    Minute = 2
    PruneAt = 1
    Horizon = 3
    MaxHits = 3
    Registrations = {1, 2}
    Updates = {3, 4}
    Emails <- MCEmails
    Names = {"ahmet", "mert"}
    NoName = NoName
    DemoUser = 11
    Companions = {12}
    SeedEmail <- MCSeedEmail
    SeedGuest <- MCSeedGuest
    SeedName <- MCSeedName
    NoRequest = NoRequest
    Checkouts = {"cs"}
    Polls = {5, 6, 7}
    NoCheckout = NoCheckout
    Orders = {9}
    Bookings = {8}
    Price <- MCPrice
    BasePrice <- MCBasePrice
    Carts <- MCCarts
    Unknown = Unknown
    MaxInt = 5000
    Multiplier = 3
    Opening = 12450
    Address <- MCAddress
    Workloads <- MCWorkloads
    MaxStarts = 2
INVARIANTS
    OneLoginOneGuest
    NamesPaired
    LedgerExplained
    PollTruth
PROPERTIES
    ImplementsQuota
    PaidConfirmed
\* Requests are handled once and the clock stops, so the behaviour ends.
CHECK_DEADLOCK FALSE
