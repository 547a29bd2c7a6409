SPECIFICATION Spec
CONSTANTS
    Requests = {1, 2, 3}
    Accounts = {1, 2, 3}
    SeedLinked = {3}
    Refs = {11, 12}
    Booking = 0
    Unknown = 99
    NoRequest = 0
INVARIANTS
    LinkedIffRecorded
    ImportsMoveTogether
    DeadlockNeedsUnlink
PROPERTIES
    StaysKept
\* Every request is handled once, so the last answer ends the behaviour.
CHECK_DEADLOCK FALSE
