\* The service's tracker: deltas batched and flushed by the ticker, three days.
SPECIFICATION Spec
CONSTANTS
    Sync = FALSE
    MaxDay = 2
    MaxTokens = 3
    MaxExits = 1
INVARIANTS
    TypeOK
    NothingCountedTwice
    OpenDayAccounted
    FlushedStays
CHECK_DEADLOCK FALSE
