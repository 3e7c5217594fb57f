\* Midnight passes between an Add and the last flush.
SPECIFICATION Spec
CONSTANTS
    Sync = FALSE
    MaxDay = 1
    MaxTokens = 1
    MaxExits = 0
PROPERTIES
    CloseFlushes
CHECK_DEADLOCK FALSE
