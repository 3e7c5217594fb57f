\* One request after the other over two ids, while jobs write twice.
SPECIFICATION Spec
CONSTANTS
    x = x
    y = y
    Readers = {r1}
    Ids = {x, y}
    Foreign = {y}
    Stores <- MCStores
    Nothing = Nothing
    TopK = 1
    TTL = 1
    MaxWrites = 2
    MaxTime = 2
INVARIANTS
    TypeOK
    AnswersWereLive
    GetFindsSettled
    SubstitutesSucceed
PROPERTIES
    ForgetsInTime
    RequestsEnd
