\* As RecallServe, for a row that is archived while GetByID runs.
SPECIFICATION Spec
CONSTANTS
    x = x
    y = y
    Readers = {r1}
    Ids = {x, y}
    Foreign = {y}
    Stores <- MCStores
    Nothing = Nothing
    TopK = 1
    TTL = 1
    MaxWrites = 2
    MaxTime = 2
INVARIANT
    GetNeverSubstitutes
