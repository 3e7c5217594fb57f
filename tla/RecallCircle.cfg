\* As RecallServe, for sequels that lead in a circle.
SPECIFICATION Spec
CONSTANTS
    x = x
    y = y
    Readers = {r1}
    Ids = {x, y}
    Foreign = {y}
    Stores <- MCStores
    Nothing = Nothing
    TopK = 1
    TTL = 1
    MaxWrites = 2
    MaxTime = 2
PROPERTY
    ResolveReturns
