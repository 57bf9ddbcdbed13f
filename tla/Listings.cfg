SPECIFICATION Spec
CONSTANTS
    o1 = o1
    o2 = o2
    Owner = {o1, o2}
    Like <- MCLike
    Unset = Unset
    Status = {"client", "completed"}
    DefaultLimit = 1
    MaxLimit = 2
    Asked <- MCAsked
    MaxRow = 3
    MaxTime = 3
INVARIANTS
    TypeOK
    FilterHonoured
    WalkMissesOneRowPerRemoval
    TotalCoversPage
