SPECIFICATION FairSpec
CONSTANTS
    Threads = {ev, t1, t2}
    EventThread = ev
    Names = {tcp1, http}
    Types = {ty1, ty2}
    SetTypes = {ty1}
    None = None
    MaxLeft = 2
    NamedTypes = {ty1, ty2}
INVARIANTS
    TypeOK
    TypesAreGuarded
    LocksAreGivenBack
PROPERTIES
    LeftLockFreezesTypes
    SetParserReturnsUnlessRead
CHECK_DEADLOCK FALSE
