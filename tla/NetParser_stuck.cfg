SPECIFICATION FairSpec
CONSTANTS
    Threads = {ev, t1}
    EventThread = ev
    Names = {tcp1}
    Types = {ty1, ty2}
    SetTypes = {ty1}
    None = None
    MaxLeft = 1
    NamedTypes = {ty1}
PROPERTIES
    SetParserReturns
CHECK_DEADLOCK FALSE
