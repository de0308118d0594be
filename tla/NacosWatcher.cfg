\* One service and two addresses; a fetch gives up at its second list error.
SPECIFICATION FairSpec
CONSTANTS
    Service = {s1}
    Proxy = {}
    Data = {d1}
    None = None
    MaxTime = 0
    Addr = {a1, a2}
    MaxTries = 1
INVARIANTS
    SubscribedIsWatched
    StopLeavesNothing
PROPERTIES
    StopReturns
    AddressFollowed
CHECK_DEADLOCK FALSE
