\* Three watchers in three reconciliations: create, update and delete, each failing or late.
SPECIFICATION FairSpec
CONSTANTS
    r1 = r1
    r2 = r2
    h1 = h1
    h2 = h2
    p1 = p1
    c1 = c1
    c2 = c2
    bad = bad
    Registry = {r1, r2}
    Service = {h1, h2}
    Proxy = {p1}
    Data = {c1, c2, bad}
    Broken = {bad}
    None = None
    MaxTime = 0
    HostOf <- MCHostOf
    Bridge <- MCBridge
    MaxWatchers = 3
    MaxReconciles = 3
INVARIANTS
    OneLiveWatcher
    PublishedStays
    ConvergedWhenOk
    NothingUnannounced
PROPERTIES
    FailureRemovesNothing
    ReconcileReturns
CHECK_DEADLOCK FALSE
