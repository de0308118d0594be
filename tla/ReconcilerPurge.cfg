\* The second reconciliation after a timeout of the first.
SPECIFICATION Spec
CONSTANTS
    r1 = r1
    r2 = r2
    h1 = h1
    h2 = h2
    p1 = p1
    c1 = c1
    c2 = c2
    bad = bad
    Registry = {r1, r2}
    Service = {h1, h2}
    Proxy = {p1}
    Data = {c1, c2, bad}
    Broken = {bad}
    None = None
    MaxTime = 0
    HostOf <- MCHostOf
    Bridge <- MCRegistriesOnly
    MaxWatchers = 2
    MaxReconciles = 3
PROPERTIES
    PurgeOnlyWhenReady
CHECK_DEADLOCK FALSE
