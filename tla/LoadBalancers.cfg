\* Three requests and two hosts, a limit of one, and time for two cleanups; three conversations
\* over two turns; three services, averages over two latencies; three pods; a ring of four slots.
SPECIFICATION BalancersSpec
CONSTANTS
    Request = {r1, r2, r3}
    Host = {h1, h2}
    None = None
    MaxRequestCounts = {0, 1}
    CleanInterval = 1
    MaxTime = 2
    Prompt <- Conversations
    MaxExpired = 1
    Service = {s1, s2, s3}
    Visit = {v1, v2, v3}
    Duration = {1, 3}
    QueueSize = 2
    RateLimit <- Half
    Mode = {"LeastBusy", "LeastFirstTokenLatency", "LeastTotalLatency"}
    Pod = {p1, p2, p3}
    Model = {"asked"}
    Metrics <- Pods
    Threshold = 3
    Policy = {"default", "least", "most"}
    Remembers = 2
    Nobody = Nobody
    Capacity = 4
    Item = {a, b}
    Zero = zero
INVARIANTS
    CountsFollowRequests
    LimitUnlessWiped
    PrefixesLeadBack
PROPERTIES
    ImplementsBoundedQueue
    LeastIsChosen
SYMMETRY Symmetry
CHECK_DEADLOCK FALSE
