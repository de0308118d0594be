\* The policy by prefix alone: three requests, two hosts, conversations that swap the turns of each other.
SPECIFICATION PrefixCacheSpec
CONSTANTS
    Request = {r1, r2, r3}
    Host = {h1, h2}
    None = None
    MaxRequestCounts = {0}
    CleanInterval = 1
    MaxTime = 0
    Prompt <- Conversations
    MaxExpired = 0
    Service = {s1, s2, s3}
    Visit = {v1, v2, v3}
    Duration = {1, 3}
    QueueSize = 2
    RateLimit <- Half
    Mode = {"LeastBusy", "LeastFirstTokenLatency", "LeastTotalLatency"}
    Pod = {p1, p2, p3}
    Model = {"asked"}
    Metrics <- Pods
    Threshold = 3
    Policy = {"default", "least", "most"}
    Remembers = 2
    Nobody = Nobody
    Capacity = 4
    Item = {a, b}
    Zero = zero
INVARIANT SamePrefixSamePod
CHECK_DEADLOCK FALSE
