\* Any callers: two services, and a proxy with the name of one. A registry that is polled
\* lists one service, for which there may be two subscriptions at once. ZooKeeper has one
\* service with two children or two with one each. Nacos has one MCP server with two versions
\* and two backends it may be served by.
\* A stopped watcher may have nothing left to do, and the process may end in a panic.
SPECIFICATION WatchersSpec
CONSTANTS
    s1 = s1
    s2 = s2
    i1 = i1
    i2 = i2
    None = None
    Service <- Services
    Proxy <- Proxies
    Data <- Contents
    MaxTime = 1
    Listed <- ListedServices
    MaxPlans = 2
    Worlds <- ZkWorlds
    McpServer = {m1}
    Version = {v1, v2}
    Backend = {b1, b2}
    Tools = {t1, t2}
    Hosts = {h0, h1, h2}
    NoHosts = h0
    Unread = Unread
    MaxMcpEvents = 2
    MaxMcpCalls = 2
CHECK_DEADLOCK FALSE
INVARIANTS
    WatchersCleanUp
    WatchedIsPublished
    ReadyMeansLooked
PROPERTIES
    PollersStop
    ServicesKeepTheirIdentity
