-------------------------- MODULE RegistryWatchers --------------------------
(***************************************************************************)
(* The service cache with those who write it: one of the watchers that poll *)
(* a registry, the ZooKeeper watcher, the watcher of the MCP servers in     *)
(* Nacos, or callers that know no order at all.                            *)
(***************************************************************************)
EXTENDS PollingWatcher, ZookeeperWatcher, McpServerWatcher

VARIABLE kind   \* "poll", "zookeeper", "mcp" or "any"

watchersVars == <<kind, pollVars, zkVars, mcpVars, cacheVars>>

\* The watcher that is not there does not vary.
WatchersInit ==
    /\ kind \in {"poll", "zookeeper", "mcp", "any"}
    /\ CacheInit /\ PollInit /\ ZkInit /\ McpInit
    /\ kind = "poll" \/ registry = "nacos"
    /\ kind = "zookeeper" \/ zk.world = CHOOSE world \in Worlds : TRUE
    /\ kind = "mcp" \/ \A s \in McpServer, v \in Version : ~ nacos.spec[s][v].https

PollStep == kind = "poll" /\ PollNext /\ UNCHANGED <<kind, zkVars, mcpVars>>
ZkStep == kind = "zookeeper" /\ ZkNext /\ UNCHANGED <<kind, pollVars, mcpVars>>
McpStep == kind = "mcp" /\ McpNext /\ UNCHANGED <<kind, pollVars, zkVars>>
CacheStep == kind = "any" /\ CacheNext /\ UNCHANGED <<kind, pollVars, zkVars, mcpVars>>
WatchersNext == PollStep \/ ZkStep \/ McpStep \/ CacheStep

\* The goroutines of a watcher run.
WatchersFair == kind = "poll" => PollFair

WatchersSpec == WatchersInit /\ [][WatchersNext]_watchersVars /\ WatchersFair

-----------------------------------------------------------------------------
\* What a watcher follows is in the cache as the registry has it, once nothing is under way that
\* would change it: the services of ZooKeeper whose watch is set, and the MCP servers of Nacos.
\* What breaks this for good is named where the two parts are defined.
WatchedIsPublished == ZkPublished /\ McpServersPublished

\* After Stop every service a watcher published is marked for deletion, so that the purge takes
\* it away: but those the registry had stopped listing, which stay for ever, and those that a
\* callback, a refresh or a listener, which do not look whether the watcher was stopped, wrote
\* behind the cleaning. The configurations of an MCP server are taken away at once.
WatchersCleanUp == PollersCleanUp /\ ZkCleansUp /\ McpCleansUp
=============================================================================
