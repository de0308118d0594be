# TLA+ models of the Higress control plane and AI plugins

This directory specifies the parts of this repository whose behaviour depends on
order, concurrency or failure. Paths are relative to `src/higress/` unless
they start otherwise.

## 1. The system and its parts

**Registry control plane** (`registry/`). An `McpBridge` resource names service
registries and proxies. The *reconciler* (`reconcile/reconcile.go`) compares each
new resource with what it started last, stops and starts *watchers*, waits for
the new ones to say they are ready (60 s at most), registers the proxies, purges
what is stale and notifies the xDS push. Each watcher is a goroutine:
`direct/` publishes one service from the configuration, `nacos/`, `nacos/v2/`,
`zookeeper/`, `consul/` and `eureka/` follow a remote registry through polling
and callbacks, `nacos/mcpserver/` follows MCP server configurations. All of them
write the *service cache* (`memory/cache.go`), which the push reads.

| component | state | operations | interacts through |
|---|---|---|---|
| service cache | services, proxies, marks of deferred deletion, incremental lists, configurations | update, delete (marks), purge, four kinds of reader | one mutex; called by every watcher and reader |
| reconciler | `registries`, `watchers`, `proxies`, one call in progress | `Reconcile` | `Stop`, `go Run`, `Ready` (WaitGroup), `serviceUpdate` |
| direct watcher | a mutex, a ready flag | `Run`, `Stop` | cache, `Ready` |
| nacos, nacos v2, zookeeper, consul, eureka, mcpserver | subscriptions, caches of what they watch, `isStop` | poll, callback, `Stop` | cache, client libraries, `Ready` |
| nacos address discovery | the current address, a condition variable | `Trigger`, `GetNacosAddress`, `Stop` | channel and condition variable |
| proxy factory | none | fills listener ports, builds wrappers | reconciler |

**AI proxy token failover** (`plugins/wasm-go/extensions/ai-proxy/provider/failover.go`).
Every Envoy worker runs its own Wasm VM. The VMs share the lists of available and
unavailable API tokens, the failure and success counts and a lease for the health
check in Envoy's shared data, with compare-and-swap as the only synchronisation.

**AI load balancer** (`plugins/wasm-go/extensions/ai-load-balancer/`). Policies
`global_least_request` (in-flight counts in Redis, selected and incremented by a
Lua script), `prefix_cache` (the same counts plus a tree of prompt prefixes),
`endpoint_metrics` (filters over scraped metrics), `cluster_metrics` (recent
response times in `utils/queue.go`). A simpler balancer is in
`src/higress-run/plugins/wasm-go/ai-load-balancer/`.

**Wasm plugins of the gateway** (`plugins/wasm-go/extensions/`). Each is a filter
between Envoy and upstream. A handler of a request or an answer may let it go on,
hold it, or answer it; a call it makes to a service or to Redis comes back as a
callback, which may resume or answer what is held. The plugins modelled:

| plugins | state | operations |
|---|---|---|
| admission: `ext-auth`, `opa`, `request-validation`, `replay-protection` | the request's context; nonces in Redis | ask a server, a policy, a schema or Redis, then resume or refuse |
| consumers: `key-auth`, `basic-auth`, `jwt-auth`, `hmac-auth-apisix` | configuration | find the consumer, look at the allow list |
| limits: `cluster-key-rate-limit`, `ai-token-ratelimit`, `ai-quota` | windows and quotas in Redis | check a request, charge its answer, administer the quota |
| caches: `response-cache`, `ai-cache` | Redis, a vector database | look up, search for something similar, store the answer |
| `ai-proxy`, requests | the tokens of a request, the context file of the VM | take a token, rewrite the body, retry a refused request with another token |
| chains: `ai-search`, `ai-image-reader`, `ai-intent`, `ai-rag`, `ai-transformer`, `ai-json-resp`, `chatgpt-proxy`, `http-call` | the request's context, counts of calls | ask one service, one after another, or several at a time, then resume or answer |
| conversations: `ai-history`, `ai-agent` | turns in Redis; one list of messages for the VM | put earlier turns in front of a question; let a model call tools |
| `ai-security-guard`, whole bodies | how far a text and its images are checked | check piece after piece, then let go or refuse |
| streams: `ai-proxy` (from a provider, to Claude), `ai-security-guard`, `ai-search` | the context of one answer | translate, convert, check or extend an answer piece by piece |
| `api-workflow` | a graph of tasks with counts, in the configuration | call the services of a request in the order of the graph |

**MCP sessions** (`plugins/golang-filter/mcp-session`). A Go filter of Envoy. A client
opens a stream of server-sent events and posts its calls as requests of their own,
perhaps at another gateway; what joins the two is a Redis channel named after the session.
With servers per user a call needs a configuration of its user in Redis, and
calls of users with an empty one are counted.

| component | state | operations | interacts through |
|---|---|---|---|
| filter | one request | `DecodeHeaders`, `DecodeData`, `EncodeData`, `OnDestroy` | Envoy, the Redis client, a stop channel |
| stream | a subscription and two goroutines | subscribe, announce, ping, inject | Redis publish and subscribe |
| Redis client | one connection pool for all requests | `keepAlive`, `reconnect`, `Close` | every stream subscribed with it |
| configurations and limit | keys in Redis | store, read, expire, count | Redis |

What is hard in this code: goroutines started and stopped with no order between
them; callbacks that arrive after `Stop`; a deferred deletion that must wait for
the registration replacing it; a wait with a timeout followed by a retry;
several VMs doing read-then-CAS on several shared keys; counters in Redis
whose increments and decrements come from different phases of a request;
requests held for a chain of callbacks, each with its own error paths; streams
that are cut anywhere and rewritten piece by piece.

What makes each part correct:

- cache: an update hides the deletion that preceded it; nothing unmarked is purged; what was stored is announced.
- reconciler: the set of live watchers is exactly what the bridge names; a failed call takes no service down; after a good call and once the watchers ran, the cache is what the bridge describes; every call returns.
- failover: every configured token stays on exactly one of the two lists; a token moves only after its threshold of consecutive results; one holder of the lease at a time.
- load balancer: counts follow the requests; the chosen host has the least load within its share; a conversation follows its beginning.
- MCP sessions: an answer reaches the session it belongs to, once; a call is accounted for; a stream leaves no goroutine behind.
- ring buffer: it is a queue of the most recent samples at every offset.
- watchers of remote registries: what they watch is published, what they are told to stop is marked for deletion, and `Stop` returns.
- Wasm plugins: nothing goes upstream unpermitted, nobody entitled is refused, a limit holds, a request is answered once and never held for ever, a cache serves only what answers the question, a retry takes a token that has not failed, nobody is shown another's conversation.
- streams: what the client gets is well formed, whole, in order, and checked.

## 2. Modules

| module | models | run from | proved in |
|---|---|---|---|
| `ServiceCache` | `registry/memory/cache.go`, the services and proxies | `MCRegistryWatchers` | `ServiceCacheProofs` |
| `Reconciler` (extends `ServiceCache`) | `registry/reconcile/reconcile.go` with `direct/watcher.go` | `MCReconciler` | `ReconcilerProofs` |
| `PollingWatcher` (extends `ServiceCache`) | `registry/nacos/watcher.go`, `registry/consul/`, `registry/eureka/` | `MCRegistryWatchers` | `RegistryWatchersProofs` |
| `ZookeeperWatcher` (extends `ServiceCache`) | `registry/zookeeper/watcher.go` | `MCRegistryWatchers` | `RegistryWatchersProofs` |
| `McpServerWatcher` (extends `ServiceCache`) | `registry/nacos/mcpserver/` and the configurations in the cache | `MCRegistryWatchers` | `RegistryWatchersProofs` |
| `RegistryWatchers` | the cache with one of these, or with any callers | `MCRegistryWatchers` | `RegistryWatchersProofs` |
| `AddressProvider` | `registry/nacos/address/address_discovery.go` | `NacosWatcher` | with `NacosWatcher` |
| `NacosWatcher` (extends both) | `registry/nacos/v2/watcher.go` | itself | `NacosWatcherProofs` |
| `TokenFailover` | `ai-proxy/provider/failover.go`, lists and counts | `Failover` | `FailoverProofs` |
| `VmLease` | `ai-proxy/provider/failover.go`, lease | `Failover` | `FailoverProofs` |
| `Failover` | both protocols | itself | |
| `LeastRequest` | `ai-load-balancer/global_least_request/` | `MCLoadBalancers` | `LoadBalancersProofs` |
| `PrefixCache` (extends `LeastRequest`) | `ai-load-balancer/prefix_cache/` | `MCLoadBalancers` | `LoadBalancersProofs` |
| `MetricsPolicies` | `ai-load-balancer/cluster_metrics/`, `endpoint_metrics/` | `MCLoadBalancers` | `LoadBalancersProofs` |
| `BoundedQueue` | the abstract queue of recent samples | `FixedQueue` | |
| `FixedQueue` | `ai-load-balancer/utils/queue.go` | `MCLoadBalancers` | `LoadBalancersProofs` |
| `LoadBalancers` | `ai-load-balancer/main.go`: one of the policies, or the ring by itself | `MCLoadBalancers` | |
| `WasmHost` | Envoy and the proxy-wasm SDK, as the plugins use them (external) | `WasmPlugins` | `WasmPluginsProofs` |
| `AccessPlugins`, `ConsumerAuth`, `LimitPlugins`, `CachePlugins` (extend `WasmHost`) | the plugins of the table above | `WasmPlugins` | `WasmPluginsProofs` |
| `AiProxy` (extends `WasmHost`) | `ai-proxy/main.go` with `provider/retry.go`, `context.go` and `provider.go` around them | `WasmPlugins` | `WasmPluginsProofs` |
| `CallChains` (extends `WasmHost`) | the eight plugins that wait for other services | `WasmPlugins` | `WasmPluginsProofs` |
| `Conversations` (extends `CallChains`) | `ai-history/`, `ai-agent/` | `WasmPlugins` | `WasmPluginsProofs` |
| `GuardPlugins` (extends `WasmHost`) | `ai-security-guard/`, whole requests and answers | `WasmPlugins` | `WasmPluginsProofs` |
| `WasmPlugins` | a gateway with one of all these plugins | itself | `WasmPluginsProofs` |
| `ClaudeStream` | `ai-proxy/provider/claude_to_openai.go`, streams | `ResponseStreams`, itself | `StreamProofs` |
| `GuardStream` | `ai-security-guard`, streamed text and MCP answers | `ResponseStreams` | `StreamProofs` |
| `ReferenceStream` | `ai-search/main.go`, references in a streamed answer | `ResponseStreams` | |
| `ProviderStream` | `ai-proxy/provider/`, how the chunks of a provider become events | `ResponseStreams` | |
| `ResponseStreams` | an answer through one of the four | itself | |
| `ApiWorkflow` | `api-workflow/` | itself | |
| `McpSession` | `golang-filter/mcp-session/` | `MCMcpGateway` | `StreamProofs` |

A definition named after another with something added (`Script`/`ScriptForgetsToken`) or changed (`StopUpdated`/`ForgetUpdated`) and commented "Mutant of" is that one with a plausible mistake in it. It is part of no specification; the runs are repeated
with it to see that the property notices.

### ServiceCache

`sew` and `pw` are the maps of services and proxies (an absent key is `None`), a
wrapper is its content and its creation time, `toBeUpdated` and `toBeDeleted` are
the incremental lists, as sets. One action per method of the interface that
changes state; the mutex makes each atomic. `Tick` is time passing. The map of
configurations, which only the MCP server watcher uses, is in `McpServerWatcher`.

### Reconciler

The reconciler is one thread with a program counter: `registries` (the three
loops, one action per iteration, the update split at the point between stopping
the old watcher and starting the new one), `waiting`, `proxies`, `purging`,
`notifying`. A watcher is a number; `run` is where its goroutine is and `stopped`
whether `Stop` was called. `RunPublish` and `RunReady` are the two halves of
`Run`, between which its mutex is held, so that `StopWatcher` waits. A
configuration stands for the wrapper built from it; those in `Broken` build none.
A start may fail (`StartFails`: unsupported type, unreadable secret) and the wait
may time out at any moment (`ReadyTimeout`). `late` and `dirty` are history
variables: a run that began after its stop, and a change not yet announced.

### PollingWatcher, ZookeeperWatcher, McpServerWatcher, RegistryWatchers

`kind` says who is there besides the cache: a watcher that polls, the ZooKeeper
watcher, the watcher of MCP servers, or callers in any order. The others do not vary.

*Polling.* `registry` is `nacos` (the first client), `consul` or `eureka`, which
share the shape of Run, fetch, subscribe, unsubscribe and Stop under one mutex.
`watcher` holds what the goroutine with the mutex is at, `plans` the subscriptions
with the callback under way in each. A plan of Eureka is a poller and a consumer
that share one stop channel without a buffer: `Stop` waits for whichever comes
to its select, and a consumer that goes on to read the channel the poller closed
ends the process (`crashed`). `past` is history and names the exceptions: services
the registry stopped listing (`dropped`), writes behind the cleaning (`late`), a
refresh that did not look whether it was stopped (`refreshedLate`).

*ZooKeeper.* `nodes` are the children in ZooKeeper, `listeners` the goroutines, each
with a watch, a tick and an exit, which read one child at a time. The entry of a
service changes under `seMux`, and some publish behind it. `seen` names the
exceptions: a failed read (`disturbed`), two goroutines of one service that publish across each
other (`crossed`), a look counted in the place of another (`recounted`).

*MCP servers.* `nacos` is what Nacos holds: which servers there are, the latest version of
each, the specification and the tools of every version, the instances of every
backend. `client` is the `NacosRegistryClient`: the context of each server and the
callbacks under way, each of which goes through its steps while others do. A
callback whose listener was replaced still runs and still changes the context
(`sees`). `mcp` is the watcher, `configs` the cache by server and kind. Names for what the
code gives up: a request that failed or a callback that came late (`spoiled`), two pictures
written across each other (`crossed`), a picture written behind the deletion
(`late`), a server that could not be unsubscribed from (`kept`).

### AddressProvider and NacosWatcher

Five threads share the state: `Run` with `fetchAllServices` (`fetcher`),
`updateNacosClient` (`updater`), `Stop` called by the reconciler (`stopper`), the
goroutine of the address provider (`provider`) and the goroutine that
`GetNacosAddress` starts (`waiter`). `mutex` is `w.mutex`. The mutex of the
condition variable is modelled where it is kept across steps: a waiter that
sends holds it until `updateNacosClient` receives (`Locked`); the other critical
sections are one step each. `Broadcast` sends waiters back to compete for it.

`subscribed` is what the present naming client is subscribed to and `former` what
the clients it replaced still are: `UpdateClient` replaces the client and leaves
`WatchingServices` alone, as the code does. Both may call back at any moment
(`Push`, `Callback`), before or after `Stop`. The client library may fail every
listing, subscription, unsubscription and construction. Subscriptions run in
parallel in the code and touch disjoint services; here each is one step, in any
order. `dropped` and `lateCalls` are history variables: what Nacos stopped
listing, and what a callback wrote after `Stop` had been over it. The watcher is
taken with an address server, which is the harder case, and without the MCP
watcher it may start.

### TokenFailover and VmLease

Every virtual machine runs one handler at a time. `Script` lists, for each
handler, the host calls it makes that write shared data, in the code's order; `pos` is the
next one. A read and the write that depends on it are two steps with every other
machine in between: `view` is whether the version that was read is still the
current one (`fresh` or `stale`), which is all a compare-and-swap tells apart.
`BlindWrite` is a write that names no version (the clearing of a starting
machine). A mismatch is retried `CasMaxRetries` times and then abandoned without
an error (`SwapFails`), which the history variable `gaveUp` records. Overlapping
health checks of one token by one machine are merged. In `TokenFailover` any
machine may check health; that only one does within a lease period is the
subject of `VmLease`, with the clock, the read and the swap as separate steps.

### LeastRequest

`table` is the hash in Redis, `decs` the decrements on their way to it. A request
goes from `new` to `paused` (its script is sent), `upstream` and `done`; its
script (`eval`) may run late, run with its reply lost, or never run, and a client may leave at any
point. `RunScript` is the whole Lua script, with the cleanup that
drops the hosts missing from the list of the gateway that runs it. `wiped` and
`lost` are history variables that name the hosts for which the code gives up
exactness: a cleanup dropped a count in use; a counted request nobody takes back.

### PrefixCache

The counts, requests, callbacks and ends of streams are those of `LeastRequest`,
without the limit and the cleanup. A conversation is a sequence of turns, each of
which stands for its hash. `path` is the map from keys to hosts in Redis. A key is
the exclusive or of hashes, so it is the set of the turns that occur an odd number of times (`Odd`):
this is what makes two conversations share one. `RunPrefixScript` is the walk along
the known beginnings (`Matched`), the choice of a host with few requests where none is
known, and the keys written for the rest (`Written`). `routed` and `disturbed` are history.

### MetricsPolicies and LoadBalancers

`cluster` holds what `cluster_metrics` counts and measures of each service; the latencies are queues of
the last samples, which is what `FixedQueue` is shown to be. The loop over the services
is a fold over every order of them, from every candidate (`ClusterRequest`).
`endpoint_metrics` is the tree of filters as operators over sets of pods, each
named after its filter (`Scheduled`), with the share of a pod on top (`EndpointRequest`). Averages and
shares are fractions. `policy` is the one a configuration names.

### FixedQueue

The ring with its head, tail and size as in the code. `Contents` is the order in
which `ForEach` visits; the refinement maps it to the abstract queue.

### WasmHost and the plugins

A request goes through the stages `headers`, `body`, `upstream`, `answering`,
`response`, and ends `over` or `gone`; `held` says that Envoy keeps it until a callback
resumes or answers it. `calls` are the calls the plugin made for it, at most one
of each name, whose callback comes once, with an answer or with `Failed`, and not
after the stream is gone. `ctx` is what the plugin noted in the request's context,
`facts` what the world said of it (a rule matched, a server answered 200, a call was never sent),
so that a property can tell what the code was told from what it did. `store` is
Redis, `posted` are commands nobody waits for. `WasmHost` is a contract, taken from how the plugins
use the host; the modules that extend it hold one operator per handler and callback, named after it.
`conf` is the plugin and its configuration, chosen at the start: every
combination of the options that change control is an initial state.

A Redis script is one step. A call that could not be made is the fact `unsent`, a
handler that ran into a Go panic `dead`; where the code then leaves a request held, the property says so by name (`Stuck`).
Two more names are for headers that wait for a body which does not come (`bodyless`: the caches, the guard and
`ai-quota` go by the content type alone) and for an answer that is held while the request is resumed (`wrong side`).

Of a credential for `key-auth` the model also keeps where it comes from, a header or the query, and where the
configuration says to look. `Entitled` is what the configuration promises; the cases in which the code does not
keep it (`TokenTaken`, `RulesForgotten`, `QueryUnread`) are operators of their own.

### AiProxy, CallChains, Conversations, GuardPlugins

`attempt` holds the token of a request, those left for retries and those tried; with
failover the list is read apart from the token and may be any. What a token's failure does to the lists
of the VMs is in `TokenFailover`. `contextLoaded` is whether the VM holds the context
file. `progress` counts the calls of a request that are out and back and the rounds
it has gone. A resume that a handler makes before it returns a pause counts as going on.

A turn is named for the request it comes from. `history` is what a request read from
Redis and what it was shown of it; a request without an identity uses the key `Unnamed`, which all
such requests share. `agent` is the list of messages of a VM, as the set of requests
whose messages are in it, and what the model was sent for each request.

`moderation` is how far the pieces and images of a body have come. The parts that were accepted,
the images whose check failed, a refusal, and an error that let everything go are kept as history.

### ClaudeStream, GuardStream, ReferenceStream, ProviderStream

Upstream's answer arrives in chunks, in every order the protocol allows. In
`ClaudeStream` a piece of content is a unit and the client an observer that keeps
the blocks it was told to start and stop and the faults it found. In `GuardStream` a piece is
its number, the moderation service passes, refuses or fails; `text` answers are
checked in batches, the events of `mcp` answers one by one. A call that cannot be sent leaves the stream
`unsent`, a callback that runs into a Go panic leaves it `dead`. In `ReferenceStream` the answer
is a sequence of tokens, and what reached the client is compared with it.

In `ProviderStream` the answer of a provider is a sequence of events of a prefix, a payload and line ends, and
a chunk may end behind each of these. `way` is how the provider reads its chunks: events through
`ExtractStreamingEvents` (with what Qwen makes of messages that grow), line by line,
Vertex, Hunyuan, and the frames of Bedrock. `translator` is what the context keeps between
chunks; `delivery` remembers where the answer was cut, so that the property can name
what each way loses. Left out: cuts inside of a payload other than behind its prefix, the fields of an event, `[DONE]`, reasoning
that is joined to the content, and the APIs other than chat.

### ApiWorkflow

The counts of missing tasks (`status`) belong to the configuration and so to every
request of a machine, as in the code. A request keeps the bodies of its tasks and the
calls it waits for; their callbacks run until the request is over, also after a `continue` edge has let it
go on. `RecursiveExecute` and its like are written with folds over the configured edges.

### McpSession

`setup` is the situation: the kind of upstream, whether there is Redis, servers per user, and how
much of everything there may be. `stream` is a request for a stream with the goroutine that
reads its channel (`subscriber`) and the one that pings; `linked` says that Redis
knows of the subscription. What is published while nobody is linked is gone. A reply of Redis may be lost
(`LosesReply`): go-redis runs the command again or gives up, so that an event may be sent twice (`Published`)
and a script may take from a window for a call that is refused or counted again (`HandleRatelimit`, `lost`). `wire` are the messages
sent to a subscriber and not read yet, `heard` what its client was sent. A connection that
breaks takes the subscriptions with it, and the library subscribes
again; a client that `keepAlive` or `Destroy` closes does not (`Cut`). `call` is a request
with a call: the configuration of its user is read for the header
(`DecodeHeadersCall`) and again for the limit (`DecodeData`), and `moved` is history, that the
store changed between. A configuration that has servers per user and no Redis passes `Parse`
(`config.go:80`), and the handler then panics.

## 3. Runs

| run | question | bounds and why they are enough |
|---|---|---|
| `reconciler` | do the maps, the watchers and the cache agree through failures, and does every call return? | two registries (one can fail while the other works), two configurations and a broken one, one proxy, three watchers, three calls: create, update, and the call after a failed one |
| `reconciler_purge` (violation) | does a purge spare what is still starting? | two watchers, three calls: create, update with an early return, and the retry |
| `registry_watchers` | do the watchers publish what they watch, say they are ready when they have looked, stop, and leave nothing behind? | any callers: two services, a proxy with the name of one, three contents, two instants. Polling: one service, two subscriptions of it at once, so that one may outlive the other. ZooKeeper: one service with two children and three events, or two with one child each and two events, two goroutines at once. MCP: one server, two versions, two backends, two events (changes or failures), two callbacks at once. Services are independent of each other in this code, so the second is only needed where they share a count |
| `nacos_watcher` | do subscriptions follow the list through failures, does `Stop` clean up and return, does a new address arrive? | one service, two addresses, one retry of a listing: a service may be watched, dropped and watched again, an address may change and change back; services are independent of each other in this code |
| `token_failover` | does a token get lost, is its threshold respected, does it come back, and is the lease exclusive? | tokens: two machines, one token, thresholds of two, four failures so that it may fail twice over, one late start, two attempts per swap so that giving up happens; lease: three machines, a period of one tick, time for two changes of holder |
| `load_balancers` | do the counts follow the requests, does the limit hold, does a conversation follow its beginning, is the least loaded chosen, is the ring a queue? | three requests (one over a limit of one, and one to be confused with), two hosts, two cleanups; three conversations over two turns, two of which differ in their order, and one key that expires; three services and latencies of two samples; three pods out of four kinds that differ in queue, cache, adapters and room; a ring of four slots, two samples and the zero value: every offset at every fill level |
| `prefix_cache` (violation) | do requests with the same prefix go to the same pod? | the same conversations, nothing expires and no host is unhealthy |
| `wasm_requests` | do the plugins admit, limit, cache and answer as configured, and move on? | one request for plugins that keep nothing between two, two for the others; three keys, the first two similar, so that an answer may drift twice; a threshold of one and answers of two tokens, so that one answer passes it; two vector databases, one that takes a question without an answer and one whose handler may panic; four tokens and two retries, so that they may run out of either; two calls at a time; two rounds; two turns kept, of which one is dropped when a third comes; two pieces and two images, so that there is one before the last |
| `response_streams` | is a rewritten answer well formed, whole, ordered and checked? | three tool calls with two pieces of arguments each, so that two wait while one is active; five pieces and batches of two; seven tokens and a buffer of three, so that a tag may lie across the edge of the buffer; three events, so that one lies between two that are cut, in every division into chunks |
| `mcp_gateway` | do answers reach their session, are calls accounted for, do goroutines end? | eight situations (`MCMcpGateway`): two streams and a call; a stream with two calls while Redis fails or loses a reply once and the configuration is dropped; an upstream that streams by itself; no Redis, with and without users; two calls of a user with a limit of one, while Redis fails or loses a reply, the configuration changes and the window ends once; calls of users through a stream; a user in the whitelist next to one who is not |
| `claude_blocks` (violation) | is one block stopped before the next is started? | two tool calls of one piece |
| `api_workflow` (violation) | is a request refused only if something of its own failed? | the graph of the plugin's README, two requests |

Deadlock is not checked where the number of calls, failures or ticks is bounded,
or where a component may be stopped for good: the system then rests.

## 4. Fairness

- `reconciler` assumes weak fairness of the thread that called `Reconcile` and of every goroutine of a watcher: the Go scheduler runs each runnable goroutine, the timer is real time, and the only lock in the way (the watcher's own mutex) is released by `Run`, which does not block while it holds it. Nothing is assumed of starts (they may fail) or of the bridge (it may never change).
- `nacos_watcher` assumes weak fairness of goroutines that can go on by themselves, and strong fairness where they compete: for `w.mutex`, for the mutex of the condition, and in the select of the provider, whose ticker is ready again and again while `Stop` offers its send (Go's mutexes are fair after 1 ms, and its select draws at random). A request to the address server ends, with or without an answer: `http.DefaultClient` has no timeout, so this is an assumption on the network. Nothing is assumed of Nacos, of its callbacks, or of `Stop` being called.
- `token_failover` assumes weak fairness of every machine that is inside a handler, strong fairness of the tick (it fires for ever, but a machine may be busy each time) and that a check that keeps being made passes again and again: the property is about tokens that work again, and leaves out those a swap gave up on.
- `registry_watchers`, with a polled registry: weak fairness of the goroutine of `Run`, of callbacks and of the poller's requests, which end, and strong fairness of the steps of `Stop`: a sender on a channel is served by one who comes to the receive again and again. Nothing is asked of the registries. ZooKeeper and MCP servers are checked for safety only.
- `wasm_requests`, weak fairness for each request, over its handlers, callbacks and replies together: Envoy runs a handler for what arrived, Redis or its time limit ends every call, and its callback runs. Nothing is asked of upstream or of the client.
- `mcp_gateway`: weak fairness of the goroutines of a stream and of `keepAlive` once they are to end: each waits in a select for a stop channel that is closed for good. Nothing is asked of Redis, of clients, or of Envoy ending a request.
- `response_streams`: every call to the moderation service comes back. Nothing is asked of upstream.

## 5. What is proved

All proofs are for every value of the constants (any number of registries,
proxies, configurations, watchers, calls, services, addresses, machines, tokens,
requests and hosts; any thresholds, limits and capacity; for the Wasm plugins any requests, keys, calls,
retries, rounds, pieces and images, and every configuration).

- `ServiceCacheProofs`. The types together with `OnlyStoredIsMarked` are inductive. `IdentityIsKept` is a step property: only the purge sets a service to `None`, and only a marked one.
- `ReconcilerProofs`. `PublishedStays` is not inductive alone. Its strengthening `IInv` adds `MapsOK` (the two maps have the same keys, and a recorded watcher is a live one of that registry), `LoopOK` (what the loops have left to do: the deleted and updated registries have a watcher, the created and restarting ones have none, and whatever is in neither already matches the bridge or failed), `CallOK` (past the loops nothing failed, past the wait nobody is pending) and `RunOK` (an unborn watcher did nothing). The heart is `RunPublishStep`: a watcher that publishes for a registry whose current watcher is another one must have been stopped, so it is late; and `StopWatcherStep`: distinct registries have distinct hosts (`HostsAreDistinct`, the key and the host are both made of type and name), so a stop marks no other registry's service. `FailuresRemoveNothing` follows from `OnlyPurgeRemoves` and `CallOK`. `SuccessConverges` adds four invariants: what stands unmarked in the cache was published by the present watcher of its registry (`ServedOK`), the proxies are the recorded ones but for those marked (`ProxiesOK`), marks are made only in a call that goes on to its purge (`MarksOK`), and what the loop over the proxies has left is what separates the record from the bridge (`LeftOK`). `NothingStaysUnannounced` needs to know who will announce: the loop that has noted it, the purge, or the watcher that is publishing (`AnnouncedOK`).
- `RegistryWatchersProofs`. `WatchersInv` is the invariant of the cache with that of whichever watcher there is; a watcher that is not there is idle. Every step of a watcher is a step of the cache or leaves it alone (`WatchersAreCacheSteps`): what is written is a content of a service by the types of the callbacks, of the children and of the entries. So `WatchersSpec` implements `CacheSpec` with the same variables, the invariant of the cache needs no proof of its own, and its theorems carry over.
  - *Polling* (`PollInv`): why a service is in the cache (`StoredForAReason`: it is followed, marked, was dropped by the registry or written late), and that there is one subscription to a service and none to what is not followed (`OnePlanEach`), which Eureka loses only by a refresh behind `Stop`. `Followed` is what `Stop` has not been over.
  - *ZooKeeper* (`ZkInv`): a goroutine whose watch has not fired holds what is there (`ListenerOK`), an entry is what the cache holds unless a goroutine is between the two (`EntriesPublished`), a goroutine that waits has made the entry and nobody is about to publish another (`WaitingAgree`), what is cached has an entry, which is what `Stop` goes through (`StoredHaveEntries`, `CleanedAreMarked`), and the count is the number of services of the first fetch that were not looked at (`LooksCounted`, with the finite-set theorems).
  - *MCP servers* (`McpInv`): `ServersFollowed` says of each server, for any number of callbacks that run into each other, that what Nacos last told is in the context or with a callback that has yet to tell it, link by link: the version (`VersionFollowed`), the documents of that version (`DocumentsFollowed`), what they say (`ContentFollowed`), the backend they name and its endpoints (`BackendFollowed`), and the configurations written of them (`ContextWritten`). A quiet server has no callbacks, and the chain closes (`McpHolds`).
- `NacosWatcherProofs`. `PhaseOK` says where the threads may be together (a fetch in progress and a `Stop` in progress exclude each other, the keys of a fetch exist only while it subscribes), `SubscriptionsOK` ties subscriptions, watched services and the keys of the fetch in progress, and `StoredOK` says of every cached service why it is there: it is watched, about to be, dropped by Nacos, or `Stop` has been over it, and then it is marked or a late callback wrote it again. None of the three is inductive without the others.
- `FailoverProofs`, the tokens. `NoTokenLost` is inductive together with the types: every step that takes a token off a list belongs to a script whose next call puts it on the other. `CountsStayNearThreshold` needs `CountBound`, which also counts the machines that have compared the count and not yet incremented it (`Pending`): failures, pending machines and two are at most the threshold and the number of machines. The proof uses the finite-set theorems for the size of `Pending`.
- `FailoverProofs`, the lease. `GrantsOK` (the lease carries the latest time of its holder, and the grants of other machines are older by more than a lease time) and `SwapOK` (a machine whose view is fresh may still take the lease, and the time it read is not before its own last grant) make `LeaseExclusive` inductive.
- `LoadBalancersProofs`, least requests. `HostOK` bounds the requests that hold a host and the decrements on their way by its count, with equality where nothing was lost, and bounds by the limit the requests admitted to the host: those it serves and those whose reply, still on its way, passes the limit. Only the script adds to that set, in one step with the count the reply carries, which is why a limit compared late still holds. `ContextOK` says that a request has a host only once it was selected.
- `LoadBalancersProofs`, the ring. The inductive invariant ties `tail` to the newest element and makes every slot outside the window zero; the refinement maps `Enqueue`, `Dequeue` and `Clear` to `Push`, `Pop` and `Reset`. `SliceIsContents` says that `ToSlice`, whatever of its three cases it takes, copies out what `ForEach` visits.
- `LoadBalancersProofs`, the prefix cache. `PathsOK`: while nothing disturbed the keys and no two beginnings share one, the keys known are exactly those of the beginnings of the conversations that came, each with the host of its conversation. So the search of the script ends at the longest beginning somebody shared (`MatchedIsLongest`), all of it leads to one host, and no key behind it is known yet (`SearchFollowsPaths`): what the script writes overwrites nothing.
- `LoadBalancersProofs`, the policies that measure (`LeastIsAlwaysChosen`, for any services, pods, requests, metrics and orders of the map). The loop over the services is a fold, so this, too, is induction (`ByInduction`, `Folding`): after each turn the candidate is the best of those seen (`Best`: none of them is within its share, or the candidate is and none of those has less to do), whichever candidate was drawn first, because a candidate that had its share is given up only when nobody seen is within theirs. That `Less` compares fractions transitively (`LessIsTransitive`), that a sum of latencies and the largest average are numbers (`SumIsInt`, `LargestExists`), and that the loop visits every service (from an injection on a finite set) are lemmas. Of the pods, every filter keeps some of those it is given; two pods cannot both have more than half (`OneHasShare`), so the one drawn instead has not had its share. With a limit below a half both may, which the property leaves out. Which policy is configured does not matter: a step of the others leaves these variables alone (`BalancersDoMetrics`). It is assumed that a cluster lists finitely many services (`MetricsAssumption`).
- `StreamProofs`, the calls of the MCP filter. `CheckedOK` keeps what was read for the header true until the limit is looked at, unless something moved; `WindowsOK` says that what is left of a window, what was let through and what was lost with its reply make up the limit.
- `StreamProofs`, the sessions of the MCP filter. An undisturbed stream has a reader before its endpoint is announced (`LinksOK`), its endpoint is the first thing on the wire or heard (`OrderOK`), whoever posts has heard of the session (`PostedOK`), an answer is on the wire or heard only of a call that is done and, undisturbed, once and not in both places (`OnceOK`), and is there when the call is done (`AnsweredOK`). A publication that is run again ends the quiet with the same step (`DisturbedPublish`).
- `StreamProofs`, moderated answers (`ModerationHolds`, for any number of pieces and any batch). `OnlyPassedInOrder` is not inductive: that nothing is shown twice or out of turn depends on where a piece that is not yet shown may be. `GuardOK` adds it: every piece that came is held, under judgement, shown or refused, and in one of these places (`Whereabouts`); what was shown rises, and so does what is held, and all of it comes after what was shown (`Orderly`); a text that was refused has nothing under judgement, and one that is closed is asked about no more (`TextGuard`, and `McpGuard` for an MCP answer, which is judged as a whole).
- `StreamProofs`, the Claude stream (`MessagesAreWellFormed`, for any number of tool calls and of pieces). The client is a fold over what was emitted, and the handler of the finish reason folds twice over the tool calls, so that this needs induction: a set of numbers has a smallest element (`Smallest`, from the well-foundedness of the order), hence `ByInduction`, with a set for what is to be shown; `Folding` is the function a fold is defined by, of which one more event is one more application (`ReadMore`, `OneByOne`). The inductive invariant is `ClaudeOK`: the client has of the message and its blocks the picture the converter has (`Mirrors`), the tool calls that were named are known, one of them is open with all its arguments so far and the others wait with theirs cached (`ToolsFollow`), and a block of reasoning or text is closed only once a later kind of content came (`RanksFollow`). Each event, each block and each part of a chunk is a lemma; `BeginsAll` and `EndsAll` are the two folds of the finish reason, after which every tool call has what was sent for it and nothing is open. `NothingLeft` is what keeps `[DONE]` behind the usage from writing behind the end.
- `WasmPluginsProofs`, the host. A request keeps its shape (`Formed`), what the calls carry left open, and is in order (`Sound`): held only by a handler, answered at most once, with a call under way only while it is held or its stream is gone, and two only if they are parts of one question. What a handler, a callback, an answer or the end of a stream does to such a request is a lemma for each way of leaving it (`Continued`, `Postponed`, `Paused`, `Replied`, ...), and every handler and callback of the twenty-five plugins leaves by one of these. `HostInv` adds what the count of `ai-search` and `ai-image-reader` is for (`Gathering`): the calls that are back and those still out make up those that were sent. Where `response-cache` takes its key from a header and looks it up while the request goes on, none of this holds, and the invariant says so (`LooksUpMeanwhile`); `AnsweredOnceOnly` leaves out that configuration only.
- `WasmPluginsProofs`, the limits. `ReplayInv`: who was told OK is the one the store names for its nonce. `ClusterInv`: the requests let in since the window began are no more than the count, nor than the threshold; the script counts and answers in one step, so that the order of the callbacks says nothing. `TokenInv`: the count is at most the threshold and the tokens of one answer; the script looks at the count again before it adds to it, which is why charges that wait together do not add up.
- `WasmPluginsProofs`, retries. `RetryInv`: the tokens tried are distinct, only the one in use may still be in the list that is left, and there is one more of them than retries; a failure that was passed on is tied to an empty list, the last retry or a request that could not be sent (`UsedUp`).
- `WasmPluginsProofs`, conversations. `HistoryInv` says of everything that holds turns (the store, what a request read, what waits to be written) that they are turns of requests with that identity. `AgentInv` relates the shared list to the requests that were over when another came: it holds none of theirs, since the first thing the new one does is to empty it.
- `WasmPluginsProofs`, who is admitted. `Judged` says, plugin by plugin, what is known of a request at the stage and with the call it has reached, so that a request held by one handler is still one that the next may let through; admission and entitlement are the two halves of one invariant (`AccessInv`).
- `WasmPluginsProofs`, the security guard. `TextUnderWay` and `ImageUnderWay` say that all before the piece or the image under way was said something of; `Cleared` that everything due was. They hold for any number of pieces and images.
- `WasmPluginsProofs`, the caches. That answers do not drift is not inductive: a callback writes what it carries, and what it carries came from the cache. `Lineage` says of every call under way, and of every fact that has one, whose answer it is and how close that one's question is; `StoredRight`, `PostedRight` and `VectorRight` say the same of Redis, of the commands nobody waits for and of the vectors. `LeftAlone` says that a request that is to leave the cache alone waits for nothing and was served nothing, and `Through` that whatever left a trace is over and was told nothing of the kind (`CacheInv`). Of similarity nothing is assumed but what its definition says: it is symmetric, and a question is similar to itself. Where `response-cache` looks up while the request goes on, a request may be served before it says so, which is the exception of the property.

The watchers assume of the constants that `None` is no record, no number and none of the names, and of the
worlds of ZooKeeper that there are finitely many services in them and that a set of children is a content
(`NoneIsNoRecord`, `NoneIsNoCount`, `WorldsMakeData`).

The proof of `WatchedIsPublished` failed at first, and for a good reason. The library calls the listeners of MCP
servers in goroutines whose order nobody keeps: a callback that was told an older version, or older endpoints,
may look last, and then the server stays at what is no longer so although nothing is under
way (`client.go:225`, `434`). TLC found the trace with more callbacks than the run has. The model had let the
exceptions be too small; `VersionsChanged` and `InstancesChanged` now name such a callback, too (`spoiled`).

What the proofs about the plugins assume of the constants is stated in the modules and evaluated in every run:
the names of calls contain those the plugins use, and the parts of a question are others and finite in
number (`WasmAssumption`); a request, `None`, `Sent` and `Failed` are no numbers, words or sequences, and the last
three differ, and no key is one of the marks a cache makes in a context (`OpaqueAssumption`); at least one retry (`RetriesAssumption`), a natural number of pieces
(`PartsAssumption`). A request with a body is an input only for a plugin with a handler
for it (`ReadNoBody`): the host passes a body of the others by, and nothing could be said of it.

The type invariants, `OnlyStoredIsMarked` and `StopsOnlyWatchersItHas` are proved and so no longer part of a run.

Only model-checked: the arrival of answers (`AnswersArrive`); and liveness (`SessionsEnd`, `ReconcileReturns`, `StopReturns`, `PollersStop`,
`AddressFollowed`, `TokensRecover`, `HeldRequestsMoveOn`, `StreamsEnd`), for which the prover has no rule.

## 6. What the violated runs show

- `reconciler_purge`: a call that fails or times out records its watchers; the next call finds nothing to do, waits for nobody, and purges what they had not published yet.
- `prefix_cache`: the key of a conversation is the exclusive or of the hashes of its turns, so "hi, more" and "more, hi" have the same key; the second overwrites the host of the first, and a continuation of the first goes to the pod of the second, although `README_EN.md:95` of the plugin says that requests with the same prefix go to the same pod. The hashes of two turns that are the same cancel out, too.
- `claude_blocks`: at the finish reason the converter starts every tool call that had to wait while the block of the active one is still open, and stops them all afterwards, although it says (`claude_to_openai.go:615`, `675`) that Claude requires them one after another.
- `api_workflow`: the counts of missing tasks are initialised once, in the configuration, and used up by the first request; a second one finds them at zero or below and is refused, although `main.go:183` says that the state of the run is initialised.

Seen while modelling and stated as exceptions of the properties, or left as they
are, since no text of the repository claims otherwise:

*Registries.* A direct watcher whose `Run` is scheduled after its `Stop` publishes
all the same (`RanLate`). After an address change the services already watched stay
subscribed at the old Nacos client (`former`). Services a registry stops listing
stay in the cache for good, with every polling watcher and Nacos v2 (`dropped`). A
callback may write a service after `Stop` (`lateCalls`, `late`). `UpdateProxyWrapper`
clears a deferred mark among the services (`memory/cache.go:229`). The purge of the same call hides that the mark
of the proxy stays, but a service that is marked and has the name of the proxy is never purged; the proof of
`ConvergedWhenOk` came upon this, and the property names it. Any reader of all services empties the lists the
incremental reader relies on. The pollers say they are ready before a
callback has published anything, and may say so after `Stop`. A list of
Nacos v1 that fails half-way is taken for whole, and the rest is unsubscribed. An update
that a Consul callback finds empty deletes nothing (`consul/watcher.go:307` is commented
out). The refresh of Eureka does not look at `isStop`. In ZooKeeper the last child
of a service is never removed, and a child that cannot be read is missing until the next look. Of MCP
servers: a callback of the versions that runs after its server was cancelled
dereferences a missing context and panics (`client.go:233`); the callback of the
endpoints keeps the name of the first backend (`client.go:443`); a page of the list that cannot
be read removes the servers on it (`client.go:143`); a callback that was told of an older version, or of older endpoints, may look
last and is believed (`client.go:225`, `434`); a failed unsubscription leaves
a server watched but not listened to; nothing removes the rule for TLS or the
endpoints once they are gone, because an empty update is ignored unless it is forced.

*Tokens and counts.* A swap abandoned after its retries is taken for done (`gaveUp`).
A failover and a recovery of one token interleave and leave it on both lists
(`failover.go:329`, `349`). Between two swaps both lists may be empty, and the draw of
a random index panics (`failover.go:540`). A cleanup run by a gateway that does not
list a host drops its count, and others are admitted on top (`lb_policy.go:87`).

*Load balancers.* When the known beginning of a conversation leads to a host that is not
healthy, `prefix_cache` adds the turn of that key to it once more and writes keys nobody looks for; the key of the
unhealthy host stays. In `cluster_metrics` a stream that ends without a response is taken
off the count and then panics, because there is no status (`HandleHttpStreamDone`); a failed request
records twice the longest average, so that a series of failures doubles it each time. In
`endpoint_metrics` the pod drawn in place of one that had its share may have its own; every
request is critical, so the flow for others is never entered; one pod without metrics
turns the policy off.

*MCP sessions.* `keepAlive` closes the client that all streams are subscribed with: they stay open and
hear nothing more. It replaces `r.client` without a lock. `Merge` copies the Redis client of the parent,
and `Destroy` of either closes it for both. The limit and the header read the configuration apart, so a call may go on with neither.
A call whose script ran while the reply was lost is counted and refused, or counted twice
(`rate_limit_handler.go:94`); a publication run again reaches the client twice. The check for Redis is inside `if !ok` (`config.go:80`): servers per user without Redis are accepted, and every call panics.

*Wasm plugins.* `jwt-auth` takes the token out of the request for the first consumer
it tries. `hmac-auth-apisix` forgets its rules on a route without a list. `key-auth` looks into the query only
if it does not look into headers (`main.go:268`): with `in_query` and `in_header` both true, which `README_EN.md:24`
and `25` allow and call the default, a key in the query is refused (`QueryUnread`); with neither
given the configuration is refused, and one that is not given counts as false (`main.go:163`).
`ai-cache`, `response-cache` and `ai-quota` hold the headers of a request whose content type they read, body or not:
without one the request waits for ever.
`response-cache` with a key from a header looks it up while the request goes on.
`opa` and `ai-quota` hold a request whose call could not be made. `ai-cache` ignores the error of
its second lookup (`core.go:175`) and holds the request; `chroma` and
`elasticsearch` panic on answers without what they expect; `ollama` calls its caller back twice.
`enableSemanticCache` is off by default (`ai-cache/config/config.go:92`), on in the README.

In `ai-agent` the messages of all requests of a VM are one list: requests that run at
one time read each other's, and an error while an answer is held resumes the request instead
(`main.go:515`). In `ai-history` all requests without an identity share one history, and of two that
end at one time one turn is lost. `ai-search` changes the number of questions for all later requests
when one names a size (`main.go:324`). An error in a callback of `ai-transformer`, `ai-rag` or
`ai-agent` is a Go panic after which nothing resumes what is held. `ai-security-guard` lets a request
or an answer go when a check fails, however many pieces are left, and skips an image whose
check fails. A file that could not be loaded for `ai-proxy` is answered twice; the host drops the second.

*Streams.* Usage that comes with the finish reason is dropped, and usage before it ends the
message early; content turned back to an earlier kind goes to a stopped block. With
references at the head, an answer shorter than the buffer and one that thinks lose
content, and content behind the insertion in one chunk is lost or repeated. The MCP guard goes on injecting
behind a refusal, and its plain events overtake those in the queue. A check of text that
cannot be sent leaves the stream waiting for ever, and so does a refusal with an empty list of advice, whose first is read
(`common/text/openai.go:69`); one that fails drops its pieces.
Of the translations in `ai-proxy`: providers that split a chunk into lines (Claude, Gemini, Dify, Minimax, Spark, Triton) skip an event that is
cut and pass the last chunk on as it came; Vertex drops the last chunk. Hunyuan loses an event that is cut,
passes a chunk without a whole event on raw and panics at a last event without its end; Bedrock
passes such a chunk on raw and keeps it, too. A cut between CR and LF makes `ExtractStreamingEvents` slice from -1
(`provider.go:902`). An event of Qwen for which there is nothing to say (a call without arguments, which
`qwen.go:368` means to skip, or reasoning that is ignored) goes to the client in Qwen's format (`main.go:422`),
and the first message that grows keeps its reasoning.

*Workflows.* An edge that is passed over counts down twice; the loop over edges returns at the
first whose target waits; where no condition holds the request waits for ever.

## 7. Not modelled

Envoy configuration as text, name formatting and validation of addresses (data);
logging; the status page; the map of endpoints by IP, which nothing fills; the
translation of Nacos instances into endpoints; the construction of a Nacos watcher, whose first
client is stored without the mutex while `updateNacosClient` already runs (the
model starts when it is there). Of the MCP server watcher: the credentials that a document of tools
refers to, and protocols other than http and https. Of `ai-proxy`: how an answer is rewritten. Of `mcp-session`: an upstream that speaks
server-sent events itself, paths without a user, calls without a body, how long messages wait in the client
library. Of `key-auth`: a URL that does not parse. The components listed as `not_modelled` in `PROJECT.json` carry their reason.

The larger part of this repository keeps no state between two steps: generated
code, the translation of bodies between some forty model providers, tool
servers that turn a call into an HTTP request, the installer, filters in other
languages that rewrite one request at a time. A state machine says nothing of
them that their text does not, and so the models here stand for the smaller part that decides,
waits, counts and shares.

## 8. Plan

Done: the queue, the cache, the reconciler, the direct, polling, ZooKeeper, Nacos
v2 and MCP server watchers, the token failover and its lease, the policies of the
balancer, admission, consumers, limits, caches, the requests of `ai-proxy`, chains of calls,
conversations, the security guard, the four kinds of rewritten streams, the workflow, MCP sessions.

Left, in order:

1. `ListenerPorts`: the choice of ports of `proxy/factory.go` as a pure algorithm against a reference definition.
2. The tools of an MCP server (`mcp-session/common/server.go`) while its Nacos registry replaces them (`mcp-server/registry/nacos/`): the list is cleared and filled in two critical sections.
3. The endpoint event of an upstream with server-sent events (`mcp-session/filter.go:293`).
4. Theorems: `AnswersArrive` for the four streams, the larger part of which is induction over an answer.
