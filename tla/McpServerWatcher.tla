-------------------------- MODULE McpServerWatcher --------------------------
(***************************************************************************)
(* registry/nacos/mcpserver, and the part of the cache that holds what it  *)
(* publishes.  The watcher lists the MCP servers of Nacos on every tick and *)
(* listens to each.  The client follows a server through three documents:   *)
(* its versions, which name the latest one, and the specification and the   *)
(* tools of that version; the specification names the backend service, whose*)
(* endpoints are followed too.  Each callback is a goroutine, changes the   *)
(* context of the server, takes a picture of it, and writes the             *)
(* configurations; no lock keeps two of them apart.                         *)
(***************************************************************************)
EXTENDS ServiceCache, FiniteSets

CONSTANTS
    McpServer,    \* the servers there may be in Nacos
    Version,      \* their versions
    Backend,      \* the services they are served by
    Tools,        \* what the document of their tools may say
    Hosts,        \* what a backend's instances may be
    NoHosts,      \* that it has none, one of Hosts
    Unread,       \* the content of a document that could not be read
    MaxMcpEvents, \* bound: changes in Nacos, and requests to it that fail
    MaxMcpCalls   \* bound: callbacks under way at once

ASSUME McpAssumption ==
    /\ MaxMcpEvents \in Nat /\ MaxMcpCalls \in Nat
    /\ None \notin Version \cup Backend \cup Hosts \cup Tools \cup {"run"} /\ Unread \notin Version
    /\ NoHosts \in Hosts /\ Hosts # {NoHosts} /\ Version # {} /\ Backend # {} /\ Tools # {}

VARIABLES
    nacos,     \* what Nacos holds
    client,    \* the NacosRegistryClient: the context of each server, and its callbacks
    mcp,       \* the watcher, and its history
    configs    \* the configurations in the cache, by server and kind

mcpVars == <<nacos, client, mcp, configs>>

\* The protocol of a server is http or https.
ServerSpec == [ref : Backend, https : BOOLEAN]

\* What the client knows of a server: its documents, with the version they are of, what their
\* listeners were last told and whether these are still registered, and its endpoints.
SpecDocument == [version : Version, data : ServerSpec, told : ServerSpec, on : BOOLEAN]
ToolsDocument == [version : Version, data : Tools, told : Tools, on : BOOLEAN]
Endpoints == [name : Backend, hosts : Hosts]
ServerContext ==
    [version : Version \cup {None}, told : Version \cup {None, Unread},
     spec : SpecDocument \cup {None}, tools : ToolsDocument \cup {None},
     service : Endpoints \cup {None}, callbackRef : Backend \cup {None},
     subscribed : [Backend -> Hosts \cup {None}], spoiled : BOOLEAN]

ASSUME NoneIsNoRecord ==
    None \notin ServerContext \cup SpecDocument \cup ToolsDocument \cup Endpoints
                \cup [host : Backend, hosts : Hosts]
                \cup [server : McpServer, content : Version \cup {Unread}]

\* The fifth kind, the McpServer itself, comes and goes with the VirtualService.
Kind == {"ServiceEntry", "VirtualService", "DestinationRule", "WasmPlugin"}
NoConfigs == [k \in Kind |-> None]

\* told is what a listener was last called with; the client calls it when that has changed.
\* spoiled is history: a request failed, or a callback came late for what it was about.
NewServerContext ==
    [version |-> None, told |-> None, spec |-> None, tools |-> None, service |-> None,
     callbackRef |-> None, subscribed |-> [b \in Backend |-> None], spoiled |-> FALSE]

\* Every version of a server starts out with the same documents.
McpInit ==
    /\ \E https \in BOOLEAN :
       LET spec == [ref |-> CHOOSE b \in Backend : TRUE, https |-> https] IN
         nacos = [listed |-> McpServer, latest |-> [s \in McpServer |-> CHOOSE v \in Version : TRUE],
                  spec |-> [s \in McpServer |-> [w \in Version |-> spec]],
                  tools |-> [s \in McpServer |-> [w \in Version |-> CHOOSE t \in Tools : TRUE]],
                  hosts |-> [b \in Backend |-> CHOOSE h \in Hosts : h # NoHosts], events |-> 0]
    /\ client = [servers |-> [s \in McpServer |-> None], calls |-> {}, crashed |-> FALSE]
    /\ mcp = [watchingConfig |-> {}, mutex |-> "free", run |-> "fetch", listening |-> None,
              left |-> {}, isStop |-> FALSE, ready |-> FALSE, stopper |-> "no",
              late |-> {}, kept |-> {}, crossed |-> {}]
    /\ configs = [s \in McpServer |-> NoConfigs]

Up == ~ client.crashed
Context(s) == client.servers[s]
Busy == nacos.events < MaxMcpEvents
Counted(n) == [n EXCEPT !.events = @ + 1]

-----------------------------------------------------------------------------
(* Nacos *)

NacosChanges ==
    /\ Up /\ Busy
    /\ \/ \E s \in McpServer, v \in Version :
            \/ v # nacos.latest[s] /\ nacos' = [Counted(nacos) EXCEPT !.latest[s] = v]
            \/ \E spec \in ServerSpec \ {nacos.spec[s][v]} :
                  nacos' = [Counted(nacos) EXCEPT !.spec[s][v] = spec]
            \/ \E tools \in Tools \ {nacos.tools[s][v]} :
                  nacos' = [Counted(nacos) EXCEPT !.tools[s][v] = tools]
       \/ \E s \in McpServer : nacos' = [Counted(nacos) EXCEPT !.listed = (@ \ {s}) \cup ({s} \ @)]
       \/ \E b \in Backend : \E h \in Hosts \ {nacos.hosts[b]} :
             nacos' = [Counted(nacos) EXCEPT !.hosts[b] = h]
    /\ UNCHANGED <<client, mcp, configs>>

\* A callback: of which document or backend, what it is told, and whether the client still has
\* the entry it was registered for, the context only, or nothing of it.
NewCall(s, what, of, data) ==
    [server |-> s, what |-> what, of |-> of, data |-> data, sees |-> "entry", step |-> "start",
     left |-> {}, picture |-> None]

CallsBack(c, calls) ==
    /\ Cardinality(client.calls) < MaxMcpCalls
    /\ client' = [calls EXCEPT !.calls = @ \cup {c}]

\* The library calls a listener back, until the client is closed.
Notifies(s) ==
    /\ Up /\ mcp.stopper # "done" /\ Context(s) # None
    /\ LET ctx == Context(s) IN
        \/ /\ ctx.told # None /\ ctx.told # nacos.latest[s]
           /\ CallsBack(NewCall(s, "versions", None, nacos.latest[s]),
                      [client EXCEPT !.servers[s].told = nacos.latest[s]])
        \/ /\ ctx.spec # None
           /\ LET spec == nacos.spec[s][ctx.spec.version] IN
                /\ ctx.spec.on /\ ctx.spec.told # spec
                /\ CallsBack(NewCall(s, "spec", ctx.spec.version, spec),
                           [client EXCEPT !.servers[s].spec.told = spec])
        \/ /\ ctx.tools # None
           /\ LET tools == nacos.tools[s][ctx.tools.version] IN
                /\ ctx.tools.on /\ ctx.tools.told # tools
                /\ CallsBack(NewCall(s, "tools", ctx.tools.version, tools),
                           [client EXCEPT !.servers[s].tools.told = tools])
        \/ \E b \in Backend :
                /\ ctx.subscribed[b] \notin {None, nacos.hosts[b]}
                /\ CallsBack(NewCall(s, "naming", b, nacos.hosts[b]),
                           [client EXCEPT !.servers[s].subscribed[b] = nacos.hosts[b]])
    /\ UNCHANGED <<nacos, mcp, configs>>

-----------------------------------------------------------------------------
(* The callbacks. A context that was replaced is out of sight: what is done to it is left out. *)

Replaced(calls, c, d) == [calls EXCEPT !.calls = (@ \ {c}) \cup {d}]
Returned(calls, c) == [calls EXCEPT !.calls = @ \ {c}]
Failing(n, ctx) == [n |-> Counted(n), ctx |-> [ctx EXCEPT !.spoiled = TRUE]]
Going(n, ctx) == [n |-> n, ctx |-> ctx]

\* refreshServiceListenerIfNeeded. The callback keeps the name of the first backend it was
\* made for. Each of the three requests may fail; only the second ends it.
Unsubscribed(x) ==
    LET old == x.ctx.service IN
    IF old = None THEN {x}
    ELSE {[x EXCEPT !.ctx.subscribed[old.name] = None]}
         \cup (IF x.n.events < MaxMcpEvents THEN {Failing(x.n, x.ctx)} ELSE {})

Resubscribed(x, ref) ==
    LET named == [x.ctx EXCEPT !.service = [name |-> ref, hosts |-> x.n.hosts[ref]],
                               !.callbackRef = IF @ = None THEN ref ELSE @]
    IN {Going(x.n, [named EXCEPT !.subscribed[ref] = x.n.hosts[ref]])}
       \cup (IF x.n.events < MaxMcpEvents THEN {Failing(x.n, x.ctx), Failing(x.n, named)} ELSE {})

Refreshed(x, ref) ==
    IF x.ctx.service # None /\ x.ctx.service.name = ref THEN {x}
    ELSE UNION {Resubscribed(y, ref) : y \in Unsubscribed(x)}

\* What the documents of a version say, and the backend followed if it is the specification.
Document(n, s, what, v) == IF what = "spec" THEN n.spec[s][v] ELSE n.tools[s][v]
Read(x, what, data) == IF what = "spec" THEN Refreshed(x, data.ref) ELSE {x}

\* ListenToConfig for the documents of the version; the listener of the older one is gone by
\* then. A document that cannot be read leaves the older one in the context.
Listened(x, s, what, v) ==
    LET data == Document(x.n, s, what, v)
        new == [version |-> v, data |-> data, told |-> data, on |-> TRUE]
    IN {[y EXCEPT !.ctx[what] = new] : y \in Read(x, what, data)}
       \cup (IF x.n.events < MaxMcpEvents
             THEN {Failing(x.n, IF x.ctx[what] = None THEN x.ctx ELSE [x.ctx EXCEPT ![what].on = FALSE])}
             ELSE {})

\* The calls of listeners that were registered for a document that is replaced.
Outdating(calls, s, what) ==
    {IF d.server = s /\ d.what = what /\ d.sees = "entry" THEN [d EXCEPT !.sees = "context"] ELSE d : d \in calls}

\* Another call of the same listener has not run yet, or is still at work: the library does not
\* keep their order.
Overtakes(c) ==
    \E d \in client.calls \ {c} :
        /\ d.server = c.server /\ d.what = c.what
        /\ d.step \in {"start", "documents"} /\ d.of = c.of
Late(ctx, condition) == [ctx EXCEPT !.spoiled = @ \/ condition]

\* The first thing a callback of the versions does is to look its server up: it panics when
\* that was cancelled meanwhile. If it is watched again, the callback goes on with what it was
\* told before. Nothing happens to a document that cannot be parsed.
VersionsChanged(c) ==
    /\ c.what = "versions" /\ c.step = "start"
    /\ LET s == c.server
           late == c.sees = "nothing" \/ Overtakes(c) IN
         client' = IF Context(s) = None THEN [client EXCEPT !.crashed = TRUE]
                   ELSE IF c.data \in {Unread, Context(s).version}
                   THEN [Returned(client, c) EXCEPT !.servers[s] = Late(@, late)]
                   ELSE [Replaced(client, c, [c EXCEPT !.sees = "entry", !.step = "documents",
                                                       !.left = {"spec", "tools"}])
                            EXCEPT !.servers[s] = [Late(@, late) EXCEPT !.version = c.data]]
    /\ UNCHANGED <<nacos, mcp, configs>>

\* The documents of the new version, in any order.
OnServerVersionChanged(c, what) ==
    /\ c.step = "documents" /\ what \in c.left
    /\ LET s == c.server
           on == [c EXCEPT !.left = @ \ {what}, !.step = IF c.left = {what} THEN "trigger" ELSE @]
       IN IF c.sees = "nothing" THEN client' = Replaced(client, c, on) /\ UNCHANGED nacos
          ELSE \E x \in Listened(Going(nacos, Context(s)), s, what, c.data) :
                 /\ nacos' = x.n
                 /\ client' = [client EXCEPT !.servers[s] = x.ctx,
                                             !.calls = Outdating(@ \ {c}, s, what) \cup {on}]
    /\ UNCHANGED <<mcp, configs>>

\* Mutant of DocumentChanged: the backend is followed only when the version changes.
DocumentChangedAlone(c) ==
    /\ c.what \in {"spec", "tools"} /\ c.step = "start"
    /\ LET s == c.server
           on == [c EXCEPT !.step = "trigger"]
       IN client' = IF c.sees = "entry" /\ Context(s)[c.what].data = c.data THEN Returned(client, c)
                    ELSE [Replaced(client, c, on) EXCEPT !.servers[s] =
                             IF c.sees = "entry" THEN [Late(@, Overtakes(c)) EXCEPT ![c.what].data = c.data]
                             ELSE @]
    /\ UNCHANGED <<nacos, mcp, configs>>

\* A listener of a document that was replaced meanwhile still follows the backend it names.
DocumentChanged(c) ==
    /\ c.what \in {"spec", "tools"} /\ c.step = "start"
    /\ LET s == c.server
           on == [c EXCEPT !.step = "trigger"]
           ctx == IF c.sees = "entry" THEN [Late(Context(s), Overtakes(c)) EXCEPT ![c.what].data = c.data]
                                      ELSE Late(Context(s), TRUE)
       IN CASE c.sees = "nothing" -> client' = Replaced(client, c, on) /\ UNCHANGED nacos
            [] c.sees = "entry" /\ Context(s)[c.what].data = c.data ->
                   /\ client' = [Returned(client, c) EXCEPT !.servers[s] = Late(@, Overtakes(c))]
                   /\ UNCHANGED nacos
            [] OTHER -> \E x \in Read(Going(nacos, ctx), c.what, c.data) :
                   /\ nacos' = x.n
                   /\ client' = [Replaced(client, c, on) EXCEPT !.servers[s] = x.ctx]
    /\ UNCHANGED <<mcp, configs>>

\* The endpoints go to whatever service the context has by now, under the name the callback
\* was made with. The service is changed in place, so that pictures taken of it change too.
InstancesChanged(c) ==
    /\ c.what = "naming" /\ c.step = "start"
    /\ LET s == c.server
           on == [c EXCEPT !.step = "trigger"]
           ctx == Context(s)
           changed == [name |-> ctx.callbackRef, hosts |-> c.data]
           Shown(d) == IF d.server = s /\ d.step = "write" /\ d.picture.service = ctx.service
                       THEN [d EXCEPT !.picture.service = changed] ELSE d
       IN client' = IF c.sees = "nothing" THEN Replaced(client, c, on)
                    ELSE [client EXCEPT
                        !.servers[s] = [Late(ctx, \/ Overtakes(c) \/ c.of # ctx.callbackRef
                                                \/ c.of # ctx.service.name \/ c.data # ctx.subscribed[c.of])
                                           EXCEPT !.service = changed],
                        !.calls = {Shown(d) : d \in @ \ {c}} \cup {on}]
    /\ UNCHANGED <<nacos, mcp, configs>>

\* triggerMcpServerChange and mapConfigMapToServerConfig.
Trigger(c) ==
    /\ c.step = "trigger"
    /\ LET ctx == Context(c.server) IN
         client' = IF ctx = None THEN Returned(client, c)
                   ELSE Replaced(client, c, [c EXCEPT !.step = "write",
                            !.picture = [spec |-> ctx.spec, tools |-> ctx.tools, service |-> ctx.service]])
    /\ UNCHANGED <<nacos, mcp, configs>>

\* UpdateConfigCache: nothing is deleted unless it is forced, and then all of a server is.
UpdateConfigCache(old, new) == [k \in Kind |-> IF new[k] = None THEN old[k] ELSE new[k]]

\* mcpServerListener: the configurations there are to a picture. A server has no entry without
\* instances, no rule unless TLS is needed, and no plugin unless its tools are known.
ServiceEntryOf(spec, service) ==
    IF service = None \/ service.hosts = NoHosts THEN None ELSE [host |-> spec.ref, hosts |-> service.hosts]
VirtualServiceOf(spec) == spec.ref
DestinationRuleOf(spec) == IF spec.https THEN spec.ref ELSE None
WasmPluginOf(tools) == IF tools = None THEN None ELSE tools.data

ConfigsOf(picture) ==
    LET spec == picture.spec.data IN
    [k \in Kind |-> CASE k = "ServiceEntry" -> ServiceEntryOf(spec, picture.service)
                      [] k = "VirtualService" -> VirtualServiceOf(spec)
                      [] k = "DestinationRule" -> DestinationRuleOf(spec)
                      [] OTHER -> WasmPluginOf(picture.tools)]

\* It does not look whether the watcher was stopped or the server given up.
PublishServer(c) ==
    /\ c.step = "write"
    /\ LET s == c.server IN
         /\ configs' = IF c.picture.spec = None THEN configs
                       ELSE [configs EXCEPT ![s] = UpdateConfigCache(@, ConfigsOf(c.picture))]
         /\ mcp' = [mcp EXCEPT !.late = IF Context(s) = None THEN @ \cup {s} ELSE @,
                               !.crossed = IF \E d \in client.calls \ {c} : d.server = s /\ d.step = "write"
                                           THEN @ \cup {s} ELSE @]
    /\ client' = Returned(client, c)
    /\ UNCHANGED nacos

CallbackStep(c) ==
    \/ VersionsChanged(c) \/ DocumentChanged(c) \/ InstancesChanged(c) \/ Trigger(c) \/ PublishServer(c)
    \/ \E what \in c.left : OnServerVersionChanged(c, what)

-----------------------------------------------------------------------------
(* The watcher: Run and fetchAllMcpConfig, which holds the mutex to its end *)

\* CancelListenToServer: the context goes, even if the endpoints cannot be unsubscribed from,
\* and then an error is returned. Listeners are only struck off the library's own lists.
CancelListenToServer(s) ==
    client' = [client EXCEPT !.servers[s] = None,
                             !.calls = {IF d.server = s THEN [d EXCEPT !.sees = "nothing"] ELSE d : d \in @}]
CancelFails(s) ==
    /\ Context(s) # None /\ Context(s).service # None
    /\ Busy /\ nacos' = Counted(nacos)
    /\ CancelListenToServer(s)
    /\ UNCHANGED configs

\* Mutant of Forget: the deletion is not forced.
ForgetUnforced(s) ==
    /\ CancelListenToServer(s)
    /\ configs' = [configs EXCEPT ![s] = UpdateConfigCache(@, NoConfigs)]
    /\ UNCHANGED nacos

\* What the server has in the cache is deleted at once.
Forget(s) ==
    /\ CancelListenToServer(s)
    /\ configs' = [configs EXCEPT ![s] = NoConfigs]
    /\ UNCHANGED nacos

\* A page that cannot be listed ends the list, and a server that cannot be read is left out of
\* it; neither is an error.
BeginMcpFetch ==
    /\ Up /\ mcp.run = "fetch" /\ mcp.mutex = "free"
    /\ IF mcp.isStop THEN mcp' = [mcp EXCEPT !.run = "ready"] /\ UNCHANGED nacos
       ELSE \E fetched \in SUBSET nacos.listed :
              /\ \/ fetched = nacos.listed /\ UNCHANGED nacos
                 \/ fetched # nacos.listed /\ Busy /\ nacos' = Counted(nacos)
              /\ mcp' = [mcp EXCEPT !.run = "cancelling", !.mutex = "run", !.left = fetched]
    /\ UNCHANGED <<client, configs>>

CancelServer(s) ==
    /\ Up /\ mcp.run = "cancelling" /\ s \in mcp.watchingConfig \ mcp.left
    /\ \/ Forget(s) /\ mcp' = [mcp EXCEPT !.watchingConfig = @ \ {s}]
       \/ CancelFails(s) /\ mcp' = [mcp EXCEPT !.run = "fetch", !.mutex = "free", !.left = {},
                                               !.kept = @ \cup {s}]

BeginListening ==
    /\ Up /\ mcp.run = "cancelling" /\ mcp.watchingConfig \subseteq mcp.left
    /\ mcp' = [mcp EXCEPT !.run = "listening", !.left = @ \ mcp.watchingConfig]
    /\ UNCHANGED <<nacos, client, configs>>

\* ListenToMcpServer calls the callback of the versions itself, and registers it behind that.
ListenToMcpServer(s) ==
    /\ Up /\ mcp.run = "listening" /\ mcp.listening = None /\ s \in mcp.left
    /\ Cardinality(client.calls) < MaxMcpCalls
    /\ \E content \in {nacos.latest[s]} \cup (IF Busy THEN {Unread} ELSE {}) :
         /\ nacos' = IF content = Unread THEN Counted(nacos) ELSE nacos
         /\ client' = [client EXCEPT !.servers[s] = NewServerContext,
                                     !.calls = @ \cup {NewCall(s, "versions", "run", content)}]
         /\ mcp' = [mcp EXCEPT !.left = @ \ {s}, !.listening = [server |-> s, content |-> content]]
    /\ UNCHANGED configs

ListensToMcpServer ==
    /\ Up /\ mcp.listening # None
    /\ ~ \E c \in client.calls : c.of = "run"
    /\ client' = [client EXCEPT !.servers[mcp.listening.server].told = mcp.listening.content]
    /\ mcp' = [mcp EXCEPT !.listening = None, !.watchingConfig = @ \cup {mcp.listening.server}]
    /\ UNCHANGED <<nacos, configs>>

McpFetchReturns ==
    /\ Up /\ mcp.run = "listening" /\ mcp.listening = None /\ mcp.left = {}
    /\ mcp' = [mcp EXCEPT !.run = "ready", !.mutex = "free"]
    /\ UNCHANGED <<nacos, client, configs>>

SayMcpReady ==
    /\ Up /\ mcp.run = "ready"
    /\ mcp' = [mcp EXCEPT !.run = "fetch", !.ready = TRUE]
    /\ UNCHANGED <<nacos, client, configs>>

McpRunReturns ==
    /\ Up /\ mcp.run = "fetch" /\ mcp.stopper = "done"
    /\ mcp' = [mcp EXCEPT !.run = "done"]
    /\ UNCHANGED <<nacos, client, configs>>

BeginMcpStop ==
    /\ Up /\ mcp.stopper = "no" /\ mcp.mutex = "free"
    /\ mcp' = [mcp EXCEPT !.stopper = "servers", !.mutex = "stop", !.left = mcp.watchingConfig]
    /\ UNCHANGED <<nacos, client, configs>>

StopServer(s) ==
    /\ Up /\ mcp.stopper = "servers" /\ s \in mcp.left
    /\ \/ Forget(s) /\ mcp' = [mcp EXCEPT !.left = @ \ {s}, !.watchingConfig = @ \ {s}]
       \/ CancelFails(s) /\ mcp' = [mcp EXCEPT !.left = @ \ {s}, !.kept = @ \cup {s}]

EndMcpStop ==
    /\ Up /\ mcp.stopper = "servers" /\ mcp.left = {}
    /\ mcp' = [mcp EXCEPT !.stopper = "done", !.mutex = "free", !.isStop = TRUE, !.ready = FALSE]
    /\ UNCHANGED <<nacos, client, configs>>

-----------------------------------------------------------------------------
McpNext ==
    /\ \/ NacosChanges
       \/ \E s \in McpServer : Notifies(s) \/ CancelServer(s) \/ ListenToMcpServer(s) \/ StopServer(s)
       \/ \E c \in client.calls : Up /\ CallbackStep(c)
       \/ BeginMcpFetch \/ BeginListening \/ ListensToMcpServer \/ McpFetchReturns
       \/ SayMcpReady \/ McpRunReturns \/ BeginMcpStop \/ EndMcpStop
    /\ UNCHANGED cacheVars

McpSpec == McpInit /\ CacheInit /\ [][McpNext]_<<mcpVars, cacheVars>>

-----------------------------------------------------------------------------
\* Nothing of a server is under way, and its listeners know what Nacos holds.
Quiet(s) ==
    LET ctx == Context(s) IN
    /\ ctx # None /\ ctx.told = nacos.latest[s]
    /\ \A c \in client.calls : c.server # s
    /\ \A what \in {"spec", "tools"} :
          ctx[what] # None => ctx[what].told = Document(nacos, s, what, ctx[what].version)
    /\ \A b \in Backend : ctx.subscribed[b] \in {None, nacos.hosts[b]}

\* A server that is watched is listened to, unless it could not be unsubscribed from before.
\* When nothing of it is under way, the cache holds the documents of its latest version and the
\* endpoints of the backend they name. This is lost where a request failed while the documents
\* were read, where two callbacks of one server ran into each other or one came late or was overtaken
\* by a newer one, and where the backend changed, after which the callback carries the name of the
\* first one. What the latest version has none of, a rule of TLS or endpoints, stays as it was.
McpServersPublished ==
    \A s \in McpServer :
        /\ s \in mcp.watchingConfig => Context(s) # None \/ s \in mcp.kept
        /\ Quiet(s) /\ ~ Context(s).spoiled /\ s \notin mcp.crossed =>
             LET latest == nacos.latest[s]
                 spec == nacos.spec[s][latest]
             IN /\ configs[s]["VirtualService"] = spec.ref
                /\ configs[s]["WasmPlugin"] = nacos.tools[s][latest]
                /\ spec.https => configs[s]["DestinationRule"] = spec.ref
                /\ nacos.hosts[spec.ref] # NoHosts =>
                     configs[s]["ServiceEntry"] = [host |-> spec.ref, hosts |-> nacos.hosts[spec.ref]]

\* A server that is given up, because Nacos stopped listing it or the watcher was stopped,
\* leaves nothing in the cache, unless it could not be unsubscribed from or a callback that had
\* looked at it before wrote it again.
McpCleansUp ==
    \A s \in McpServer :
        Context(s) = None => configs[s] = NoConfigs \/ s \in mcp.late \cup mcp.kept
=============================================================================
