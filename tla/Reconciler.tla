----------------------------- MODULE Reconciler -----------------------------
(***************************************************************************)
(* registry/reconcile/reconcile.go driving the direct watchers of          *)
(* registry/direct/watcher.go over the shared service cache.  The          *)
(* reconciler is one thread: each McpBridge it is handed is reconciled to  *)
(* the end before the next.  Every watcher it starts is a goroutine of its *)
(* own, started with "go watcher.Run()" and stopped by a call from the     *)
(* reconciler, with nothing that orders the start of Run before Stop.      *)
(***************************************************************************)
EXTENDS ServiceCache, FiniteSets

CONSTANTS
    Registry,       \* registry keys, path.Join(type, name)
    HostOf,         \* the host of a registry, name.type
    Broken,         \* configurations no wrapper can be built from
    Bridge,         \* the McpBridge resources; an absent entry is None
    MaxWatchers,    \* bound on the watchers ever created
    MaxReconciles   \* bound on the calls of Reconcile

\* A registry or a proxy configuration determines the wrapper built from it.
Config == Data

ASSUME HostsAreDistinct ==
    /\ HostOf \in [Registry -> Service]
    /\ \A k, l \in Registry : HostOf[k] = HostOf[l] => k = l
ASSUME NoneIsNoConfig == None \notin Config
ASSUME BridgeType ==
    Bridge \subseteq [registries : [Registry -> Config \cup {None}],
                      proxies : [Proxy -> Config \cup {None}]]
ASSUME BoundsAreNat == MaxWatchers \in Nat /\ MaxReconciles \in Nat

VARIABLES
    \* the Reconciler
    registries,   \* r.registries: what each registry was started with
    watchers,     \* r.watchers
    proxies,      \* r.proxies
    \* the call of Reconcile in progress, and what the last one returned
    pc, bridge, result, calls,
    toBeDeletedKeys, toBeUpdatedKeys, toBeCreatedKeys,  \* what the loops have left
    restarting,   \* the updated registry whose old watcher was just stopped
    errHappened,
    pending,      \* the WaitGroup: watchers of this call that never said Ready
    proxiesToDelete, proxiesToUpdate, needNotify,
    \* the watchers, numbered in the order of their creation
    created, registryOf, configOf,
    run,          \* where the goroutine is: "new", "publishing", "done"
    stopped,      \* Stop was called
    late,         \* history: its Run began after its Stop
    dirty         \* history: the cache changed since the last serviceUpdate

mapVars == <<registries, watchers, proxies>>
loopVars == <<toBeDeletedKeys, toBeUpdatedKeys, toBeCreatedKeys, restarting, errHappened>>
proxyLoopVars == <<proxiesToDelete, proxiesToUpdate, needNotify>>
callVars == <<pc, bridge, result, calls>>
bornVars == <<created, registryOf, configOf>>
runVars == <<run, stopped, late>>
vars == <<cacheVars, mapVars, loopVars, proxyLoopVars, callVars, pending,
          bornVars, runVars, dirty>>

Watcher == 1 .. MaxWatchers
NoWatcher == 0
Born == 1 .. created

Published(w) == configOf[w] \notin Broken

Init ==
    /\ CacheInit
    /\ registries = [k \in Registry |-> None]
    /\ watchers = [k \in Registry |-> NoWatcher]
    /\ proxies = [p \in Proxy |-> None]
    /\ pc = "idle" /\ bridge = None /\ result = "none" /\ calls = 0
    /\ toBeDeletedKeys = {} /\ toBeUpdatedKeys = {} /\ toBeCreatedKeys = {}
    /\ restarting = {}
    /\ errHappened = FALSE
    /\ pending = {}
    /\ proxiesToDelete = {} /\ proxiesToUpdate = {} /\ needNotify = FALSE
    /\ created = 0
    /\ registryOf = [w \in Watcher |-> None]
    /\ configOf = [w \in Watcher |-> None]
    /\ run = [w \in Watcher |-> "new"]
    /\ stopped = [w \in Watcher |-> FALSE]
    /\ late = [w \in Watcher |-> FALSE]
    /\ dirty = FALSE

-----------------------------------------------------------------------------
(* Reconcile: the registries *)

Wanted(b) == {k \in Registry : b.registries[k] # None}
Known == {k \in Registry : registries[k] # None}

\* Mutant of Begin: the configurations are not compared.
BeginComparesKeys(b) ==
    /\ pc = "idle"
    /\ calls < MaxReconciles
    /\ LET changed == {k \in Wanted(b) : b.registries[k] # registries[k]}
       IN  /\ created + Cardinality(changed) <= MaxWatchers
           /\ toBeCreatedKeys' = changed \ Known
           /\ toBeUpdatedKeys' = {}
           /\ toBeDeletedKeys' = Known \ Wanted(b)
    /\ pc' = "registries" /\ bridge' = b /\ calls' = calls + 1
    /\ errHappened' = FALSE
    /\ pending' = {}
    /\ UNCHANGED <<cacheVars, mapVars, restarting, proxyLoopVars, result,
                   bornVars, runVars, dirty>>

\* Reconcile is called with a bridge whose proxies all have a listener port;
\* the fill-and-save call that precedes it (77-88) leaves the reconciler alone.
Begin(b) ==
    /\ pc = "idle"
    /\ calls < MaxReconciles
    /\ LET changed == {k \in Wanted(b) : b.registries[k] # registries[k]}
       IN  /\ created + Cardinality(changed) <= MaxWatchers
           /\ toBeCreatedKeys' = changed \ Known
           /\ toBeUpdatedKeys' = changed \cap Known
           /\ toBeDeletedKeys' = Known \ Wanted(b)
    /\ pc' = "registries" /\ bridge' = b /\ calls' = calls + 1
    /\ errHappened' = FALSE
    /\ pending' = {}
    /\ UNCHANGED <<cacheVars, mapVars, restarting, proxyLoopVars, result,
                   bornVars, runVars, dirty>>

Return(r) == pc' = "idle" /\ result' = r /\ UNCHANGED <<bridge, calls>>

\* r.watchers[k].Stop(): Run holds the watcher's mutex while it publishes.
\* Ready(false) counts the WaitGroup down if Ready was never called.
StopWatcher(k) ==
    LET w == watchers[k]
    IN  /\ run[w] # "publishing"
        /\ DeleteServiceWrapper(HostOf[k])
        /\ stopped' = [stopped EXCEPT ![w] = TRUE]
        /\ pending' = pending \ {w}
        /\ registries' = [registries EXCEPT ![k] = None]
        /\ watchers' = [watchers EXCEPT ![k] = NoWatcher]
        /\ UNCHANGED <<proxies, run, late>>

DeleteRegistry(k) ==
    /\ pc = "registries"
    /\ k \in toBeDeletedKeys
    /\ StopWatcher(k)
    /\ toBeDeletedKeys' = toBeDeletedKeys \ {k}
    /\ UNCHANGED <<callVars, toBeUpdatedKeys, toBeCreatedKeys, restarting,
                   errHappened, proxyLoopVars, bornVars, dirty>>

\* Mutant of StopUpdated: the old watcher is dropped without being stopped.
ForgetUpdated(k) ==
    /\ pc = "registries"
    /\ toBeDeletedKeys = {} /\ restarting = {}
    /\ k \in toBeUpdatedKeys
    /\ registries' = [registries EXCEPT ![k] = None]
    /\ watchers' = [watchers EXCEPT ![k] = NoWatcher]
    /\ toBeUpdatedKeys' = toBeUpdatedKeys \ {k}
    /\ restarting' = {k}
    /\ UNCHANGED <<cacheVars, proxies, runVars, pending,
                   callVars, toBeDeletedKeys, toBeCreatedKeys, errHappened,
                   proxyLoopVars, bornVars, dirty>>

StopUpdated(k) ==
    /\ pc = "registries"
    /\ toBeDeletedKeys = {} /\ restarting = {}
    /\ k \in toBeUpdatedKeys
    /\ StopWatcher(k)
    /\ toBeUpdatedKeys' = toBeUpdatedKeys \ {k}
    /\ restarting' = {k}
    /\ UNCHANGED <<callVars, toBeDeletedKeys, toBeCreatedKeys, errHappened,
                   proxyLoopVars, bornVars, dirty>>

\* The registry whose watcher generateWatcherFromRegistryConfig builds next.
MayStart(k) ==
    /\ pc = "registries"
    /\ toBeDeletedKeys = {}
    /\ \/ k \in restarting
       \/ k \in toBeCreatedKeys /\ toBeUpdatedKeys = {} /\ restarting = {}

Started(k) ==
    /\ restarting' = restarting \ {k}
    /\ toBeCreatedKeys' = toBeCreatedKeys \ {k}
    /\ UNCHANGED <<cacheVars, proxies, callVars, toBeDeletedKeys,
                   toBeUpdatedKeys, proxyLoopVars, stopped, late, run, dirty>>

StartWatcher(k) ==
    /\ MayStart(k)
    /\ created < MaxWatchers   \* by Begin
    /\ LET w == created + 1
       IN  /\ created' = w
           /\ registryOf' = [registryOf EXCEPT ![w] = k]
           /\ configOf' = [configOf EXCEPT ![w] = bridge.registries[k]]
           /\ watchers' = [watchers EXCEPT ![k] = w]
           /\ pending' = pending \cup {w}
    /\ registries' = [registries EXCEPT ![k] = bridge.registries[k]]
    /\ Started(k)
    /\ UNCHANGED errHappened

\* The type is not supported, or the auth secret cannot be read.
StartFails(k) ==
    /\ MayStart(k)
    /\ errHappened' = TRUE
    /\ Started(k)
    /\ UNCHANGED <<registries, watchers, pending, bornVars>>

\* Mutant of RegistriesLooped: the error of a start is only logged.
LoopedDespiteErrors ==
    /\ pc = "registries"
    /\ toBeDeletedKeys \cup toBeUpdatedKeys \cup toBeCreatedKeys \cup restarting = {}
    /\ pc' = "waiting" /\ UNCHANGED <<bridge, result, calls>>
    /\ UNCHANGED <<cacheVars, mapVars, loopVars, proxyLoopVars, pending,
                   bornVars, runVars, dirty>>

RegistriesLooped ==
    /\ pc = "registries"
    /\ toBeDeletedKeys \cup toBeUpdatedKeys \cup toBeCreatedKeys \cup restarting = {}
    /\ IF errHappened THEN Return("error")
       ELSE pc' = "waiting" /\ UNCHANGED <<bridge, result, calls>>
    /\ UNCHANGED <<cacheVars, mapVars, loopVars, proxyLoopVars, pending,
                   bornVars, runVars, dirty>>

\* DefaultReadyTimeout.
ReadyTimeout ==
    /\ pc = "waiting"
    /\ Return("error")
    /\ UNCHANGED <<cacheVars, mapVars, loopVars, proxyLoopVars, pending,
                   bornVars, runVars, dirty>>

-----------------------------------------------------------------------------
(* Reconcile: the proxies, the purge and the notification *)

AllReady ==
    /\ pc = "waiting"
    /\ pending = {}
    /\ proxiesToUpdate' = {p \in Proxy : bridge.proxies[p] \notin {None, proxies[p]}}
    /\ proxiesToDelete' = {p \in Proxy : bridge.proxies[p] = None /\ proxies[p] # None}
    /\ needNotify' = FALSE
    /\ pc' = "proxies"
    /\ UNCHANGED <<cacheVars, mapVars, loopVars, bridge, result, calls, pending,
                   bornVars, runVars, dirty>>

DeleteProxy(p) ==
    /\ pc = "proxies"
    /\ p \in proxiesToDelete
    /\ DeleteProxyWrapper(p)
    /\ proxies' = [proxies EXCEPT ![p] = None]
    /\ proxiesToDelete' = proxiesToDelete \ {p}
    /\ needNotify' = TRUE
    /\ UNCHANGED <<registries, watchers, loopVars, proxiesToUpdate, callVars,
                   pending, bornVars, runVars, dirty>>

\* A proxy no wrapper can be built from is skipped: the old one stays.
UpdateProxy(p) ==
    /\ pc = "proxies"
    /\ proxiesToDelete = {}
    /\ p \in proxiesToUpdate
    /\ proxiesToUpdate' = proxiesToUpdate \ {p}
    /\ IF bridge.proxies[p] \in Broken
       THEN UNCHANGED <<cacheVars, proxies, needNotify, dirty>>
       ELSE /\ UpdateProxyWrapper(p, bridge.proxies[p])
            /\ proxies' = [proxies EXCEPT ![p] = bridge.proxies[p]]
            /\ needNotify' = TRUE
            /\ dirty' = TRUE
    /\ UNCHANGED <<registries, watchers, loopVars, proxiesToDelete, callVars,
                   pending, bornVars, runVars>>

ProxiesLooped ==
    /\ pc = "proxies"
    /\ proxiesToDelete \cup proxiesToUpdate = {}
    /\ dirty' = (dirty /\ ~needNotify)
    /\ pc' = "purging"
    /\ UNCHANGED <<cacheVars, mapVars, loopVars, proxyLoopVars, bridge, result,
                   calls, pending, bornVars, runVars>>

\* Mutant of Purge: what was purged is not announced.
PurgeSilently ==
    /\ pc = "purging"
    /\ PurgeStaleItems
    /\ Return("ok")
    /\ dirty' = (dirty \/ SomethingStale)
    /\ UNCHANGED <<mapVars, loopVars, proxyLoopVars, pending, bornVars, runVars>>

Purge ==
    /\ pc = "purging"
    /\ PurgeStaleItems
    /\ dirty' = (dirty \/ SomethingStale)
    /\ IF SomethingStale THEN pc' = "notifying" /\ UNCHANGED <<bridge, result, calls>>
       ELSE Return("ok")
    /\ UNCHANGED <<mapVars, loopVars, proxyLoopVars, pending, bornVars, runVars>>

Notify ==
    /\ pc = "notifying"
    /\ dirty' = FALSE
    /\ Return("ok")
    /\ UNCHANGED <<cacheVars, mapVars, loopVars, proxyLoopVars, pending,
                   bornVars, runVars>>

-----------------------------------------------------------------------------
(* The goroutine of a watcher.  Run takes the mutex, publishes, notifies and *)
(* says Ready; it does not look whether Stop came first.                     *)

RunPublish(w) ==
    /\ w \in Born
    /\ run[w] = "new"
    /\ run' = [run EXCEPT ![w] = "publishing"]
    /\ late' = [late EXCEPT ![w] = stopped[w]]
    /\ IF Published(w) THEN /\ UpdateServiceWrapper(HostOf[registryOf[w]], configOf[w])
                            /\ dirty' = TRUE
                       ELSE UNCHANGED <<cacheVars, dirty>>
    /\ UNCHANGED <<mapVars, loopVars, proxyLoopVars, callVars, pending,
                   bornVars, stopped>>

\* Mutant of RunReady: the watcher that has nothing to publish returns with the
\* mutex held.
RunReadyOnlyIfPublished(w) ==
    /\ w \in Born
    /\ Published(w)
    /\ run[w] = "publishing"
    /\ run' = [run EXCEPT ![w] = "done"]
    /\ pending' = pending \ {w}
    /\ dirty' = (dirty /\ ~Published(w))
    /\ UNCHANGED <<cacheVars, mapVars, loopVars, proxyLoopVars, callVars,
                   bornVars, stopped, late>>

RunReady(w) ==
    /\ w \in Born
    /\ run[w] = "publishing"
    /\ run' = [run EXCEPT ![w] = "done"]
    /\ pending' = pending \ {w}
    /\ dirty' = (dirty /\ ~Published(w))
    /\ UNCHANGED <<cacheVars, mapVars, loopVars, proxyLoopVars, callVars,
                   bornVars, stopped, late>>

-----------------------------------------------------------------------------
ReconcilerStep ==
    \/ \E k \in Registry : DeleteRegistry(k)
    \/ \E k \in Registry : StopUpdated(k)
    \/ \E k \in Registry : StartWatcher(k)
    \/ \E k \in Registry : StartFails(k)
    \/ RegistriesLooped
    \/ ReadyTimeout
    \/ AllReady
    \/ \E p \in Proxy : DeleteProxy(p)
    \/ \E p \in Proxy : UpdateProxy(p)
    \/ ProxiesLooped
    \/ Purge
    \/ Notify

Next ==
    \/ \E b \in Bridge : Begin(b)
    \/ ReconcilerStep
    \/ \E w \in Watcher : RunPublish(w)
    \/ \E w \in Watcher : RunReady(w)

Spec == Init /\ [][Next]_vars

\* The goroutine that called Reconcile and each goroutine of a watcher keep
\* running; nothing in them waits for ever but a mutex another one releases.
FairSpec ==
    /\ Spec
    /\ WF_vars(ReconcilerStep)
    /\ \A w \in Watcher : WF_vars(RunPublish(w)) /\ WF_vars(RunReady(w))

-----------------------------------------------------------------------------
TypeOK ==
    /\ CacheTypeOK
    /\ registries \in [Registry -> Config \cup {None}]
    /\ watchers \in [Registry -> Watcher \cup {NoWatcher}]
    /\ proxies \in [Proxy -> Config \cup {None}]
    /\ pc \in {"idle", "registries", "waiting", "proxies", "purging", "notifying"}
    /\ bridge \in Bridge \cup {None}
    /\ pc # "idle" => bridge \in Bridge
    /\ result \in {"none", "ok", "error"}
    /\ calls \in 0 .. MaxReconciles
    /\ toBeDeletedKeys \subseteq Registry
    /\ toBeUpdatedKeys \subseteq Registry
    /\ toBeCreatedKeys \subseteq Registry
    /\ restarting \subseteq Registry
    /\ errHappened \in BOOLEAN
    /\ pending \subseteq Watcher
    /\ proxiesToDelete \subseteq Proxy
    /\ proxiesToUpdate \subseteq Proxy
    /\ needNotify \in BOOLEAN
    /\ created \in 0 .. MaxWatchers
    /\ registryOf \in [Watcher -> Registry \cup {None}]
    /\ configOf \in [Watcher -> Config \cup {None}]
    /\ \A w \in Born : registryOf[w] \in Registry /\ configOf[w] \in Config
    /\ run \in [Watcher -> {"new", "publishing", "done"}]
    /\ stopped \in [Watcher -> BOOLEAN]
    /\ late \in [Watcher -> BOOLEAN]
    /\ dirty \in BOOLEAN

\* The reconciler stops only watchers it still has: r.watchers[k].Stop() never
\* calls through a nil entry, whatever calls failed or timed out before.
StopsOnlyWatchersItHas ==
    pc = "registries" =>
        \A k \in toBeDeletedKeys \cup toBeUpdatedKeys : watchers[k] # NoWatcher

\* No registry has two live watchers: whatever was started and not stopped is
\* in r.watchers, under its own registry and with the configuration recorded
\* for it.
OneLiveWatcher ==
    \A w \in Born : ~stopped[w] =>
        /\ watchers[registryOf[w]] = w
        /\ registries[registryOf[w]] = configOf[w]

\* Some watcher of registry k ran only after it was stopped.
RanLate(k) == \E w \in Born : registryOf[w] = k /\ late[w]

\* What the current watcher of a registry published stays in the cache,
\* unmarked, through every later reconciliation, failed or not; and unless a
\* stopped watcher of the same registry ran late, with its own content.
PublishedStays ==
    \A k \in Registry :
        LET w == watchers[k]
            s == HostOf[k]
        IN  w # NoWatcher /\ run[w] # "new" /\ Published(w) =>
                /\ sew[s] # None
                /\ s \notin deferredDeleteServices
                /\ RanLate(k) \/ sew[s].data = configOf[w]

\* After a reconciliation that succeeded, once the watchers have run, the cache
\* holds a service exactly for each registry of the bridge that a service can
\* be built from, and a proxy for each proxy recorded.  A registry with a
\* watcher that ran late is left out; and the service of a registry that is gone
\* may stay if a proxy has its name, because the update of the proxy takes the mark
\* off the service instead of off the proxy.
ConvergedWhenOk ==
    pc = "idle" /\ result = "ok" /\ (\A w \in Born : ~stopped[w] => run[w] = "done") =>
        /\ \A k \in Registry : RanLate(k) \/
              IF bridge.registries[k] \in Broken \cup {None}
              THEN sew[HostOf[k]] = None \/ HostOf[k] \in Proxy
              ELSE sew[HostOf[k]] # None /\ sew[HostOf[k]].data = bridge.registries[k]
        /\ \A p \in Proxy :
              /\ IF proxies[p] = None THEN pw[p] = None
                 ELSE pw[p] # None /\ pw[p].data = proxies[p]
              /\ proxies[p] # bridge.proxies[p] => bridge.proxies[p] \in Broken

\* Every change of the cache is announced by the time Reconcile returns, but
\* for what a watcher has just published and is about to announce itself.
NothingUnannounced ==
    dirty => \/ pc \in {"proxies", "notifying"}
             \/ \E w \in Born : run[w] = "publishing" /\ Published(w)

\* A reconciliation that fails removes nothing: services and proxies leave the
\* cache in the purge alone, with no failed start and no watcher unready in it.
FailureRemovesNothing ==
    [][\A s \in Service : sew[s] # None /\ sew'[s] = None =>
          /\ pc = "purging" /\ ~errHappened /\ pending = {}
          /\ \A k \in Registry : registries[k] = bridge.registries[k]]_vars

\* PurgeStaleItems "should only be called when reconcile is done" (cache.go:259):
\* it never takes away the service of a registry whose watcher has yet to
\* publish it again.
PurgeOnlyWhenReady ==
    [][\A k \in Registry :
          watchers[k] # NoWatcher /\ sew[HostOf[k]] # None /\ sew'[HostOf[k]] = None
             => run[watchers[k]] # "new"]_vars

\* Every call of Reconcile returns: the wait is bounded by the timer and the
\* mutex of a watcher is released by its Run.
ReconcileReturns == pc # "idle" ~> pc = "idle"
=============================================================================
