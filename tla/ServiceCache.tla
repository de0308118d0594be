---------------------------- MODULE ServiceCache ----------------------------
(***************************************************************************)
(* The store of registry/memory/cache.go, shared by every registry watcher *)
(* and by the readers that build the xDS push.  A deletion is deferred:    *)
(* DeleteServiceWrapper only marks the service, the traffic keeps flowing, *)
(* and PurgeStaleItems drops what is still marked once the reconciliation  *)
(* is done.  The map of endpoints inside a wrapper, the config map and the *)
(* always empty index by IP are not modelled.                              *)
(***************************************************************************)
EXTENDS Naturals

CONSTANTS
    Service,   \* hosts, the keys of sew
    Proxy,     \* proxy names, the keys of pw; names are free, they may be hosts
    Data,      \* contents of a wrapper
    None,      \* the absent wrapper
    MaxTime    \* bound on the clock

Wrapper == [data : Data, created : Nat]

ASSUME NoneIsNoWrapper == None \notin Wrapper
ASSUME MaxTimeIsNat == MaxTime \in Nat

VARIABLES
    sew, toBeUpdated, toBeDeleted, deferredDeleteServices,   \* services
    pw, deferredDeleteProxies,                               \* proxies
    clock       \* time.Now(), coarse

serviceVars == <<sew, toBeUpdated, toBeDeleted, deferredDeleteServices>>
proxyVars == <<pw, deferredDeleteProxies>>
cacheVars == <<serviceVars, proxyVars, clock>>

\* NewCache
CacheInit ==
    /\ sew = [s \in Service |-> None]
    /\ toBeUpdated = {}
    /\ toBeDeleted = {}
    /\ deferredDeleteServices = {}
    /\ pw = [p \in Proxy |-> None]
    /\ deferredDeleteProxies = {}
    /\ clock = 0

\* SetCreateTime: a wrapper that replaces one keeps its creation time.
Replacing(old, d) ==
    [data |-> d, created |-> IF old = None THEN clock ELSE old.created]

-----------------------------------------------------------------------------
\* Mutant of UpdateServiceWrapper: the mark of an earlier deletion survives.
UpdateServiceKeepsMark(s, d) ==
    /\ sew' = [sew EXCEPT ![s] = Replacing(@, d)]
    /\ toBeUpdated' = toBeUpdated \cup {s}
    /\ UNCHANGED <<toBeDeleted, deferredDeleteServices, proxyVars, clock>>

UpdateServiceWrapper(s, d) ==
    /\ sew' = [sew EXCEPT ![s] = Replacing(@, d)]
    /\ toBeUpdated' = toBeUpdated \cup {s}
    /\ deferredDeleteServices' = deferredDeleteServices \ {s}
    /\ UNCHANGED <<toBeDeleted, proxyVars, clock>>

\* Mutant of DeleteServiceWrapper: the service is dropped at once.
DeleteServiceAtOnce(s) ==
    /\ sew' = [sew EXCEPT ![s] = None]
    /\ toBeDeleted' = toBeDeleted \cup {s}
    /\ UNCHANGED <<toBeUpdated, deferredDeleteServices, proxyVars, clock>>

DeleteServiceWrapper(s) ==
    /\ IF sew[s] = None THEN UNCHANGED <<toBeDeleted, deferredDeleteServices>>
       ELSE /\ toBeDeleted' = toBeDeleted \cup {s}
            /\ deferredDeleteServices' = deferredDeleteServices \cup {s}
    /\ UNCHANGED <<sew, toBeUpdated, proxyVars, clock>>

\* The deferred mark this clears is the one of a SERVICE of that name.
UpdateProxyWrapper(p, d) ==
    /\ pw' = [pw EXCEPT ![p] = Replacing(@, d)]
    /\ deferredDeleteServices' = deferredDeleteServices \ {p}
    /\ UNCHANGED <<sew, toBeUpdated, toBeDeleted,
                   deferredDeleteProxies, clock>>

DeleteProxyWrapper(p) ==
    /\ deferredDeleteProxies' = IF pw[p] = None THEN deferredDeleteProxies
                                ELSE deferredDeleteProxies \cup {p}
    /\ UNCHANGED <<serviceVars, pw, clock>>

\* What PurgeStaleItems returns.
SomethingStale == deferredDeleteServices # {} \/ deferredDeleteProxies # {}

PurgeStaleItems ==
    /\ sew' = [s \in Service |-> IF s \in deferredDeleteServices THEN None
                                                                 ELSE sew[s]]
    /\ deferredDeleteServices' = {}
    /\ pw' = [p \in Proxy |-> IF p \in deferredDeleteProxies THEN None
                                                             ELSE pw[p]]
    /\ deferredDeleteProxies' = {}
    /\ UNCHANGED <<toBeUpdated, toBeDeleted, clock>>

-----------------------------------------------------------------------------
\* cleanUpdateAndDeleteArray, which GetAllServiceWrapper, GetAllDestinationRuleWrapper
\* and GetIncrementalServiceWrapper defer; they change nothing else.
CleanUpdateAndDeleteArray ==
    /\ toBeUpdated' = {} /\ toBeDeleted' = {}
    /\ UNCHANGED <<sew, deferredDeleteServices, proxyVars, clock>>

Tick ==
    /\ clock < MaxTime
    /\ clock' = clock + 1
    /\ UNCHANGED <<serviceVars, proxyVars>>

-----------------------------------------------------------------------------
\* Every method is called by any goroutine at any time; s.mux makes it atomic.
Write ==
    \/ \E s \in Service, d \in Data : UpdateServiceWrapper(s, d)
    \/ \E s \in Service : DeleteServiceWrapper(s)
    \/ \E p \in Proxy, d \in Data : UpdateProxyWrapper(p, d)
    \/ \E p \in Proxy : DeleteProxyWrapper(p)
    \/ PurgeStaleItems

CacheNext == CleanUpdateAndDeleteArray \/ Write \/ Tick

CacheSpec == CacheInit /\ [][CacheNext]_cacheVars

-----------------------------------------------------------------------------
CacheTypeOK ==
    /\ sew \in [Service -> Wrapper \cup {None}]
    /\ toBeUpdated \subseteq Service
    /\ toBeDeleted \subseteq Service
    /\ deferredDeleteServices \subseteq Service
    /\ pw \in [Proxy -> Wrapper \cup {None}]
    /\ deferredDeleteProxies \subseteq Proxy
    /\ clock \in 0 .. MaxTime

\* Only what is stored is marked for deletion, so a purge never announces the
\* removal of something that is not there, and a service that comes back after
\* a purge does not start out marked.
OnlyStoredIsMarked ==
    /\ \A s \in deferredDeleteServices : sew[s] # None
    /\ \A p \in deferredDeleteProxies : pw[p] # None

\* A service keeps its creation time for as long as it stays in the cache,
\* through every delete-and-register-again of a registry update; and it leaves
\* the cache only if it was marked when the purge ran.
ServicesKeepTheirIdentity ==
    [][\A s \in Service : sew[s] # None =>
          \/ sew'[s] # None /\ sew'[s].created = sew[s].created
          \/ sew'[s] = None /\ s \in deferredDeleteServices]_cacheVars
=============================================================================
