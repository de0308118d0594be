-------------------------- MODULE ReconcilerProofs --------------------------
(***************************************************************************)
(* Proofs about the reconciler and its watchers, for every set of          *)
(* registries, proxies and configurations and for any number of watchers   *)
(* and of reconciliations.                                                 *)
(***************************************************************************)
EXTENDS Reconciler, ServiceCacheProofs

\* r.registries and r.watchers have the same keys, and each watcher in the map
\* is a live one of its registry.
MapsOK ==
    /\ \A k \in Registry : registries[k] # None <=> watchers[k] # NoWatcher
    /\ \A k \in Registry : watchers[k] # NoWatcher =>
          /\ watchers[k] \in Born
          /\ registryOf[watchers[k]] = k
          /\ ~stopped[watchers[k]]
    /\ OneLiveWatcher

\* What the three loops over the registries have yet to do.
LoopOK ==
    /\ pc # "registries" => restarting = {}
    /\ pc = "registries" =>
          /\ \A k \in toBeDeletedKeys \cup toBeUpdatedKeys : watchers[k] # NoWatcher
          /\ \A k \in toBeCreatedKeys \cup restarting : watchers[k] = NoWatcher
          /\ \A k \in toBeDeletedKeys : bridge.registries[k] = None
          /\ \A k \in toBeUpdatedKeys \cup toBeCreatedKeys \cup restarting :
                bridge.registries[k] # None
          /\ \A k \in Registry :
                \/ k \in toBeDeletedKeys \cup toBeUpdatedKeys \cup toBeCreatedKeys
                            \cup restarting
                \/ registries[k] = bridge.registries[k]
                \/ errHappened

\* Past the loops nothing failed, and past the wait everyone is ready; the proxies
\* to be updated are in the bridge.
CallOK ==
    /\ pc \in {"waiting", "proxies", "purging", "notifying"} =>
          ~errHappened /\ \A k \in Registry : registries[k] = bridge.registries[k]
    /\ pc \in {"proxies", "purging", "notifying"} => pending = {}
    /\ pc = "proxies" => \A p \in proxiesToUpdate : bridge.proxies[p] # None

\* A goroutine that was not created did nothing, and only one that ran is late.
RunOK ==
    /\ \A w \in Watcher \ Born : run[w] = "new" /\ ~stopped[w] /\ ~late[w]
    /\ \A w \in Watcher : late[w] => run[w] # "new"

IInv == TypeOK /\ MapsOK /\ LoopOK /\ CallOK /\ RunOK /\ PublishedStays

USE DEF Config, NoWatcher

-----------------------------------------------------------------------------
\* A bridge maps every registry and every proxy to a configuration or nothing.
LEMMA BridgeFields ==
    ASSUME NEW b \in Bridge
    PROVE  /\ b.registries \in [Registry -> Config \cup {None}]
           /\ b.proxies \in [Proxy -> Config \cup {None}]
BY BridgeType

LEMMA BornAreWatchers == TypeOK => Born \subseteq Watcher /\ created \in Nat
BY BoundsAreNat DEF TypeOK, Born, Watcher

\* Whatever leaves the watchers, their maps and what they published alone keeps
\* the published services.
LEMMA PublishedFrame ==
    ASSUME PublishedStays,
           UNCHANGED <<watchers, run, configOf, registryOf, created, late, sew>>,
           deferredDeleteServices' \subseteq deferredDeleteServices
    PROVE  PublishedStays'
BY DEF PublishedStays, Published, RanLate, Born

LEMMA InitIInv == Init => IInv
<1>. SUFFICES ASSUME Init PROVE IInv
    OBVIOUS
<1>1. CacheTypeOK
    BY CacheInvInit DEF Init, CacheInv
<1>2. TypeOK
    <2>1. calls \in 0 .. MaxReconciles /\ created \in 0 .. MaxWatchers
        BY BoundsAreNat DEF Init
    <2>2. Born = {}
        BY DEF Born, Init
    <2>. QED
        BY <1>1, <2>1, <2>2 DEF Init, TypeOK
<1>. QED
    BY <1>2 DEF Init, IInv, MapsOK, OneLiveWatcher, LoopOK, CallOK, RunOK,
                PublishedStays, Born

-----------------------------------------------------------------------------
\* The call begins: the three sets are disjoint and cover what differs.
LEMMA BeginStep ==
    ASSUME IInv, NEW b \in Bridge, Begin(b)
    PROVE  IInv'
<1>. USE DEF IInv, Begin, mapVars, proxyLoopVars, bornVars, runVars
<1>1. CacheTypeOK'
    BY StutterType DEF TypeOK
<1>2. TypeOK'
    <2>1. calls' \in 0 .. MaxReconciles
        BY BoundsAreNat DEF TypeOK
    <2>2. /\ toBeDeletedKeys' \subseteq Registry
          /\ toBeUpdatedKeys' \subseteq Registry
          /\ toBeCreatedKeys' \subseteq Registry
        BY DEF Known, Wanted
    <2>3. pc' # "idle" /\ bridge' \in Bridge
        OBVIOUS
    <2>. QED
        BY <1>1, <2>1, <2>2, <2>3 DEF TypeOK, Born
<1>3. MapsOK'
    BY DEF MapsOK, OneLiveWatcher, Born
<1>4. LoopOK'
    BY BridgeFields DEF LoopOK, MapsOK, Known, Wanted, TypeOK
<1>5. CallOK' /\ RunOK'
    BY DEF CallOK, RunOK, Born
<1>6. PublishedStays'
    BY PublishedFrame DEF cacheVars, serviceVars
<1>. QED
    BY <1>2, <1>3, <1>4, <1>5, <1>6

\* Stop: the watcher leaves both maps and only its own host is marked.
LEMMA StopWatcherStep ==
    ASSUME IInv, NEW k \in Registry, watchers[k] # NoWatcher, StopWatcher(k),
           UNCHANGED bornVars
    PROVE  /\ CacheTypeOK'
           /\ registries' \in [Registry -> Config \cup {None}]
           /\ watchers' \in [Registry -> Watcher \cup {NoWatcher}]
           /\ stopped' \in [Watcher -> BOOLEAN]
           /\ pending' \subseteq pending
           /\ MapsOK' /\ RunOK' /\ PublishedStays'
<1>. USE DEF IInv, StopWatcher, bornVars
<1>1. watchers[k] \in Born /\ watchers[k] \in Watcher
    BY BornAreWatchers DEF MapsOK
<1>2. HostOf[k] \in Service
    BY HostsAreDistinct
<1>3. CacheTypeOK'
    BY <1>2, DeleteServiceType DEF TypeOK
<1>4. /\ registries' \in [Registry -> Config \cup {None}]
      /\ watchers' \in [Registry -> Watcher \cup {NoWatcher}]
      /\ stopped' \in [Watcher -> BOOLEAN]
      /\ pending' \subseteq pending
    BY DEF TypeOK
<1>5. MapsOK'
    BY <1>1, BornAreWatchers DEF MapsOK, OneLiveWatcher, TypeOK, Born
<1>6. RunOK'
    BY <1>1 DEF RunOK, TypeOK, Born
<1>7. PublishedStays'
    <2>. SUFFICES ASSUME NEW l \in Registry, watchers'[l] # NoWatcher,
                         run[watchers[l]] # "new", Published(watchers[l])
                  PROVE  /\ sew[HostOf[l]] # None
                         /\ HostOf[l] \notin deferredDeleteServices'
                         /\ RanLate(l) \/ sew[HostOf[l]].data = configOf[watchers[l]]
        BY DEF PublishedStays, Published, RanLate, Born, TypeOK, DeleteServiceWrapper
    <2>1. l # k /\ watchers[l] # NoWatcher
        BY DEF TypeOK
    <2>2. HostOf[l] # HostOf[k]
        BY <2>1, HostsAreDistinct
    <2>. QED
        BY <2>1, <2>2 DEF PublishedStays, DeleteServiceWrapper
<1>. QED
    BY <1>3, <1>4, <1>5, <1>6, <1>7

LEMMA DeleteRegistryStep ==
    ASSUME IInv, NEW k \in Registry, DeleteRegistry(k)
    PROVE  IInv'
<1>. USE DEF IInv, DeleteRegistry, callVars, proxyLoopVars
<1>1. watchers[k] # NoWatcher
    BY DEF LoopOK
<1>2. /\ CacheTypeOK'
      /\ registries' \in [Registry -> Config \cup {None}]
      /\ watchers' \in [Registry -> Watcher \cup {NoWatcher}]
      /\ stopped' \in [Watcher -> BOOLEAN]
      /\ pending' \subseteq pending
      /\ MapsOK' /\ RunOK' /\ PublishedStays'
    BY <1>1, StopWatcherStep
<1>3. TypeOK'
    BY <1>2 DEF TypeOK, StopWatcher, bornVars, Born
<1>4. LoopOK'
    BY <1>1 DEF LoopOK, StopWatcher, TypeOK
<1>5. CallOK'
    BY DEF CallOK
<1>. QED
    BY <1>2, <1>3, <1>4, <1>5

LEMMA StopUpdatedStep ==
    ASSUME IInv, NEW k \in Registry, StopUpdated(k)
    PROVE  IInv'
<1>. USE DEF IInv, StopUpdated, callVars, proxyLoopVars
<1>1. watchers[k] # NoWatcher
    BY DEF LoopOK
<1>2. /\ CacheTypeOK'
      /\ registries' \in [Registry -> Config \cup {None}]
      /\ watchers' \in [Registry -> Watcher \cup {NoWatcher}]
      /\ stopped' \in [Watcher -> BOOLEAN]
      /\ pending' \subseteq pending
      /\ MapsOK' /\ RunOK' /\ PublishedStays'
    BY <1>1, StopWatcherStep
<1>3. TypeOK'
    BY <1>2 DEF TypeOK, StopWatcher, bornVars, Born
<1>4. LoopOK'
    BY <1>1 DEF LoopOK, StopWatcher, TypeOK
<1>5. CallOK'
    BY DEF CallOK
<1>. QED
    BY <1>2, <1>3, <1>4, <1>5
-----------------------------------------------------------------------------
\* The new watcher takes the next number, which no one has used.
LEMMA StartWatcherStep ==
    ASSUME IInv, NEW k \in Registry, StartWatcher(k)
    PROVE  IInv'
<1>. USE DEF IInv, StartWatcher, Started, MayStart
<1>. DEFINE w == created + 1
<1>1. w \in Watcher /\ w \notin Born /\ Born' = Born \cup {w} /\ w # NoWatcher
    BY BoundsAreNat DEF TypeOK, Watcher, Born
<1>2. created' = w /\ w \in 0 .. MaxWatchers
    BY BoundsAreNat DEF TypeOK
<1>3. run[w] = "new" /\ ~stopped[w] /\ ~late[w]
    BY <1>1 DEF RunOK
<1>4. bridge.registries[k] \in Config /\ bridge.registries[k] # None
    <2>1. bridge \in Bridge
        BY DEF TypeOK
    <2>. QED
        BY <2>1, BridgeFields DEF LoopOK
<1>5. watchers[k] = NoWatcher
    BY DEF LoopOK
<1>6. /\ watchers' = [watchers EXCEPT ![k] = w]
      /\ registryOf' = [registryOf EXCEPT ![w] = k]
      /\ configOf' = [configOf EXCEPT ![w] = bridge.registries[k]]
      /\ pending' = pending \cup {w}
    OBVIOUS
<1>. HIDE DEF w
<1>7. CacheTypeOK'
    BY StutterType DEF TypeOK
<1>8. TypeOK'
    <2>1. \A v \in Born' : registryOf'[v] \in Registry /\ configOf'[v] \in Config
        BY <1>1, <1>4, <1>6 DEF TypeOK
    <2>2. /\ watchers' \in [Registry -> Watcher \cup {NoWatcher}]
          /\ registries' \in [Registry -> Config \cup {None}]
          /\ registryOf' \in [Watcher -> Registry \cup {None}]
          /\ configOf' \in [Watcher -> Config \cup {None}]
          /\ pending' \subseteq Watcher
        BY <1>1, <1>4, <1>6 DEF TypeOK
    <2>. QED
        BY <1>2, <1>7, <2>1, <2>2 DEF TypeOK, callVars, proxyLoopVars
<1>9. MapsOK'
    <2>1. \A l \in Registry : registries'[l] # None <=> watchers'[l] # NoWatcher
        BY <1>1, <1>4, <1>6 DEF MapsOK, TypeOK
    <2>2. \A l \in Registry : watchers'[l] # NoWatcher =>
              /\ watchers'[l] \in Born'
              /\ registryOf'[watchers'[l]] = l
              /\ ~stopped'[watchers'[l]]
        BY <1>1, <1>3, <1>6, BornAreWatchers DEF MapsOK, TypeOK
    <2>3. OneLiveWatcher'
        <3>. SUFFICES ASSUME NEW v \in Born', ~stopped[v]
                      PROVE  /\ watchers'[registryOf'[v]] = v
                             /\ registries'[registryOf'[v]] = configOf'[v]
            BY DEF OneLiveWatcher
        <3>1. CASE v = w
            BY <3>1, <1>1, <1>6 DEF TypeOK
        <3>2. CASE v # w
            <4>1. v \in Born /\ watchers[registryOf[v]] = v
                  /\ registries[registryOf[v]] = configOf[v]
                BY <1>1, <3>2 DEF MapsOK, OneLiveWatcher
            <4>2. registryOf[v] # k
                BY <4>1, <1>5 DEF Born
            <4>3. v \in Watcher /\ registryOf[v] \in Registry
                BY <4>1, BornAreWatchers DEF TypeOK
            <4>. QED
                BY <3>2, <4>1, <4>2, <4>3, <1>6 DEF TypeOK
        <3>. QED
            BY <3>1, <3>2
    <2>. QED
        BY <2>1, <2>2, <2>3 DEF MapsOK
<1>10. LoopOK'
    BY <1>5, <1>6 DEF LoopOK, TypeOK, callVars
<1>11. CallOK'
    BY DEF CallOK, callVars, proxyLoopVars
<1>12. RunOK'
    BY <1>1 DEF RunOK
<1>13. PublishedStays'
    <2>. SUFFICES ASSUME NEW l \in Registry, watchers'[l] # NoWatcher,
                         run[watchers'[l]] # "new",
                         configOf'[watchers'[l]] \notin Broken
                  PROVE  /\ sew[HostOf[l]] # None
                         /\ HostOf[l] \notin deferredDeleteServices
                         /\ RanLate(l)' \/ sew[HostOf[l]].data = configOf'[watchers'[l]]
        BY DEF PublishedStays, cacheVars, serviceVars, Published
    <2>1. l # k
        BY <1>3, <1>6 DEF TypeOK
    <2>2. watchers[l] = watchers'[l] /\ watchers[l] \in Born
        BY <2>1, <1>6 DEF TypeOK, MapsOK
    <2>3. watchers[l] # w /\ watchers[l] \in Watcher
        BY <2>2, <1>1, BornAreWatchers
    <2>4. configOf'[watchers[l]] = configOf[watchers[l]]
        BY <2>3, <1>6 DEF TypeOK
    <2>5. Published(watchers[l])
        BY <2>2, <2>4 DEF Published
    <2>6. RanLate(l) => RanLate(l)'
        BY <1>1, <1>6, BornAreWatchers DEF RanLate, TypeOK
    <2>. QED
        BY <2>2, <2>4, <2>5, <2>6 DEF PublishedStays
<1>. QED
    BY <1>8, <1>9, <1>10, <1>11, <1>12, <1>13

\* A start that fails leaves the registry out of both maps.
LEMMA StartFailsStep ==
    ASSUME IInv, NEW k \in Registry, StartFails(k)
    PROVE  IInv'
<1>. USE DEF IInv, StartFails, Started, MayStart, callVars, bornVars, proxyLoopVars
<1>1. CacheTypeOK'
    BY StutterType DEF TypeOK
<1>2. TypeOK'
    BY <1>1 DEF TypeOK, Born
<1>3. MapsOK' /\ LoopOK' /\ CallOK'
    BY DEF MapsOK, OneLiveWatcher, Born, LoopOK, CallOK
<1>4. RunOK'
    BY DEF RunOK, Born
<1>5. PublishedStays'
    BY PublishedFrame DEF cacheVars, serviceVars
<1>. QED
    BY <1>2, <1>3, <1>4, <1>5

\* The steps of the call that touch neither the cache nor the watchers.
QuietStep == RegistriesLooped \/ ReadyTimeout \/ AllReady \/ ProxiesLooped \/ Notify

LEMMA QuietSteps ==
    ASSUME IInv, QuietStep
    PROVE  IInv'
<1>. USE DEF IInv
<1>1. UNCHANGED <<cacheVars, mapVars, loopVars, pending, bornVars, runVars, calls, bridge>>
    BY DEF QuietStep, RegistriesLooped, ReadyTimeout, AllReady, ProxiesLooped,
           Notify, Return, proxyLoopVars
<1>2. CacheTypeOK'
    BY <1>1, StutterType DEF TypeOK
<1>3. TypeOK'
    <2>1. /\ pc \in {"registries", "waiting", "proxies", "notifying"}
          /\ pc' \in {"idle", "registries", "waiting", "proxies", "purging", "notifying"}
          /\ result' \in {"none", "ok", "error"}
        BY DEF QuietStep, RegistriesLooped, ReadyTimeout, AllReady, ProxiesLooped,
               Notify, Return, TypeOK
    <2>2. /\ proxiesToDelete' \subseteq Proxy
          /\ proxiesToUpdate' \subseteq Proxy
          /\ needNotify' \in BOOLEAN
          /\ dirty' \in BOOLEAN
        BY DEF QuietStep, RegistriesLooped, ReadyTimeout, AllReady, ProxiesLooped,
               Notify, proxyLoopVars, TypeOK
    <2>3. bridge' \in Bridge
        BY <1>1, <2>1 DEF TypeOK
    <2>. QED
        BY <1>1, <1>2, <2>1, <2>2, <2>3
           DEF TypeOK, mapVars, loopVars, bornVars, runVars, Born
<1>4. MapsOK' /\ RunOK'
    BY <1>1 DEF MapsOK, OneLiveWatcher, RunOK, Born, mapVars, bornVars, runVars
<1>5. LoopOK' /\ CallOK'
    BY <1>1 DEF LoopOK, CallOK, QuietStep, RegistriesLooped, ReadyTimeout, AllReady,
                ProxiesLooped, Notify, Return, mapVars, loopVars
<1>6. PublishedStays'
    BY <1>1, PublishedFrame DEF cacheVars, serviceVars, mapVars, bornVars, runVars
<1>. QED
    BY <1>3, <1>4, <1>5, <1>6
-----------------------------------------------------------------------------
LEMMA DeleteProxyStep ==
    ASSUME IInv, NEW p \in Proxy, DeleteProxy(p)
    PROVE  IInv'
<1>. USE DEF IInv, DeleteProxy, callVars
<1>1. CacheTypeOK'
    BY DeleteProxyType DEF TypeOK
<1>2. TypeOK'
    BY <1>1 DEF TypeOK, loopVars, bornVars, runVars, Born
<1>3. MapsOK' /\ LoopOK' /\ CallOK' /\ RunOK'
    BY DEF MapsOK, OneLiveWatcher, LoopOK, CallOK, RunOK, Born, loopVars,
           bornVars, runVars
<1>4. PublishedStays'
    BY PublishedFrame DEF DeleteProxyWrapper, serviceVars, bornVars, runVars
<1>. QED
    BY <1>2, <1>3, <1>4

LEMMA UpdateProxyStep ==
    ASSUME IInv, NEW p \in Proxy, UpdateProxy(p)
    PROVE  IInv'
<1>. USE DEF IInv, UpdateProxy, callVars
<1>1. /\ CacheTypeOK'
      /\ proxies' \in [Proxy -> Config \cup {None}]
      /\ needNotify' \in BOOLEAN /\ dirty' \in BOOLEAN
      /\ sew' = sew /\ deferredDeleteServices' \subseteq deferredDeleteServices
    <2>1. CASE bridge.proxies[p] \in Broken
        BY <2>1, StutterType DEF TypeOK, cacheVars, serviceVars
    <2>2. CASE bridge.proxies[p] \notin Broken
        <3>1. CASE bridge.proxies[p] \in Config
            BY <2>2, <3>1, UpdateProxyType DEF TypeOK, UpdateProxyWrapper
        <3>2. bridge \in Bridge /\ bridge.proxies[p] # None
            BY DEF TypeOK, CallOK
        <3>. QED
            BY <3>1, <3>2, BridgeFields
    <2>. QED
        BY <2>1, <2>2
<1>2. TypeOK'
    BY <1>1 DEF TypeOK, loopVars, bornVars, runVars, Born
<1>3. MapsOK' /\ LoopOK' /\ CallOK' /\ RunOK'
    BY DEF MapsOK, OneLiveWatcher, LoopOK, CallOK, RunOK, Born, loopVars,
           bornVars, runVars
<1>4. PublishedStays'
    BY <1>1, PublishedFrame DEF bornVars, runVars
<1>. QED
    BY <1>2, <1>3, <1>4

\* The purge takes only what is marked, and what is published is not.
LEMMA PurgeStep ==
    ASSUME IInv, Purge
    PROVE  IInv'
<1>. USE DEF IInv, Purge
<1>1. CacheTypeOK'
    BY PurgeType DEF TypeOK
<1>2. /\ pc' \in {"idle", "notifying"} /\ result' \in {"none", "ok", "error"}
      /\ bridge' = bridge /\ calls' = calls
    BY DEF Return, TypeOK
<1>3. dirty' \in BOOLEAN
    BY DEF SomethingStale, TypeOK
<1>4. TypeOK'
    BY <1>1, <1>2, <1>3
       DEF TypeOK, mapVars, loopVars, proxyLoopVars, bornVars, runVars, Born
<1>5. MapsOK' /\ LoopOK' /\ CallOK' /\ RunOK'
    BY <1>2 DEF MapsOK, OneLiveWatcher, LoopOK, CallOK, RunOK, Born, mapVars,
                loopVars, bornVars, runVars
<1>6. PublishedStays'
    BY HostsAreDistinct
       DEF PublishedStays, Published, RanLate, Born, PurgeStaleItems, mapVars,
           bornVars, runVars
<1>. QED
    BY <1>4, <1>5, <1>6

\* Run writes the host of its own registry.  If the watcher is not the current
\* one of that registry it was stopped before, and is late.
LEMMA RunPublishStep ==
    ASSUME IInv, NEW w \in Watcher, RunPublish(w)
    PROVE  IInv'
<1>. USE DEF IInv, RunPublish, callVars, bornVars, mapVars, loopVars, proxyLoopVars
<1>. DEFINE h == registryOf[w]
<1>1. h \in Registry /\ configOf[w] \in Config /\ HostOf[h] \in Service
    BY HostsAreDistinct DEF TypeOK
<1>2. run' = [run EXCEPT ![w] = "publishing"] /\ late' = [late EXCEPT ![w] = stopped[w]]
    OBVIOUS
<1>3. CacheTypeOK' /\ dirty' \in BOOLEAN
    <2>1. CASE Published(w)
        BY <1>1, <2>1, UpdateServiceType DEF TypeOK
    <2>2. CASE ~Published(w)
        BY <2>2, StutterType DEF TypeOK
    <2>. QED
        BY <2>1, <2>2
<1>4. TypeOK'
    BY <1>3 DEF TypeOK, Born
<1>5. MapsOK' /\ LoopOK' /\ CallOK'
    BY DEF MapsOK, OneLiveWatcher, LoopOK, CallOK, Born
<1>6. RunOK'
    BY <1>2 DEF RunOK, TypeOK, Born
<1>7. PublishedStays'
    <2>. SUFFICES ASSUME NEW l \in Registry, watchers[l] # NoWatcher,
                         run'[watchers[l]] # "new", Published(watchers[l])
                  PROVE  /\ sew'[HostOf[l]] # None
                         /\ HostOf[l] \notin deferredDeleteServices'
                         /\ RanLate(l)' \/ sew'[HostOf[l]].data = configOf[watchers[l]]
        BY DEF PublishedStays, Published
    <2>0. watchers[l] \in Born /\ registryOf[watchers[l]] = l /\ HostOf[l] \in Service
        BY HostsAreDistinct DEF MapsOK
    <2>1. RanLate(l) => RanLate(l)'
        BY <1>2 DEF RanLate, Born, RunOK, TypeOK
    <2>2. CASE l = h /\ Published(w)
        <3>1. sew'[HostOf[l]] = Replacing(sew[HostOf[l]], configOf[w])
              /\ HostOf[l] \notin deferredDeleteServices'
            BY <2>0, <2>2 DEF UpdateServiceWrapper, TypeOK, CacheTypeOK
        <3>2. sew'[HostOf[l]] # None /\ sew'[HostOf[l]].data = configOf[w]
            <4>1. clock \in Nat /\ sew[HostOf[l]] \in Wrapper \cup {None}
                BY <2>0, MaxTimeIsNat DEF TypeOK, CacheTypeOK
            <4>. QED
                BY <3>1, <4>1, <1>1, ReplacingIsWrapper, NoneIsNoWrapper
        <3>3. CASE watchers[l] = w
            BY <3>1, <3>2, <3>3
        <3>4. CASE watchers[l] # w
            <4>1. stopped[w]
                BY <2>2, <3>4 DEF MapsOK, OneLiveWatcher
            <4>2. RanLate(l)'
                BY <4>1, <1>2, <2>2 DEF RanLate, TypeOK, Born
            <4>. QED
                BY <3>1, <3>2, <4>2
        <3>. QED
            BY <3>3, <3>4
    <2>3. CASE ~(l = h /\ Published(w))
        <3>1. watchers[l] # w
            BY <2>0, <2>3
        <3>2. run[watchers[l]] # "new"
            BY <2>0, <3>1, <1>2, BornAreWatchers DEF TypeOK
        <3>3. l # h => HostOf[l] # HostOf[h]
            BY <1>1, HostsAreDistinct
        <3>4. sew'[HostOf[l]] = sew[HostOf[l]]
              /\ (HostOf[l] \in deferredDeleteServices'
                    => HostOf[l] \in deferredDeleteServices)
            <4>1. CASE Published(w)
                BY <4>1, <2>3, <3>3, <2>0, <1>1 DEF UpdateServiceWrapper, TypeOK, CacheTypeOK
            <4>2. CASE ~Published(w)
                BY <4>2 DEF cacheVars, serviceVars
            <4>. QED
                BY <4>1, <4>2
        <3>. QED
            BY <2>1, <3>2, <3>4 DEF PublishedStays
    <2>. QED
        BY <2>2, <2>3
<1>. QED
    BY <1>4, <1>5, <1>6, <1>7

LEMMA RunReadyStep ==
    ASSUME IInv, NEW w \in Watcher, RunReady(w)
    PROVE  IInv'
<1>. USE DEF IInv, RunReady, callVars, bornVars, mapVars, loopVars, proxyLoopVars
<1>1. CacheTypeOK'
    BY StutterType DEF TypeOK
<1>2. run' = [run EXCEPT ![w] = "done"] /\ run[w] = "publishing"
    OBVIOUS
<1>3. dirty' \in BOOLEAN
    BY DEF Published, TypeOK
<1>4. TypeOK'
    BY <1>1, <1>3 DEF TypeOK, Born
<1>5. MapsOK' /\ LoopOK' /\ CallOK'
    BY DEF MapsOK, OneLiveWatcher, LoopOK, CallOK, Born
<1>6. RunOK'
    BY <1>2 DEF RunOK, TypeOK, Born
<1>7. PublishedStays'
    <2>1. \A v \in Watcher : run'[v] # "new" => run[v] # "new"
        BY <1>2 DEF TypeOK
    <2>2. \A k \in Registry : watchers[k] # NoWatcher => watchers[k] \in Watcher
        BY DEF TypeOK
    <2>. QED
        BY <2>1, <2>2 DEF PublishedStays, Published, RanLate, Born, cacheVars, serviceVars
<1>. QED
    BY <1>4, <1>5, <1>6, <1>7

-----------------------------------------------------------------------------
LEMMA IInvStep == IInv /\ [Next]_vars => IInv'
<1>. SUFFICES ASSUME IInv, [Next]_vars
              PROVE  IInv'
    OBVIOUS
<1>1. CASE UNCHANGED vars
    <2>1. CacheTypeOK'
        BY <1>1, StutterType DEF vars, IInv, TypeOK
    <2>. QED
        BY <1>1, <2>1
           DEF vars, mapVars, loopVars, proxyLoopVars, callVars, bornVars, runVars,
               cacheVars, serviceVars, IInv, TypeOK, MapsOK, OneLiveWatcher, LoopOK,
               CallOK, RunOK, PublishedStays, Published, RanLate, Born
<1>2. CASE \E b \in Bridge : Begin(b)
    BY <1>2, BeginStep
<1>3. CASE ReconcilerStep
    BY <1>3, DeleteRegistryStep, StopUpdatedStep, StartWatcherStep, StartFailsStep,
       QuietSteps, DeleteProxyStep, UpdateProxyStep, PurgeStep
       DEF ReconcilerStep, QuietStep
<1>4. CASE \E w \in Watcher : RunPublish(w) \/ RunReady(w)
    BY <1>4, RunPublishStep, RunReadyStep
<1>. QED
    BY <1>1, <1>2, <1>3, <1>4 DEF Next

LEMMA Invariance == Spec => []IInv
BY InitIInv, IInvStep, PTL DEF Spec

\* Type correctness of the reconciler, the watchers and the cache they share.
THEOREM ReconcilerTypeCorrect == Spec => []TypeOK
<1>. QED
    BY Invariance, PTL DEF IInv

\* What the current watcher of a registry published stays in the cache through
\* every reconciliation, whatever fails, times out or runs late.
THEOREM PublishedServicesStay == Spec => []PublishedStays
<1>. QED
    BY Invariance, PTL DEF IInv

\* No goroutine that was not stopped is forgotten by the reconciler.
THEOREM OneLiveWatcherEach == Spec => []OneLiveWatcher
<1>. QED
    BY Invariance, PTL DEF IInv, MapsOK

\* The reconciler never stops a watcher that it does not have.
THEOREM StopsOnlyItsWatchers == Spec => []StopsOnlyWatchersItHas
<1>1. IInv => StopsOnlyWatchersItHas
    BY DEF IInv, LoopOK, StopsOnlyWatchersItHas
<1>. QED
    BY <1>1, Invariance, PTL

-----------------------------------------------------------------------------
\* Only the purge takes a service out of the cache.
LEMMA OnlyPurgeRemoves ==
    ASSUME IInv, Next, NEW s \in Service, sew[s] # None, sew'[s] = None
    PROVE  Purge
<1>1. ASSUME NEW w \in Watcher, RunPublish(w)
      PROVE  sew'[s] # None
    <2>1. CASE Published(w)
        <3>1. registryOf[w] \in Registry /\ configOf[w] \in Data
            BY <1>1 DEF RunPublish, IInv, TypeOK
        <3>2. HostOf[registryOf[w]] \in Service
            BY <3>1, HostsAreDistinct
        <3>3. Replacing(sew[s], configOf[w]) # None
            BY <3>1, MaxTimeIsNat, ReplacingIsWrapper, NoneIsNoWrapper
               DEF IInv, TypeOK, CacheTypeOK
        <3>. QED
            BY <1>1, <2>1, <3>2, <3>3
               DEF RunPublish, UpdateServiceWrapper, IInv, TypeOK, CacheTypeOK
    <2>2. CASE ~Published(w)
        BY <1>1, <2>2 DEF RunPublish, cacheVars, serviceVars
    <2>. QED
        BY <2>1, <2>2
<1>2. ASSUME \/ \E b \in Bridge : Begin(b)
             \/ \E k \in Registry : DeleteRegistry(k) \/ StopUpdated(k)
             \/ \E k \in Registry : StartWatcher(k) \/ StartFails(k)
             \/ QuietStep
             \/ \E w \in Watcher : RunReady(w)
      PROVE  UNCHANGED sew
    BY <1>2 DEF Begin, DeleteRegistry, StopUpdated, StopWatcher, DeleteServiceWrapper,
                StartWatcher, StartFails, Started, QuietStep, RegistriesLooped,
                ReadyTimeout, AllReady, ProxiesLooped, Notify, RunReady, cacheVars,
                serviceVars
<1>3. ASSUME \E p \in Proxy : DeleteProxy(p) \/ UpdateProxy(p)
      PROVE  UNCHANGED sew
    BY <1>3 DEF DeleteProxy, DeleteProxyWrapper, UpdateProxy, UpdateProxyWrapper,
                cacheVars, serviceVars
<1>. QED
    BY <1>1, <1>2, <1>3 DEF Next, ReconcilerStep, QuietStep

\* A reconciliation that fails, by an error or by the timeout, removes no
\* service: whatever leaves the cache leaves it in a purge that follows a
\* complete pass over the registries, with every new watcher ready.
THEOREM FailuresRemoveNothing == Spec => FailureRemovesNothing
<1>1. IInv /\ [Next]_vars =>
        [\A s \in Service : sew[s] # None /\ sew'[s] = None =>
            /\ pc = "purging" /\ ~errHappened /\ pending = {}
            /\ \A k \in Registry : registries[k] = bridge.registries[k]]_vars
    BY OnlyPurgeRemoves DEF Purge, IInv, CallOK
<1>. QED
    BY <1>1, Invariance, PTL DEF Spec, FailureRemovesNothing
-----------------------------------------------------------------------------
(* What a reconciliation that succeeded leaves behind. *)

\* Whoever stands in the cache unmarked was published by the present watcher of its registry.
ServedOK ==
    \A k \in Registry :
        \/ RanLate(k) \/ HostOf[k] \in Proxy
        \/ sew[HostOf[k]] = None \/ HostOf[k] \in deferredDeleteServices
        \/ watchers[k] # NoWatcher /\ run[watchers[k]] # "new" /\ Published(watchers[k])

\* The proxies in the cache are the recorded ones and those about to be purged.
ProxiesOK ==
    \A p \in Proxy :
        IF proxies[p] = None THEN pw[p] = None \/ p \in deferredDeleteProxies
        ELSE pw[p] # None /\ pw[p].data = proxies[p] /\ p \notin deferredDeleteProxies

Succeeded == pc = "notifying" \/ (pc = "idle" /\ result = "ok")

\* Proxies are marked only in a call that goes on to its purge, and the purge leaves no mark.
MarksOK ==
    /\ pc \in {"proxies", "purging"} \/ deferredDeleteProxies = {}
    /\ pc \in {"proxies", "purging"} =>
          \A p \in deferredDeleteProxies : bridge.proxies[p] = None
    /\ Succeeded => deferredDeleteServices = {}

ProxyDone(p) == proxies[p] = bridge.proxies[p] \/ bridge.proxies[p] \in Broken

\* What the loop over the proxies has left to do, and that nothing is left behind it.
LeftOK ==
    /\ pc = "proxies" =>
          /\ \A p \in Proxy : p \in proxiesToUpdate \cup proxiesToDelete \/ ProxyDone(p)
          /\ \A p \in proxiesToDelete : bridge.proxies[p] = None
    /\ pc = "purging" \/ Succeeded => \A p \in Proxy : ProxyDone(p)
    /\ Succeeded => \A k \in Registry : registries[k] = bridge.registries[k]

DoneInv == ServedOK /\ ProxiesOK /\ MarksOK /\ LeftOK

LEMMA InitDone == Init => DoneInv
BY HostsAreDistinct
   DEF Init, CacheInit, DoneInv, ServedOK, ProxiesOK, MarksOK, Succeeded, LeftOK

\* What changes neither the cache nor the watchers keeps what is served.
LEMMA ServedFrame ==
    ASSUME ServedOK,
           UNCHANGED <<watchers, run, configOf, registryOf, created, late, sew,
                       deferredDeleteServices>>
    PROVE  ServedOK'
BY DEF ServedOK, RanLate, Published, Born

LEMMA DoneBegin ==
    ASSUME IInv, DoneInv, NEW b \in Bridge, Begin(b)
    PROVE  DoneInv'
<1>. USE DEF Begin, DoneInv, mapVars, bornVars, runVars, cacheVars, serviceVars, proxyVars
<1>1. ServedOK'
    BY ServedFrame
<1>. QED
    BY <1>1 DEF ProxiesOK, MarksOK, LeftOK, Succeeded

\* A stop marks what its watcher published.
LEMMA ServedStop ==
    ASSUME IInv, ServedOK, NEW k \in Registry, StopWatcher(k), UNCHANGED bornVars
    PROVE  ServedOK'
<1>. USE DEF StopWatcher, DeleteServiceWrapper, bornVars
<1>. SUFFICES ASSUME NEW l \in Registry, ~ RanLate(l), HostOf[l] \notin Proxy,
                     sew[HostOf[l]] # None, HostOf[l] \notin deferredDeleteServices'
              PROVE  watchers'[l] # NoWatcher /\ run[watchers'[l]] # "new"
                     /\ Published(watchers'[l])
    BY DEF ServedOK, RanLate, Published, Born
<1>1. HostOf[l] \notin deferredDeleteServices /\ l # k
    OBVIOUS
<1>2. watchers'[l] = watchers[l]
    BY <1>1 DEF IInv, TypeOK
<1>. QED
    BY <1>1, <1>2 DEF ServedOK

LEMMA DoneStop ==
    ASSUME IInv, DoneInv, NEW k \in Registry, DeleteRegistry(k) \/ StopUpdated(k)
    PROVE  DoneInv'
<1>. USE DEF DeleteRegistry, StopUpdated, DoneInv
<1>1. StopWatcher(k) /\ pc = "registries" /\ UNCHANGED <<bornVars, callVars, proxyLoopVars>>
    OBVIOUS
<1>2. ServedOK'
    BY <1>1, ServedStop
<1>. QED
    BY <1>1, <1>2 DEF ProxiesOK, MarksOK, LeftOK, Succeeded, StopWatcher,
                      DeleteServiceWrapper, proxyVars, callVars

\* The registry of a watcher that starts had none, so its host is marked or not there.
LEMMA DoneStart ==
    ASSUME IInv, DoneInv, NEW k \in Registry, StartWatcher(k)
    PROVE  DoneInv'
<1>. USE DEF StartWatcher, Started, MayStart, DoneInv, cacheVars, serviceVars, proxyVars, callVars
<1>. DEFINE w == created + 1
<1>1. w \in Watcher /\ w \notin Born /\ Born' = Born \cup {w}
    BY BoundsAreNat DEF IInv, TypeOK, Watcher, Born
<1>2. /\ watchers' = [watchers EXCEPT ![k] = w]
      /\ registryOf' = [registryOf EXCEPT ![w] = k]
      /\ configOf' = [configOf EXCEPT ![w] = bridge.registries[k]]
    OBVIOUS
<1>. HIDE DEF w
<1>3. ServedOK'
    <2>. SUFFICES ASSUME NEW l \in Registry, ~ RanLate(l)', HostOf[l] \notin Proxy,
                         sew[HostOf[l]] # None, HostOf[l] \notin deferredDeleteServices
                  PROVE  watchers'[l] # NoWatcher /\ run[watchers'[l]] # "new"
                         /\ configOf'[watchers'[l]] \notin Broken
        BY DEF ServedOK, Published
    <2>1. ~ RanLate(l)
        BY <1>1, <1>2, BornAreWatchers DEF RanLate, IInv, TypeOK
    <2>2. watchers[l] # NoWatcher /\ run[watchers[l]] # "new" /\ Published(watchers[l])
        BY <2>1 DEF ServedOK
    <2>3. l # k
        BY <2>2 DEF IInv, LoopOK
    <2>4. watchers'[l] = watchers[l] /\ watchers[l] \in Born
        BY <2>2, <2>3, <1>2 DEF IInv, TypeOK, MapsOK
    <2>5. watchers[l] # w /\ watchers[l] \in Watcher
        BY <2>4, <1>1, BornAreWatchers DEF IInv
    <2>. QED
        BY <2>2, <2>4, <2>5, <1>2 DEF Published, IInv, TypeOK
<1>. QED
    BY <1>3 DEF ProxiesOK, MarksOK, LeftOK, Succeeded

LEMMA DoneStartFails ==
    ASSUME IInv, DoneInv, NEW k \in Registry, StartFails(k)
    PROVE  DoneInv'
<1>. USE DEF StartFails, Started, MayStart, DoneInv, bornVars, cacheVars, serviceVars,
             proxyVars, callVars
<1>1. ServedOK'
    BY ServedFrame
<1>. QED
    BY <1>1 DEF ProxiesOK, MarksOK, LeftOK, Succeeded

LEMMA DoneQuiet ==
    ASSUME IInv, DoneInv, QuietStep
    PROVE  DoneInv'
<1>. USE DEF DoneInv, cacheVars, serviceVars, proxyVars, mapVars, bornVars, runVars
<1>1. UNCHANGED <<cacheVars, mapVars, bornVars, runVars, bridge>>
    BY DEF QuietStep, RegistriesLooped, ReadyTimeout, AllReady, ProxiesLooped, Notify, Return
<1>2. ServedOK' /\ ProxiesOK'
    BY <1>1, ServedFrame DEF ProxiesOK
<1>3. CASE RegistriesLooped \/ ReadyTimeout
    BY <1>1, <1>2, <1>3 DEF RegistriesLooped, ReadyTimeout, Return, MarksOK, LeftOK, Succeeded
<1>4. CASE AllReady
    BY <1>1, <1>2, <1>4 DEF AllReady, MarksOK, LeftOK, Succeeded, ProxyDone
<1>5. CASE ProxiesLooped
    BY <1>1, <1>2, <1>5 DEF ProxiesLooped, MarksOK, LeftOK, Succeeded, ProxyDone
<1>6. CASE Notify
    BY <1>1, <1>2, <1>6 DEF Notify, Return, MarksOK, LeftOK, Succeeded, ProxyDone
<1>. QED
    BY <1>3, <1>4, <1>5, <1>6 DEF QuietStep

LEMMA DoneDeleteProxy ==
    ASSUME IInv, DoneInv, NEW p \in Proxy, DeleteProxy(p)
    PROVE  DoneInv'
<1>. USE DEF DeleteProxy, DeleteProxyWrapper, DoneInv, serviceVars, bornVars, runVars, callVars
<1>1. ServedOK'
    BY ServedFrame
<1>2. ProxiesOK'
    BY DEF ProxiesOK, IInv, TypeOK
<1>3. MarksOK'
    BY DEF MarksOK, LeftOK, Succeeded
<1>4. LeftOK'
    BY DEF LeftOK, Succeeded, ProxyDone, IInv, TypeOK
<1>. QED
    BY <1>1, <1>2, <1>3, <1>4

\* The mark that an update clears is that of a service with the name of the proxy.
LEMMA DoneUpdateProxy ==
    ASSUME IInv, DoneInv, NEW p \in Proxy, UpdateProxy(p)
    PROVE  DoneInv'
<1>. USE DEF UpdateProxy, DoneInv, callVars
<1>1. pc = "proxies" /\ p \in proxiesToUpdate /\ bridge.proxies[p] # None
    BY DEF IInv, CallOK
<1>2. CASE bridge.proxies[p] \in Broken
    <2>1. ServedOK'
        BY <1>2, ServedFrame DEF cacheVars, serviceVars, bornVars, runVars
    <2>. QED
        BY <1>1, <1>2, <2>1 DEF cacheVars, serviceVars, proxyVars, ProxiesOK, MarksOK, LeftOK,
                                Succeeded, ProxyDone
<1>3. CASE bridge.proxies[p] \notin Broken
    <2>1. /\ UpdateProxyWrapper(p, bridge.proxies[p])
          /\ proxies' = [proxies EXCEPT ![p] = bridge.proxies[p]]
        BY <1>3
    <2>2. bridge.proxies[p] \in Config
        BY <1>1, BridgeFields DEF IInv, TypeOK
    <2>3. pw'[p] # None /\ pw'[p].data = bridge.proxies[p]
        <3>1. pw[p] \in Wrapper \cup {None}
            BY DEF IInv, TypeOK, CacheTypeOK
        <3>2. pw'[p] = Replacing(pw[p], bridge.proxies[p])
            BY <2>1 DEF UpdateProxyWrapper, IInv, TypeOK, CacheTypeOK
        <3>3. clock \in Nat
            BY MaxTimeIsNat DEF IInv, TypeOK, CacheTypeOK
        <3>. QED
            BY <2>2, <3>1, <3>2, <3>3, ReplacingIsWrapper, NoneIsNoWrapper
    <2>4. ServedOK'
        BY <2>1 DEF ServedOK, UpdateProxyWrapper, RanLate, Published, Born, bornVars, runVars
    <2>5. p \notin deferredDeleteProxies
        BY <1>1 DEF MarksOK
    <2>6. ProxiesOK'
        BY <2>1, <2>3, <2>5, <1>1 DEF ProxiesOK, UpdateProxyWrapper, IInv, TypeOK, CacheTypeOK
    <2>7. MarksOK'
        BY <2>1, <1>1 DEF MarksOK, UpdateProxyWrapper, Succeeded
    <2>8. LeftOK'
        BY <2>1, <1>1 DEF LeftOK, Succeeded, ProxyDone, IInv, TypeOK
    <2>. QED
        BY <2>4, <2>6, <2>7, <2>8
<1>. QED
    BY <1>2, <1>3

LEMMA DonePurge ==
    ASSUME IInv, DoneInv, Purge
    PROVE  DoneInv'
<1>. USE DEF Purge, DoneInv, mapVars, bornVars, runVars
<1>1. PurgeStaleItems /\ pc = "purging" /\ bridge' = bridge
    BY DEF Return
<1>2. ServedOK'
    BY <1>1, HostsAreDistinct DEF ServedOK, PurgeStaleItems, RanLate, Published, Born
<1>3. ProxiesOK'
    BY <1>1 DEF ProxiesOK, PurgeStaleItems
<1>4. MarksOK'
    BY <1>1 DEF MarksOK, PurgeStaleItems, Return
<1>5. LeftOK'
    BY <1>1 DEF LeftOK, Return, Succeeded, ProxyDone, IInv, CallOK
<1>. QED
    BY <1>2, <1>3, <1>4, <1>5

\* A watcher that publishes is the present one of its registry, or late.
LEMMA DoneRunPublish ==
    ASSUME IInv, DoneInv, NEW w \in Watcher, RunPublish(w)
    PROVE  DoneInv'
<1>. USE DEF RunPublish, DoneInv, callVars, bornVars, mapVars, proxyLoopVars
<1>1. w \in Born /\ registryOf[w] \in Registry /\ HostOf[registryOf[w]] \in Service
    BY HostsAreDistinct DEF IInv, TypeOK
<1>2. run' = [run EXCEPT ![w] = "publishing"] /\ late' = [late EXCEPT ![w] = stopped[w]]
    OBVIOUS
<1>3. /\ deferredDeleteServices' \subseteq deferredDeleteServices
      /\ UNCHANGED proxyVars
    BY DEF UpdateServiceWrapper, cacheVars, serviceVars
<1>4. ServedOK'
    <2>. SUFFICES ASSUME NEW l \in Registry, ~ RanLate(l)', HostOf[l] \notin Proxy,
                         sew'[HostOf[l]] # None, HostOf[l] \notin deferredDeleteServices'
                  PROVE  watchers[l] # NoWatcher /\ run'[watchers[l]] # "new"
                         /\ Published(watchers[l])
        BY DEF ServedOK, Published
    <2>1. ~ RanLate(l)
        BY <1>2 DEF RanLate, Born, IInv, RunOK, TypeOK
    <2>2. CASE l = registryOf[w] /\ Published(w)
        <3>1. ~ stopped[w]
            BY <1>1, <1>2, <2>2 DEF RanLate, Born, IInv, TypeOK
        <3>2. watchers[l] = w
            BY <1>1, <2>2, <3>1 DEF IInv, MapsOK, OneLiveWatcher
        <3>. QED
            BY <1>1, <1>2, <2>2, <3>2 DEF Born, IInv, TypeOK
    <2>3. CASE ~ (l = registryOf[w] /\ Published(w))
        <3>1. sew[HostOf[l]] # None /\ HostOf[l] \notin deferredDeleteServices
            <4>1. CASE Published(w)
                <5>1. HostOf[l] # HostOf[registryOf[w]] /\ HostOf[l] \in Service
                    BY <4>1, <2>3, <1>1, HostsAreDistinct
                <5>. QED
                    BY <4>1, <5>1 DEF UpdateServiceWrapper, IInv, TypeOK, CacheTypeOK
            <4>2. CASE ~ Published(w)
                BY <4>2 DEF cacheVars, serviceVars
            <4>. QED
                BY <4>1, <4>2
        <3>2. watchers[l] # NoWatcher /\ run[watchers[l]] # "new" /\ Published(watchers[l])
            BY <2>1, <3>1 DEF ServedOK
        <3>. QED
            BY <3>2, <1>2 DEF IInv, TypeOK
    <2>. QED
        BY <2>2, <2>3
<1>. QED
    BY <1>3, <1>4 DEF ProxiesOK, MarksOK, LeftOK, Succeeded, ProxyDone, proxyVars

LEMMA DoneRunReady ==
    ASSUME IInv, DoneInv, NEW w \in Watcher, RunReady(w)
    PROVE  DoneInv'
<1>. USE DEF RunReady, DoneInv, callVars, bornVars, mapVars, proxyLoopVars, cacheVars,
             serviceVars, proxyVars
<1>1. \A v \in Watcher : run'[v] = "new" <=> run[v] = "new"
    BY DEF IInv, TypeOK
<1>2. ServedOK'
    BY <1>1 DEF ServedOK, RanLate, Published, Born, IInv, TypeOK
<1>. QED
    BY <1>2 DEF ProxiesOK, MarksOK, LeftOK, Succeeded, ProxyDone

LEMMA DoneStep == IInv /\ DoneInv /\ [Next]_vars => DoneInv'
<1>. SUFFICES ASSUME IInv, DoneInv, [Next]_vars
              PROVE  DoneInv'
    OBVIOUS
<1>1. CASE UNCHANGED vars
    BY <1>1 DEF vars, mapVars, loopVars, proxyLoopVars, callVars, bornVars, runVars, cacheVars,
                serviceVars, proxyVars, DoneInv, ServedOK, RanLate, Published, Born, ProxiesOK,
                MarksOK, LeftOK, Succeeded, ProxyDone
<1>2. CASE \E b \in Bridge : Begin(b)
    BY <1>2, DoneBegin
<1>3. CASE ReconcilerStep
    BY <1>3, DoneStop, DoneStart, DoneStartFails, DoneQuiet, DoneDeleteProxy, DoneUpdateProxy,
       DonePurge DEF ReconcilerStep, QuietStep
<1>4. CASE \E w \in Watcher : RunPublish(w) \/ RunReady(w)
    BY <1>4, DoneRunPublish, DoneRunReady
<1>. QED
    BY <1>1, <1>2, <1>3, <1>4 DEF Next

\* Both invariants together say what a successful call promises.
LEMMA DoneMeansConverged == IInv /\ DoneInv => ConvergedWhenOk
<1>. SUFFICES ASSUME IInv, DoneInv, pc = "idle", result = "ok",
                     \A w \in Born : ~ stopped[w] => run[w] = "done"
              PROVE  /\ \A k \in Registry : RanLate(k) \/
                          IF bridge.registries[k] \in Broken \cup {None}
                          THEN sew[HostOf[k]] = None \/ HostOf[k] \in Proxy
                          ELSE sew[HostOf[k]] # None
                               /\ sew[HostOf[k]].data = bridge.registries[k]
                     /\ \A p \in Proxy :
                          /\ IF proxies[p] = None THEN pw[p] = None
                             ELSE pw[p] # None /\ pw[p].data = proxies[p]
                          /\ proxies[p] # bridge.proxies[p] => bridge.proxies[p] \in Broken
    BY DEF ConvergedWhenOk
<1>1. /\ deferredDeleteServices = {} /\ deferredDeleteProxies = {}
      /\ \A k \in Registry : registries[k] = bridge.registries[k]
    BY DEF DoneInv, MarksOK, LeftOK, Succeeded
<1>2. ASSUME NEW k \in Registry, watchers[k] # NoWatcher
      PROVE  /\ run[watchers[k]] = "done"
             /\ configOf[watchers[k]] = bridge.registries[k]
    BY <1>1, <1>2 DEF IInv, MapsOK, OneLiveWatcher
<1>3. ASSUME NEW k \in Registry, ~ RanLate(k), bridge.registries[k] \in Broken \cup {None},
             HostOf[k] \notin Proxy
      PROVE  sew[HostOf[k]] = None
    BY <1>1, <1>2, <1>3 DEF DoneInv, ServedOK, Published, IInv, MapsOK
<1>4. ASSUME NEW k \in Registry, ~ RanLate(k), bridge.registries[k] \notin Broken \cup {None}
      PROVE  sew[HostOf[k]] # None /\ sew[HostOf[k]].data = bridge.registries[k]
    BY <1>1, <1>2, <1>4 DEF IInv, MapsOK, PublishedStays, Published
<1>5. \A p \in Proxy :
          /\ IF proxies[p] = None THEN pw[p] = None
             ELSE pw[p] # None /\ pw[p].data = proxies[p]
          /\ proxies[p] # bridge.proxies[p] => bridge.proxies[p] \in Broken
    BY <1>1 DEF DoneInv, ProxiesOK, LeftOK, Succeeded, ProxyDone
<1>. QED
    BY <1>3, <1>4, <1>5

\* After a call that succeeded and once the watchers ran, the cache is what the bridge
\* describes, whatever failed or timed out in the calls before.
THEOREM SuccessConverges == Spec => []ConvergedWhenOk
<1>. QED
    BY Invariance, InitDone, DoneStep, DoneMeansConverged, PTL DEF Spec

-----------------------------------------------------------------------------
\* A change nobody announced belongs to a watcher that will, to the loop over the proxies,
\* which has noted it, or to the purge, which announces next.
AnnouncedOK ==
    dirty => \/ pc = "notifying"
             \/ pc = "proxies" /\ needNotify
             \/ \E w \in Born : run[w] = "publishing" /\ Published(w)

LEMMA AnnouncedStep == IInv /\ AnnouncedOK /\ [Next]_vars => AnnouncedOK'
<1>. SUFFICES ASSUME IInv, AnnouncedOK, [Next]_vars, dirty'
              PROVE  AnnouncedOK'
    BY DEF AnnouncedOK
<1>. USE DEF AnnouncedOK, Born, Published
<1>1. CASE \E w \in Watcher : RunPublish(w)
    <2>1. PICK w \in Watcher : RunPublish(w)
        BY <1>1
    <2>2. CASE Published(w)
        BY <2>1, <2>2 DEF RunPublish, bornVars, IInv, TypeOK
    <2>3. CASE ~ Published(w)
        <3>1. dirty /\ \A v \in Born : run[v] = "publishing" => run'[v] = "publishing"
            BY <2>1, <2>3, BornAreWatchers DEF RunPublish, IInv, TypeOK
        <3>. QED
            BY <2>1, <3>1 DEF RunPublish, callVars, proxyLoopVars, bornVars
    <2>. QED
        BY <2>2, <2>3
<1>2. CASE \E w \in Watcher : RunReady(w)
    <2>1. PICK w \in Watcher : RunReady(w)
        BY <1>2
    <2>2. dirty /\ ~ Published(w)
        BY <2>1 DEF RunReady
    <2>3. \A v \in Born : v # w => run'[v] = run[v]
        BY <2>1, BornAreWatchers DEF RunReady, IInv, TypeOK
    <2>. QED
        BY <2>1, <2>2, <2>3 DEF RunReady, callVars, proxyLoopVars, bornVars
<1>3. CASE \E k \in Registry : StartWatcher(k)
    <2>1. PICK k \in Registry : StartWatcher(k)
        BY <1>3
    <2>2. dirty /\ pc = "registries" /\ pc' = pc /\ created' = created + 1
          /\ \A v \in Born : configOf'[v] = configOf[v] /\ run'[v] = run[v]
        BY <2>1, BornAreWatchers DEF StartWatcher, Started, MayStart, callVars, IInv, TypeOK
    <2>. QED
        BY <2>2, BornAreWatchers DEF IInv
<1>4. CASE \/ \E b \in Bridge : Begin(b)
           \/ \E k \in Registry : DeleteRegistry(k) \/ StopUpdated(k) \/ StartFails(k)
           \/ RegistriesLooped \/ ReadyTimeout \/ AllReady
    BY <1>4 DEF Begin, DeleteRegistry, StopUpdated, StopWatcher, StartFails, Started, MayStart,
                RegistriesLooped, ReadyTimeout, AllReady, Return, callVars, bornVars, runVars
<1>5. CASE \/ \E p \in Proxy : DeleteProxy(p) \/ UpdateProxy(p)
           \/ ProxiesLooped \/ Purge \/ Notify
    BY <1>5 DEF DeleteProxy, UpdateProxy, ProxiesLooped, Purge, Notify, Return, SomethingStale,
                callVars, bornVars, runVars
<1>6. CASE UNCHANGED vars
    BY <1>6 DEF vars, callVars, proxyLoopVars, bornVars, runVars
<1>. QED
    BY <1>1, <1>2, <1>3, <1>4, <1>5, <1>6 DEF Next, ReconcilerStep

\* Nothing that changed in the cache stays unannounced when Reconcile returns, but what a
\* watcher has published a moment ago.
THEOREM NothingStaysUnannounced == Spec => []NothingUnannounced
<1>1. Init => AnnouncedOK
    BY DEF Init, AnnouncedOK
<1>2. AnnouncedOK => NothingUnannounced
    BY DEF AnnouncedOK, NothingUnannounced
<1>. QED
    BY <1>1, <1>2, AnnouncedStep, Invariance, PTL DEF Spec
=============================================================================
