------------------------- MODULE NacosWatcherProofs -------------------------
(***************************************************************************)
(* The Nacos watcher, for any services, addresses and number of tries.     *)
(***************************************************************************)
EXTENDS NacosWatcher, ServiceCacheProofs

\* Only a watcher that has stopped is in isStop, and Stop and a fetch exclude each
\* other.
PhaseOK ==
    /\ isStop <=> stopper = "done"
    /\ fetcher \in {"listing", "unsubscribing", "subscribing"} => stopper = "no"
    /\ stopper \in {"no", "provider"} => cleaned = {}
    /\ stopper = "done" => WatchingServices \subseteq cleaned
    /\ fetcher # "subscribing" => watchingKeys = {}

\* What is subscribed is watched or about to be, and whatever may still be pushed
\* is watched, was dropped, or was gone over by Stop.
SubscriptionsOK ==
    /\ watchingKeys \subseteq subscribed
    /\ ~isStop => subscribed \subseteq WatchingServices \cup watchingKeys
    /\ ~isStop => WatchingServices \subseteq subscribed \cup former
    /\ calls \cup subscribed \cup former
          \subseteq WatchingServices \cup watchingKeys \cup dropped \cup cleaned

\* What is stored of one service.
StoredOK(s) ==
    sew[s] # None =>
        /\ s \in WatchingServices \cup watchingKeys \cup dropped \cup cleaned
        /\ s \in cleaned => s \in deferredDeleteServices \cup lateCalls

IInv == /\ WatcherTypeOK /\ PhaseOK /\ SubscriptionsOK
        /\ \A s \in Service : StoredOK(s)

USE MaxTriesIsNat

-----------------------------------------------------------------------------
(* Types *)

LEMMA InitInv == Init => IInv
<1> SUFFICES ASSUME Init PROVE IInv
  OBVIOUS
<1>1. CacheTypeOK
  BY CacheInvInit DEF Init, CacheInv
<1>2. WatcherTypeOK
  <2>1. /\ nacosAddr \in Addr /\ nacosBackupAddr \subseteq Addr \ {nacosAddr}
        /\ oldAddress \in Addr /\ Domain \in Addr /\ addr \in Addr
        /\ providerStop = FALSE /\ provider = "select" /\ waiter = "none"
    BY DEF Init, AddressInit
  <2>2. tries \in 0 .. MaxTries
    BY DEF Init
  <2>3. QED
    BY <1>1, <2>1, <2>2 DEF Init, WatcherTypeOK
<1>3. PhaseOK /\ SubscriptionsOK
  BY DEF Init, PhaseOK, SubscriptionsOK
<1>4. \A s \in Service : StoredOK(s)
  BY DEF Init, CacheInit, StoredOK
<1>5. QED
  BY <1>2, <1>3, <1>4 DEF IInv

\* A fetch keeps the types.
LEMMA FetchTypes ==
    ASSUME WatcherTypeOK, FetchStep
    PROVE  WatcherTypeOK'
<1> USE DEF WatcherTypeOK, serverVars, stopVars, fetchVars, locals, updaterVars, history,
            addressVars, waiterVars
<1>1. CacheTypeOK'
  <2>1. UNCHANGED cacheVars
    BY DEF FetchStep, BeginFetch, ListFails, Fetched, Unsubscribe, UnsubscribeFails,
           Unsubscribed, Subscribe, FetchReturns, SayReady, RunReturns
  <2>2. QED
    BY <2>1, StutterType
<1>2. CASE BeginFetch
  BY <1>1, <1>2 DEF BeginFetch, providerVars
<1>3. CASE ListFails
  <2>1. CASE tries = MaxTries
    BY <1>1, <1>3, <2>1 DEF ListFails, FetchFails, LocalsGone, providerVars
  <2>2. CASE tries # MaxTries
    <3>1. /\ Trigger /\ tries' = tries + 1 /\ fetcher = "listing"
          /\ UNCHANGED <<fetcher, fetched, watchingKeys, subscribeFailed, mutex, serverVars,
                         WatchingServices, Domain, stopVars, ReadyStatus, updaterVars, history>>
      BY <1>3, <2>2 DEF ListFails
    <3>2. /\ nacosAddr' \in Addr /\ nacosBackupAddr' \subseteq Addr \ {nacosAddr'}
          /\ UNCHANGED <<provider, providerStop, oldAddress>>
          /\ waiter' \in {waiter, "locking"} /\ (waiter' # waiter => waiter = "waiting")
      BY <3>1 DEF Trigger, SwitchAddress, Broadcast
    <3>3. tries' \in 0 .. MaxTries
      BY <2>2, <3>1
    <3>4. QED
      BY <1>1, <3>1, <3>2, <3>3
  <2>3. QED
    BY <2>1, <2>2
<1>4. CASE Fetched
  BY <1>1, <1>4 DEF Fetched, providerVars
<1>5. ASSUME NEW s \in Service, Unsubscribe(s)
      PROVE  WatcherTypeOK'
  BY <1>1, <1>5 DEF Unsubscribe, providerVars
<1>6. CASE UnsubscribeFails
  BY <1>1, <1>6 DEF UnsubscribeFails, FetchFails, LocalsGone, providerVars
<1>7. CASE Unsubscribed
  BY <1>1, <1>7 DEF Unsubscribed, providerVars
<1>8. ASSUME NEW s \in Service, Subscribe(s)
      PROVE  WatcherTypeOK'
  BY <1>1, <1>8 DEF Subscribe, providerVars
<1>9. CASE FetchReturns
  BY <1>1, <1>9 DEF FetchReturns, LocalsGone, providerVars
<1>10. CASE SayReady
  BY <1>1, <1>10 DEF SayReady, providerVars
<1>11. CASE RunReturns
  BY <1>1, <1>11 DEF RunReturns, providerVars
<1>12. QED
  BY <1>2, <1>3, <1>4, <1>5, <1>6, <1>7, <1>8, <1>9, <1>10, <1>11 DEF FetchStep

\* The steps of the updater and of Stop.
UpdaterStep == AwaitAddress \/ ReceiveAddress \/ UpdateClient \/ UpdaterReturns
StopStep == BeginStop \/ StopProvider \/ (\E s \in Service : CleanService(s)) \/ EndStop

\* The updater and Stop keep the types.
LEMMA UpdaterTypes ==
    ASSUME WatcherTypeOK, UpdaterStep
    PROVE  WatcherTypeOK'
<1> USE DEF WatcherTypeOK, serverVars, stopVars, fetchVars, locals, updaterVars, history,
            addressVars, waiterVars
<1>1. CacheTypeOK'
  <2>1. UNCHANGED cacheVars
    BY DEF UpdaterStep, AwaitAddress, ReceiveAddress, UpdateClient, UpdaterReturns
  <2>2. QED
    BY <2>1, StutterType
<1>2. CASE AwaitAddress
  BY <1>1, <1>2 DEF AwaitAddress, GetNacosAddress
<1>3. CASE ReceiveAddress
  BY <1>1, <1>3 DEF ReceiveAddress
<1>4. CASE UpdateClient
  BY <1>1, <1>4 DEF UpdateClient, providerVars
<1>5. CASE UpdaterReturns
  BY <1>1, <1>5 DEF UpdaterReturns, providerVars
<1>6. QED
  BY <1>2, <1>3, <1>4, <1>5 DEF UpdaterStep

LEMMA StopTypes ==
    ASSUME WatcherTypeOK, StopStep
    PROVE  WatcherTypeOK'
<1> USE DEF WatcherTypeOK, serverVars, stopVars, fetchVars, locals, updaterVars, history,
            addressVars, waiterVars
<1>1. CASE BeginStop
  <2>1. CacheTypeOK'
    BY <1>1, StutterType DEF BeginStop
  <2>2. QED
    BY <1>1, <2>1 DEF BeginStop
<1>2. CASE StopProvider
  <2>1. CacheTypeOK'
    BY <1>2, StutterType DEF StopProvider
  <2>2. QED
    BY <1>2, <2>1 DEF StopProvider, StopReceived
<1>3. ASSUME NEW s \in Service, CleanService(s)
      PROVE  WatcherTypeOK'
  <2>1. CacheTypeOK'
    BY <1>3, DeleteServiceType DEF CleanService
  <2>2. QED
    BY <1>3, <2>1 DEF CleanService, providerVars
<1>4. CASE EndStop
  <2>1. CacheTypeOK'
    BY <1>4, StutterType DEF EndStop
  <2>2. QED
    BY <1>4, <2>1 DEF EndStop, providerVars
<1>5. QED
  BY <1>1, <1>2, <1>3, <1>4 DEF StopStep

\* The address provider on its own keeps the types.
LEMMA ProviderTypes ==
    ASSUME WatcherTypeOK,
           \/ ProviderStep(WaiterChecks) \/ ProviderStep(AskServer) \/ ProviderStep(AskFails)
           \/ ProviderStep(Answered) \/ ProviderStep(NotParsed)
           \/ \E addrVec \in SUBSET Addr : ProviderStep(AddressesFound(addrVec))
    PROVE  WatcherTypeOK'
<1> USE DEF WatcherTypeOK, serverVars, stopVars, fetchVars, locals, updaterVars, history,
            addressVars, waiterVars, ProviderStep
<1>1. CacheTypeOK'
  BY StutterType
<1>2. CASE ProviderStep(WaiterChecks)
  BY <1>1, <1>2 DEF WaiterChecks
<1>3. CASE \/ ProviderStep(AskServer) \/ ProviderStep(AskFails) \/ ProviderStep(Answered)
           \/ ProviderStep(NotParsed)
  BY <1>1, <1>3 DEF AskServer, AskFails, Answered, NotParsed
<1>4. ASSUME NEW addrVec \in SUBSET Addr, ProviderStep(AddressesFound(addrVec))
      PROVE  WatcherTypeOK'
  <2>1. /\ nacosAddr' \in Addr /\ nacosBackupAddr' \subseteq Addr \ {nacosAddr'}
        /\ waiter' \in {waiter, "locking"} /\ (waiter' # waiter => waiter = "waiting")
        /\ provider' = "select" /\ UNCHANGED <<providerStop, oldAddress>>
    BY <1>4 DEF AddressesFound, Broadcast
  <2>2. QED
    BY <1>1, <1>4, <2>1
<1>5. QED
  BY <1>2, <1>3, <1>4

\* The callbacks and the purge keep the types.
LEMMA OutsideTypes ==
    ASSUME WatcherTypeOK, (\E s \in Service : Push(s) \/ Callback(s)) \/ Purge
    PROVE  WatcherTypeOK'
<1> USE DEF WatcherTypeOK, serverVars, stopVars, fetchVars, locals, updaterVars, history,
            providerVars, addressVars, waiterVars
<1>1. ASSUME NEW s \in Service, Push(s)
      PROVE  WatcherTypeOK'
  <2>1. CacheTypeOK'
    BY <1>1, StutterType DEF Push
  <2>2. QED
    BY <1>1, <2>1 DEF Push
<1>2. ASSUME NEW s \in Service, Callback(s)
      PROVE  WatcherTypeOK'
  <2>1. CacheTypeOK'
    BY <1>2, StutterType, UpdateServiceType, DeleteServiceType DEF Callback
  <2>2. lateCalls' \subseteq lateCalls \cup {s}
    BY <1>2 DEF Callback
  <2>3. QED
    BY <1>2, <2>1, <2>2 DEF Callback
<1>3. CASE Purge
  <2>1. CacheTypeOK'
    BY <1>3, PurgeType DEF Purge
  <2>2. QED
    BY <1>3, <2>1 DEF Purge
<1>4. QED
  BY <1>1, <1>2, <1>3

LEMMA NextTypes ==
    ASSUME WatcherTypeOK, [Next]_vars
    PROVE  WatcherTypeOK'
<1>1. CASE UNCHANGED vars
  <2>1. CacheTypeOK'
    BY <1>1, StutterType DEF vars, WatcherTypeOK
  <2>2. QED
    BY <1>1, <2>1 DEF vars, WatcherTypeOK, serverVars, stopVars, fetchVars, locals, updaterVars,
                      history, providerVars, addressVars, waiterVars
<1>2. QED
  BY <1>1, FetchTypes, UpdaterTypes, StopTypes, ProviderTypes, OutsideTypes
     DEF Next, UpdaterStep, StopStep

-----------------------------------------------------------------------------
(* Subscriptions and the cache *)

\* A step that touches none of the variables of these parts, or only the phases of
\* a fetch.
LEMMA QuietStep ==
    ASSUME IInv, UNCHANGED <<cacheVars, serverVars, WatchingServices, watchingKeys, isStop, stopper,
                             cleaned, history>>,
           \/ fetcher' = fetcher
           \/ stopper = "no" /\ watchingKeys = {}
           \/ fetcher' \in {"idle", "ready", "done"} /\ watchingKeys = {}
    PROVE  PhaseOK' /\ SubscriptionsOK' /\ \A s \in Service : StoredOK(s)'
BY DEF IInv, PhaseOK, SubscriptionsOK, StoredOK, cacheVars, serviceVars, serverVars, history

\* The steps of a fetch.
LEMMA FetchKeeps ==
    ASSUME IInv, FetchStep
    PROVE  PhaseOK' /\ SubscriptionsOK' /\ \A s \in Service : StoredOK(s)'
<1> USE DEF serverVars, stopVars, history
<1>1. /\ UNCHANGED <<cacheVars, former, calls, isStop, stopper, cleaned, lateCalls>>
      /\ sew' = sew /\ deferredDeleteServices' = deferredDeleteServices
  BY DEF FetchStep, BeginFetch, ListFails, Fetched, Unsubscribe, UnsubscribeFails, Unsubscribed,
         Subscribe, FetchReturns, SayReady, RunReturns, cacheVars, serviceVars
<1>2. /\ fetcher \in {"listing", "unsubscribing", "subscribing"} => stopper = "no" /\ ~isStop
      /\ fetcher # "subscribing" => watchingKeys = {}
      /\ cleaned = {} \/ stopper \notin {"no", "provider"}
  BY DEF IInv, PhaseOK
<1>3. CASE BeginFetch
  <2>1. fetcher = "idle" /\ watchingKeys = {} /\ (fetcher' = "ready" \/ stopper = "no")
    BY <1>2, <1>3 DEF BeginFetch, IInv, PhaseOK, WatcherTypeOK
  <2>2. QED
    BY <1>3, <2>1, QuietStep DEF BeginFetch, locals
<1>4. CASE ListFails
  BY <1>2, <1>4, QuietStep DEF ListFails, FetchFails, LocalsGone
<1>5. CASE Fetched
  BY <1>2, <1>5, QuietStep DEF Fetched
<1>6. ASSUME NEW s \in Service, Unsubscribe(s)
      PROVE  PhaseOK' /\ SubscriptionsOK' /\ \A t \in Service : StoredOK(t)'
  <2>1. /\ fetcher = "unsubscribing" /\ watchingKeys = {} /\ cleaned = {}
        /\ WatchingServices' = WatchingServices \ {s}
        /\ subscribed' = subscribed \ {s}
        /\ dropped' = dropped \cup {s}
        /\ UNCHANGED <<fetcher, watchingKeys>>
    BY <1>2, <1>6 DEF Unsubscribe, fetchVars, locals
  <2>2. QED
    BY <1>1, <1>2, <2>1 DEF IInv, PhaseOK, SubscriptionsOK, StoredOK
<1>7. CASE UnsubscribeFails
  BY <1>2, <1>7, QuietStep DEF UnsubscribeFails, FetchFails, LocalsGone
<1>8. CASE Unsubscribed
  <2>1. /\ stopper = "no" /\ watchingKeys = {}
        /\ UNCHANGED <<cacheVars, serverVars, WatchingServices, watchingKeys, isStop, stopper,
                       cleaned, history>>
    BY <1>2, <1>8 DEF Unsubscribed, locals
  <2>2. QED
    BY <2>1, QuietStep
<1>9. ASSUME NEW s \in Service, Subscribe(s)
      PROVE  PhaseOK' /\ SubscriptionsOK' /\ \A t \in Service : StoredOK(t)'
  <2>1. fetcher = "subscribing" /\ UNCHANGED <<WatchingServices, fetcher, dropped>>
    BY <1>9 DEF Subscribe
  <2>2. \/ UNCHANGED <<subscribed, watchingKeys>>
        \/ subscribed' = subscribed \cup {s} /\ watchingKeys' = watchingKeys \cup {s}
    BY <1>9 DEF Subscribe
  <2>3. QED
    BY <1>1, <1>2, <2>1, <2>2 DEF IInv, PhaseOK, SubscriptionsOK, StoredOK
<1>10. CASE FetchReturns
  <2>1. /\ fetcher = "subscribing" /\ fetcher' \in {"idle", "ready"}
        /\ WatchingServices' = WatchingServices \cup watchingKeys /\ watchingKeys' = {}
        /\ dropped' = dropped \ watchingKeys /\ UNCHANGED subscribed
    BY <1>10 DEF FetchReturns, LocalsGone
  <2>2. QED
    BY <1>1, <1>2, <2>1 DEF IInv, PhaseOK, SubscriptionsOK, StoredOK
<1>11. CASE SayReady \/ RunReturns
  BY <1>2, <1>11, QuietStep DEF SayReady, RunReturns, locals
<1>12. QED
  BY <1>3, <1>4, <1>5, <1>6, <1>7, <1>8, <1>9, <1>10, <1>11 DEF FetchStep

\* The steps of Stop.
LEMMA StopKeeps ==
    ASSUME IInv, StopStep
    PROVE  PhaseOK' /\ SubscriptionsOK' /\ \A s \in Service : StoredOK(s)'
<1> USE DEF serverVars, stopVars, history, fetchVars, locals
<1>1. CASE BeginStop
  <2>1. /\ UNCHANGED <<cacheVars, serverVars, WatchingServices, watchingKeys, isStop, cleaned, fetcher,
                       history>>
        /\ stopper = "no" /\ stopper' = "provider"
        /\ fetcher \notin {"listing", "unsubscribing", "subscribing"}
    BY <1>1 DEF BeginStop, IInv, WatcherTypeOK
  <2>2. QED
    BY <2>1 DEF IInv, PhaseOK, SubscriptionsOK, StoredOK, cacheVars, serviceVars
<1>2. CASE StopProvider
  <2>1. /\ UNCHANGED <<cacheVars, serverVars, WatchingServices, watchingKeys, isStop, cleaned, fetcher,
                       history>>
        /\ stopper = "provider" /\ stopper' = "services"
    BY <1>2 DEF StopProvider
  <2>2. QED
    BY <2>1 DEF IInv, PhaseOK, SubscriptionsOK, StoredOK, cacheVars, serviceVars
<1>3. ASSUME NEW s \in Service, CleanService(s)
      PROVE  PhaseOK' /\ SubscriptionsOK' /\ \A t \in Service : StoredOK(t)'
  <2>1. /\ stopper = "services" /\ s \in WatchingServices /\ cleaned' = cleaned \cup {s}
        /\ UNCHANGED <<former, calls, isStop, stopper, watchingKeys, fetcher, dropped, lateCalls>>
        /\ \/ WatchingServices' = WatchingServices \ {s} /\ subscribed' = subscribed \ {s}
           \/ UNCHANGED <<WatchingServices, subscribed>>
    BY <1>3 DEF CleanService
  <2>2. /\ sew' = sew /\ deferredDeleteServices \subseteq deferredDeleteServices'
        /\ sew[s] # None => s \in deferredDeleteServices'
    BY <1>3 DEF CleanService, DeleteServiceWrapper
  <2>3. fetcher \notin {"listing", "unsubscribing", "subscribing"} /\ watchingKeys = {}
    BY <2>1 DEF IInv, PhaseOK
  <2>4. PhaseOK' /\ SubscriptionsOK'
    BY <2>1, <2>3 DEF IInv, PhaseOK, SubscriptionsOK
  <2>5. ASSUME NEW t \in Service PROVE StoredOK(t)'
    BY <2>1, <2>2, <2>3 DEF IInv, StoredOK
  <2>6. QED
    BY <2>4, <2>5
<1>4. CASE EndStop
  <2>1. /\ stopper = "services" /\ WatchingServices \subseteq cleaned /\ isStop' = TRUE
        /\ subscribed' = {} /\ stopper' = "done"
        /\ UNCHANGED <<cacheVars, former, calls, WatchingServices, watchingKeys, fetcher, cleaned,
                       dropped, lateCalls>>
    BY <1>4 DEF EndStop
  <2>2. fetcher \notin {"listing", "unsubscribing", "subscribing"} /\ watchingKeys = {}
    BY <2>1 DEF IInv, PhaseOK
  <2>3. QED
    BY <2>1, <2>2 DEF IInv, PhaseOK, SubscriptionsOK, StoredOK, cacheVars, serviceVars
<1>5. QED
  BY <1>1, <1>2, <1>3, <1>4 DEF StopStep

\* The updater, the callbacks and the purge.
LEMMA OthersKeep ==
    ASSUME IInv, UpdaterStep \/ (\E s \in Service : Push(s) \/ Callback(s)) \/ Purge
    PROVE  PhaseOK' /\ SubscriptionsOK' /\ \A s \in Service : StoredOK(s)'
<1> USE DEF serverVars, stopVars, history, fetchVars, locals
<1>1. CASE AwaitAddress \/ ReceiveAddress \/ UpdaterReturns
  BY <1>1, QuietStep DEF AwaitAddress, ReceiveAddress, UpdaterReturns
<1>2. CASE UpdateClient
  <2>1. /\ mutex = "free"
        /\ UNCHANGED <<cacheVars, calls, WatchingServices, watchingKeys, isStop, stopper, cleaned,
                       fetcher, history>>
        /\ \/ former' = former \cup subscribed /\ subscribed' = {}
           \/ UNCHANGED <<former, subscribed>>
    BY <1>2 DEF UpdateClient
  <2>2. watchingKeys = {}
    BY <2>1 DEF IInv, PhaseOK, WatcherTypeOK
  <2>3. QED
    BY <2>1, <2>2 DEF IInv, PhaseOK, SubscriptionsOK, StoredOK, cacheVars, serviceVars
<1>3. ASSUME NEW s \in Service, Push(s)
      PROVE  PhaseOK' /\ SubscriptionsOK' /\ \A t \in Service : StoredOK(t)'
  BY <1>3 DEF Push, IInv, PhaseOK, SubscriptionsOK, StoredOK, cacheVars, serviceVars
<1>4. ASSUME NEW s \in Service, Callback(s)
      PROVE  PhaseOK' /\ SubscriptionsOK' /\ \A t \in Service : StoredOK(t)'
  <2>1. /\ calls' = calls \ {s} /\ s \in calls
        /\ UNCHANGED <<subscribed, former, WatchingServices, watchingKeys, isStop, stopper, cleaned,
                       fetcher, dropped>>
    BY <1>4 DEF Callback
  <2>2. PhaseOK' /\ SubscriptionsOK'
    BY <2>1 DEF IInv, PhaseOK, SubscriptionsOK
  <2>3. /\ \A t \in Service : t # s =>
              sew'[t] = sew[t] /\ (t \in deferredDeleteServices => t \in deferredDeleteServices')
        /\ lateCalls \subseteq lateCalls'
    BY <1>4 DEF Callback, UpdateServiceWrapper, DeleteServiceWrapper, cacheVars, serviceVars, IInv, WatcherTypeOK,
                CacheTypeOK
  <2>4. \/ s \in cleaned => s \in lateCalls'
        \/ sew' = sew /\ deferredDeleteServices \subseteq deferredDeleteServices'
    BY <1>4 DEF Callback, DeleteServiceWrapper, cacheVars, serviceVars
  <2>5. ASSUME NEW t \in Service PROVE StoredOK(t)'
    BY <2>1, <2>3, <2>4 DEF IInv, StoredOK, SubscriptionsOK
  <2>6. QED
    BY <2>2, <2>5
<1>5. CASE Purge
  <2>1. \A t \in Service : sew'[t] # None => sew[t] # None /\ t \notin deferredDeleteServices
    BY <1>5 DEF Purge, PurgeStaleItems
  <2>2. QED
    BY <1>5, <2>1 DEF Purge, IInv, PhaseOK, SubscriptionsOK, StoredOK
<1>6. QED
  BY <1>1, <1>2, <1>3, <1>4, <1>5 DEF UpdaterStep

-----------------------------------------------------------------------------
\* The strengthened invariant holds in every reachable state.
LEMMA Invariance == Spec => []IInv
<1>1. IInv /\ [Next]_vars => IInv'
  <2> SUFFICES ASSUME IInv, [Next]_vars PROVE IInv'
    OBVIOUS
  <2>1. WatcherTypeOK'
    BY NextTypes DEF IInv
  <2>2. PhaseOK' /\ SubscriptionsOK' /\ \A s \in Service : StoredOK(s)'
    <3>1. CASE UNCHANGED vars
      BY <3>1, QuietStep DEF vars, fetchVars, locals, stopVars
    <3>2. ASSUME NEW A, ProviderStep(A) PROVE PhaseOK' /\ SubscriptionsOK' /\ \A s \in Service : StoredOK(s)'
      BY <3>2, QuietStep DEF ProviderStep, fetchVars, locals, stopVars
    <3>3. QED
      BY <3>1, <3>2, FetchKeeps, StopKeeps, OthersKeep DEF Next, UpdaterStep, StopStep
  <2>3. QED
    BY <2>1, <2>2 DEF IInv
<1>2. QED
  BY InitInv, <1>1, PTL DEF Spec

\* The types hold in every reachable state.
THEOREM WatcherTypeCorrect == Spec => []WatcherTypeOK
<1>1. IInv => WatcherTypeOK
  BY DEF IInv
<1>2. QED
  BY <1>1, Invariance, PTL

\* Whenever the mutex is free, the subscriptions are those of the watched services.
THEOREM SubscribedAreWatched == Spec => []SubscribedIsWatched
<1>1. IInv => SubscribedIsWatched
  BY DEF IInv, WatcherTypeOK, PhaseOK, SubscriptionsOK, SubscribedIsWatched
<1>2. QED
  BY <1>1, Invariance, PTL

\* Stop deletes all that was published, but what Nacos dropped or a late callback wrote.
THEOREM NothingIsLeft == Spec => []StopLeavesNothing
<1>1. IInv => StopLeavesNothing
  BY DEF IInv, PhaseOK, StoredOK, StopLeavesNothing
<1>2. QED
  BY <1>1, Invariance, PTL
=============================================================================
