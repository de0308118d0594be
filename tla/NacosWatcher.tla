---------------------------- MODULE NacosWatcher ----------------------------
(***************************************************************************)
(* registry/nacos/v2/watcher.go with an address server.  One goroutine     *)
(* fetches the list of services and subscribes to them, another replaces   *)
(* the naming client when the address changes, the reconciler calls Stop;  *)
(* w.mutex keeps the three apart.  The callbacks of the subscriptions      *)
(* write the service cache without it.                                     *)
(***************************************************************************)
EXTENDS ServiceCache, AddressProvider

CONSTANT MaxTries   \* list errors before a fetch gives up, 11 in the code

ASSUME MaxTriesIsNat == MaxTries \in Nat

VARIABLES
    subscribed,     \* on w.namingClient, which is open until Stop closes it
    former,         \* on the clients it replaced, which stay open
    calls,          \* callbacks on their way
    WatchingServices, Domain, isStop, stop, ReadyStatus,
    mutex,          \* who holds it: "free", "fetch" or "stop"
    \* fetchAllServices
    fetcher,        \* "idle", "listing", "unsubscribing", "subscribing", "ready" or "done"
    tries, fetched, watchingKeys, subscribeFailed,
    updater,        \* updateNacosClient: "next", "waiting", "got" or "done"
    addr,           \* the address it got
    stopper,        \* Stop: "no", "provider", "services" or "done"
    cleaned,        \* the services its loop has been over
    \* history
    dropped,        \* stored services the server dropped from its list while watched
    lateCalls       \* services a callback wrote after Stop went over them

serverVars == <<subscribed, former, calls>>
locals == <<tries, fetched, watchingKeys, subscribeFailed>>
fetchVars == <<fetcher, locals>>
updaterVars == <<updater, addr>>
stopVars == <<isStop, stop, stopper, cleaned>>
history == <<dropped, lateCalls>>
vars == <<cacheVars, providerVars, serverVars, WatchingServices, Domain, stopVars,
          ReadyStatus, mutex, fetchVars, updaterVars, history>>

\* NewWatcher has got a first address and a client.
Init ==
    /\ CacheInit
    /\ AddressInit
    /\ subscribed = {} /\ former = {} /\ calls = {}
    /\ WatchingServices = {}
    /\ Domain = nacosAddr
    /\ isStop = FALSE /\ stop = FALSE /\ ReadyStatus = FALSE
    /\ mutex = "free"
    /\ fetcher = "idle" /\ tries = 0 /\ fetched = {} /\ watchingKeys = {}
    /\ subscribeFailed = {}
    /\ updater = "next" /\ addr = Domain
    /\ stopper = "no" /\ cleaned = {}
    /\ dropped = {} /\ lateCalls = {}

-----------------------------------------------------------------------------
(* Run and fetchAllServices, which holds the mutex to its end *)

\* The variables of a fetch end with it.
LocalsGone == tries' = 0 /\ fetched' = {} /\ watchingKeys' = {} /\ subscribeFailed' = {}

\* A fetch of a stopped watcher does nothing, with success.
BeginFetch ==
    /\ fetcher = "idle"
    /\ mutex = "free"
    /\ IF isStop THEN fetcher' = "ready" /\ UNCHANGED mutex
       ELSE fetcher' = "listing" /\ mutex' = "fetch"
    /\ UNCHANGED <<cacheVars, providerVars, serverVars, WatchingServices, Domain, stopVars,
                   ReadyStatus, locals, updaterVars, history>>

\* fetchAllServices returns an error.
FetchFails ==
    /\ fetcher' = "idle"
    /\ mutex' = "free"
    /\ LocalsGone

ListFails ==
    /\ fetcher = "listing"
    /\ IF tries = MaxTries THEN FetchFails /\ UNCHANGED providerVars
       ELSE /\ Trigger
            /\ tries' = tries + 1
            /\ UNCHANGED <<fetcher, fetched, watchingKeys, subscribeFailed, mutex>>
    /\ UNCHANGED <<cacheVars, serverVars, WatchingServices, Domain, stopVars, ReadyStatus,
                   updaterVars, history>>

\* The pages of every group, whatever Nacos lists by now; shouldSubscribe leaves
\* some services out.
Fetched ==
    /\ fetcher = "listing"
    /\ fetched' \in SUBSET Service
    /\ fetcher' = "unsubscribing"
    /\ UNCHANGED <<cacheVars, providerVars, serverVars, WatchingServices, Domain, stopVars,
                   ReadyStatus, mutex, tries, watchingKeys, subscribeFailed, updaterVars, history>>

\* What is cached of the service stays.
Unsubscribe(s) ==
    /\ fetcher = "unsubscribing"
    /\ s \in WatchingServices \ fetched
    /\ WatchingServices' = WatchingServices \ {s}
    /\ subscribed' = subscribed \ {s}
    /\ dropped' = dropped \cup {s}
    /\ UNCHANGED <<cacheVars, providerVars, former, calls, Domain, stopVars, ReadyStatus,
                   mutex, fetchVars, updaterVars, lateCalls>>

UnsubscribeFails ==
    /\ fetcher = "unsubscribing"
    /\ WatchingServices \ fetched # {}
    /\ FetchFails
    /\ UNCHANGED <<cacheVars, providerVars, serverVars, WatchingServices, Domain, stopVars,
                   ReadyStatus, updaterVars, history>>

Unsubscribed ==
    /\ fetcher = "unsubscribing"
    /\ WatchingServices \subseteq fetched
    /\ fetcher' = "subscribing"
    /\ UNCHANGED <<cacheVars, providerVars, serverVars, WatchingServices, Domain, stopVars,
                   ReadyStatus, mutex, locals, updaterVars,
                   history>>

\* The fetched services that are not watched get a goroutine each.
ToSubscribe == fetched \ (WatchingServices \cup watchingKeys \cup subscribeFailed)

Subscribe(s) ==
    /\ fetcher = "subscribing"
    /\ s \in ToSubscribe
    /\ \/ /\ subscribed' = subscribed \cup {s}
          /\ watchingKeys' = watchingKeys \cup {s}
          /\ UNCHANGED subscribeFailed
       \/ /\ subscribeFailed' = subscribeFailed \cup {s}
          /\ UNCHANGED <<subscribed, watchingKeys>>
    /\ UNCHANGED <<cacheVars, providerVars, former, calls, WatchingServices, Domain,
                   stopVars, ReadyStatus, mutex, fetcher, tries, fetched, updaterVars, history>>

\* Mutant of FetchReturns: the services whose subscription failed are recorded as well.
FetchRecordsAll ==
    /\ fetcher = "subscribing"
    /\ ToSubscribe = {}
    /\ WatchingServices' = WatchingServices \cup fetched
    /\ fetcher' = IF subscribeFailed # {} THEN "idle" ELSE "ready"
    /\ mutex' = "free"
    /\ LocalsGone
    /\ dropped' = dropped \ watchingKeys
    /\ UNCHANGED <<cacheVars, providerVars, serverVars, Domain, stopVars, ReadyStatus,
                   updaterVars, lateCalls>>

FetchReturns ==
    /\ fetcher = "subscribing"
    /\ ToSubscribe = {}
    /\ WatchingServices' = WatchingServices \cup watchingKeys
    /\ fetcher' = IF subscribeFailed # {} THEN "idle" ELSE "ready"
    /\ mutex' = "free"
    /\ LocalsGone
    /\ dropped' = dropped \ watchingKeys
    /\ UNCHANGED <<cacheVars, providerVars, serverVars, Domain, stopVars, ReadyStatus,
                   updaterVars, lateCalls>>

\* Ready(true), without the mutex.
SayReady ==
    /\ fetcher = "ready"
    /\ fetcher' = "idle"
    /\ ReadyStatus' = TRUE
    /\ UNCHANGED <<cacheVars, providerVars, serverVars, WatchingServices, Domain, stopVars, mutex,
                   locals, updaterVars, history>>

RunReturns ==
    /\ fetcher = "idle"
    /\ stop
    /\ fetcher' = "done"
    /\ UNCHANGED <<cacheVars, providerVars, serverVars, WatchingServices, Domain, stopVars,
                   ReadyStatus, mutex, locals, updaterVars,
                   history>>

-----------------------------------------------------------------------------
(* updateNacosClient *)

AwaitAddress ==
    /\ updater = "next"
    /\ GetNacosAddress(Domain)
    /\ updater' = "waiting"
    /\ UNCHANGED <<addr, cacheVars, addressVars, provider, providerStop, serverVars,
                   WatchingServices, Domain, stopVars, ReadyStatus, mutex, fetchVars, history>>

ReceiveAddress ==
    /\ updater = "waiting"
    /\ waiter = "sending"
    /\ updater' = "got"
    /\ waiter' = "none"
    /\ addr' = nacosAddr   \* the mutex of the condition is still held
    /\ UNCHANGED <<cacheVars, addressVars, oldAddress, provider, providerStop, serverVars,
                   WatchingServices, Domain, stopVars, ReadyStatus, mutex, fetchVars, history>>

\* The client is replaced, unless the new one cannot be created.  What is watched
\* stays watched: the services are not subscribed at the new client.
UpdateClient ==
    /\ updater = "got"
    /\ mutex = "free"
    /\ Domain' = addr
    /\ \/ /\ former' = former \cup subscribed
          /\ subscribed' = {}
       \/ UNCHANGED <<former, subscribed>>
    /\ updater' = "next"
    /\ UNCHANGED <<addr, cacheVars, providerVars, calls, WatchingServices, stopVars, ReadyStatus,
                   mutex, fetchVars, history>>

UpdaterReturns ==
    /\ updater = "waiting"
    /\ stop
    /\ updater' = "done"
    /\ UNCHANGED <<addr, cacheVars, providerVars, serverVars, WatchingServices, Domain, stopVars,
                   ReadyStatus, mutex, fetchVars, history>>

-----------------------------------------------------------------------------
(* Stop *)

\* Mutant of BeginStop: w.stop is closed before the provider is stopped.
BeginStopClosing ==
    /\ stopper = "no"
    /\ mutex = "free"
    /\ mutex' = "stop"
    /\ stopper' = "provider"
    /\ providerStop' = TRUE
    /\ stop' = TRUE
    /\ UNCHANGED <<cacheVars, addressVars, provider, waiterVars, serverVars,
                   WatchingServices, Domain, isStop, cleaned, ReadyStatus, fetchVars, updaterVars, history>>

BeginStop ==
    /\ stopper = "no"
    /\ mutex = "free"
    /\ mutex' = "stop"
    /\ stopper' = "provider"
    /\ providerStop' = TRUE
    /\ UNCHANGED <<cacheVars, addressVars, provider, waiterVars, serverVars,
                   WatchingServices, Domain, isStop, stop, cleaned, ReadyStatus, fetchVars, updaterVars, history>>

StopProvider ==
    /\ stopper = "provider"
    /\ StopReceived
    /\ stopper' = "services"
    /\ UNCHANGED <<cacheVars, serverVars, WatchingServices, Domain, isStop, stop, cleaned, ReadyStatus, mutex,
                   fetchVars, updaterVars, history>>

\* Mutant of CleanService: the cache is cleaned only when the service is unsubscribed.
CleanUnsubscribed(s) ==
    /\ stopper = "services"
    /\ s \in WatchingServices \ cleaned
    /\ cleaned' = cleaned \cup {s}
    /\ \/ /\ WatchingServices' = WatchingServices \ {s}
          /\ subscribed' = subscribed \ {s}
          /\ DeleteServiceWrapper(s)
       \/ UNCHANGED <<WatchingServices, subscribed, cacheVars>>
    /\ UNCHANGED <<providerVars, former, calls, Domain, isStop, stop, stopper, ReadyStatus,
                   mutex, fetchVars, updaterVars, history>>

\* The service leaves the cache whether it can be unsubscribed or not.
CleanService(s) ==
    /\ stopper = "services"
    /\ s \in WatchingServices \ cleaned
    /\ cleaned' = cleaned \cup {s}
    /\ \/ /\ WatchingServices' = WatchingServices \ {s}
          /\ subscribed' = subscribed \ {s}
       \/ UNCHANGED <<WatchingServices, subscribed>>
    /\ DeleteServiceWrapper(s)
    /\ UNCHANGED <<providerVars, former, calls, Domain, isStop, stop, stopper, ReadyStatus,
                   mutex, fetchVars, updaterVars, history>>

EndStop ==
    /\ stopper = "services"
    /\ WatchingServices \subseteq cleaned
    /\ isStop' = TRUE /\ stop' = TRUE /\ ReadyStatus' = FALSE
    /\ subscribed' = {}
    /\ mutex' = "free"
    /\ stopper' = "done"
    /\ UNCHANGED <<cacheVars, providerVars, former, calls, WatchingServices, Domain, cleaned,
                   fetchVars, updaterVars, history>>

-----------------------------------------------------------------------------
(* Nacos, its client library and the reconciler *)

Push(s) ==
    /\ s \in subscribed \cup former
    /\ calls' = calls \cup {s}
    /\ UNCHANGED <<cacheVars, providerVars, subscribed, former, WatchingServices, Domain,
                   stopVars, ReadyStatus, mutex, fetchVars, updaterVars, history>>

\* The callback of getSubscribeCallback.  A service without hosts is deleted if
\* updateCacheWhenEmpty says so; after another error, or for a service that comes
\* from a bridge, nothing is done.
Callback(s) ==
    /\ s \in calls
    /\ calls' = calls \ {s}
    /\ \/ /\ \E d \in Data : UpdateServiceWrapper(s, d)
          /\ lateCalls' = IF s \in cleaned \/ isStop THEN lateCalls \cup {s} ELSE lateCalls
       \/ DeleteServiceWrapper(s) /\ UNCHANGED lateCalls
       \/ UNCHANGED <<cacheVars, lateCalls>>
    /\ UNCHANGED <<providerVars, subscribed, former, WatchingServices, Domain, stopVars,
                   ReadyStatus, mutex, fetchVars, updaterVars, dropped>>

Purge ==
    /\ PurgeStaleItems
    /\ UNCHANGED <<providerVars, serverVars, WatchingServices, Domain, stopVars, ReadyStatus, mutex,
                   fetchVars, updaterVars, history>>

-----------------------------------------------------------------------------
FetchStep ==
    \/ BeginFetch \/ ListFails \/ Fetched
    \/ \E s \in Service : Unsubscribe(s)
    \/ UnsubscribeFails \/ Unsubscribed
    \/ \E s \in Service : Subscribe(s)
    \/ FetchReturns \/ SayReady \/ RunReturns

\* A step of the provider alone.
ProviderStep(A) ==
    /\ A
    /\ UNCHANGED <<cacheVars, serverVars, WatchingServices, Domain, stopVars, ReadyStatus, mutex,
                   fetchVars, updaterVars, history>>

Next ==
    \/ FetchStep
    \/ AwaitAddress \/ ReceiveAddress \/ UpdateClient \/ UpdaterReturns
    \/ BeginStop \/ StopProvider \/ (\E s \in Service : CleanService(s)) \/ EndStop
    \/ ProviderStep(WaiterChecks) \/ ProviderStep(AskServer) \/ ProviderStep(AskFails)
    \/ ProviderStep(Answered) \/ ProviderStep(NotParsed)
    \/ \E addrVec \in SUBSET Addr : ProviderStep(AddressesFound(addrVec))
    \/ \E s \in Service : Push(s) \/ Callback(s)
    \/ Purge

Spec == Init /\ [][Next]_vars

\* Every goroutine runs; a mutex, and a select that is ready again and again, are
\* got in the end; a request to the address server ends.
FairSpec ==
    /\ Spec
    /\ SF_vars(FetchStep)
    /\ WF_vars(AwaitAddress) /\ WF_vars(ReceiveAddress) /\ SF_vars(UpdateClient)
    /\ SF_vars(StopProvider) /\ WF_vars(\E s \in Service : CleanService(s)) /\ WF_vars(EndStop)
    /\ WF_vars(ProviderStep(WaiterChecks))
    /\ WF_vars(ProviderStep(AskFails) \/ ProviderStep(Answered))
    /\ SF_vars(\/ ProviderStep(NotParsed)
               \/ \E addrVec \in SUBSET Addr : ProviderStep(AddressesFound(addrVec)))

-----------------------------------------------------------------------------
WatcherTypeOK ==
    /\ CacheTypeOK
    /\ nacosAddr \in Addr /\ nacosBackupAddr \subseteq Addr \ {nacosAddr}
    /\ oldAddress \in Addr /\ Domain \in Addr /\ addr \in Addr
    /\ providerStop \in BOOLEAN
    /\ provider \in {"select", "asking", "answered", "done"}
    /\ waiter \in {"none", "locking", "waiting", "sending", "gone"}
    /\ waiter \in {"locking", "waiting", "sending"} => updater \in {"waiting", "done"}
    /\ subscribed \cup former \cup calls \subseteq Service
    /\ WatchingServices \cup fetched \cup watchingKeys \cup subscribeFailed \subseteq Service
    /\ cleaned \cup dropped \cup lateCalls \subseteq Service
    /\ isStop \in BOOLEAN /\ stop \in BOOLEAN /\ ReadyStatus \in BOOLEAN
    /\ mutex \in {"free", "fetch", "stop"}
    /\ mutex = "fetch" <=> fetcher \in {"listing", "unsubscribing", "subscribing"}
    /\ mutex = "stop" <=> stopper \in {"provider", "services"}
    /\ fetcher \in {"idle", "listing", "unsubscribing", "subscribing", "ready", "done"}
    /\ tries \in 0 .. MaxTries
    /\ updater \in {"next", "waiting", "got", "done"}
    /\ stopper \in {"no", "provider", "services", "done"}

\* Whenever the mutex is free, what is subscribed is what is watched, through any
\* failure of listing, subscribing and unsubscribing, but for services that were
\* subscribed at a client that has been replaced.
SubscribedIsWatched ==
    mutex = "free" /\ ~isStop =>
        /\ subscribed \subseteq WatchingServices
        /\ WatchingServices \subseteq subscribed \cup former

\* After Stop every service the watcher published is deleted, but those Nacos had
\* stopped listing and those a late callback wrote again.
StopLeavesNothing ==
    stopper = "done" =>
        \A s \in Service : sew[s] # None =>
            s \in deferredDeleteServices \cup dropped \cup lateCalls

\* Stop returns: the provider's goroutine comes back to its select even when it
\* needs the mutex that a waiter keeps until its address is taken.
StopReturns == stopper = "provider" ~> stopper = "done"

\* A new address reaches the watcher, unless it changes again or the watcher stops.
AddressFollowed ==
    \A a \in Addr : nacosAddr = a ~> Domain = a \/ nacosAddr # a \/ stopper # "no"
=============================================================================
