--------------------------- MODULE PollingWatcher ---------------------------
(***************************************************************************)
(* The watchers that ask a registry for its list of services on every tick *)
(* and subscribe to what is new: nacos (the first client), consul and      *)
(* eureka.  The goroutine of Run and the caller of Stop share a mutex; the  *)
(* subscriptions write the cache without it.  Nacos and Consul call back    *)
(* from their libraries.  A plan of Eureka is two goroutines of this code,  *)
(* a poller and a consumer, both of which wait for the one stop.            *)
(***************************************************************************)
EXTENDS ServiceCache, FiniteSets

CONSTANTS
    Listed,     \* bound: the services the registry may list
    MaxPlans    \* bound: subscriptions whose goroutines are there at once

ASSUME ListedAreServices == Listed \subseteq Service
ASSUME MaxPlansIsNat == MaxPlans \in Nat

VARIABLES
    registry,   \* "nacos", "consul" or "eureka"
    watcher,    \* the watcher, and what the goroutine that holds its mutex is at
    plans,      \* the subscriptions
    past        \* history

pollVars == <<registry, watcher, plans, past>>

Plan == 1 .. MaxPlans
NoPlan == [service |-> None, on |-> FALSE, call |-> "none", data |-> None,
           poller |-> "gone", consumer |-> "gone"]
Free == {p \in Plan : plans[p] = NoPlan}

\* call and data are the callback under way. Only Eureka has a poller and a consumer.
NewPlan(s) ==
    [NoPlan EXCEPT !.service = s, !.on = TRUE,
                   !.poller = IF registry = "eureka" THEN "select" ELSE "gone",
                   !.consumer = IF registry = "eureka" THEN "waiting" ELSE "gone"]

\* A subscription of which nothing is left.
Settled(plan) ==
    IF ~ plan.on /\ plan.call = "none" /\ plan.poller = "gone" /\ plan.consumer = "gone"
    THEN NoPlan ELSE plan

On(s) == {p \in Plan : plans[p].service = s /\ plans[p].on}
Watching == watcher.WatchingServices

\* run is the goroutine of Run, left the services its loop has yet to see.
PollInit ==
    /\ registry \in {"nacos", "consul", "eureka"}
    /\ watcher = [WatchingServices |-> {}, isStop |-> FALSE, ready |-> FALSE,
                  mutex |-> "free", run |-> "first", stopper |-> "no", fetched |-> {}, left |-> {}]
    /\ plans = [p \in Plan |-> NoPlan]
    /\ past = [dropped |-> {}, cleaned |-> {}, late |-> {}, refreshedLate |-> FALSE, crashed |-> FALSE]

\* The process dies with a goroutine that panics.
Alive == ~ past.crashed

Watched(history, s) == IF watcher.isStop THEN history ELSE [history EXCEPT !.dropped = @ \ {s}]

Wrote(s) == IF s \in past.cleaned \/ watcher.isStop THEN [past EXCEPT !.late = @ \cup {s}] ELSE past

-----------------------------------------------------------------------------
(* fetchAllServices, doFullRefresh *)

Fetching == watcher.mutex = "run"
Fetched == [watcher EXCEPT !.mutex = "free", !.fetched = {}, !.left = {},
                           !.run = IF @ = "first" THEN "ready" ELSE @]

\* Eureka does not look whether it was stopped. The bound asks for room for new subscriptions.
BeginFetch ==
    /\ Alive
    /\ watcher.run \in {"first", "loop"} /\ watcher.mutex = "free"
    /\ IF watcher.isStop /\ registry # "eureka" THEN watcher' = Fetched /\ UNCHANGED past
       ELSE \/ watcher' = Fetched /\ registry # "nacos" /\ UNCHANGED past
            \/ \E fetched \in SUBSET Listed :
                /\ Cardinality(fetched \ Watching) <= Cardinality(Free)
                /\ watcher' = [watcher EXCEPT !.mutex = "run", !.fetched = fetched,
                                              !.left = Watching \ fetched]
                /\ past' = [past EXCEPT !.refreshedLate = @ \/ watcher.isStop]
    /\ UNCHANGED <<registry, plans, cacheVars>>

\* plan.Stop of Eureka sends on a channel without a buffer: the poller or the consumer takes
\* it, whichever is at its select. The other two only say that they are no longer interested,
\* which Nacos may refuse.
Stopping(p) ==
    IF registry # "eureka" THEN {Settled([plans[p] EXCEPT !.on = FALSE])}
    ELSE (IF plans[p].poller = "select" THEN {[plans[p] EXCEPT !.on = FALSE, !.poller = "closing"]} ELSE {})
         \cup (IF plans[p].consumer = "waiting" /\ plans[p].call = "none"
               THEN {[plans[p] EXCEPT !.on = FALSE, !.consumer = "gone"]} ELSE {})

StopsPlan(s) == \E p \in On(s) : \E stopped \in Stopping(p) : plans' = [plans EXCEPT ![p] = stopped]
Forgotten(w, s) == [w EXCEPT !.WatchingServices = @ \ {s}]
Passed(s) == [watcher EXCEPT !.left = @ \ {s}]

\* What is cached of a service that is no longer listed stays.
Unsubscribe(s) ==
    /\ Alive /\ Fetching
    /\ s \in watcher.left \cap Watching
    /\ \/ /\ StopsPlan(s)
          /\ watcher' = Forgotten(Passed(s), s)
          /\ past' = [past EXCEPT !.dropped = @ \cup {s}]
       \/ registry = "nacos" /\ watcher' = Passed(s) /\ UNCHANGED <<plans, past>>
    /\ UNCHANGED <<registry, cacheVars>>

BeginSubscribing ==
    /\ Alive /\ Fetching
    /\ watcher.left = {} /\ ~ watcher.fetched \subseteq Watching
    /\ watcher' = [watcher EXCEPT !.left = @ \cup (watcher.fetched \ Watching), !.fetched = {}]
    /\ UNCHANGED <<registry, plans, past, cacheVars>>

\* The callback of Eureka runs before its plan is made: what it makes of the application it
\* was given is written at once, and an application it can make nothing of is not watched.
SubscribeEureka(s) ==
    \/ \E d \in Data : UpdateServiceWrapper(s, d) /\ past' = Watched(Wrote(s), s)
    \/ DeleteServiceWrapper(s) /\ past' = Watched(past, s)
    \/ UNCHANGED cacheVars /\ past' = Watched(past, s)

Subscribe(s) ==
    /\ Alive /\ Fetching
    /\ s \in watcher.left \ Watching
    /\ \/ /\ watcher' = [Passed(s) EXCEPT !.WatchingServices = @ \cup {s}]
          /\ plans' = [plans EXCEPT ![CHOOSE p \in Free : TRUE] = NewPlan(s)]
          /\ IF registry = "eureka" THEN SubscribeEureka(s)
             ELSE past' = Watched(past, s) /\ UNCHANGED cacheVars
       \/ watcher' = Passed(s) /\ UNCHANGED <<plans, past, cacheVars>>
    /\ UNCHANGED registry

FetchReturns ==
    /\ Alive /\ Fetching
    /\ watcher.left = {} /\ watcher.fetched \subseteq Watching
    /\ watcher' = Fetched
    /\ UNCHANGED <<registry, plans, past, cacheVars>>

\* Ready(true) behind the first fetch, however it ended, and whether or not Stop came first.
SayReady ==
    /\ Alive
    /\ watcher.run = "ready"
    /\ watcher' = [watcher EXCEPT !.run = "loop", !.ready = TRUE]
    /\ UNCHANGED <<registry, plans, past, cacheVars>>

RunReturns ==
    /\ Alive
    /\ watcher.run = "loop" /\ ~ Fetching /\ watcher.stopper = "done"
    /\ watcher' = [watcher EXCEPT !.run = "done"]
    /\ UNCHANGED <<registry, plans, past, cacheVars>>

-----------------------------------------------------------------------------
(* Stop *)

BeginStop ==
    /\ Alive
    /\ watcher.stopper = "no" /\ watcher.mutex = "free"
    /\ watcher' = [watcher EXCEPT !.stopper = "services", !.mutex = "stop", !.left = Watching]
    /\ UNCHANGED <<registry, plans, past, cacheVars>>

Stops(s) == watcher.stopper = "services" /\ s \in watcher.left
Cleaned(s) == [past EXCEPT !.cleaned = @ \cup {s}]

\* Mutant of StopService: the cache is cleaned only of what could be unsubscribed.
StopServiceUnsubscribed(s) ==
    /\ Alive /\ Stops(s)
    /\ \/ StopsPlan(s) /\ watcher' = Forgotten(Passed(s), s) /\ DeleteServiceWrapper(s)
       \/ registry = "nacos" /\ watcher' = Passed(s) /\ UNCHANGED <<plans, cacheVars>>
    /\ past' = Cleaned(s)
    /\ UNCHANGED registry

\* The service leaves the cache whether it can be unsubscribed or not.
StopService(s) ==
    /\ Alive /\ Stops(s)
    /\ \/ StopsPlan(s) /\ watcher' = Forgotten(Passed(s), s)
       \/ registry = "nacos" /\ watcher' = Passed(s) /\ UNCHANGED plans
    /\ DeleteServiceWrapper(s)
    /\ past' = Cleaned(s)
    /\ UNCHANGED registry

EndStop ==
    /\ Alive
    /\ watcher.stopper = "services" /\ watcher.left = {}
    /\ watcher' = [watcher EXCEPT !.stopper = "done", !.mutex = "free", !.isStop = TRUE, !.ready = FALSE]
    /\ UNCHANGED <<registry, plans, past, cacheVars>>

-----------------------------------------------------------------------------
(* The subscriptions.  What a callback does is known when it starts; one that does nothing is
   left out.  Consul never deletes. *)

Calling(plan) ==
    {[plan EXCEPT !.call = "update", !.data = d] : d \in Data}
        \cup (IF registry = "consul" THEN {} ELSE {[plan EXCEPT !.call = "delete"]})

Change(p, plan) ==
    /\ plans' = [plans EXCEPT ![p] = Settled(plan)]
    /\ UNCHANGED <<registry, watcher>>

LibraryCalls(p) ==
    /\ Alive /\ registry # "eureka"
    /\ plans[p].on /\ plans[p].call = "none"
    /\ \E plan \in Calling(plans[p]) : Change(p, plan)
    /\ UNCHANGED <<past, cacheVars>>

CallbackReturns(p) ==
    /\ Alive
    /\ plans[p].call # "none"
    /\ IF plans[p].call = "update"
       THEN UpdateServiceWrapper(plans[p].service, plans[p].data) /\ past' = Wrote(plans[p].service)
       ELSE DeleteServiceWrapper(plans[p].service) /\ UNCHANGED past
    /\ Change(p, [plans[p] EXCEPT !.call = "none", !.data = None])

PollerAsks(p) ==
    /\ Alive
    /\ plans[p].poller = "select"
    /\ Change(p, [plans[p] EXCEPT !.poller = "asking"])
    /\ UNCHANGED <<past, cacheVars>>

\* Mutant of PollerAnswered: after an error the poller and the consumer return.
PollerGivesUp(p) ==
    /\ Alive
    /\ plans[p].poller = "asking"
    /\ LET back == [plans[p] EXCEPT !.poller = "select"]
       IN Change(p, [plans[p] EXCEPT !.poller = "gone", !.consumer = "gone"])
          \/ (back.consumer = "waiting" /\ back.call = "none"
              /\ \E plan \in Calling(back) : Change(p, plan))
    /\ UNCHANGED <<past, cacheVars>>

\* An update is dropped when the consumer does not wait for it; an error is only logged.
PollerAnswered(p) ==
    /\ Alive
    /\ plans[p].poller = "asking"
    /\ LET back == [plans[p] EXCEPT !.poller = "select"]
       IN Change(p, back)
          \/ (back.consumer = "waiting" /\ back.call = "none"
              /\ \E plan \in Calling(back) : Change(p, plan))
    /\ UNCHANGED <<past, cacheVars>>

\* The poller has taken the stop, or sees the channel closed, and closes the updates.
PollerCloses(p) ==
    /\ Alive
    /\ plans[p].poller = "closing" \/ (plans[p].poller = "select" /\ ~ plans[p].on)
    /\ Change(p, [plans[p] EXCEPT !.poller = "gone"])
    /\ UNCHANGED <<past, cacheVars>>

ConsumerStops(p) ==
    /\ Alive
    /\ plans[p].consumer = "waiting" /\ plans[p].call = "none" /\ ~ plans[p].on
    /\ Change(p, [plans[p] EXCEPT !.consumer = "gone"])
    /\ UNCHANGED <<past, cacheVars>>

\* With both channels closed the select may as well read the closed updates: the handler
\* is given no application and dereferences it.
ConsumerReadsClosed(p) ==
    /\ Alive
    /\ plans[p].consumer = "waiting" /\ plans[p].call = "none" /\ plans[p].poller = "gone"
    /\ past' = [past EXCEPT !.crashed = TRUE]
    /\ UNCHANGED <<registry, watcher, plans, cacheVars>>

\* The reconciler purges what Stop marked.
PollPurge == Alive /\ PurgeStaleItems /\ UNCHANGED pollVars

-----------------------------------------------------------------------------
RunStep ==
    \/ BeginFetch \/ BeginSubscribing \/ FetchReturns \/ SayReady \/ RunReturns
    \/ \E s \in Service : Unsubscribe(s) \/ Subscribe(s)
StopStep == EndStop \/ \E s \in Service : StopService(s)
PollerStep(p) == PollerAnswered(p) \/ PollerCloses(p)

PollNext ==
    \/ RunStep \/ BeginStop \/ StopStep
    \/ \E p \in Plan : \/ LibraryCalls(p) \/ CallbackReturns(p) \/ PollerAsks(p) \/ PollerStep(p)
                       \/ ConsumerStops(p) \/ ConsumerReadsClosed(p)
    \/ PollPurge

\* Goroutines run, requests to Eureka end, and so do callbacks. A sender on a channel is served
\* by one who comes to the receive again and again.
PollFair ==
    LET all == <<pollVars, cacheVars>>
    IN /\ WF_all(RunStep) /\ SF_all(StopStep)
       /\ \A p \in Plan : WF_all(CallbackReturns(p)) /\ WF_all(PollerStep(p))

-----------------------------------------------------------------------------
\* After Stop every service the watcher published is marked for deletion, but those the
\* registry had stopped listing and those a late callback or a late refresh wrote again; and
\* nothing is watched, but where Nacos refused and where Eureka, which does not look at
\* isStop, refreshed behind the Stop.
PollersCleanUp ==
    watcher.stopper = "done" =>
        /\ \A s \in Service : sew[s] # None => s \in deferredDeleteServices \cup past.dropped \cup past.late
        /\ registry = "nacos" \/ past.refreshedLate \/ \A p \in Plan : ~ plans[p].on

\* Stop returns, though it waits for a goroutine of each plan with the mutex in its hands.
PollersStop == watcher.stopper = "services" ~> watcher.stopper = "done" \/ past.crashed
=============================================================================
