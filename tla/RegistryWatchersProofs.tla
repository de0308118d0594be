----------------------- MODULE RegistryWatchersProofs -----------------------
(***************************************************************************)
(* The watchers of the registries, for any services, contents, bounds and  *)
(* worlds.                                                                  *)
(***************************************************************************)
EXTENDS RegistryWatchers, ServiceCacheProofs, FiniteSetTheorems

-----------------------------------------------------------------------------
(* The registries that are polled *)

PlanType ==
    [service : Service \cup {None}, on : BOOLEAN, call : {"none", "update", "delete"},
     data : Data \cup {None}, poller : {"select", "asking", "closing", "gone"},
     consumer : {"waiting", "gone"}]

WatcherType ==
    [WatchingServices : SUBSET Service, isStop : BOOLEAN, ready : BOOLEAN,
     mutex : {"free", "run", "stop"}, run : {"first", "ready", "loop", "done"},
     stopper : {"no", "services", "done"}, fetched : SUBSET Service,
     left : SUBSET Service]

PollTyped ==
    /\ registry \in {"nacos", "consul", "eureka"}
    /\ watcher \in WatcherType
    /\ plans \in [Plan -> PlanType]
    /\ \A p \in Plan : /\ plans[p] # NoPlan => plans[p].service \in Service
                       /\ plans[p].call = "update" => plans[p].data \in Data
    /\ past \in [dropped : SUBSET Service, cleaned : SUBSET Service, late : SUBSET Service,
                 refreshedLate : BOOLEAN, crashed : BOOLEAN]

\* Stop and a fetch exclude each other, and only Eureka refreshes behind Stop.
PollPhases ==
    /\ watcher.mutex = "stop" <=> watcher.stopper = "services"
    /\ watcher.isStop <=> watcher.stopper = "done"
    /\ watcher.stopper = "services" => watcher.left \subseteq Watching
    /\ watcher.mutex = "run" /\ watcher.isStop => past.refreshedLate

\* What Stop has not been over.
Followed ==
    IF watcher.stopper = "no" THEN Watching
    ELSE IF watcher.stopper = "services" THEN watcher.left ELSE {}

\* Why a service is in the cache, and why a subscription to it is there.
StoredForAReason ==
    \A s \in Service : sew[s] # None => s \in Followed \cup deferredDeleteServices \cup past.dropped \cup past.late
PlansForAReason ==
    \A p \in Plan : plans[p] # NoPlan /\ ~ watcher.isStop =>
        plans[p].service \in Followed \cup past.dropped \cup past.cleaned

\* There is one subscription to a service, which ends when the service is given up.
OnePlanEach ==
    /\ \A p \in Plan : plans[p].on => plans[p].service \in Followed
    /\ \A p, q \in Plan : plans[p].on /\ plans[q].on /\ plans[p].service = plans[q].service => p = q

PollInv ==
    /\ PollTyped /\ PollPhases /\ StoredForAReason /\ PlansForAReason
    /\ registry = "nacos" \/ past.refreshedLate \/ OnePlanEach

\* Nothing is watched at the start.
LEMMA InitPoll == CacheInit /\ PollInit => PollInv
BY ListedAreServices, MaxPlansIsNat
   DEF CacheInit, PollInit, PollInv, PollTyped, WatcherType, PlanType, PollPhases, Followed, StoredForAReason,
       PlansForAReason, OnePlanEach, NoPlan, Watching

\* What becomes of a plan keeps its service, unless nothing is left of it.
LEMMA SettledFields ==
    ASSUME NEW plan \in PlanType
    PROVE  /\ Settled(plan) \in PlanType
           /\ Settled(plan) \in {plan, NoPlan}
           /\ Settled(plan).on = plan.on
           /\ Settled(plan).call = plan.call
BY DEF Settled, PlanType, NoPlan

\* A plan that is made is on, and has no callback yet.
LEMMA NewPlanFields ==
    ASSUME NEW s \in Service, registry \in {"nacos", "consul", "eureka"}
    PROVE  /\ NewPlan(s) \in PlanType /\ NewPlan(s).service = s /\ NewPlan(s).on
           /\ NewPlan(s).call = "none"
BY DEF NewPlan, NoPlan, PlanType

\* What stops one plan of a service.
LEMMA StoppingFields ==
    ASSUME NEW p \in Plan, PollTyped, NEW stopped \in Stopping(p), plans[p].on
    PROVE  /\ stopped \in PlanType /\ ~ stopped.on /\ stopped.call = plans[p].call
           /\ stopped # NoPlan => stopped.service = plans[p].service /\ stopped.data = plans[p].data
<1>1. plans[p] \in PlanType
  BY DEF PollTyped, WatcherType
<1>2. PICK q \in PlanType : /\ q.service = plans[p].service /\ q.data = plans[p].data
                            /\ q.call = plans[p].call /\ ~ q.on
                            /\ stopped \in {q, Settled(q)}
  <2>1. CASE registry # "eureka"
    BY <1>1, <2>1 DEF Stopping, PlanType
  <2>2. CASE registry = "eureka"
    BY <1>1, <2>2 DEF Stopping, PlanType
  <2>3. QED
    BY <2>1, <2>2
<1>3. QED
  BY <1>2, SettledFields

\* What a step of a subscription does: it runs its callback, or asks for another.
PlanMoves(p, plan) ==
    /\ Change(p, plan)
    /\ plan \in PlanType /\ plan.service = plans[p].service
    /\ plan.on => plans[p].on
    /\ plan.call = "update" => plan.data \in Data
    /\ plans[p] # NoPlan

\* A plan that moves, or ends, as a step of a subscription lets it keeps the invariant.
LEMMA PlanMovesKeeps ==
    ASSUME PollInv, NEW p \in Plan, NEW plan, PlanMoves(p, plan),
           past' \in [dropped : {past.dropped}, cleaned : {past.cleaned}, late : SUBSET Service,
                      refreshedLate : {past.refreshedLate}, crashed : BOOLEAN]
    PROVE  /\ PollTyped' /\ PollPhases' /\ PlansForAReason' /\ Followed' = Followed
           /\ registry' = "nacos" \/ past'.refreshedLate \/ OnePlanEach'
<1> DEFINE settled == Settled(plan)
<1>1. /\ settled \in PlanType /\ settled \in {plan, NoPlan} /\ settled.on = plan.on
      /\ settled.call = plan.call
  BY SettledFields DEF PlanMoves
<1>2. /\ plans' = [plans EXCEPT ![p] = settled] /\ UNCHANGED <<registry, watcher>>
  BY DEF PlanMoves, Change
<1> HIDE DEF settled
<1>3. /\ past'.dropped = past.dropped /\ past'.cleaned = past.cleaned
      /\ past'.refreshedLate = past.refreshedLate
      /\ past' \in [dropped : SUBSET Service, cleaned : SUBSET Service, late : SUBSET Service,
                    refreshedLate : BOOLEAN, crashed : BOOLEAN]
  BY DEF PollInv, PollTyped
<1>4. PollTyped'
  <2>1. \A q \in Plan : /\ plans'[q] # NoPlan => plans'[q].service \in Service
                        /\ plans'[q].call = "update" => plans'[q].data \in Data
    <3> SUFFICES ASSUME NEW q \in Plan
                 PROVE  /\ plans'[q] # NoPlan => plans'[q].service \in Service
                        /\ plans'[q].call = "update" => plans'[q].data \in Data
      OBVIOUS
    <3>1. CASE q # p
      BY <1>2, <3>1 DEF PollInv, PollTyped
    <3>2. CASE q = p /\ settled = plan
      BY <1>2, <3>2 DEF PollInv, PollTyped, WatcherType, PlanMoves
    <3>3. CASE q = p /\ settled = NoPlan
      BY <1>2, <3>3 DEF PollInv, PollTyped, WatcherType, NoPlan
    <3>4. QED
      BY <1>1, <3>1, <3>2, <3>3
  <2>2. plans' \in [Plan -> PlanType]
    BY <1>1, <1>2 DEF PollInv, PollTyped
  <2>3. QED
    BY <1>2, <1>3, <2>1, <2>2 DEF PollInv, PollTyped
<1>5. Followed' = Followed /\ PollPhases'
  BY <1>2, <1>3 DEF PollInv, PollPhases, Followed, Watching
<1>6. PlansForAReason'
  BY <1>1, <1>2, <1>3, <1>5 DEF PollInv, PollTyped, WatcherType, PlansForAReason, PlanMoves
<1>7. OnePlanEach => OnePlanEach'
  BY <1>1, <1>2, <1>5 DEF PollInv, PollTyped, WatcherType, OnePlanEach, PlanMoves, NoPlan
<1>8. QED
  BY <1>2, <1>3, <1>4, <1>5, <1>6, <1>7 DEF PollInv

\* What the methods of the cache do to what is stored.
LEMMA UpdateStores ==
    ASSUME CacheTypeOK, NEW s \in Service, NEW d \in Data, UpdateServiceWrapper(s, d)
    PROVE  /\ deferredDeleteServices' = deferredDeleteServices \ {s}
           /\ \A t \in Service : t # s => sew'[t] = sew[t]
           /\ sew'[s] # None /\ sew'[s].data = d
<1>1. sew' = [sew EXCEPT ![s] = Replacing(sew[s], d)] /\ sew \in [Service -> Wrapper \cup {None}]
  BY DEF UpdateServiceWrapper, CacheTypeOK
<1>2. Replacing(sew[s], d) \in Wrapper /\ Replacing(sew[s], d).data = d
  <2>1. clock \in Nat
    BY MaxTimeIsNat DEF CacheTypeOK
  <2>2. QED
    BY <1>1, <2>1, ReplacingIsWrapper
<1>3. QED
  BY <1>1, <1>2, NoneIsNoWrapper DEF UpdateServiceWrapper

\* What is marked stays stored.
LEMMA DeleteMarks ==
    ASSUME NEW s \in Service, DeleteServiceWrapper(s)
    PROVE  /\ sew' = sew /\ deferredDeleteServices \subseteq deferredDeleteServices'
           /\ deferredDeleteServices' \subseteq deferredDeleteServices \cup {s}
           /\ sew[s] # None => s \in deferredDeleteServices'
BY DEF DeleteServiceWrapper

\* What outlives a purge was not marked.
LEMMA PurgeDrops ==
    ASSUME PurgeStaleItems, NEW s \in Service, sew'[s] # None
    PROVE  sew'[s] = sew[s] /\ s \notin deferredDeleteServices
BY DEF PurgeStaleItems

\* The callback of a subscription.
LEMMA CallbackKeepsPoll ==
    ASSUME PollInv, CacheTypeOK, NEW p \in Plan, CallbackReturns(p)
    PROVE  PollInv'
<1> DEFINE s == plans[p].service
           plan == [plans[p] EXCEPT !.call = "none", !.data = None]
<1>1. plans[p] \in PlanType /\ plans[p].call # "none"
  BY DEF PollInv, PollTyped, WatcherType, CallbackReturns
<1>2. s \in Service /\ plans[p] # NoPlan
  BY <1>1 DEF PollInv, PollTyped, WatcherType, NoPlan
<1>3. PlanMoves(p, plan)
  BY <1>1, <1>2 DEF CallbackReturns, PlanMoves, PlanType
<1>4. past \in [dropped : {past.dropped}, cleaned : {past.cleaned}, late : SUBSET Service,
                refreshedLate : {past.refreshedLate}, crashed : BOOLEAN]
  BY DEF PollInv, PollTyped
<1>5. CASE plans[p].call = "update"
  <2>1. UpdateServiceWrapper(s, plans[p].data) /\ past' = Wrote(s) /\ plans[p].data \in Data
    BY <1>5 DEF CallbackReturns, PollInv, PollTyped
  <2>2. past' \in [dropped : {past.dropped}, cleaned : {past.cleaned}, late : SUBSET Service,
                   refreshedLate : {past.refreshedLate}, crashed : BOOLEAN]
    BY <1>2, <1>4, <2>1 DEF Wrote
  <2>3. /\ PollTyped' /\ PollPhases' /\ PlansForAReason' /\ Followed' = Followed
        /\ registry' = "nacos" \/ past'.refreshedLate \/ OnePlanEach'
    BY <1>3, <2>2, PlanMovesKeeps
  <2>4. past.late \subseteq past'.late /\ (s \in past.cleaned \/ watcher.isStop => s \in past'.late)
    BY <2>1 DEF Wrote, PollInv, PollTyped
  <2>5. past'.dropped = past.dropped
    BY <2>2
  <2>6. s \in Followed \cup past.dropped \cup past'.late
    BY <1>2, <2>4 DEF PollInv, PlansForAReason
  <2>7. StoredForAReason'
    BY <1>2, <2>1, <2>3, <2>4, <2>5, <2>6, UpdateStores DEF PollInv, StoredForAReason
  <2>8. QED
    BY <2>3, <2>7 DEF PollInv
<1>6. CASE plans[p].call # "update"
  <2>1. DeleteServiceWrapper(s) /\ UNCHANGED past
    BY <1>6 DEF CallbackReturns
  <2>2. /\ PollTyped' /\ PollPhases' /\ PlansForAReason' /\ Followed' = Followed
        /\ registry' = "nacos" \/ past'.refreshedLate \/ OnePlanEach'
    BY <1>3, <1>4, <2>1, PlanMovesKeeps
  <2>3. StoredForAReason'
    BY <1>2, <2>1, <2>2, DeleteMarks DEF PollInv, StoredForAReason
  <2>4. QED
    BY <2>2, <2>3 DEF PollInv
<1>7. QED
  BY <1>5, <1>6

\* A callback that starts moves the plan it is of.
LEMMA CallingMoves ==
    ASSUME NEW p, plans[p] # NoPlan, NEW back \in PlanType, back.service = plans[p].service,
           back.on => plans[p].on, NEW plan \in Calling(back), Change(p, plan)
    PROVE  PlanMoves(p, plan)
<1>1. ASSUME NEW d \in Data, plan = [back EXCEPT !.call = "update", !.data = d]
      PROVE  PlanMoves(p, plan)
  <2>1. plan \in PlanType
    BY <1>1 DEF PlanType
  <2>2. plan.service = back.service /\ (plan.on <=> back.on) /\ plan.data = d
    BY <1>1 DEF PlanType
  <2>3. QED
    BY <2>1, <2>2 DEF PlanMoves
<1>2. ASSUME plan = [back EXCEPT !.call = "delete"]
      PROVE  PlanMoves(p, plan)
  <2>1. plan \in PlanType
    BY <1>2 DEF PlanType
  <2>2. plan.service = back.service /\ (plan.on <=> back.on) /\ plan.call = "delete"
    BY <1>2 DEF PlanType
  <2>3. QED
    BY <2>1, <2>2 DEF PlanMoves
<1>3. QED
  BY <1>1, <1>2 DEF Calling

\* The steps of a subscription that leave the cache alone.
LEMMA PlanStepKeepsPoll ==
    ASSUME PollInv, NEW p \in Plan,
           LibraryCalls(p) \/ PollerAsks(p) \/ PollerStep(p) \/ ConsumerStops(p)
    PROVE  PollInv'
<1>1. plans[p] \in PlanType /\ (plans[p].call = "update" => plans[p].data \in Data)
  BY DEF PollInv, PollTyped
<1>2. past \in [dropped : {past.dropped}, cleaned : {past.cleaned}, late : SUBSET Service,
                refreshedLate : {past.refreshedLate}, crashed : BOOLEAN]
      /\ past' = past /\ UNCHANGED cacheVars
  BY DEF PollInv, PollTyped, WatcherType, LibraryCalls, PollerAsks, PollerStep, PollerAnswered, PollerCloses,
         ConsumerStops
<1>3. ASSUME NEW plan \in Calling(plans[p]), plans[p] # NoPlan, Change(p, plan)
      PROVE  PlanMoves(p, plan)
  BY <1>1, <1>3, CallingMoves
<1>4. \E plan : PlanMoves(p, plan)
  <2>1. CASE LibraryCalls(p)
    <3>1. plans[p] # NoPlan
      BY <2>1 DEF LibraryCalls, NoPlan
    <3>2. QED
      BY <1>3, <2>1, <3>1 DEF LibraryCalls
  <2>2. CASE PollerAsks(p)
    <3>1. PlanMoves(p, [plans[p] EXCEPT !.poller = "asking"])
      BY <1>1, <2>2 DEF PollerAsks, PlanMoves, PlanType, NoPlan
    <3>2. QED
      BY <3>1
  <2>3. CASE PollerAnswered(p)
    <3> DEFINE back == [plans[p] EXCEPT !.poller = "select"]
    <3>1. plans[p] # NoPlan /\ back \in PlanType /\ back.service = plans[p].service
          /\ back.on = plans[p].on /\ (back.call = "update" => back.data \in Data)
      BY <1>1, <2>3 DEF PollerAnswered, NoPlan, PlanType
    <3>2. Change(p, back) \/ \E plan \in Calling(back) : Change(p, plan)
      BY <2>3 DEF PollerAnswered
    <3> HIDE DEF back
    <3>3. CASE Change(p, back)
      BY <3>1, <3>3 DEF PlanMoves
    <3>4. ASSUME NEW plan \in Calling(back), Change(p, plan)
          PROVE  PlanMoves(p, plan)
      BY <3>1, <3>4, CallingMoves
    <3>5. QED
      BY <3>2, <3>3, <3>4
  <2>4. CASE PollerCloses(p)
    <3>1. PlanMoves(p, [plans[p] EXCEPT !.poller = "gone"])
      BY <1>1, <2>4 DEF PollerCloses, PlanMoves, PlanType, NoPlan
    <3>2. QED
      BY <3>1
  <2>5. CASE ConsumerStops(p)
    <3>1. PlanMoves(p, [plans[p] EXCEPT !.consumer = "gone"])
      BY <1>1, <2>5 DEF ConsumerStops, PlanMoves, PlanType, NoPlan
    <3>2. QED
      BY <3>1
  <2>6. QED
    BY <2>1, <2>2, <2>3, <2>4, <2>5 DEF PollerStep
<1>5. PICK plan : PlanMoves(p, plan)
  BY <1>4
<1>6. /\ PollTyped' /\ PollPhases' /\ PlansForAReason' /\ Followed' = Followed
      /\ registry' = "nacos" \/ past'.refreshedLate \/ OnePlanEach'
  BY <1>2, <1>5, PlanMovesKeeps
<1>7. QED
  BY <1>2, <1>6 DEF PollInv, StoredForAReason, cacheVars, serviceVars

\* What the end of a fetch leaves alone.
LEMMA FetchedFields ==
    ASSUME watcher \in WatcherType
    PROVE  /\ Fetched.stopper = watcher.stopper /\ (Fetched.isStop <=> watcher.isStop)
           /\ Fetched.WatchingServices = watcher.WatchingServices /\ Fetched.mutex = "free"
<1>1. Fetched.stopper = watcher.stopper /\ (Fetched.isStop <=> watcher.isStop)
  BY DEF WatcherType, Fetched
<1>2. Fetched.WatchingServices = watcher.WatchingServices /\ Fetched.mutex = "free"
  BY DEF WatcherType, Fetched
<1>3. QED
  BY <1>1, <1>2

\* The steps of Run and Stop that touch neither a subscription nor the cache.
LEMMA WatcherStepKeepsPoll ==
    ASSUME PollInv,
           \/ BeginFetch \/ BeginSubscribing \/ FetchReturns \/ SayReady \/ RunReturns
           \/ BeginStop \/ EndStop \/ \E p \in Plan : ConsumerReadsClosed(p)
    PROVE  PollInv'
<1> USE DEF PollInv
<1>1. plans' = plans /\ registry' = registry /\ UNCHANGED cacheVars
  BY DEF BeginFetch, BeginSubscribing, FetchReturns, SayReady, RunReturns, BeginStop, EndStop,
         ConsumerReadsClosed
<1>2. /\ past'.dropped = past.dropped /\ past'.cleaned = past.cleaned /\ past'.late = past.late
      /\ past.refreshedLate => past'.refreshedLate
      /\ past' \in [dropped : SUBSET Service, cleaned : SUBSET Service, late : SUBSET Service,
                    refreshedLate : BOOLEAN, crashed : BOOLEAN]
  <2>1. \/ past' = past \/ past' = [past EXCEPT !.refreshedLate = @ \/ watcher.isStop]
        \/ past' = [past EXCEPT !.crashed = TRUE]
    BY DEF BeginFetch, BeginSubscribing, FetchReturns, SayReady, RunReturns, BeginStop, EndStop,
           ConsumerReadsClosed
  <2>2. watcher.isStop \in BOOLEAN
    BY DEF PollTyped, WatcherType
  <2>3. QED
    BY <2>1, <2>2 DEF PollTyped
<1>3. PollTyped'
  <2>1. watcher' \in WatcherType
    <3>1. CASE BeginFetch
      <4>1. Fetched \in WatcherType
        BY DEF PollTyped, WatcherType, Fetched
      <4>2. ASSUME NEW fetched \in SUBSET Listed
            PROVE  [watcher EXCEPT !.mutex = "run", !.fetched = fetched, !.left = Watching \ fetched]
                       \in WatcherType
        <5>1. fetched \in SUBSET Service /\ Watching \ fetched \in SUBSET Service
          BY ListedAreServices DEF PollTyped, WatcherType, Watching
        <5>2. QED
          BY <5>1 DEF PollTyped, WatcherType
      <4>3. QED
        BY <3>1, <4>1, <4>2 DEF BeginFetch
    <3>2. CASE BeginSubscribing \/ FetchReturns \/ SayReady \/ RunReturns
      <4>1. CASE BeginSubscribing
        <5>1. watcher.left \cup (watcher.fetched \ Watching) \in SUBSET Service
          BY DEF PollTyped, WatcherType
        <5>2. watcher' = [watcher EXCEPT !.left = @ \cup (watcher.fetched \ Watching), !.fetched = {}]
          BY <4>1 DEF BeginSubscribing
        <5>3. QED
          BY <5>1, <5>2 DEF PollTyped, WatcherType
      <4>2. CASE FetchReturns
        BY <4>2 DEF PollTyped, WatcherType, FetchReturns, Fetched
      <4>3. CASE SayReady
        BY <4>3 DEF PollTyped, WatcherType, SayReady
      <4>4. CASE RunReturns
        BY <4>4 DEF PollTyped, WatcherType, RunReturns
      <4>5. QED
        BY <3>2, <4>1, <4>2, <4>3, <4>4
    <3>3. CASE BeginStop \/ EndStop \/ \E p \in Plan : ConsumerReadsClosed(p)
      <4>1. CASE BeginStop
        <5>1. watcher.WatchingServices \in SUBSET Service
          BY DEF PollTyped, WatcherType
        <5>2. watcher' = [watcher EXCEPT !.stopper = "services", !.mutex = "stop",
                                         !.left = watcher.WatchingServices]
          BY <4>1 DEF BeginStop, Watching
        <5>3. QED
          BY <5>1, <5>2 DEF PollTyped, WatcherType
      <4>2. CASE EndStop
        BY <4>2 DEF PollTyped, WatcherType, EndStop
      <4>3. CASE \E p \in Plan : ConsumerReadsClosed(p)
        BY <4>3 DEF PollTyped, ConsumerReadsClosed
      <4>4. QED
        BY <3>3, <4>1, <4>2, <4>3
    <3>4. QED
      BY <3>1, <3>2, <3>3
  <2>2. QED
    BY <1>1, <1>2, <2>1 DEF PollTyped, WatcherType
<1>4. PollPhases' /\ Followed' = Followed /\ (watcher.isStop => watcher'.isStop)
  <2>1. CASE BeginFetch
    <3>1. /\ watcher'.stopper = watcher.stopper /\ (watcher'.isStop <=> watcher.isStop)
          /\ watcher'.WatchingServices = watcher.WatchingServices
          /\ watcher'.mutex \in {"free", "run"}
      <4>1. CASE watcher' = Fetched
        BY <4>1, FetchedFields DEF PollTyped
      <4>2. ASSUME NEW fetched, NEW left,
                   watcher' = [watcher EXCEPT !.mutex = "run", !.fetched = fetched, !.left = left]
            PROVE  /\ watcher'.stopper = watcher.stopper /\ (watcher'.isStop <=> watcher.isStop)
                   /\ watcher'.WatchingServices = watcher.WatchingServices
                   /\ watcher'.mutex \in {"free", "run"}
        BY <4>2 DEF PollTyped, WatcherType
      <4>3. QED
        BY <2>1, <4>1, <4>2 DEF BeginFetch
    <3>2. watcher.mutex = "free"
      BY <2>1 DEF BeginFetch
    <3>3. watcher'.mutex = "run" /\ watcher.isStop => past'.refreshedLate
      <4>1. CASE watcher' = Fetched
        BY <4>1 DEF PollTyped, WatcherType, Fetched
      <4>2. CASE past' = [past EXCEPT !.refreshedLate = @ \/ watcher.isStop]
        BY <4>2 DEF PollTyped
      <4>3. QED
        BY <2>1, <4>1, <4>2 DEF BeginFetch
    <3>4. QED
      BY <3>1, <3>2, <3>3 DEF PollPhases, Watching, Followed
  <2>2. CASE BeginSubscribing \/ FetchReturns
    <3>1. /\ watcher'.stopper = watcher.stopper /\ (watcher'.isStop <=> watcher.isStop)
          /\ watcher'.WatchingServices = watcher.WatchingServices
          /\ watcher'.mutex \in {"free", "run"}
      <4>1. CASE FetchReturns
        BY <4>1, FetchedFields DEF PollTyped, FetchReturns
      <4>2. ASSUME NEW fetched, NEW left, watcher' = [watcher EXCEPT !.left = left, !.fetched = fetched],
                   watcher.mutex = "run"
            PROVE  /\ watcher'.stopper = watcher.stopper /\ (watcher'.isStop <=> watcher.isStop)
                   /\ watcher'.WatchingServices = watcher.WatchingServices
                   /\ watcher'.mutex \in {"free", "run"}
        BY <4>2 DEF PollTyped, WatcherType
      <4>3. QED
        BY <2>2, <4>1, <4>2 DEF BeginSubscribing, Fetching
    <3>2. watcher.mutex = "run" /\ past' = past
      BY <2>2 DEF BeginSubscribing, FetchReturns, Fetching
    <3>3. QED
      BY <3>1, <3>2 DEF PollPhases, Watching, Followed
  <2>3. CASE SayReady \/ RunReturns \/ \E p \in Plan : ConsumerReadsClosed(p)
    <3>1. /\ watcher'.stopper = watcher.stopper /\ (watcher'.isStop <=> watcher.isStop)
          /\ watcher'.WatchingServices = watcher.WatchingServices
          /\ watcher'.mutex = watcher.mutex /\ watcher'.left = watcher.left
      BY <2>3 DEF PollTyped, WatcherType, SayReady, RunReturns, ConsumerReadsClosed
    <3>2. past'.refreshedLate <=> past.refreshedLate
      BY <2>3 DEF PollTyped, SayReady, RunReturns, ConsumerReadsClosed
    <3>3. QED
      BY <3>1, <3>2 DEF PollPhases, Watching, Followed
  <2>4. CASE BeginStop
    BY <2>4 DEF PollTyped, WatcherType, PollPhases, BeginStop, Watching, Followed
  <2>5. CASE EndStop
    BY <2>5 DEF PollTyped, WatcherType, PollPhases, EndStop, Watching, Followed
  <2>6. QED
    BY <2>1, <2>2, <2>3, <2>4, <2>5
<1>5. StoredForAReason' /\ PlansForAReason'
  BY <1>1, <1>2, <1>4 DEF StoredForAReason, PlansForAReason, cacheVars, serviceVars
<1>6. OnePlanEach => OnePlanEach'
  BY <1>1, <1>4 DEF OnePlanEach
<1>7. QED
  BY <1>1, <1>2, <1>3, <1>4, <1>5, <1>6

\* What is given up has its subscription stopped.
LEMMA StopsPlanKeeps ==
    ASSUME PollInv, NEW s \in Service, StopsPlan(s)
    PROVE  /\ plans' \in [Plan -> PlanType]
           /\ \A q \in Plan : /\ plans'[q] # NoPlan => plans'[q].service \in Service
                              /\ plans'[q].call = "update" => plans'[q].data \in Data
           /\ \A q \in Plan : plans'[q] # NoPlan => plans[q] # NoPlan /\ plans'[q].service = plans[q].service
           /\ \A q \in Plan : plans'[q].on => plans[q].on /\ plans'[q].service = plans[q].service
           /\ OnePlanEach => \A q \in Plan : plans'[q].on => plans'[q].service # s
<1>1. PICK p \in Plan : plans[p].service = s /\ plans[p].on /\ \E x \in Stopping(p) : plans' = [plans EXCEPT ![p] = x]
  BY DEF StopsPlan, On
<1>2. PICK x \in Stopping(p) : plans' = [plans EXCEPT ![p] = x]
  BY <1>1
<1>3. /\ x \in PlanType /\ ~ x.on /\ x.call = plans[p].call
      /\ x # NoPlan => x.service = plans[p].service /\ x.data = plans[p].data
  BY <1>1, StoppingFields DEF PollInv
<1>4. x = NoPlan => x.call = "none"
  BY DEF NoPlan
<1>5. plans[p] # NoPlan /\ plans \in [Plan -> PlanType]
  BY <1>1 DEF NoPlan, PollInv, PollTyped
<1>6. \A q \in Plan : plans'[q] = IF q = p THEN x ELSE plans[q]
  BY <1>2, <1>5
<1>7. \A q \in Plan : /\ plans'[q] # NoPlan => plans'[q].service \in Service
                      /\ plans'[q].call = "update" => plans'[q].data \in Data
  BY <1>3, <1>4, <1>5, <1>6 DEF PollInv, PollTyped
<1>8. plans' \in [Plan -> PlanType]
  BY <1>2, <1>3, <1>5
<1>9. QED
  BY <1>1, <1>3, <1>4, <1>5, <1>6, <1>7, <1>8 DEF OnePlanEach

\* Run gives a service up, and Stop cleans one.
LEMMA UnsubscribeKeepsPoll ==
    ASSUME PollInv, NEW s \in Service, Unsubscribe(s)
    PROVE  PollInv'
<1> USE DEF PollInv
<1>1. registry' = registry /\ UNCHANGED cacheVars /\ s \in watcher.left /\ s \in Watching /\ watcher.mutex = "run"
  BY DEF Unsubscribe, Fetching
<1>2. watcher.stopper # "services"
  BY <1>1 DEF PollTyped, WatcherType, PollPhases
<1>3. CASE StopsPlan(s) /\ watcher' = Forgotten(Passed(s), s) /\ past' = [past EXCEPT !.dropped = @ \cup {s}]
  <2>1. watcher' \in WatcherType
    BY <1>3 DEF PollTyped, WatcherType, Forgotten, Passed
  <2>2. /\ past' \in [dropped : SUBSET Service, cleaned : SUBSET Service, late : SUBSET Service,
                      refreshedLate : BOOLEAN, crashed : BOOLEAN]
        /\ past'.dropped = past.dropped \cup {s} /\ past'.cleaned = past.cleaned /\ past'.late = past.late
        /\ past'.refreshedLate = past.refreshedLate
    BY <1>3 DEF PollTyped
  <2>3. PollTyped'
    BY <1>1, <1>3, <2>1, <2>2, StopsPlanKeeps DEF PollTyped
  <2>4. PollPhases' /\ Followed' = Followed \ {s} /\ watcher'.isStop = watcher.isStop
    BY <1>1, <1>2, <1>3, <2>2
       DEF PollTyped, WatcherType, PollPhases, Followed, Forgotten, Passed, Watching
  <2>5. StoredForAReason'
    BY <1>1, <2>2, <2>4 DEF StoredForAReason, cacheVars, serviceVars
  <2>6. PlansForAReason'
    BY <1>3, <2>2, <2>4, StopsPlanKeeps DEF PlansForAReason
  <2>7. OnePlanEach => OnePlanEach'
    BY <1>3, <2>4, StopsPlanKeeps DEF OnePlanEach
  <2>8. QED
    BY <1>1, <2>2, <2>3, <2>4, <2>5, <2>6, <2>7
<1>4. CASE registry = "nacos" /\ watcher' = Passed(s) /\ UNCHANGED <<plans, past>>
  <2>1. watcher' \in WatcherType
    BY <1>4 DEF PollTyped, WatcherType, Passed
  <2>2. PollPhases' /\ Followed' = Followed /\ watcher'.isStop = watcher.isStop
    BY <1>1, <1>2, <1>4 DEF PollTyped, WatcherType, PollPhases, Followed, Passed, Watching
  <2>3. QED
    BY <1>1, <1>4, <2>1, <2>2
       DEF PollTyped, StoredForAReason, PlansForAReason, cacheVars, serviceVars
<1>5. QED
  BY <1>3, <1>4 DEF Unsubscribe

\* Stop goes over one service more: it is marked, and its plan is off.
LEMMA StopServiceKeepsPoll ==
    ASSUME PollInv, NEW s \in Service, StopService(s)
    PROVE  PollInv'
<1> USE DEF PollInv
<1>1. registry' = registry /\ DeleteServiceWrapper(s) /\ s \in watcher.left
      /\ watcher.stopper = "services" /\ past' = [past EXCEPT !.cleaned = @ \cup {s}]
  BY DEF StopService, Stops, Cleaned
<1>2. /\ past' \in [dropped : SUBSET Service, cleaned : SUBSET Service, late : SUBSET Service,
                    refreshedLate : BOOLEAN, crashed : BOOLEAN]
      /\ past'.dropped = past.dropped /\ past'.cleaned = past.cleaned \cup {s} /\ past'.late = past.late
      /\ past'.refreshedLate = past.refreshedLate
  BY <1>1 DEF PollTyped
<1>3. /\ watcher' \in WatcherType /\ PollPhases' /\ Followed = watcher.left
      /\ Followed' = Followed \ {s} /\ watcher'.isStop = watcher.isStop
  <2>1. CASE watcher' = Forgotten(Passed(s), s)
    <3>1. watcher' \in WatcherType
      BY <2>1 DEF PollTyped, WatcherType, Forgotten, Passed
    <3>2. QED
      BY <1>1, <1>2, <2>1, <3>1
         DEF PollTyped, WatcherType, PollPhases, Followed, Forgotten, Passed, Watching
  <2>2. CASE watcher' = Passed(s)
    <3>1. watcher' \in WatcherType
      BY <2>2 DEF PollTyped, WatcherType, Passed
    <3>2. QED
      BY <1>1, <1>2, <2>2, <3>1 DEF PollTyped, WatcherType, PollPhases, Followed, Passed, Watching
  <2>3. QED
    BY <2>1, <2>2 DEF StopService
<1>4. StoredForAReason'
  BY <1>1, <1>2, <1>3, DeleteMarks DEF StoredForAReason
<1>5. CASE StopsPlan(s)
  <2>1. PollTyped'
    BY <1>1, <1>2, <1>3, <1>5, StopsPlanKeeps DEF PollTyped
  <2>2. PlansForAReason'
    BY <1>2, <1>3, <1>5, StopsPlanKeeps DEF PlansForAReason
  <2>3. OnePlanEach => OnePlanEach'
    BY <1>3, <1>5, StopsPlanKeeps DEF OnePlanEach
  <2>4. QED
    BY <1>1, <1>2, <1>3, <1>4, <2>1, <2>2, <2>3
<1>6. CASE registry = "nacos" /\ UNCHANGED plans
  BY <1>1, <1>2, <1>3, <1>4, <1>6 DEF PollTyped, PlansForAReason
<1>7. QED
  BY <1>5, <1>6 DEF StopService

\* A subscription is made, and the callback of Eureka has run before it.
LEMMA SubscribeStores ==
    ASSUME CacheTypeOK, PollInv, NEW s \in Service,
           SubscribeEureka(s) \/ (past' = Watched(past, s) /\ UNCHANGED cacheVars)
    PROVE  /\ past' \in [dropped : SUBSET Service, cleaned : SUBSET Service, late : SUBSET Service,
                         refreshedLate : BOOLEAN, crashed : BOOLEAN]
           /\ past.dropped \ {s} \subseteq past'.dropped /\ past.late \subseteq past'.late
           /\ watcher.isStop => past.dropped \subseteq past'.dropped
           /\ past'.cleaned = past.cleaned /\ past'.refreshedLate = past.refreshedLate
           /\ \A t \in Service : /\ t # s /\ sew'[t] # None => sew[t] # None
                                 /\ t # s /\ t \in deferredDeleteServices => t \in deferredDeleteServices'
           /\ watcher.isStop /\ sew'[s] # None /\ s \notin past'.late =>
                /\ sew[s] # None
                /\ s \in deferredDeleteServices => s \in deferredDeleteServices'
<1>1. CASE \E d \in Data : UpdateServiceWrapper(s, d) /\ past' = Watched(Wrote(s), s)
  <2>1. PICK d \in Data : UpdateServiceWrapper(s, d) /\ past' = Watched(Wrote(s), s)
    BY <1>1
  <2>2. /\ Wrote(s) \in [dropped : SUBSET Service, cleaned : SUBSET Service, late : SUBSET Service,
                         refreshedLate : BOOLEAN, crashed : BOOLEAN]
        /\ Wrote(s).dropped = past.dropped /\ Wrote(s).cleaned = past.cleaned
        /\ Wrote(s).refreshedLate = past.refreshedLate /\ past.late \subseteq Wrote(s).late
        /\ watcher.isStop => s \in Wrote(s).late
    BY DEF Wrote, PollInv, PollTyped
  <2>3. /\ past' \in [dropped : SUBSET Service, cleaned : SUBSET Service, late : SUBSET Service,
                      refreshedLate : BOOLEAN, crashed : BOOLEAN]
        /\ past.dropped \ {s} \subseteq past'.dropped /\ past.late \subseteq past'.late
        /\ past'.cleaned = past.cleaned /\ past'.refreshedLate = past.refreshedLate
        /\ watcher.isStop => s \in past'.late
        /\ watcher.isStop => past.dropped \subseteq past'.dropped
    BY <2>1, <2>2 DEF Watched
  <2>4. QED
    BY <2>1, <2>3, UpdateStores
<1>2. CASE past' = Watched(past, s) /\ (DeleteServiceWrapper(s) \/ UNCHANGED cacheVars)
  <2>1. /\ past' \in [dropped : SUBSET Service, cleaned : SUBSET Service, late : SUBSET Service,
                      refreshedLate : BOOLEAN, crashed : BOOLEAN]
        /\ past.dropped \ {s} \subseteq past'.dropped /\ past'.late = past.late
        /\ past'.cleaned = past.cleaned /\ past'.refreshedLate = past.refreshedLate
        /\ watcher.isStop => past.dropped \subseteq past'.dropped
    BY <1>2 DEF Watched, PollInv, PollTyped
  <2>2. sew' = sew /\ deferredDeleteServices \subseteq deferredDeleteServices'
    BY <1>2, DeleteMarks DEF cacheVars, serviceVars
  <2>3. QED
    BY <2>1, <2>2
<1>3. QED
  BY <1>1, <1>2 DEF SubscribeEureka

\* A subscription begins, or fails.
LEMMA SubscribeKeepsPoll ==
    ASSUME CacheTypeOK, PollInv, NEW s \in Service, Subscribe(s)
    PROVE  PollInv'
<1> USE DEF PollInv
<1>1. registry' = registry /\ s \in watcher.left /\ s \notin Watching /\ watcher.mutex = "run"
  BY DEF Subscribe, Fetching
<1>2. watcher.stopper # "services" /\ (watcher.isStop => past.refreshedLate)
  BY <1>1 DEF PollTyped, WatcherType, PollPhases
<1>3. CASE watcher' = Passed(s) /\ UNCHANGED <<plans, past, cacheVars>>
  <2>1. watcher' \in WatcherType
    BY <1>3 DEF PollTyped, WatcherType, Passed
  <2>2. PollPhases' /\ Followed' = Followed /\ watcher'.isStop = watcher.isStop
    BY <1>1, <1>2, <1>3 DEF PollTyped, WatcherType, PollPhases, Followed, Passed, Watching
  <2>3. QED
    BY <1>1, <1>3, <2>1, <2>2
       DEF PollTyped, StoredForAReason, PlansForAReason, OnePlanEach, cacheVars, serviceVars
<1>4. CASE /\ watcher' = [Passed(s) EXCEPT !.WatchingServices = @ \cup {s}]
           /\ plans' = [plans EXCEPT ![CHOOSE p \in Free : TRUE] = NewPlan(s)]
           /\ SubscribeEureka(s) \/ (past' = Watched(past, s) /\ UNCHANGED cacheVars)
  <2>1. watcher' \in WatcherType
    BY <1>4 DEF PollTyped, WatcherType, Passed
  <2>2. /\ past' \in [dropped : SUBSET Service, cleaned : SUBSET Service, late : SUBSET Service,
                      refreshedLate : BOOLEAN, crashed : BOOLEAN]
        /\ past.dropped \ {s} \subseteq past'.dropped /\ past.late \subseteq past'.late
        /\ watcher.isStop => past.dropped \subseteq past'.dropped
        /\ past'.cleaned = past.cleaned /\ past'.refreshedLate = past.refreshedLate
        /\ \A t \in Service : /\ t # s /\ sew'[t] # None => sew[t] # None
                              /\ t # s /\ t \in deferredDeleteServices => t \in deferredDeleteServices'
        /\ watcher.isStop /\ sew'[s] # None /\ s \notin past'.late =>
             /\ sew[s] # None
             /\ s \in deferredDeleteServices => s \in deferredDeleteServices'
    BY <1>4, SubscribeStores
  <2>3. PollPhases' /\ watcher'.isStop = watcher.isStop
        /\ Followed' = (IF watcher.stopper = "no" THEN Followed \cup {s} ELSE {})
        /\ (watcher.stopper # "no" => Followed = {})
    BY <1>1, <1>2, <1>4, <2>2 DEF PollTyped, WatcherType, PollPhases, Followed, Passed, Watching
  <2>4. watcher.stopper # "no" => watcher.isStop
    BY <1>2 DEF PollTyped, WatcherType, PollPhases
  <2>5. StoredForAReason'
    BY <2>2, <2>3, <2>4 DEF StoredForAReason
  <2>6. NewPlan(s) \in PlanType /\ NewPlan(s).service = s /\ NewPlan(s).on /\ NewPlan(s).call = "none"
    BY NewPlanFields DEF PollTyped
  <2>7. PICK x : plans' = [plans EXCEPT ![x] = NewPlan(s)]
    BY <1>4
  <2>8. \A q \in Plan : plans'[q] = IF q = x THEN NewPlan(s) ELSE plans[q]
    BY <2>7 DEF PollTyped
  <2>9. plans' \in [Plan -> PlanType]
    BY <2>6, <2>7 DEF PollTyped
  <2>10. \A q \in Plan : /\ plans'[q] # NoPlan => plans'[q].service \in Service
                         /\ plans'[q].call = "update" => plans'[q].data \in Data
    BY <2>6, <2>8 DEF PollTyped
  <2>11. PollTyped'
    BY <1>1, <2>1, <2>2, <2>9, <2>10 DEF PollTyped
  <2>12. PlansForAReason'
    BY <1>2, <2>2, <2>3, <2>4, <2>6, <2>8 DEF PlansForAReason
  <2>13. watcher.stopper = "no" /\ OnePlanEach => OnePlanEach'
    BY <1>1, <2>3, <2>6, <2>8 DEF OnePlanEach, Followed
  <2>14. QED
    BY <1>1, <1>2, <2>2, <2>3, <2>4, <2>5, <2>11, <2>12, <2>13
<1>5. QED
  BY <1>3, <1>4 DEF Subscribe

\* The invariant is inductive.
LEMMA NextPoll == CacheTypeOK /\ PollInv /\ PollNext => PollInv'
<1> SUFFICES ASSUME CacheTypeOK, PollInv, PollNext
             PROVE  PollInv'
  OBVIOUS
<1>1. CASE \E s \in Service : Unsubscribe(s) \/ Subscribe(s)
  BY <1>1, UnsubscribeKeepsPoll, SubscribeKeepsPoll
<1>2. CASE \E s \in Service : StopService(s)
  BY <1>2, StopServiceKeepsPoll
<1>3. CASE \/ BeginFetch \/ BeginSubscribing \/ FetchReturns \/ SayReady \/ RunReturns
           \/ BeginStop \/ EndStop \/ \E p \in Plan : ConsumerReadsClosed(p)
  BY <1>3, WatcherStepKeepsPoll
<1>4. CASE \E p \in Plan : CallbackReturns(p)
  BY <1>4, CallbackKeepsPoll
<1>5. CASE \E p \in Plan : LibraryCalls(p) \/ PollerAsks(p) \/ PollerStep(p) \/ ConsumerStops(p)
  BY <1>5, PlanStepKeepsPoll
<1>6. CASE PollPurge
  <2>1. UNCHANGED pollVars /\ PurgeStaleItems
    BY <1>6 DEF PollPurge
  <2>2. PollTyped' /\ PollPhases' /\ PlansForAReason' /\ Followed' = Followed
        /\ (registry' = "nacos" \/ past'.refreshedLate \/ OnePlanEach')
    BY <2>1 DEF PollInv, PollTyped, PollPhases, PlansForAReason, OnePlanEach, Followed, Watching,
                pollVars, Free
  <2>3. StoredForAReason'
    BY <2>1, <2>2, PurgeDrops DEF PollInv, StoredForAReason, pollVars
  <2>4. QED
    BY <2>2, <2>3 DEF PollInv
<1>7. QED
  BY <1>1, <1>2, <1>3, <1>4, <1>5, <1>6 DEF PollNext, RunStep, StopStep

\* Once Stop is done it has been over everything that was followed.
LEMMA PollCleansUp == PollInv => PollersCleanUp
BY DEF PollInv, PollTyped, WatcherType, PollPhases, Followed, StoredForAReason, OnePlanEach, PollersCleanUp

-----------------------------------------------------------------------------
(* ZooKeeper *)

Children(s) == zk.world.children[s]
AllChildren == UNION {Children(s) : s \in Found}

ListenerType(s) ==
    [phase : {"gone", "look", "looked", "read", "wait", "deleting", "publishing"},
     read : SUBSET Children(s), complete : BOOLEAN, old : SUBSET Children(s), changed : BOOLEAN,
     exit : BOOLEAN, next : {"wait", "look"}, data : SUBSET Children(s)]

ZkType ==
    [world : Worlds, WatchingServices : SUBSET Found, serviceRemaind : Nat \cup {None},
     fetched : BOOLEAN, ready : BOOLEAN, serviceEntry : [Found -> {None} \cup SUBSET AllChildren],
     isStop : BOOLEAN, stopper : {"no", "watching", "cleaning", "done"}, left : SUBSET Found]

SeenType ==
    [first : SUBSET Found, looked : SUBSET Found, recounted : BOOLEAN, disturbed : SUBSET Found,
     crossed : SUBSET Found, late : SUBSET Found, events : Nat]

ZkTyped ==
    /\ zk \in ZkType /\ seen \in SeenType
    /\ \A s \in Found : zk.serviceEntry[s] \in {None} \cup SUBSET Children(s)
    /\ DOMAIN nodes = Found /\ \A s \in Found : nodes[s] \in SUBSET Children(s)
    /\ DOMAIN listeners = Listener /\ \A l \in Listener : listeners[l] \in ListenerType(l[1])

\* What a goroutine holds of the children of its service agrees with what is there, as long as
\* its watch has not fired.
ListenerOK(listener, there) ==
    /\ listener.phase = "gone" => listener = NoListener
    /\ listener.phase \in {"wait", "looked"} => listener.next = "wait"
    /\ listener.phase \in {"looked", "read"} /\ listener.next = "wait" /\ ~ listener.changed
       /\ listener.complete => listener.read = there
    /\ listener.phase \in {"deleting", "publishing"} /\ listener.next = "wait" /\ ~ listener.changed
          => there = {}

ListenersOK == \A l \in Listener : ListenerOK(listeners[l], nodes[l[1]])

ZkPhases ==
    /\ zk.isStop <=> zk.stopper # "no"
    /\ zk.isStop => \A l \in Listener : listeners[l] # NoListener => listeners[l].exit

\* What is in the cache is in the map of entries, which Stop goes through.
StoredHaveEntries ==
    /\ \A s \in Found : sew[s] # None => zk.serviceEntry[s] # None
    /\ \A l \in Listener : listeners[l].phase = "publishing" /\ listeners[l].data # {}
                              => zk.serviceEntry[l[1]] # None
CleanedAreMarked ==
    /\ zk.stopper = "cleaning" =>
          \A s \in Found : sew[s] # None => s \in zk.left \cup deferredDeleteServices \cup seen.late
    /\ ZkCleansUp

\* An entry is what the cache holds, but while a goroutine is between the two.
Publishing(s) == \E l \in Listener : l[1] = s /\ listeners[l].phase = "publishing"
EntriesPublished ==
    ~ zk.isStop => \A s \in Found : s \notin seen.crossed /\ ~ Publishing(s) =>
        \/ zk.serviceEntry[s] \in {None, {}}
        \/ sew[s] # None /\ sew[s].data = zk.serviceEntry[s] /\ s \notin deferredDeleteServices

\* A goroutine that waits has entered what is there, and is the only one at work.
WaitingAgree ==
    \A l \in Listener :
        listeners[l].phase = "wait" /\ ~ listeners[l].changed /\ ~ listeners[l].exit
        /\ l[1] \notin seen.disturbed \cup seen.crossed /\ nodes[l[1]] # {}
            => zk.serviceEntry[l[1]] = nodes[l[1]] /\ ~ Publishing(l[1])

\* The count is of the services of the first fetch that were not looked at.
LooksCounted ==
    /\ ~ zk.fetched => zk.serviceRemaind = None
    /\ zk.serviceRemaind = None => seen.looked = {} /\ ~ seen.recounted
    /\ zk.fetched /\ ~ zk.isStop => zk.serviceRemaind \in Nat
    /\ zk.serviceRemaind \in Nat /\ ~ seen.recounted
          => zk.serviceRemaind = Cardinality(seen.first \ seen.looked)
    /\ IsFiniteSet(seen.first)
    /\ zk.ready => zk.fetched
    /\ ReadyMeansLooked

ZkInv ==
    /\ ZkTyped /\ ListenersOK /\ ZkPhases /\ StoredHaveEntries /\ CleanedAreMarked
    /\ EntriesPublished /\ WaitingAgree /\ LooksCounted

\* What may be in ZooKeeper: finitely many services, and children that make contents.
LEMMA FoundFacts ==
    ASSUME zk.world \in Worlds
    PROVE  /\ IsFiniteSet(Found) /\ zk.world.listeners \in Nat
           /\ \A s \in Found : /\ s \in Service
                               /\ \A entry \in SUBSET Children(s) : entry # None /\ (entry # {} => entry \in Data)
<1>1. /\ zk.world.listeners \in Nat /\ IsFiniteSet(Found)
      /\ \A s \in Found : /\ s \in Service /\ (SUBSET Children(s)) \ {{}} \subseteq Data
                          /\ \A entry \in SUBSET Children(s) : entry # None
  BY WorldsMakeData DEF Found, Children
<1>2. ASSUME NEW s \in Found, NEW entry \in SUBSET Children(s), entry # {}
      PROVE  entry \in Data
  <2>1. entry \in (SUBSET Children(s)) \ {{}}
    BY <1>2
  <2>2. QED
    BY <1>1, <2>1
<1>3. QED
  BY <1>1, <1>2

\* Nothing listens at the start.
LEMMA InitZk == CacheInit /\ ZkInit => ZkInv
<1> SUFFICES ASSUME CacheInit, ZkInit
             PROVE  ZkInv
  OBVIOUS
<1>1. PICK world \in Worlds :
          /\ nodes = world.children
          /\ zk = [world |-> world, WatchingServices |-> {}, serviceRemaind |-> None,
                   fetched |-> FALSE, ready |-> FALSE, serviceEntry |-> [s \in DOMAIN nodes |-> None],
                   isStop |-> FALSE, stopper |-> "no", left |-> {}]
  BY DEF ZkInit
<1>2. /\ listeners = [l \in Listener |-> NoListener]
      /\ seen = [first |-> {}, looked |-> {}, recounted |-> FALSE, disturbed |-> {}, crossed |-> {},
                 late |-> {}, events |-> 0]
  BY DEF ZkInit
<1>3. zk.world = world /\ Found = DOMAIN world.children /\ DOMAIN nodes = Found
      /\ \A s \in Found : nodes[s] = Children(s)
  BY <1>1 DEF Found, Children
<1>4. zk \in ZkType
  BY <1>1, <1>3 DEF ZkType
<1>5. \A l \in Listener : listeners[l] = NoListener /\ NoListener \in ListenerType(l[1])
  BY <1>2 DEF NoListener, ListenerType
<1>6. ZkTyped
  BY <1>1, <1>2, <1>3, <1>4, <1>5 DEF ZkTyped, SeenType
<1>7. ListenersOK /\ WaitingAgree
  BY <1>5 DEF ListenersOK, ListenerOK, WaitingAgree, NoListener
<1>8. \A s \in Found : sew[s] = None
  BY <1>3, <1>1, FoundFacts DEF CacheInit
<1>9. ZkPhases /\ StoredHaveEntries /\ CleanedAreMarked /\ EntriesPublished
  BY <1>1, <1>3, <1>5, <1>8 DEF ZkPhases, StoredHaveEntries, CleanedAreMarked, ZkCleansUp,
                               EntriesPublished, NoListener
<1>10. LooksCounted
  BY <1>1, <1>2, NoneIsNoCount, FS_EmptySet DEF LooksCounted, ReadyMeansLooked
<1>11. QED
  BY <1>6, <1>7, <1>9, <1>10 DEF ZkInv

\* The names of the services do not vary.
LEMMA SameWorld ==
    ASSUME zk'.world = zk.world
    PROVE  Found' = Found /\ Listener' = Listener /\ AllChildren' = AllChildren
           /\ \A s : Children(s)' = Children(s) /\ ListenerType(s)' = ListenerType(s)
BY DEF Found, Listener, AllChildren, Children, ListenerType

\* A step of a goroutine that reads, or ends, but neither enters nor publishes.
LEMMA ListenKeepsZk ==
    ASSUME ZkInv, NEW l \in Listener, NEW x \in ListenerType(l[1]), Listen(l, x),
           UNCHANGED <<nodes, zk, cacheVars>>, seen' = seen \/ seen' = Event(seen),
           ListenerOK(x, nodes[l[1]]), listeners[l] # NoListener,
           x # NoListener => x.exit = listeners[l].exit,
           x.phase # "publishing", listeners[l].phase # "publishing",
           x.phase = "wait" /\ ~ x.changed =>
               \/ listeners[l].phase = "wait" /\ ~ listeners[l].changed /\ x # NoListener
               \/ nodes[l[1]] = {}
    PROVE  ZkInv'
<1> USE DEF ZkInv
<1>1. zk' = zk /\ nodes' = nodes /\ sew' = sew /\ deferredDeleteServices' = deferredDeleteServices
  BY DEF cacheVars, serviceVars
<1>2. Found' = Found /\ Listener' = Listener /\ AllChildren' = AllChildren
      /\ (\A s : Children(s)' = Children(s) /\ ListenerType(s)' = ListenerType(s)) /\ ZkType' = ZkType /\ SeenType' = SeenType
  BY <1>1, SameWorld DEF ZkType, SeenType
<1>3. /\ DOMAIN listeners' = Listener
      /\ \A m \in Listener : listeners'[m] = IF m = l THEN x ELSE listeners[m]
  BY DEF Listen, ZkTyped
<1>4. /\ seen' \in SeenType /\ seen'.first = seen.first /\ seen'.looked = seen.looked
      /\ seen'.recounted = seen.recounted /\ seen'.disturbed = seen.disturbed
      /\ seen'.crossed = seen.crossed /\ seen'.late = seen.late
  BY DEF ZkTyped, SeenType, Event
<1>5. ZkTyped'
  BY <1>1, <1>2, <1>3, <1>4 DEF ZkTyped
<1>6. ListenersOK' /\ ZkPhases'
  BY <1>1, <1>2, <1>3 DEF ListenersOK, ZkPhases
<1>7. \A s : Publishing(s)' <=> Publishing(s)
  BY <1>2, <1>3 DEF Publishing
<1>8. StoredHaveEntries' /\ CleanedAreMarked'
  BY <1>1, <1>2, <1>3, <1>4 DEF StoredHaveEntries, CleanedAreMarked, ZkCleansUp
<1>9. EntriesPublished'
  BY <1>1, <1>2, <1>4, <1>7 DEF EntriesPublished
<1>10. WaitingAgree'
  BY <1>1, <1>2, <1>3, <1>4, <1>7 DEF WaitingAgree
<1>11. LooksCounted'
  BY <1>1, <1>4 DEF LooksCounted, ReadyMeansLooked
<1>12. QED
  BY <1>5, <1>6, <1>8, <1>9, <1>10, <1>11

\* What a goroutine reads.
LEMMA ReadingFields ==
    ASSUME NEW l \in Listener, ZkTyped, NEW read \in SUBSET nodes[l[1]], NEW phase \in {"looked", "read"}
    PROVE  /\ Reading(l, phase, read) \in ListenerType(l[1])
           /\ Reading(l, phase, read).phase = phase /\ Reading(l, phase, read).read = read
           /\ Reading(l, phase, read).complete = (read = nodes[l[1]])
           /\ Reading(l, phase, read).changed = listeners[l].changed
           /\ Reading(l, phase, read).exit = listeners[l].exit
           /\ Reading(l, phase, read).old = listeners[l].old
           /\ Reading(l, phase, read).data = listeners[l].data
<1>1. l[1] \in Found /\ listeners[l] \in ListenerType(l[1]) /\ read \in SUBSET Children(l[1])
  BY DEF ZkTyped, Listener
<1>2. QED
  BY <1>1 DEF Reading, ListenerType

\* What is read with a watch set is what there is, if all of it could be read.
LEMMA LookKeepsZk == ASSUME ZkInv, NEW l \in Listener, Look(l) PROVE ZkInv'
<1>1. PICK read \in SUBSET nodes[l[1]] :
         Listen(l, [Reading(l, "looked", read) EXCEPT !.old = nodes[l[1]], !.next = "wait", !.changed = FALSE])
  BY DEF Look
<1> DEFINE r == Reading(l, "looked", read)
           x == [r EXCEPT !.old = nodes[l[1]], !.next = "wait", !.changed = FALSE]
<1>2. /\ r \in ListenerType(l[1]) /\ r.phase = "looked" /\ r.read = read
      /\ r.complete = (read = nodes[l[1]]) /\ r.exit = listeners[l].exit
  BY ReadingFields DEF ZkInv
<1>3. nodes[l[1]] \in SUBSET Children(l[1]) /\ listeners[l].phase = "look"
  BY DEF ZkInv, ZkTyped, Listener, Look
<1> HIDE DEF r
<1>4. x \in ListenerType(l[1]) /\ x.phase = "looked" /\ ListenerOK(x, nodes[l[1]]) /\ x.exit = listeners[l].exit
  BY <1>2, <1>3 DEF ListenerType, ListenerOK
<1>5. Listen(l, x)
  BY <1>1 DEF r
<1> HIDE DEF x
<1>6. UNCHANGED <<nodes, zk, cacheVars>> /\ seen' = seen /\ listeners[l] # NoListener
  BY <1>3 DEF Look, NoListener
<1>7. QED
  BY <1>3, <1>4, <1>5, <1>6, ListenKeepsZk

\* A goroutine that ends holds nothing.
LEMMA ExitKeepsZk == ASSUME ZkInv, NEW l \in Listener, ListenerExits(l) PROVE ZkInv'
<1>1. NoListener \in ListenerType(l[1]) /\ NoListener.phase = "gone" /\ ListenerOK(NoListener, nodes[l[1]])
  BY DEF NoListener, ListenerType, ListenerOK
<1>2. Listen(l, NoListener) /\ UNCHANGED <<nodes, zk, cacheVars>> /\ seen' = seen
      /\ listeners[l].phase \in {"look", "wait"}
  BY DEF ListenerExits
<1>3. listeners[l] # NoListener
  BY <1>2 DEF NoListener
<1>4. QED
  BY <1>1, <1>2, <1>3, ListenKeepsZk

\* An event of the registry is handled, on a tick or because the watch has fired.
LEMMA HandleKeepsZk ==
    ASSUME ZkInv, NEW l \in Listener, NEW next \in {"wait", "look"}, listeners[l].phase = "wait",
           next = "look" => listeners[l].changed,
           Handle(l, next), UNCHANGED <<nodes, zk, cacheVars>>, seen' = seen \/ seen' = Event(seen)
    PROVE  ZkInv'
<1>1. /\ listeners[l] \in ListenerType(l[1]) /\ listeners[l] # NoListener /\ listeners[l].next = "wait"
      /\ nodes[l[1]] \in SUBSET Children(l[1])
  BY DEF ZkInv, ZkTyped, ListenersOK, ListenerOK, Listener, NoListener
<1>2. ASSUME NEW read \in SUBSET nodes[l[1]], Listen(l, [Reading(l, "read", read) EXCEPT !.next = next])
      PROVE  ZkInv'
  <2> DEFINE r == Reading(l, "read", read)
             x == [r EXCEPT !.next = next]
  <2>1. /\ r \in ListenerType(l[1]) /\ r.phase = "read" /\ r.read = read
        /\ r.complete = (read = nodes[l[1]]) /\ r.exit = listeners[l].exit
    BY ReadingFields DEF ZkInv
  <2> HIDE DEF r
  <2>2. x \in ListenerType(l[1]) /\ x.phase = "read" /\ ListenerOK(x, nodes[l[1]]) /\ x.exit = listeners[l].exit
    BY <2>1 DEF ListenerType, ListenerOK
  <2>3. Listen(l, x)
    BY <1>2 DEF r
  <2> HIDE DEF x
  <2>4. QED
    BY <1>1, <2>2, <2>3, ListenKeepsZk
<1>3. ASSUME nodes[l[1]] = {}, Listen(l, [Reading(l, "deleting", listeners[l].old) EXCEPT !.next = next])
      PROVE  ZkInv'
  <2> DEFINE x == [Reading(l, "deleting", listeners[l].old) EXCEPT !.next = next]
  <2>1. x \in ListenerType(l[1]) /\ x.phase = "deleting" /\ ListenerOK(x, nodes[l[1]]) /\ x.exit = listeners[l].exit
    BY <1>1, <1>3 DEF ListenerType, ListenerOK, Reading
  <2>2. Listen(l, x)
    BY <1>3
  <2> HIDE DEF x
  <2>3. QED
    BY <1>1, <2>1, <2>2, ListenKeepsZk
<1>4. ASSUME Listen(l, [listeners[l] EXCEPT !.phase = next])
      PROVE  ZkInv'
  <2> DEFINE x == [listeners[l] EXCEPT !.phase = next]
  <2>1. /\ x \in ListenerType(l[1]) /\ x.phase = next /\ ListenerOK(x, nodes[l[1]])
        /\ x.exit = listeners[l].exit /\ x.changed = listeners[l].changed
    BY <1>1 DEF ListenerType, ListenerOK
  <2>2. Listen(l, x) /\ x # NoListener
    BY <1>4, <2>1 DEF NoListener
  <2> HIDE DEF x
  <2>3. QED
    BY <1>1, <2>1, <2>2, ListenKeepsZk
<1>5. QED
  BY <1>2, <1>3, <1>4 DEF Handle

\* A tick or a watch makes the goroutine handle what it finds.
LEMMA WaitKeepsZk == ASSUME ZkInv, NEW l \in Listener, Tick20s(l) \/ WatchFires(l) PROVE ZkInv'
<1>1. CASE Tick20s(l)
  BY <1>1, HandleKeepsZk DEF Tick20s
<1>2. CASE WatchFires(l)
  <2>1. CASE listeners[l].changed /\ Handle(l, "look") /\ UNCHANGED seen
    BY <1>2, <2>1, HandleKeepsZk DEF WatchFires
  <2>2. CASE Listen(l, [listeners[l] EXCEPT !.phase = "look"]) /\ seen' = Event(seen)
    <3> DEFINE x == [listeners[l] EXCEPT !.phase = "look"]
    <3>1. listeners[l] \in ListenerType(l[1]) /\ listeners[l].phase = "wait" /\ listeners[l] # NoListener
      BY <1>2 DEF ZkInv, ZkTyped, WatchFires, NoListener
    <3>2. /\ x \in ListenerType(l[1]) /\ x.phase = "look" /\ ListenerOK(x, nodes[l[1]])
          /\ x.exit = listeners[l].exit
      BY <3>1 DEF ListenerType, ListenerOK
    <3>3. Listen(l, x) /\ UNCHANGED <<nodes, zk, cacheVars>>
      BY <1>2, <2>2 DEF WatchFires
    <3> HIDE DEF x
    <3>4. QED
      BY <2>2, <3>1, <3>2, <3>3, ListenKeepsZk
  <2>3. QED
    BY <1>2, <2>1, <2>2 DEF WatchFires
<1>3. QED
  BY <1>1, <1>2

\* The deletions are done.
LEMMA DeletedKeepsZk == ASSUME ZkInv, NEW l \in Listener, Deleted(l) PROVE ZkInv'
<1> DEFINE x == [listeners[l] EXCEPT !.phase = listeners[l].next, !.complete = TRUE]
<1>1. /\ listeners[l] \in ListenerType(l[1]) /\ listeners[l].phase = "deleting"
      /\ listeners[l] # NoListener /\ ListenerOK(listeners[l], nodes[l[1]])
  BY DEF ZkInv, ZkTyped, ListenersOK, Deleted, NoListener
<1>2. /\ x \in ListenerType(l[1]) /\ ListenerOK(x, nodes[l[1]])
      /\ x.exit = listeners[l].exit /\ x.phase \in {"wait", "look"}
      /\ x.phase = "wait" /\ ~ x.changed => nodes[l[1]] = {}
  BY <1>1 DEF ListenerType, ListenerOK
<1>3. Listen(l, x) /\ UNCHANGED <<nodes, zk, cacheVars>> /\ seen' = seen
  BY DEF Deleted
<1> HIDE DEF x
<1>4. QED
  BY <1>1, <1>2, <1>3, ListenKeepsZk

\* A goroutine that starts will look first.
LEMMA StartedListener ==
    ASSUME NEW s
    PROVE  [NoListener EXCEPT !.phase = "look"] \in ListenerType(s)
<1>1. NoListener \in ListenerType(s)
  BY DEF NoListener, ListenerType
<1> HIDE DEF NoListener
<1>2. QED
  BY <1>1 DEF ListenerType

\* Goroutines start, or are told to exit, and the watcher turns.
LEMMA TurnKeepsZk ==
    ASSUME ZkInv, zk' \in ZkType, zk'.world = zk.world, zk'.serviceEntry = zk.serviceEntry,
           zk.isStop => zk'.isStop, DOMAIN listeners' = Listener,
           \A l \in Listener :
              \/ listeners'[l] = listeners[l]
              \/ listeners[l] = NoListener /\ listeners'[l] = [NoListener EXCEPT !.phase = "look"]
              \/ listeners[l] # NoListener /\ listeners'[l] = [listeners[l] EXCEPT !.exit = TRUE],
           nodes' = nodes, UNCHANGED cacheVars,
           seen' \in SeenType, seen'.disturbed = seen.disturbed, seen'.crossed = seen.crossed
    PROVE  ZkTyped' /\ ListenersOK' /\ StoredHaveEntries' /\ EntriesPublished' /\ WaitingAgree'
<1> USE DEF ZkInv
<1>1. sew' = sew /\ deferredDeleteServices' = deferredDeleteServices
  BY DEF cacheVars, serviceVars
<1>2. Found' = Found /\ Listener' = Listener /\ AllChildren' = AllChildren
      /\ (\A s : Children(s)' = Children(s) /\ ListenerType(s)' = ListenerType(s))
      /\ ZkType' = ZkType /\ SeenType' = SeenType
  BY SameWorld DEF ZkType, SeenType
<1>3. ASSUME NEW l \in Listener
      PROVE  /\ listeners'[l] \in ListenerType(l[1])
             /\ ListenerOK(listeners'[l], nodes[l[1]])
             /\ listeners'[l].phase = "publishing" <=> listeners[l].phase = "publishing"
             /\ listeners'[l].phase = "publishing" => listeners'[l].data = listeners[l].data
             /\ listeners'[l].phase = "wait" /\ ~ listeners'[l].exit =>
                   listeners[l].phase = "wait" /\ ~ listeners[l].exit /\ listeners'[l].changed = listeners[l].changed
  <2>1. listeners[l] \in ListenerType(l[1]) /\ ListenerOK(listeners[l], nodes[l[1]])
    BY DEF ZkTyped, ListenersOK
  <2>2. CASE listeners'[l] = listeners[l]
    BY <2>1, <2>2
  <2>3. CASE listeners[l] = NoListener /\ listeners'[l] = [NoListener EXCEPT !.phase = "look"]
    <3>1. listeners'[l] \in ListenerType(l[1])
      BY <2>3, StartedListener
    <3>2. listeners'[l].phase = "look" /\ listeners[l].phase = "gone"
      BY <2>3 DEF NoListener
    <3>3. ListenerOK(listeners'[l], nodes[l[1]])
      BY <3>2 DEF ListenerOK
    <3>4. QED
      BY <3>1, <3>2, <3>3
  <2>4. CASE listeners[l] # NoListener /\ listeners'[l] = [listeners[l] EXCEPT !.exit = TRUE]
    BY <2>1, <2>4 DEF ListenerType, ListenerOK
  <2>5. QED
    BY <2>2, <2>3, <2>4
<1>4. ZkTyped'
  BY <1>2, <1>3 DEF ZkTyped
<1>5. ListenersOK'
  BY <1>2, <1>3 DEF ListenersOK
<1>6. \A s : Publishing(s)' <=> Publishing(s)
  BY <1>2, <1>3 DEF Publishing
<1>7. StoredHaveEntries'
  BY <1>1, <1>2, <1>3 DEF StoredHaveEntries
<1>8. EntriesPublished'
  BY <1>1, <1>2, <1>6 DEF EntriesPublished
<1>9. ASSUME NEW l \in Listener, listeners'[l].phase = "wait", ~ listeners'[l].changed,
             ~ listeners'[l].exit, l[1] \notin seen'.disturbed \cup seen'.crossed, nodes'[l[1]] # {}
      PROVE  zk'.serviceEntry[l[1]] = nodes'[l[1]] /\ ~ Publishing(l[1])'
  <2>1. listeners[l].phase = "wait" /\ ~ listeners[l].changed /\ ~ listeners[l].exit
    BY <1>3, <1>9
  <2>2. zk.serviceEntry[l[1]] = nodes[l[1]] /\ ~ Publishing(l[1])
    BY <1>9, <2>1 DEF WaitingAgree
  <2>3. QED
    BY <1>6, <2>2
<1>10. WaitingAgree'
  BY <1>2, <1>9 DEF WaitingAgree
<1>11. QED
  BY <1>4, <1>5, <1>7, <1>8, <1>10

\* The bound leaves room for a goroutine of each new service.
LEMMA FreeSlot ==
    ASSUME ZkTyped, NEW new \in SUBSET Found, NEW s \in new,
           Cardinality({l \in Listener : listeners[l] # NoListener}) + Cardinality(new)
               <= zk.world.listeners
    PROVE  FreeSlots(s) # {}
<1> DEFINE n == zk.world.listeners
           busy == {l \in Listener : listeners[l] # NoListener}
           slots == {s} \X (1 .. n)
<1>1. n \in Nat /\ IsFiniteSet(Found)
  BY FoundFacts DEF ZkTyped, ZkType
<1>2. IsFiniteSet(1 .. n) /\ Cardinality(1 .. n) = n
  <2>1. 1 \in Int /\ n \in Int
    BY <1>1
  <2>2. IsFiniteSet(1 .. n) /\ Cardinality(1 .. n) = IF 1 > n THEN 0 ELSE n - 1 + 1
    BY <2>1, FS_Interval
  <2> HIDE DEF n
  <2>3. QED
    BY <1>1, <2>2
<1>3. IsFiniteSet(Listener)
  BY <1>1, <1>2, FS_Product DEF Listener
<1>4. IsFiniteSet(busy) /\ Cardinality(busy) \in Nat
  BY <1>3, FS_Subset, FS_CardinalityType
<1>5. IsFiniteSet(new) /\ Cardinality(new) \in Nat /\ Cardinality(new) # 0
  BY <1>1, FS_Subset, FS_CardinalityType, FS_EmptySet
<1>6. IsFiniteSet({s}) /\ Cardinality({s}) = 1
  BY FS_Singleton
<1>7. Cardinality(slots) = 1 * n
  <2> DEFINE one == {s}
             row == 1 .. n
  <2>1. /\ IsFiniteSet(one) /\ Cardinality(one) = 1 /\ IsFiniteSet(row) /\ Cardinality(row) = n
        /\ slots = one \X row
    BY <1>2, <1>6
  <2> HIDE DEF one, row, slots
  <2>2. Cardinality(one \X row) = Cardinality(one) * Cardinality(row)
    BY <2>1, FS_Product
  <2>3. QED
    BY <2>1, <2>2
<1>8. Cardinality(slots) = n
  BY <1>1, <1>7
<1>9. ASSUME FreeSlots(s) = {}
      PROVE  FALSE
  <2>1. slots \in SUBSET busy
    BY <1>9 DEF FreeSlots, Listener
  <2>2. n <= Cardinality(busy)
    BY <1>4, <1>8, <2>1, FS_Subset
  <2>3. Cardinality(busy) + Cardinality(new) <= n
    OBVIOUS
  <2> HIDE DEF n, busy
  <2>4. QED
    BY <1>1, <1>4, <1>5, <2>2, <2>3
<1>10. QED
  BY <1>9

\* A fetch starts goroutines in free places, and tells those of lost services to end.
LEMMA FetchStarts ==
    ASSUME ZkTyped, NEW fetched \in SUBSET Found, Fetch(fetched)
    PROVE  /\ DOMAIN listeners' = Listener
           /\ \A l \in Listener :
                \/ listeners'[l] = listeners[l]
                \/ listeners[l] = NoListener /\ listeners'[l] = [NoListener EXCEPT !.phase = "look"]
                \/ listeners[l] # NoListener /\ listeners'[l] = [listeners[l] EXCEPT !.exit = TRUE]
<1> DEFINE new == fetched \ zk.WatchingServices
           Starts(l) == l[1] \in new /\ l[2] = CHOOSE k \in FreeSlots(l[1]) : TRUE
<1>1. listeners' = [l \in Listener |->
             IF Starts(l) THEN [NoListener EXCEPT !.phase = "look"]
             ELSE IF l \in Listening(l[1]) /\ l[1] \in zk.WatchingServices \ fetched
                  THEN [listeners[l] EXCEPT !.exit = TRUE]
             ELSE listeners[l]]
  BY DEF Fetch
<1>2. ASSUME NEW l \in Listener, Starts(l)
      PROVE  listeners[l] = NoListener
  <2>1. FreeSlots(l[1]) # {}
    BY <1>2, FreeSlot DEF Fetch
  <2>2. l[2] \in FreeSlots(l[1])
    BY <1>2, <2>1
  <2>3. l = <<l[1], l[2]>>
    BY DEF Listener
  <2>4. QED
    BY <2>2, <2>3 DEF FreeSlots
<1> HIDE DEF Starts
<1>3. QED
  BY <1>1, <1>2 DEF Listening

\* The first fetch counts what it finds.
LEMMA FirstFetchKeepsZk == ASSUME ZkInv, FirstFetch PROVE ZkInv'
<1> USE DEF ZkInv
<1>1. zk \in ZkType /\ seen \in SeenType /\ ~ zk.fetched /\ nodes' = nodes /\ UNCHANGED cacheVars
      /\ DOMAIN listeners = Listener
  BY DEF ZkTyped, FirstFetch
<1>2. sew' = sew /\ deferredDeleteServices' = deferredDeleteServices
  BY <1>1 DEF cacheVars, serviceVars
<1>3. CASE zk.isStop /\ zk' = [zk EXCEPT !.fetched = TRUE] /\ UNCHANGED <<listeners, seen>>
  <2>1. zk' \in ZkType /\ zk'.world = zk.world /\ zk'.serviceEntry = zk.serviceEntry /\ zk'.isStop
        /\ zk'.stopper = zk.stopper /\ zk'.left = zk.left /\ zk'.ready = zk.ready
        /\ zk'.serviceRemaind = zk.serviceRemaind /\ zk'.fetched
    BY <1>1, <1>3 DEF ZkType
  <2>2. ZkTyped' /\ ListenersOK' /\ StoredHaveEntries' /\ EntriesPublished' /\ WaitingAgree'
    BY <1>1, <1>3, <2>1, TurnKeepsZk
  <2>3. ZkPhases' /\ CleanedAreMarked' /\ LooksCounted'
    BY <1>2, <1>3, <2>1, SameWorld
       DEF ZkPhases, CleanedAreMarked, ZkCleansUp, LooksCounted, ReadyMeansLooked
  <2>4. QED
    BY <2>2, <2>3
<1>4. ASSUME ~ zk.isStop, NEW fetched \in SUBSET Found, Fetch(fetched),
             zk' = [zk EXCEPT !.fetched = TRUE, !.WatchingServices = fetched,
                              !.serviceRemaind = Cardinality(fetched \ zk.WatchingServices)],
             seen' = [seen EXCEPT !.first = fetched \ zk.WatchingServices]
      PROVE  ZkInv'
  <2> DEFINE new == fetched \ zk.WatchingServices
  <2>1. IsFiniteSet(new) /\ Cardinality(new) \in Nat
    BY <1>1, FoundFacts, FS_Subset, FS_CardinalityType DEF ZkType
  <2>2. zk' \in ZkType /\ zk'.world = zk.world /\ zk'.serviceEntry = zk.serviceEntry /\ ~ zk'.isStop
        /\ zk'.stopper = zk.stopper /\ zk'.left = zk.left /\ zk'.ready = zk.ready
        /\ zk'.serviceRemaind = Cardinality(new) /\ zk'.fetched
    BY <1>1, <1>4, <2>1 DEF ZkType
  <2>3. seen' \in SeenType /\ seen'.disturbed = seen.disturbed /\ seen'.crossed = seen.crossed
        /\ seen'.first = new /\ seen'.looked = seen.looked /\ seen'.recounted = seen.recounted /\ seen'.late = seen.late
    BY <1>1, <1>4 DEF SeenType
  <2>4. ZkTyped' /\ ListenersOK' /\ StoredHaveEntries' /\ EntriesPublished' /\ WaitingAgree'
    BY <1>1, <1>4, <2>2, <2>3, FetchStarts, TurnKeepsZk DEF ZkTyped
  <2>5. ZkPhases' /\ CleanedAreMarked'
    BY <1>2, <1>4, <2>2, <2>3, SameWorld DEF ZkPhases, CleanedAreMarked, ZkCleansUp
  <2>6. seen.looked = {} /\ ~ seen.recounted
    BY <1>1 DEF LooksCounted
  <2> HIDE DEF new
  <2>7. LooksCounted'
    BY <1>1, <2>1, <2>2, <2>3, <2>6, NoneIsNoCount DEF LooksCounted, ReadyMeansLooked
  <2>8. QED
    BY <2>4, <2>5, <2>7
<1>5. QED
  BY <1>3, <1>4 DEF FirstFetch

\* A later fetch counts nothing.
LEMMA FetchAgainKeepsZk == ASSUME ZkInv, FetchAgain PROVE ZkInv'
<1> USE DEF ZkInv
<1>1. PICK fetched \in SUBSET Found : Fetch(fetched) /\ zk' = [zk EXCEPT !.WatchingServices = fetched]
  BY DEF FetchAgain
<1>2. zk \in ZkType /\ seen \in SeenType /\ ~ zk.isStop /\ nodes' = nodes /\ UNCHANGED cacheVars
      /\ seen' = Event(seen)
  BY DEF ZkTyped, FetchAgain
<1>3. zk' \in ZkType /\ zk'.world = zk.world /\ zk'.serviceEntry = zk.serviceEntry /\ zk'.isStop = zk.isStop
      /\ zk'.stopper = zk.stopper /\ zk'.left = zk.left /\ zk'.ready = zk.ready
      /\ zk'.serviceRemaind = zk.serviceRemaind /\ zk'.fetched = zk.fetched
  BY <1>1, <1>2 DEF ZkType
<1>4. seen' \in SeenType /\ seen'.disturbed = seen.disturbed /\ seen'.crossed = seen.crossed
      /\ seen'.first = seen.first /\ seen'.looked = seen.looked /\ seen'.recounted = seen.recounted
      /\ seen'.late = seen.late
  BY <1>2 DEF SeenType, Event
<1>5. ZkTyped' /\ ListenersOK' /\ StoredHaveEntries' /\ EntriesPublished' /\ WaitingAgree'
  BY <1>1, <1>2, <1>3, <1>4, FetchStarts, TurnKeepsZk DEF ZkTyped
<1>6. sew' = sew /\ deferredDeleteServices' = deferredDeleteServices
  BY <1>2 DEF cacheVars, serviceVars
<1>7. ZkPhases' /\ CleanedAreMarked' /\ LooksCounted'
  BY <1>2, <1>3, <1>4, <1>6, SameWorld
     DEF ZkPhases, CleanedAreMarked, ZkCleansUp, LooksCounted, ReadyMeansLooked
<1>8. QED
  BY <1>5, <1>7

\* The turns of the watcher that touch no goroutine but to tell it to exit.
LEMMA ZkTurnsKeep ==
    ASSUME ZkInv, SayZkReady \/ StopWatching \/ BeginCleaning \/ EndStopZk
    PROVE  ZkInv'
<1> USE DEF ZkInv
<1>1. zk \in ZkType /\ seen' = seen /\ nodes' = nodes /\ UNCHANGED cacheVars
      /\ DOMAIN listeners = Listener /\ seen \in SeenType
  BY DEF ZkTyped, SayZkReady, StopWatching, BeginCleaning, EndStopZk
<1>2. sew' = sew /\ deferredDeleteServices' = deferredDeleteServices
  BY <1>1 DEF cacheVars, serviceVars
<1>3. CASE SayZkReady
  <2>1. zk' \in ZkType /\ zk' = [zk EXCEPT !.ready = TRUE] /\ zk'.world = zk.world
    BY <1>1, <1>3 DEF ZkType, SayZkReady
  <2>2. ZkTyped' /\ ListenersOK' /\ StoredHaveEntries' /\ EntriesPublished' /\ WaitingAgree'
    BY <1>1, <1>3, <2>1, TurnKeepsZk DEF SayZkReady, ZkType
  <2>3. ZkPhases' /\ CleanedAreMarked'
    BY <1>1, <1>2, <1>3, <2>1, SameWorld DEF ZkPhases, CleanedAreMarked, ZkCleansUp, SayZkReady, ZkType
  <2>4. zk.serviceRemaind = 0 /\ ~ zk.isStop /\ ~ seen.recounted => seen.first \ seen.looked = {}
    <3>1. IsFiniteSet(seen.first \ seen.looked)
      BY FS_Difference DEF LooksCounted
    <3>2. zk.serviceRemaind = 0 /\ ~ zk.isStop /\ ~ seen.recounted => Cardinality(seen.first \ seen.looked) = 0
      BY DEF LooksCounted
    <3>3. QED
      BY <3>1, <3>2, FS_EmptySet
  <2>5. ReadyMeansLooked'
    BY <1>1, <1>3, <2>1, <2>4, NoneIsNoCount DEF ReadyMeansLooked, SayZkReady, LooksCounted, ZkType
  <2>6. LooksCounted'
    BY <1>1, <1>3, <2>1, <2>5 DEF LooksCounted, SayZkReady, ZkType
  <2>7. QED
    BY <2>2, <2>3, <2>6
<1>4. CASE StopWatching
  <2>1. zk' \in ZkType /\ zk'.world = zk.world /\ zk'.serviceEntry = zk.serviceEntry /\ zk'.isStop
        /\ zk'.stopper = "watching" /\ zk'.ready = zk.ready
        /\ zk'.serviceRemaind = zk.serviceRemaind /\ zk'.fetched = zk.fetched
    BY <1>1, <1>4 DEF ZkType, StopWatching
  <2>2. /\ DOMAIN listeners' = Listener
        /\ \A l \in Listener : listeners'[l] = IF listeners[l] # NoListener
                                               THEN [listeners[l] EXCEPT !.exit = TRUE] ELSE listeners[l]
    BY <1>4 DEF StopWatching, Listening
  <2>3. ZkTyped' /\ ListenersOK' /\ StoredHaveEntries' /\ EntriesPublished' /\ WaitingAgree'
    BY <1>1, <2>1, <2>2, TurnKeepsZk
  <2>4. \A l \in Listener : listeners'[l] # NoListener => listeners'[l].exit
    BY <2>2 DEF ZkTyped, ListenerType
  <2>5. ZkPhases' /\ CleanedAreMarked' /\ LooksCounted'
    BY <1>1, <2>1, <2>4, SameWorld
       DEF ZkPhases, CleanedAreMarked, ZkCleansUp, LooksCounted, ReadyMeansLooked
  <2>6. QED
    BY <2>3, <2>5
<1>5. CASE BeginCleaning \/ EndStopZk
  <2>1. zk' \in ZkType /\ zk'.world = zk.world /\ zk'.serviceEntry = zk.serviceEntry
        /\ zk'.isStop = zk.isStop /\ (zk'.ready => zk.ready) /\ zk'.stopper \in {"cleaning", "done"}
        /\ zk'.serviceRemaind = zk.serviceRemaind /\ zk'.fetched = zk.fetched
        /\ listeners' = listeners /\ zk.stopper # "no"
    <3>1. CASE BeginCleaning
      BY <1>1, <3>1 DEF ZkType, BeginCleaning
    <3>2. CASE EndStopZk
      BY <1>1, <3>2 DEF ZkType, EndStopZk
    <3>3. QED
      BY <1>5, <3>1, <3>2
  <2>2. ZkTyped' /\ ListenersOK' /\ StoredHaveEntries' /\ EntriesPublished' /\ WaitingAgree'
    BY <1>1, <2>1, TurnKeepsZk
  <2>3. ZkPhases' /\ LooksCounted'
    BY <1>1, <2>1, SameWorld DEF ZkPhases, LooksCounted, ReadyMeansLooked
  <2>4. CleanedAreMarked'
    <3>1. CASE BeginCleaning
      <4>1. zk'.stopper = "cleaning" /\ zk'.left = {s \in Found : zk.serviceEntry[s] # None}
        BY <1>1, <3>1 DEF BeginCleaning, ZkType
      <4>2. QED
        BY <1>1, <1>2, <2>1, <4>1, SameWorld DEF CleanedAreMarked, ZkCleansUp, StoredHaveEntries
    <3>2. CASE EndStopZk
      <4>1. zk.stopper = "cleaning" /\ zk'.stopper = "done" /\ zk.left = {}
        BY <1>1, <3>2 DEF EndStopZk, ZkType
      <4>2. QED
        BY <1>1, <1>2, <2>1, <4>1, SameWorld DEF CleanedAreMarked, ZkCleansUp
    <3>3. QED
      BY <1>5, <3>1, <3>2
  <2>5. QED
    BY <2>2, <2>3, <2>4
<1>6. QED
  BY <1>3, <1>4, <1>5

\* What stays when only the cache and the list of Stop vary.
LEMMA CleaningKeepsZk ==
    ASSUME ZkInv, zk' \in ZkType, zk'.world = zk.world, zk'.serviceEntry = zk.serviceEntry,
           zk'.isStop = zk.isStop, zk'.stopper = zk.stopper, zk'.ready = zk.ready,
           zk'.serviceRemaind = zk.serviceRemaind, zk'.fetched = zk.fetched,
           UNCHANGED <<nodes, listeners, seen>>,
           \A s \in Found : sew'[s] # None => sew'[s] = sew[s]
    PROVE  ZkTyped' /\ ListenersOK' /\ ZkPhases' /\ StoredHaveEntries' /\ WaitingAgree' /\ LooksCounted'
           /\ (\A s : Publishing(s)' <=> Publishing(s))
<1> USE DEF ZkInv
<1>1. Found' = Found /\ Listener' = Listener /\ AllChildren' = AllChildren
      /\ (\A s : Children(s)' = Children(s) /\ ListenerType(s)' = ListenerType(s))
      /\ ZkType' = ZkType /\ SeenType' = SeenType
  BY SameWorld DEF ZkType, SeenType
<1>2. ZkTyped'
  BY <1>1 DEF ZkTyped
<1>3. ListenersOK' /\ ZkPhases' /\ LooksCounted'
  BY <1>1 DEF ListenersOK, ZkPhases, LooksCounted, ReadyMeansLooked
<1>4. \A s : Publishing(s)' <=> Publishing(s)
  BY <1>1 DEF Publishing
<1>5. StoredHaveEntries' /\ WaitingAgree'
  BY <1>1, <1>4 DEF StoredHaveEntries, WaitingAgree
<1>6. QED
  BY <1>2, <1>3, <1>4, <1>5

\* Stop goes over one service more.
LEMMA CleanServiceKeepsZk == ASSUME ZkInv, NEW s \in Found, CleanService(s) PROVE ZkInv'
<1> USE DEF ZkInv
<1>1. zk \in ZkType /\ s \in Service /\ DeleteServiceWrapper(s) /\ UNCHANGED <<nodes, listeners, seen>>
      /\ zk.stopper = "cleaning" /\ zk' = [zk EXCEPT !.left = @ \ {s}]
  BY FoundFacts DEF ZkTyped, ZkType, CleanService
<1>2. sew' = sew /\ deferredDeleteServices \subseteq deferredDeleteServices'
      /\ (sew[s] # None => s \in deferredDeleteServices')
  BY <1>1, DeleteMarks
<1>3. zk' \in ZkType /\ zk'.world = zk.world /\ zk'.serviceEntry = zk.serviceEntry
      /\ zk'.isStop = zk.isStop /\ zk'.stopper = "cleaning" /\ zk'.ready = zk.ready
      /\ zk'.serviceRemaind = zk.serviceRemaind /\ zk'.fetched = zk.fetched /\ zk'.left = zk.left \ {s}
  BY <1>1 DEF ZkType
<1>4. ZkTyped' /\ ListenersOK' /\ ZkPhases' /\ StoredHaveEntries' /\ WaitingAgree' /\ LooksCounted'
  BY <1>1, <1>2, <1>3, CleaningKeepsZk
<1>5. CleanedAreMarked'
  BY <1>1, <1>2, <1>3, SameWorld DEF CleanedAreMarked, ZkCleansUp
<1>6. EntriesPublished'
  BY <1>1, <1>3 DEF EntriesPublished, ZkPhases
<1>7. QED
  BY <1>4, <1>5, <1>6

\* The purge takes away what was marked, of which nothing is claimed.
LEMMA ZkPurgeKeepsZk == ASSUME ZkInv, ZkPurge PROVE ZkInv'
<1> USE DEF ZkInv
<1>1. PurgeStaleItems /\ zk' = zk /\ UNCHANGED <<nodes, listeners, seen>> /\ zk \in ZkType
  BY DEF ZkPurge, zkVars, ZkTyped
<1>2. \A s \in Found : s \in Service
  BY <1>1, FoundFacts DEF ZkType
<1>3. \A s \in Found : sew'[s] # None => sew'[s] = sew[s] /\ s \notin deferredDeleteServices
  BY <1>1, <1>2, PurgeDrops
<1>4. ZkTyped' /\ ListenersOK' /\ ZkPhases' /\ StoredHaveEntries' /\ WaitingAgree' /\ LooksCounted'
      /\ (\A s : Publishing(s)' <=> Publishing(s))
  BY <1>1, <1>3, CleaningKeepsZk DEF ZkType
<1>5. Found' = Found
  BY <1>1, SameWorld
<1>6. CleanedAreMarked'
  BY <1>1, <1>3, <1>5 DEF CleanedAreMarked, ZkCleansUp
<1>7. \A s \in Found : s \notin deferredDeleteServices' /\ (s \notin deferredDeleteServices => sew'[s] = sew[s])
  BY <1>1, <1>2 DEF PurgeStaleItems
<1>8. EntriesPublished'
  BY <1>1, <1>4, <1>5, <1>7 DEF EntriesPublished
<1>9. QED
  BY <1>4, <1>6, <1>8

\* The children change, and the watches of those who have read them fire.
LEMMA NodesChangeKeepsZk == ASSUME ZkInv, NEW s \in Found, NodesChange(s) PROVE ZkInv'
<1> USE DEF ZkInv
<1>1. PICK children \in (SUBSET Children(s)) \ {nodes[s]} : nodes' = [nodes EXCEPT ![s] = children]
  BY DEF NodesChange, Children
<1>2. /\ DOMAIN listeners' = Listener /\ zk' = zk /\ zk \in ZkType
      /\ sew' = sew /\ deferredDeleteServices' = deferredDeleteServices
      /\ DOMAIN nodes = Found
  BY DEF NodesChange, ZkTyped, cacheVars, serviceVars
<1>3. Found' = Found /\ Listener' = Listener /\ AllChildren' = AllChildren
      /\ (\A t : Children(t)' = Children(t) /\ ListenerType(t)' = ListenerType(t))
      /\ ZkType' = ZkType /\ SeenType' = SeenType
  BY <1>2, SameWorld DEF ZkType, SeenType
<1>4. /\ seen' \in SeenType /\ seen'.first = seen.first /\ seen'.looked = seen.looked
      /\ seen'.recounted = seen.recounted /\ seen'.disturbed = seen.disturbed
      /\ seen'.crossed = seen.crossed /\ seen'.late = seen.late
  BY DEF NodesChange, ZkTyped, SeenType, Event
<1>5. /\ DOMAIN nodes' = Found
      /\ \A t \in Found : nodes'[t] = IF t = s THEN children ELSE nodes[t]
  BY <1>1, <1>2
<1>6. ASSUME NEW l \in Listener
      PROVE  /\ listeners'[l] \in ListenerType(l[1])
             /\ ListenerOK(listeners'[l], nodes'[l[1]])
             /\ listeners'[l].phase = listeners[l].phase /\ listeners'[l].exit = listeners[l].exit
             /\ listeners'[l].data = listeners[l].data
             /\ (listeners'[l] = NoListener <=> listeners[l] = NoListener)
             /\ listeners'[l].phase = "wait" /\ ~ listeners'[l].changed =>
                   ~ listeners[l].changed /\ l[1] # s
  <2>1. listeners[l] \in ListenerType(l[1]) /\ ListenerOK(listeners[l], nodes[l[1]]) /\ l[1] \in Found
    BY DEF ZkTyped, ListenersOK, Listener
  <2>2. listeners'[l] = IF l[1] = s /\ listeners[l] # NoListener /\ listeners[l].phase # "look" /\ listeners[l].next = "wait"
                        THEN [listeners[l] EXCEPT !.changed = TRUE] ELSE listeners[l]
    BY DEF NodesChange, Listening
  <2>3. CASE l[1] = s /\ listeners[l] # NoListener /\ listeners[l].phase # "look" /\ listeners[l].next = "wait"
    <3>1. listeners'[l] = [listeners[l] EXCEPT !.changed = TRUE] /\ listeners[l].phase # "gone"
      BY <2>1, <2>2, <2>3 DEF ListenerOK
    <3>2. listeners'[l].phase = listeners[l].phase /\ listeners'[l].exit = listeners[l].exit
          /\ listeners'[l].data = listeners[l].data /\ listeners'[l].changed /\ listeners'[l].next = "wait"
          /\ listeners'[l] \in ListenerType(l[1])
      BY <2>1, <2>3, <3>1 DEF ListenerType
    <3>3. ListenerOK(listeners'[l], nodes'[l[1]])
      BY <3>1, <3>2 DEF ListenerOK
    <3>4. listeners'[l] # NoListener
      BY <3>1, <3>2 DEF NoListener
    <3>5. QED
      BY <2>3, <3>2, <3>3, <3>4
  <2>4. CASE ~ (l[1] = s /\ listeners[l] # NoListener /\ listeners[l].phase # "look" /\ listeners[l].next = "wait")
    <3>1. listeners'[l] = listeners[l]
      BY <2>2, <2>4
    <3>2. CASE l[1] # s
      BY <1>5, <2>1, <3>1, <3>2
    <3>3. CASE l[1] = s
      <4>1. listeners[l].phase \in {"gone", "look"} \/ listeners[l].next # "wait"
        BY <2>4, <3>3 DEF NoListener
      <4>2. ListenerOK(listeners[l], nodes'[l[1]]) /\ listeners[l].phase # "wait"
        BY <2>1, <4>1 DEF ListenerOK
      <4>3. QED
        BY <2>1, <3>1, <4>2
    <3>4. QED
      BY <3>2, <3>3
  <2>5. QED
    BY <2>3, <2>4
<1>7. ZkTyped'
  <2>1. \A t \in Found : nodes'[t] \in SUBSET Children(t)
    BY <1>1, <1>5 DEF ZkTyped
  <2>2. QED
    BY <1>2, <1>3, <1>4, <1>5, <1>6, <2>1 DEF ZkTyped
<1>8. ListenersOK' /\ ZkPhases'
  BY <1>2, <1>3, <1>6 DEF ListenersOK, ZkPhases
<1>9. \A t : Publishing(t)' <=> Publishing(t)
  BY <1>3, <1>6 DEF Publishing
<1>10. StoredHaveEntries' /\ CleanedAreMarked'
  BY <1>2, <1>3, <1>4, <1>6 DEF StoredHaveEntries, CleanedAreMarked, ZkCleansUp
<1>11. EntriesPublished' /\ LooksCounted'
  BY <1>2, <1>3, <1>4, <1>9 DEF EntriesPublished, LooksCounted, ReadyMeansLooked
<1>12. ASSUME NEW l \in Listener, listeners'[l].phase = "wait", ~ listeners'[l].changed,
              ~ listeners'[l].exit, l[1] \notin seen'.disturbed \cup seen'.crossed, nodes'[l[1]] # {}
       PROVE  zk'.serviceEntry[l[1]] = nodes'[l[1]] /\ ~ Publishing(l[1])'
  <2>1. listeners[l].phase = "wait" /\ ~ listeners[l].changed /\ ~ listeners[l].exit /\ l[1] # s
    BY <1>6, <1>12
  <2>2. l[1] \in Found
    BY DEF Listener
  <2>3. nodes'[l[1]] = nodes[l[1]]
    BY <1>5, <2>1, <2>2
  <2>4. QED
    BY <1>2, <1>4, <1>9, <1>12, <2>1, <2>3 DEF WaitingAgree
<1>13. WaitingAgree'
  BY <1>3, <1>12 DEF WaitingAgree
<1>14. QED
  BY <1>7, <1>8, <1>10, <1>11, <1>13

\* A goroutine enters the children it read, and a look counts.
LEMMA WriteCounts ==
    ASSUME ZkInv, NEW l \in Listener, WriteChildren(l)
    PROVE  /\ seen' \in SeenType /\ seen'.crossed = seen.crossed
           /\ seen.late \subseteq seen'.late
           /\ listeners[l].read # {} /\ AlreadyCleaned(l[1]) => l[1] \in seen'.late
           /\ \A s : s # l[1] => (s \in seen'.disturbed <=> s \in seen.disturbed)
           /\ l[1] \notin seen'.disturbed => Listening(l[1]) = {l} /\ listeners[l].complete
           /\ zk' \in ZkType /\ zk'.world = zk.world /\ zk'.isStop = zk.isStop
           /\ zk'.stopper = zk.stopper /\ zk'.left = zk.left
           /\ \A s \in Found : zk'.serviceEntry[s] = IF s = l[1] /\ listeners[l].read # {}
                                                     THEN listeners[l].read ELSE zk.serviceEntry[s]
           /\ LooksCounted'
<1> USE DEF ZkInv
<1> DEFINE s == l[1]
           read == listeners[l].read
           looks == listeners[l].phase = "looked"
<1>1. /\ zk \in ZkType /\ seen \in SeenType /\ s \in Found /\ read \in SUBSET Children(s)
      /\ listeners[l] \in ListenerType(s) /\ read \in SUBSET AllChildren
  BY DEF ZkTyped, ListenerType, Listener, AllChildren
<1>2. zk' = Entered(s, read, looks)
      /\ seen' = IF looks /\ zk.serviceRemaind # None THEN Looked(Written(l), s) ELSE Written(l)
  BY DEF WriteChildren
<1>3. /\ Disturbs(l) \in SeenType /\ Disturbs(l).late = seen.late /\ Disturbs(l).crossed = seen.crossed
      /\ Disturbs(l).first = seen.first /\ Disturbs(l).looked = seen.looked
      /\ Disturbs(l).recounted = seen.recounted
      /\ \A t : t # s => (t \in Disturbs(l).disturbed <=> t \in seen.disturbed)
      /\ s \notin Disturbs(l).disturbed => Listening(s) = {l} /\ listeners[l].complete
  BY <1>1 DEF Disturbs, SeenType
<1>4. /\ Written(l) \in SeenType /\ seen.late \subseteq Written(l).late /\ Written(l).crossed = seen.crossed
      /\ Written(l).first = seen.first /\ Written(l).looked = seen.looked
      /\ Written(l).recounted = seen.recounted /\ Written(l).disturbed = Disturbs(l).disturbed
      /\ read # {} /\ AlreadyCleaned(s) => s \in Written(l).late
  <2>1. CASE read = {}
    BY <1>3, <2>1 DEF Written
  <2>2. CASE read # {}
    <3> HIDE DEF Disturbs
    <3> DEFINE d == Disturbs(l)
    <3>1. Written(l) = IF AlreadyCleaned(s) THEN [d EXCEPT !.late = @ \cup {s}] ELSE d
      BY <2>2 DEF Written, LateIf
    <3>2. d \in SeenType /\ d.late = seen.late /\ d.crossed = seen.crossed /\ d.first = seen.first
          /\ d.looked = seen.looked /\ d.recounted = seen.recounted /\ d.disturbed = Disturbs(l).disturbed
      BY <1>3
    <3> HIDE DEF d
    <3>3. QED
      BY <1>1, <3>1, <3>2 DEF SeenType
  <2>3. QED
    BY <2>1, <2>2
<1> DEFINE written == Written(l)
<1>5. /\ written \in SeenType /\ seen.late \subseteq written.late /\ written.crossed = seen.crossed
      /\ written.first = seen.first /\ written.looked = seen.looked
      /\ written.recounted = seen.recounted /\ written.disturbed = Disturbs(l).disturbed
      /\ read # {} /\ AlreadyCleaned(s) => s \in written.late
      /\ seen' = IF looks /\ zk.serviceRemaind # None THEN Looked(written, s) ELSE written
  BY <1>2, <1>4
<1> HIDE DEF written
<1>6. /\ seen' \in SeenType /\ seen'.crossed = seen.crossed /\ seen.late \subseteq seen'.late
      /\ seen'.disturbed = Disturbs(l).disturbed
      /\ read # {} /\ AlreadyCleaned(s) => s \in seen'.late
      /\ seen'.first = seen.first
      /\ looks /\ zk.serviceRemaind # None =>
           /\ seen'.looked = seen.looked \cup {s}
           /\ seen'.recounted = (seen.recounted \/ s \notin seen.first \ seen.looked)
      /\ ~ (looks /\ zk.serviceRemaind # None) =>
           seen'.looked = seen.looked /\ seen'.recounted = seen.recounted
  <2>1. CASE looks /\ zk.serviceRemaind # None
    <3> DEFINE looked == seen.looked \cup {s}
               recounted == seen.recounted \/ s \notin seen.first \ seen.looked
    <3>1. seen' = [written EXCEPT !.looked = looked, !.recounted = recounted]
      BY <1>5, <2>1 DEF Looked
    <3>2. recounted \in BOOLEAN /\ looked \in SUBSET Found
      BY <1>1 DEF SeenType
    <3> HIDE DEF looked, recounted
    <3>3. seen' \in SeenType /\ seen'.looked = looked /\ seen'.recounted = recounted
          /\ seen'.crossed = written.crossed /\ seen'.late = written.late
          /\ seen'.disturbed = written.disturbed /\ seen'.first = written.first
      BY <1>5, <3>1, <3>2 DEF SeenType
    <3>4. seen'.looked = seen.looked \cup {s}
      BY <3>3 DEF looked
    <3>5. seen'.recounted = (seen.recounted \/ s \notin seen.first \ seen.looked)
      BY <3>3 DEF recounted
    <3>6. QED
      BY <1>5, <2>1, <3>3, <3>4, <3>5
  <2>2. CASE ~ (looks /\ zk.serviceRemaind # None)
    BY <1>5, <2>2
  <2>3. QED
    BY <2>1, <2>2
<1> DEFINE remaind == IF looks /\ zk.serviceRemaind \notin {None, 0}
                      THEN zk.serviceRemaind - 1 ELSE zk.serviceRemaind
           entry == IF read = {} THEN zk.serviceEntry[s] ELSE read
<1>7. zk' = [zk EXCEPT !.serviceEntry = [@ EXCEPT ![s] = entry], !.serviceRemaind = remaind]
  BY <1>2 DEF Entered
<1>8. remaind \in Nat \cup {None} /\ entry \in {None} \cup SUBSET AllChildren
  BY <1>1 DEF ZkType
<1> HIDE DEF remaind, entry
<1>9. /\ zk' \in ZkType /\ zk'.world = zk.world /\ zk'.isStop = zk.isStop /\ zk'.ready = zk.ready
      /\ zk'.stopper = zk.stopper /\ zk'.left = zk.left /\ zk'.fetched = zk.fetched
      /\ zk'.serviceRemaind = remaind
      /\ \A t \in Found : zk'.serviceEntry[t] = IF t = s THEN entry ELSE zk.serviceEntry[t]
  <2>1. [zk.serviceEntry EXCEPT ![s] = entry] \in [Found -> {None} \cup SUBSET AllChildren]
    BY <1>1, <1>8 DEF ZkType
  <2>2. \A t \in Found : [zk.serviceEntry EXCEPT ![s] = entry][t] = IF t = s THEN entry ELSE zk.serviceEntry[t]
    BY <1>1 DEF ZkType
  <2> DEFINE entries == [zk.serviceEntry EXCEPT ![s] = entry]
  <2>3. zk' = [zk EXCEPT !.serviceEntry = entries, !.serviceRemaind = remaind]
    BY <1>7
  <2>4. entries \in [Found -> {None} \cup SUBSET AllChildren]
        /\ \A t \in Found : entries[t] = IF t = s THEN entry ELSE zk.serviceEntry[t]
    BY <2>1, <2>2
  <2> HIDE DEF entries
  <2>5. ZkType' = ZkType /\ zk'.world = zk.world
    <3>1. zk'.world = zk.world
      BY <1>1, <2>3 DEF ZkType
    <3>2. QED
      BY <3>1, SameWorld DEF ZkType
  <2>6. zk' \in ZkType
    BY <1>1, <1>8, <2>3, <2>4 DEF ZkType
  <2>7. zk'.serviceEntry = entries
    BY <1>1, <2>3 DEF ZkType
  <2>8. zk'.serviceRemaind = remaind /\ zk'.isStop = zk.isStop /\ zk'.ready = zk.ready
        /\ zk'.stopper = zk.stopper /\ zk'.left = zk.left /\ zk'.fetched = zk.fetched
    BY <1>1, <2>3 DEF ZkType
  <2>9. QED
    BY <2>4, <2>5, <2>6, <2>7, <2>8
<1>10. LooksCounted'
  <2>1. IsFiniteSet(seen.first \ seen.looked) /\ Cardinality(seen.first \ seen.looked) \in Nat
    BY FS_Difference, FS_CardinalityType DEF LooksCounted
  <2>2. CASE looks /\ zk.serviceRemaind # None
    <3>1. zk.serviceRemaind \in Nat
      BY <1>1, <2>2 DEF ZkType
    <3>2. ~ seen'.recounted => ~ seen.recounted /\ s \in seen.first \ seen.looked
      BY <1>1, <1>6, <2>2 DEF SeenType
    <3>3. seen.first \ seen'.looked = (seen.first \ seen.looked) \ {s}
      BY <1>6, <2>2
    <3>4. s \in seen.first \ seen.looked =>
            Cardinality(seen.first \ seen'.looked) = Cardinality(seen.first \ seen.looked) - 1
      <4> DEFINE ahead == seen.first \ seen.looked
      <4>1. IsFiniteSet(ahead) /\ seen.first \ seen'.looked = ahead \ {s}
        BY <2>1, <3>3
      <4> HIDE DEF ahead
      <4>2. s \in ahead => Cardinality(ahead \ {s}) = Cardinality(ahead) - 1
        BY <4>1, FS_RemoveElement
      <4>3. QED
        BY <4>1, <4>2 DEF ahead
    <3>5. s \in seen.first \ seen.looked => Cardinality(seen.first \ seen.looked) # 0
      BY <2>1, FS_EmptySet
    <3>6. ~ seen'.recounted => remaind = Cardinality(seen.first \ seen'.looked)
      BY <2>1, <2>2, <3>1, <3>2, <3>4, <3>5, NoneIsNoCount DEF LooksCounted, remaind
    <3>7. remaind \in Nat
      BY <2>2, <3>1 DEF remaind
    <3>8. ReadyMeansLooked'
      BY <1>6, <1>9, <2>2, <3>2 DEF LooksCounted, ReadyMeansLooked
    <3>9. remaind # None
      BY <3>7, NoneIsNoCount
    <3>10. zk.fetched
      BY <2>2 DEF LooksCounted
    <3>11. QED
      BY <1>6, <1>9, <3>6, <3>7, <3>8, <3>9, <3>10 DEF LooksCounted
  <2>3. CASE ~ (looks /\ zk.serviceRemaind # None)
    BY <1>6, <1>9, <2>3 DEF LooksCounted, ReadyMeansLooked, remaind
  <2>4. QED
    BY <2>2, <2>3
<1>11. QED
  BY <1>3, <1>6, <1>9, <1>10 DEF entry

\* What was read is entered and published in one critical section.
LEMMA WriteKeepsZk ==
    ASSUME CacheTypeOK, ZkInv, NEW l \in Listener, WriteChildren(l)
    PROVE  ZkInv'
<1> USE DEF ZkInv
<1> DEFINE s == l[1]
           read == listeners[l].read
           x == [listeners[l] EXCEPT !.phase = listeners[l].next, !.read = {}, !.complete = TRUE]
<1>1. /\ zk \in ZkType /\ s \in Found /\ read \in SUBSET Children(s) /\ s \in Service
      /\ listeners[l] \in ListenerType(s) /\ ListenerOK(listeners[l], nodes[s])
      /\ listeners[l].phase \in {"looked", "read"} /\ (read # {} => seMuxFree)
      /\ nodes' = nodes /\ DOMAIN listeners = Listener /\ Listen(l, x)
      /\ ChildToServiceEntry(s, read)
      /\ (read # {} => read \in Data /\ read # None)
  BY FoundFacts DEF ZkTyped, ListenerType, Listener, ListenersOK, WriteChildren, Writing, ZkType
<1>2. /\ seen' \in SeenType /\ seen'.crossed = seen.crossed /\ seen.late \subseteq seen'.late
      /\ read # {} /\ AlreadyCleaned(s) => s \in seen'.late
      /\ \A t : t # s => (t \in seen'.disturbed <=> t \in seen.disturbed)
      /\ s \notin seen'.disturbed => Listening(s) = {l} /\ listeners[l].complete
      /\ zk' \in ZkType /\ zk'.world = zk.world /\ zk'.isStop = zk.isStop
      /\ zk'.stopper = zk.stopper /\ zk'.left = zk.left
      /\ \A t \in Found : zk'.serviceEntry[t] = IF t = s /\ read # {} THEN read ELSE zk.serviceEntry[t]
      /\ LooksCounted'
  BY WriteCounts
<1>3. Found' = Found /\ Listener' = Listener /\ AllChildren' = AllChildren
      /\ (\A t : Children(t)' = Children(t) /\ ListenerType(t)' = ListenerType(t))
      /\ ZkType' = ZkType /\ SeenType' = SeenType
  BY <1>2, SameWorld DEF ZkType, SeenType
<1>4. /\ DOMAIN listeners' = Listener
      /\ \A m \in Listener : listeners'[m] = IF m = l THEN x ELSE listeners[m]
  BY <1>1 DEF Listen
<1>5. /\ x \in ListenerType(s) /\ x.phase = listeners[l].next /\ x.phase \in {"wait", "look"}
      /\ x.next = listeners[l].next /\ x.changed = listeners[l].changed /\ x.exit = listeners[l].exit
  BY <1>1 DEF ListenerType
<1> HIDE DEF x
<1>6. ListenerOK(x, nodes[s]) /\ listeners[l] # NoListener
  BY <1>1, <1>5 DEF ListenerOK, NoListener
<1>7. ZkTyped'
  <2>1. \A t \in Found : zk'.serviceEntry[t] \in {None} \cup SUBSET Children(t)
    BY <1>1, <1>2 DEF ZkTyped
  <2>2. \A m \in Listener : listeners'[m] \in ListenerType(m[1])
    BY <1>4, <1>5 DEF ZkTyped
  <2>3. QED
    BY <1>1, <1>2, <1>3, <1>4, <2>1, <2>2 DEF ZkTyped
<1>8. ListenersOK' /\ ZkPhases'
  BY <1>1, <1>2, <1>3, <1>4, <1>5, <1>6 DEF ListenersOK, ZkPhases
<1>9. \A t : Publishing(t)' <=> Publishing(t)
  BY <1>1, <1>3, <1>4, <1>5 DEF Publishing
<1>10. \/ /\ read \in {{}, zk.serviceEntry[s]} /\ sew' = sew
          /\ deferredDeleteServices' = deferredDeleteServices
       \/ /\ read # {} /\ \A t \in Found : t # s => sew'[t] = sew[t]
          /\ sew'[s] # None /\ sew'[s].data = read
          /\ deferredDeleteServices' = deferredDeleteServices \ {s}
  <2>1. CASE read \in {{}, zk.serviceEntry[s]}
    BY <1>1, <2>1 DEF ChildToServiceEntry, cacheVars, serviceVars
  <2>2. CASE read \notin {{}, zk.serviceEntry[s]}
    <3>1. UpdateServiceWrapper(s, read) /\ read # {}
      BY <1>1, <2>2 DEF ChildToServiceEntry
    <3>2. \A t \in Found : t \in Service
      BY <1>1, FoundFacts DEF ZkType
    <3>3. QED
      BY <1>1, <3>1, <3>2, UpdateStores
  <2>3. QED
    BY <2>1, <2>2
<1>11. StoredHaveEntries'
  <2>1. \A t \in Found : zk.serviceEntry[t] # None => zk'.serviceEntry[t] # None
    BY <1>1, <1>2
  <2>2. \A t \in Found : sew'[t] # None => zk'.serviceEntry[t] # None
    BY <1>1, <1>2, <1>10, <2>1 DEF StoredHaveEntries
  <2>3. \A m \in Listener : m[1] \in Found
    BY DEF Listener
  <2>4. \A m \in Listener : listeners'[m].phase = "publishing" /\ listeners'[m].data # {}
                              => zk'.serviceEntry[m[1]] # None
    BY <1>4, <1>5, <2>1, <2>3 DEF StoredHaveEntries
  <2>5. QED
    BY <1>3, <2>2, <2>4 DEF StoredHaveEntries
<1>12. CleanedAreMarked'
  <2>1. CASE ~ (read # {} /\ zk.stopper \in {"cleaning", "done"})
    BY <1>2, <1>3, <1>10, <2>1 DEF CleanedAreMarked, ZkCleansUp
  <2>2. CASE read # {} /\ zk.stopper \in {"cleaning", "done"}
    <3>1. zk.stopper = "done" /\ s \in seen'.late
      BY <1>1, <1>2, <2>2 DEF seMuxFree, AlreadyCleaned
    <3>2. QED
      BY <1>2, <1>3, <1>10, <3>1 DEF CleanedAreMarked, ZkCleansUp
  <2>3. QED
    BY <2>1, <2>2
<1>13. EntriesPublished'
  BY <1>1, <1>2, <1>3, <1>9, <1>10 DEF EntriesPublished
<1>14. ASSUME NEW m \in Listener, listeners'[m].phase = "wait", ~ listeners'[m].changed,
              ~ listeners'[m].exit, m[1] \notin seen'.disturbed \cup seen'.crossed, nodes'[m[1]] # {}
       PROVE  zk'.serviceEntry[m[1]] = nodes'[m[1]] /\ ~ Publishing(m[1])'
  <2>1. m[1] \in Found
    BY DEF Listener
  <2>2. CASE m = l
    <3>1. listeners[l].next = "wait" /\ ~ listeners[l].changed /\ Listening(s) = {l} /\ listeners[l].complete
      BY <1>2, <1>4, <1>5, <1>14, <2>2
    <3>2. read = nodes[s]
      BY <1>1, <3>1 DEF ListenerOK
    <3>3. ASSUME NEW k \in Listener, k[1] = s, listeners[k].phase = "publishing"
          PROVE  FALSE
      <4>1. k \in Listening(s)
        BY <3>3 DEF Listening, NoListener
      <4>2. QED
        BY <1>1, <3>1, <3>3, <4>1
    <3>4. ~ Publishing(s)
      BY <3>3 DEF Publishing
    <3>5. QED
      BY <1>1, <1>2, <1>9, <1>14, <2>2, <3>2, <3>4
  <2>3. CASE m # l /\ m[1] # s
    <3>1. listeners'[m] = listeners[m] /\ m[1] \notin seen.disturbed \cup seen.crossed
      BY <1>2, <1>4, <1>14, <2>3
    <3>2. QED
      BY <1>1, <1>2, <1>9, <1>14, <2>1, <2>3, <3>1 DEF WaitingAgree
  <2>4. CASE m # l /\ m[1] = s
    <3>1. listeners[m] # NoListener
      BY <1>4, <1>14, <2>4 DEF NoListener
    <3>2. m \in Listening(s)
      BY <2>4, <3>1 DEF Listening
    <3>3. QED
      BY <1>2, <1>14, <2>4, <3>2
  <2>5. QED
    BY <2>2, <2>3, <2>4
<1>15. WaitingAgree'
  BY <1>3, <1>14 DEF WaitingAgree
<1>16. QED
  BY <1>2, <1>7, <1>8, <1>11, <1>12, <1>13, <1>15

\* A child that is back is taken out of the entry, and what is left is about to be published.
LEMMA DeleteChildKeepsZk ==
    ASSUME ZkInv, NEW l \in Listener, DeleteChild(l)
    PROVE  ZkInv'
<1> USE DEF ZkInv
<1> DEFINE s == l[1]
           kept(i) == IF zk.serviceEntry[s] = None THEN {} ELSE zk.serviceEntry[s] \ {i}
           rest(i) == [listeners[l] EXCEPT !.read = @ \ {i}]
<1>1. /\ zk \in ZkType /\ s \in Found
      /\ listeners[l] \in ListenerType(s) /\ ListenerOK(listeners[l], nodes[s])
      /\ listeners[l].phase = "deleting" /\ listeners[l] # NoListener /\ seen \in SeenType
      /\ nodes' = nodes /\ DOMAIN listeners = Listener /\ UNCHANGED cacheVars
      /\ zk.serviceEntry[s] \in {None} \cup SUBSET Children(s)
  BY DEF ZkTyped, Listener, ListenersOK, DeleteChild, NoListener
<1>2. PICK i \in listeners[l].read :
             \/ Listen(l, rest(i)) /\ UNCHANGED <<zk, seen>>
             \/ /\ Listen(l, [rest(i) EXCEPT !.phase = "publishing", !.data = kept(i)])
                /\ zk' = [zk EXCEPT !.serviceEntry[s] = IF @ = None THEN None ELSE kept(i)]
                /\ seen' = IF Listening(s) = {l} THEN seen ELSE [seen EXCEPT !.disturbed = @ \cup {s}]
  BY DEF DeleteChild
<1>3. CASE Listen(l, rest(i)) /\ UNCHANGED <<zk, seen>>
  <2> DEFINE x == rest(i)
  <2>1. x \in ListenerType(s) /\ x.phase = "deleting" /\ ListenerOK(x, nodes[s]) /\ x.exit = listeners[l].exit
    BY <1>1 DEF ListenerType, ListenerOK
  <2>2. Listen(l, x)
    BY <1>3
  <2> HIDE DEF x
  <2>3. QED
    BY <1>1, <1>3, <2>1, <2>2, ListenKeepsZk
<1>4. CASE /\ Listen(l, [rest(i) EXCEPT !.phase = "publishing", !.data = kept(i)])
           /\ zk' = [zk EXCEPT !.serviceEntry[s] = IF @ = None THEN None ELSE kept(i)]
           /\ seen' = IF Listening(s) = {l} THEN seen ELSE [seen EXCEPT !.disturbed = @ \cup {s}]
  <2> DEFINE data == kept(i)
             x == [rest(i) EXCEPT !.phase = "publishing", !.data = data]
             entry == IF zk.serviceEntry[s] = None THEN None ELSE data
             entries == [zk.serviceEntry EXCEPT ![s] = entry]
  <2>1. /\ data \in SUBSET Children(s) /\ data \in SUBSET AllChildren /\ data # None
        /\ (data # {} => zk.serviceEntry[s] # None)
    BY <1>1, FoundFacts DEF ZkType, AllChildren
  <2>2. Listen(l, x) /\ zk' = [zk EXCEPT !.serviceEntry = entries]
    BY <1>4
  <2> HIDE DEF data
  <2>3. /\ entry \in {None} \cup SUBSET Children(s) /\ (zk.serviceEntry[s] # None <=> entry # None)
        /\ entry \in {None} \cup SUBSET AllChildren
    BY <2>1
  <2> HIDE DEF entry
  <2>4. /\ entries \in [Found -> {None} \cup SUBSET AllChildren]
        /\ \A t \in Found : entries[t] = IF t = s THEN entry ELSE zk.serviceEntry[t]
    BY <1>1, <2>3 DEF ZkType
  <2> HIDE DEF entries
  <2>5. /\ zk'.world = zk.world /\ zk'.isStop = zk.isStop /\ zk'.ready = zk.ready
        /\ zk'.stopper = zk.stopper /\ zk'.left = zk.left /\ zk'.fetched = zk.fetched
        /\ zk'.serviceRemaind = zk.serviceRemaind /\ zk'.serviceEntry = entries /\ zk' \in ZkType
    BY <1>1, <2>2, <2>4 DEF ZkType
  <2>6. Found' = Found /\ Listener' = Listener /\ AllChildren' = AllChildren
        /\ (\A t : Children(t)' = Children(t) /\ ListenerType(t)' = ListenerType(t))
        /\ ZkType' = ZkType /\ SeenType' = SeenType
    BY <2>5, SameWorld DEF ZkType, SeenType
  <2>7. /\ DOMAIN listeners' = Listener
        /\ \A m \in Listener : listeners'[m] = IF m = l THEN x ELSE listeners[m]
    BY <1>1, <2>2 DEF Listen
  <2>8. /\ x \in ListenerType(s) /\ x.phase = "publishing" /\ x.data = data
        /\ x.next = listeners[l].next /\ x.changed = listeners[l].changed /\ x.exit = listeners[l].exit
    BY <1>1, <2>1 DEF ListenerType
  <2> HIDE DEF x
  <2>9. ListenerOK(x, nodes[s])
    BY <1>1, <2>8 DEF ListenerOK
  <2>10. /\ seen' \in SeenType /\ seen'.first = seen.first /\ seen'.looked = seen.looked
         /\ seen'.recounted = seen.recounted /\ seen.disturbed \subseteq seen'.disturbed
         /\ seen'.crossed = seen.crossed /\ seen'.late = seen.late
         /\ Listening(s) # {l} => s \in seen'.disturbed
    BY <1>1, <1>4 DEF SeenType
  <2>11. sew' = sew /\ deferredDeleteServices' = deferredDeleteServices
    BY <1>1 DEF cacheVars, serviceVars
  <2>12. ZkTyped'
    <3>1. \A t \in Found : zk'.serviceEntry[t] \in {None} \cup SUBSET Children(t)
      BY <2>3, <2>4, <2>5 DEF ZkTyped
    <3>2. \A m \in Listener : listeners'[m] \in ListenerType(m[1])
      BY <2>7, <2>8 DEF ZkTyped
    <3>3. QED
      BY <1>1, <2>5, <2>6, <2>7, <2>10, <3>1, <3>2 DEF ZkTyped
  <2>13. ListenersOK' /\ ZkPhases'
    BY <1>1, <2>5, <2>6, <2>7, <2>8, <2>9 DEF ListenersOK, ZkPhases
  <2>14. Publishing(s)' /\ \A t : t # s => (Publishing(t)' <=> Publishing(t))
    BY <2>6, <2>7, <2>8 DEF Publishing
  <2>15. StoredHaveEntries'
    <3>1. \A t \in Found : zk.serviceEntry[t] # None => zk'.serviceEntry[t] # None
      BY <2>3, <2>4, <2>5
    <3>2. \A m \in Listener : m[1] \in Found
      BY DEF Listener
    <3>3. \A m \in Listener : listeners'[m].phase = "publishing" /\ listeners'[m].data # {}
                                => zk'.serviceEntry[m[1]] # None
      BY <2>1, <2>7, <2>8, <3>1, <3>2 DEF StoredHaveEntries
    <3>4. QED
      BY <2>6, <2>11, <3>1, <3>3 DEF StoredHaveEntries
  <2>16. CleanedAreMarked' /\ LooksCounted'
    BY <2>5, <2>6, <2>10, <2>11 DEF CleanedAreMarked, ZkCleansUp, LooksCounted, ReadyMeansLooked
  <2>17. EntriesPublished'
    BY <2>4, <2>5, <2>6, <2>10, <2>11, <2>14 DEF EntriesPublished
  <2>18. ASSUME NEW m \in Listener, listeners'[m].phase = "wait", ~ listeners'[m].changed,
                ~ listeners'[m].exit, m[1] \notin seen'.disturbed \cup seen'.crossed, nodes'[m[1]] # {}
         PROVE  zk'.serviceEntry[m[1]] = nodes'[m[1]] /\ ~ Publishing(m[1])'
    <3>1. m # l /\ listeners'[m] = listeners[m] /\ m[1] \in Found
      BY <2>7, <2>8, <2>18 DEF Listener
    <3>2. CASE m[1] = s
      <4>1. m \in Listening(s)
        BY <2>18, <3>1, <3>2 DEF Listening, NoListener
      <4>2. QED
        BY <2>10, <2>18, <3>1, <3>2, <4>1
    <3>3. CASE m[1] # s
      <4>1. /\ listeners[m].phase = "wait" /\ ~ listeners[m].changed /\ ~ listeners[m].exit
            /\ m[1] \notin seen.disturbed \cup seen.crossed
        BY <2>10, <2>18, <3>1
      <4>2. nodes' = nodes /\ zk'.serviceEntry[m[1]] = zk.serviceEntry[m[1]]
        BY <1>1, <2>4, <2>5, <3>1, <3>3
      <4>3. Publishing(m[1])' <=> Publishing(m[1])
        BY <2>14, <3>3
      <4>4. zk.serviceEntry[m[1]] = nodes[m[1]] /\ ~ Publishing(m[1])
        BY <1>1, <2>18, <4>1, <4>2 DEF WaitingAgree
      <4>5. QED
        BY <4>2, <4>3, <4>4
    <3>4. QED
      BY <3>2, <3>3
  <2>19. WaitingAgree'
    BY <2>6, <2>18 DEF WaitingAgree
  <2>20. QED
    BY <2>12, <2>13, <2>15, <2>16, <2>17, <2>19
<1>5. QED
  BY <1>2, <1>3, <1>4

\* What is left of an entry is published, or the service goes.
LEMMA PublishKeepsZk ==
    ASSUME CacheTypeOK, ZkInv, NEW l \in Listener, Publish(l)
    PROVE  ZkInv'
<1> USE DEF ZkInv
<1> DEFINE s == l[1]
           data == listeners[l].data
           x == [listeners[l] EXCEPT !.phase = "deleting", !.data = {}]
<1>1. /\ zk \in ZkType /\ s \in Found /\ s \in Service /\ data \in SUBSET Children(s)
      /\ listeners[l] \in ListenerType(s) /\ ListenerOK(listeners[l], nodes[s])
      /\ listeners[l].phase = "publishing" /\ listeners[l] # NoListener /\ seen \in SeenType
      /\ nodes' = nodes /\ zk' = zk /\ DOMAIN listeners = Listener /\ Listen(l, x)
      /\ (data # {} => data \in Data)
  BY FoundFacts DEF ZkTyped, ListenerType, Listener, ListenersOK, Publish, NoListener, ZkType
<1>2. Found' = Found /\ Listener' = Listener /\ AllChildren' = AllChildren
      /\ (\A t : Children(t)' = Children(t) /\ ListenerType(t)' = ListenerType(t))
      /\ ZkType' = ZkType /\ SeenType' = SeenType
  BY <1>1, SameWorld DEF ZkType, SeenType
<1>3. /\ DOMAIN listeners' = Listener
      /\ \A m \in Listener : listeners'[m] = IF m = l THEN x ELSE listeners[m]
  BY <1>1 DEF Listen
<1>4. /\ x \in ListenerType(s) /\ x.phase = "deleting" /\ x.next = listeners[l].next
      /\ x.changed = listeners[l].changed /\ x.exit = listeners[l].exit
  BY <1>1 DEF ListenerType
<1> HIDE DEF x
<1>5. ListenerOK(x, nodes[s])
  BY <1>1, <1>4 DEF ListenerOK
<1>6. /\ LateIf(seen, s) \in SeenType /\ LateIf(seen, s).first = seen.first
      /\ LateIf(seen, s).looked = seen.looked /\ LateIf(seen, s).recounted = seen.recounted
      /\ LateIf(seen, s).disturbed = seen.disturbed /\ LateIf(seen, s).crossed = seen.crossed
      /\ seen.late \subseteq LateIf(seen, s).late
      /\ AlreadyCleaned(s) => s \in LateIf(seen, s).late
  BY <1>1 DEF LateIf, SeenType
<1> DEFINE late == LateIf(seen, s)
<1>7. seen' = [late EXCEPT !.crossed = IF data = zk.serviceEntry[s] THEN @ ELSE @ \cup {s}]
  BY DEF Publish
<1>8. late \in SeenType /\ late.first = seen.first
      /\ late.looked = seen.looked /\ late.recounted = seen.recounted
      /\ late.disturbed = seen.disturbed /\ late.crossed = seen.crossed
      /\ seen.late \subseteq late.late
      /\ (AlreadyCleaned(s) => s \in late.late)
  BY <1>6
<1> HIDE DEF late
<1>9. /\ seen' \in SeenType /\ seen'.first = seen.first
      /\ seen'.looked = seen.looked /\ seen'.recounted = seen.recounted
      /\ seen'.disturbed = seen.disturbed /\ seen.crossed \subseteq seen'.crossed
      /\ \A t : t # s => (t \in seen'.crossed <=> t \in seen.crossed)
      /\ s \notin seen'.crossed => data = zk.serviceEntry[s]
      /\ seen.late \subseteq seen'.late
      /\ AlreadyCleaned(s) => s \in seen'.late
  BY <1>1, <1>7, <1>8 DEF SeenType
<1>10. \/ /\ data = {} /\ sew' = sew /\ deferredDeleteServices \subseteq deferredDeleteServices'
          /\ deferredDeleteServices' \subseteq deferredDeleteServices \cup {s}
       \/ /\ data # {} /\ \A t \in Found : t # s => sew'[t] = sew[t]
          /\ sew'[s] # None /\ sew'[s].data = data
          /\ deferredDeleteServices' = deferredDeleteServices \ {s}
  <2>1. CASE data = {} /\ DeleteServiceWrapper(s)
    BY <1>1, <2>1, DeleteMarks
  <2>2. CASE data = {} /\ UNCHANGED cacheVars
    BY <2>2 DEF cacheVars, serviceVars
  <2>3. CASE data # {} /\ UpdateServiceWrapper(s, data)
    <3>1. \A t \in Found : t \in Service
      BY <1>1, FoundFacts DEF ZkType
    <3>2. QED
      BY <1>1, <2>3, <3>1, UpdateStores
  <2>4. QED
    BY <2>1, <2>2, <2>3 DEF Publish
<1>11. ZkTyped'
  <2>1. \A m \in Listener : listeners'[m] \in ListenerType(m[1])
    BY <1>3, <1>4 DEF ZkTyped
  <2>2. QED
    BY <1>1, <1>2, <1>3, <1>9, <2>1 DEF ZkTyped
<1>12. ListenersOK' /\ ZkPhases'
  BY <1>1, <1>2, <1>3, <1>4, <1>5 DEF ListenersOK, ZkPhases
<1>13. \A t : t # s => (Publishing(t)' <=> Publishing(t))
  BY <1>2, <1>3, <1>4 DEF Publishing
<1>14. StoredHaveEntries'
  <2>1. \A t \in Found : sew'[t] # None => zk.serviceEntry[t] # None
    BY <1>1, <1>10 DEF StoredHaveEntries
  <2>2. QED
    BY <1>1, <1>2, <1>3, <1>4, <2>1 DEF StoredHaveEntries
<1>15. CleanedAreMarked'
  BY <1>1, <1>2, <1>9, <1>10 DEF CleanedAreMarked, ZkCleansUp, AlreadyCleaned
<1>16. EntriesPublished'
  <2>1. ASSUME ~ zk.isStop, NEW t \in Found, t # s, t \notin seen'.crossed, ~ Publishing(t)'
        PROVE  \/ zk.serviceEntry[t] \in {None, {}}
               \/ sew'[t] # None /\ sew'[t].data = zk.serviceEntry[t] /\ t \notin deferredDeleteServices'
    BY <1>9, <1>10, <1>13, <2>1 DEF EntriesPublished
  <2>2. ASSUME s \notin seen'.crossed
        PROVE  \/ zk.serviceEntry[s] \in {None, {}}
               \/ sew'[s] # None /\ sew'[s].data = zk.serviceEntry[s] /\ s \notin deferredDeleteServices'
    BY <1>9, <1>10, <2>2
  <2>3. QED
    BY <1>1, <1>2, <2>1, <2>2 DEF EntriesPublished
<1>17. ASSUME NEW m \in Listener, listeners'[m].phase = "wait", ~ listeners'[m].changed,
              ~ listeners'[m].exit, m[1] \notin seen'.disturbed \cup seen'.crossed, nodes'[m[1]] # {}
       PROVE  zk'.serviceEntry[m[1]] = nodes'[m[1]] /\ ~ Publishing(m[1])'
  <2>1. m # l /\ listeners'[m] = listeners[m] /\ m[1] \notin seen.disturbed \cup seen.crossed
    BY <1>3, <1>4, <1>9, <1>17
  <2>2. zk.serviceEntry[m[1]] = nodes[m[1]] /\ ~ Publishing(m[1])
    BY <1>1, <1>17, <2>1 DEF WaitingAgree
  <2>3. m[1] # s
    BY <1>1, <2>2 DEF Publishing
  <2>4. QED
    BY <1>1, <1>13, <2>2, <2>3
<1>18. WaitingAgree'
  BY <1>2, <1>17 DEF WaitingAgree
<1>19. LooksCounted'
  BY <1>1, <1>9 DEF LooksCounted, ReadyMeansLooked
<1>20. QED
  BY <1>11, <1>12, <1>14, <1>15, <1>16, <1>18, <1>19

\* The invariant is inductive.
LEMMA NextZk == CacheTypeOK /\ ZkInv /\ ZkNext => ZkInv'
<1> SUFFICES ASSUME CacheTypeOK, ZkInv, ZkNext
             PROVE  ZkInv'
  OBVIOUS
<1>1. CASE FirstFetch \/ FetchAgain
  BY <1>1, FirstFetchKeepsZk, FetchAgainKeepsZk
<1>2. CASE SayZkReady \/ StopWatching \/ BeginCleaning \/ EndStopZk
  BY <1>2, ZkTurnsKeep
<1>3. CASE \E s \in Found : NodesChange(s) \/ CleanService(s)
  BY <1>3, NodesChangeKeepsZk, CleanServiceKeepsZk
<1>4. CASE \E l \in Listener : Look(l) \/ ListenerExits(l) \/ Tick20s(l) \/ WatchFires(l)
  BY <1>4, LookKeepsZk, ExitKeepsZk, WaitKeepsZk
<1>5. CASE \E l \in Listener : WriteChildren(l) \/ DeleteChild(l) \/ Publish(l) \/ Deleted(l)
  BY <1>5, WriteKeepsZk, DeleteChildKeepsZk, PublishKeepsZk, DeletedKeepsZk
<1>6. CASE ZkPurge
  BY <1>6, ZkPurgeKeepsZk
<1>7. QED
  BY <1>1, <1>2, <1>3, <1>4, <1>5, <1>6 DEF ZkNext, ListenerNext

\* What it says of a goroutine that waits, of Stop and of the count.
LEMMA ZkHolds == ZkInv => ZkPublished /\ ZkCleansUp /\ ReadyMeansLooked
<1> SUFFICES ASSUME ZkInv
             PROVE  ZkPublished /\ ZkCleansUp /\ ReadyMeansLooked
  OBVIOUS
<1>1. ZkPublished
  <2> SUFFICES ASSUME NEW l \in Listener, listeners[l].phase = "wait", ~ listeners[l].changed,
                      ~ listeners[l].exit, l[1] \notin seen.disturbed \cup seen.crossed, nodes[l[1]] # {}
               PROVE  sew[l[1]] # None /\ sew[l[1]].data = nodes[l[1]] /\ l[1] \notin deferredDeleteServices
    BY DEF ZkPublished
  <2>1. zk.serviceEntry[l[1]] = nodes[l[1]] /\ ~ Publishing(l[1])
    BY DEF ZkInv, WaitingAgree
  <2>2. l[1] \in Found /\ nodes[l[1]] # None
    BY FoundFacts DEF ZkInv, ZkTyped, ZkType, Listener
  <2>3. ~ zk.isStop
    BY DEF ZkInv, ZkPhases, NoListener
  <2>4. QED
    BY <2>1, <2>2, <2>3 DEF ZkInv, EntriesPublished
<1>2. QED
  BY <1>1 DEF ZkInv, CleanedAreMarked, LooksCounted

-----------------------------------------------------------------------------
(* The MCP servers of Nacos *)

Picture == [spec : SpecDocument \cup {None}, tools : ToolsDocument \cup {None},
            service : Endpoints \cup {None}]

Call ==
    [server : McpServer, what : {"versions", "spec", "tools", "naming"},
     of : {None, "run"} \cup Version \cup Backend,
     data : Version \cup {Unread} \cup ServerSpec \cup Tools \cup Hosts,
     sees : {"entry", "context", "nothing"}, step : {"start", "documents", "trigger", "write"},
     left : SUBSET {"spec", "tools"}, picture : Picture \cup {None}]

\* What a callback is about, by what it is a callback of.
CallOK(c) ==
    /\ c.what = "versions" => /\ c.of \in {None, "run"} /\ c.data \in Version \cup {Unread}
                              /\ c.step = "start" \/ c.data \in Version
    /\ c.what = "spec" => c.of \in Version /\ c.data \in ServerSpec
    /\ c.what = "tools" => c.of \in Version /\ c.data \in Tools
    /\ c.what = "naming" => c.of \in Backend /\ c.data \in Hosts
    /\ c.what \in {"versions", "naming"} => c.sees # "context"
    /\ c.step = "documents" => c.what = "versions"
    /\ c.step # "documents" => c.left = {}
    /\ c.step = "write" => c.picture \in Picture

NacosType ==
    [listed : SUBSET McpServer, latest : [McpServer -> Version],
     spec : [McpServer -> [Version -> ServerSpec]], tools : [McpServer -> [Version -> Tools]],
     hosts : [Backend -> Hosts], events : Nat]

McpTyped ==
    /\ nacos \in NacosType
    /\ client \in [servers : [McpServer -> ServerContext \cup {None}], calls : SUBSET Call,
                   crashed : BOOLEAN]
    /\ \A c \in client.calls : CallOK(c)
    /\ mcp \in [watchingConfig : SUBSET McpServer, mutex : {"free", "run", "stop"},
                run : {"fetch", "cancelling", "listening", "ready", "done"},
                listening : [server : McpServer, content : Version \cup {Unread}] \cup {None},
                left : SUBSET McpServer, isStop : BOOLEAN, ready : BOOLEAN,
                stopper : {"no", "servers", "done"}, late : SUBSET McpServer,
                kept : SUBSET McpServer, crossed : SUBSET McpServer]
    /\ DOMAIN configs = McpServer

\* A fetch and Stop exclude each other, and what is listened to is watched, or about to be.
McpPhases ==
    /\ mcp.mutex = "run" <=> mcp.run \in {"cancelling", "listening"}
    /\ mcp.mutex = "stop" <=> mcp.stopper = "servers"
    /\ mcp.run = "listening" => mcp.left \cap mcp.watchingConfig = {}
    /\ mcp.listening # None =>
          /\ mcp.run = "listening" /\ mcp.listening.server \notin mcp.left
          /\ Context(mcp.listening.server) # None /\ Context(mcp.listening.server).told = None
    /\ \A s \in McpServer :
          /\ Context(s) # None => s \in mcp.watchingConfig \/ (mcp.listening # None /\ mcp.listening.server = s)
          /\ s \in mcp.watchingConfig => Context(s) # None \/ s \in mcp.kept

\* The state of one server: its context, its callbacks, what it was last told of its versions
\* and by whom, its configurations, and whether two callbacks wrote at once.
Callbacks(s) == {c \in client.calls : c.server = s}
BeingListened(s) == mcp.listening # None /\ mcp.listening.server = s
LastTold(s) == IF BeingListened(s) THEN mcp.listening.content ELSE Context(s).told
Teller(s) == IF BeingListened(s) THEN "run" ELSE None

\* A callback that is about to tell the client what it does not know yet.
Tells(c, what, of, data) ==
    c.what = what /\ c.step = "start" /\ c.sees = "entry" /\ c.of = of /\ c.data = data

\* Without a context there is nothing to see, and without a backend nothing to subscribe to.
SeesContext(ctx, calls) ==
    /\ \A c \in calls : c.sees # "nothing" =>
          /\ ctx # None
          /\ c.what = "naming" => ctx.callbackRef # None
          /\ c.what \in {"spec", "tools"} => ctx[c.what] # None
    /\ ctx # None /\ (\E b \in Backend : ctx.subscribed[b] # None) => ctx.callbackRef # None

\* The latest version is in the context, or on its way.
VersionFollowed(ctx, calls, told, teller) ==
    /\ \A c \in calls : c.what = "versions" /\ c.sees # "nothing" => c.of = teller
    /\ \/ told \in Version => ctx.version = told
          /\ \A c \in calls : c.what = "versions" /\ c.step = "start" /\ c.sees # "nothing" => c.data = told
       \/ \E c \in calls : Tells(c, "versions", teller, told)

\* So are the documents of the version,
DocumentsFollowed(ctx, calls) ==
    /\ \A c \in calls : c.step = "documents" /\ c.sees # "nothing" => c.sees = "entry" /\ c.data = ctx.version
    /\ ctx.version # None => \A what \in {"spec", "tools"} :
          \/ ctx[what] # None /\ ctx[what].version = ctx.version
          \/ \E c \in calls : c.step = "documents" /\ c.sees = "entry" /\ what \in c.left

\* and what these documents say,
ContentFollowed(ctx, calls, what) ==
    /\ \A c \in calls : c.what = what /\ c.sees = "entry" => ctx[what] # None /\ c.of = ctx[what].version
    /\ ctx[what] # None =>
          \/ ctx[what].data = ctx[what].told
             /\ \A c \in calls : c.what = what /\ c.step = "start" /\ c.sees = "entry" => c.data = ctx[what].told
          \/ \E c \in calls : Tells(c, what, ctx[what].version, ctx[what].told)

\* the backend that the specification names, and its endpoints.
BackendFollowed(ctx, calls) ==
    /\ ctx.spec # None => ctx.service # None /\ ctx.service.name = ctx.spec.data.ref
    /\ ctx.service # None =>
          /\ ctx.subscribed[ctx.service.name] # None
          /\ \/ ctx.service.hosts = ctx.subscribed[ctx.service.name]
             \/ \E c \in calls : Tells(c, "naming", ctx.service.name, ctx.subscribed[ctx.service.name])

\* What is written is what the context holds, unless a callback has yet to look at it.
SamePicture(picture, ctx) ==
    /\ picture.spec # None /\ picture.spec.data = ctx.spec.data
    /\ ctx.tools # None => picture.tools # None /\ picture.tools.data = ctx.tools.data
    /\ picture.service = ctx.service
SameConfigs(config, ctx) ==
    /\ config["VirtualService"] = ctx.spec.data.ref
    /\ ctx.tools # None => config["WasmPlugin"] = ctx.tools.data
    /\ ctx.spec.data.https => config["DestinationRule"] = ctx.spec.data.ref
    /\ ctx.service.hosts # NoHosts =>
          config["ServiceEntry"] = [host |-> ctx.spec.data.ref, hosts |-> ctx.service.hosts]
ContextWritten(ctx, calls, config) ==
    \/ ctx.spec = None
    \/ \E c \in calls : c.step \in {"documents", "trigger"}
    \/ \E c \in calls : c.step = "write" /\ SamePicture(c.picture, ctx)
    \/ (\A c \in calls : c.step # "write") /\ SameConfigs(config, ctx)

UpToDate(ctx, calls, told, teller) ==
    /\ VersionFollowed(ctx, calls, told, teller)
    /\ DocumentsFollowed(ctx, calls)
    /\ ContentFollowed(ctx, calls, "spec") /\ ContentFollowed(ctx, calls, "tools")
    /\ BackendFollowed(ctx, calls)
Following(ctx, calls, told, teller) ==
    /\ SeesContext(ctx, calls)
    /\ ctx # None /\ ~ ctx.spoiled => UpToDate(ctx, calls, told, teller)

ServerOK(ctx, calls, told, teller, config, crossed) ==
    /\ Following(ctx, calls, told, teller)
    /\ ctx # None /\ ~ ctx.spoiled => crossed \/ ContextWritten(ctx, calls, config)

ServersFollowed ==
    \A s \in McpServer :
        ServerOK(Context(s), Callbacks(s), LastTold(s), Teller(s), configs[s], s \in mcp.crossed)

McpInv == McpTyped /\ McpPhases /\ McpCleansUp /\ ServersFollowed

\* Callbacks that are past what they tell, or that see nothing any more, come and go.
LEMMA StepAside ==
    ASSUME NEW ctx, NEW calls, NEW told, NEW teller, Following(ctx, calls, told, teller), NEW new,
           \A e \in new : e \in calls \/ \E c \in calls :
               /\ e.what = c.what /\ e.of = c.of /\ e.data = c.data /\ e.sees = c.sees
               /\ e.sees = "nothing" \/ e.step \in {"trigger", "write"},
           \A e \in calls : e \in new \/ e.sees = "nothing" \/ e.step \in {"trigger", "write"}
    PROVE  Following(ctx, new, told, teller)
<1>1. SeesContext(ctx, new)
  BY DEF Following, SeesContext
<1>2. ASSUME NEW what, NEW of, NEW data, \E c \in calls : Tells(c, what, of, data)
      PROVE  \E c \in new : Tells(c, what, of, data)
  BY <1>2 DEF Tells
<1>3. VersionFollowed(ctx, calls, told, teller) => VersionFollowed(ctx, new, told, teller)
  BY <1>2 DEF VersionFollowed
<1>4. DocumentsFollowed(ctx, calls) => DocumentsFollowed(ctx, new)
  BY DEF DocumentsFollowed
<1>5. \A what : ContentFollowed(ctx, calls, what) => ContentFollowed(ctx, new, what)
  BY <1>2 DEF ContentFollowed
<1>6. BackendFollowed(ctx, calls) => BackendFollowed(ctx, new)
  BY <1>2 DEF BackendFollowed
<1>7. QED
  BY <1>1, <1>3, <1>4, <1>5, <1>6 DEF Following, UpToDate

\* Another callback of the same listener that is still at work.
Overtaken(calls, c) ==
    \E d \in calls \ {c} : d.what = c.what /\ d.step \in {"start", "documents"} /\ d.of = c.of

\* What is written agrees with a context whose documents and backend stay, when no callback but one
\* that has just started comes to an end.
LEMMA StillWritten ==
    ASSUME NEW ctx, NEW new, new.spec = ctx.spec, new.tools = ctx.tools, new.service = ctx.service,
           NEW calls, NEW rest, rest \subseteq calls, \A c \in calls : c \in rest \/ c.step = "start",
           NEW config, ContextWritten(ctx, calls, config)
    PROVE  ContextWritten(new, rest, config)
<1>1. CASE ctx.spec = None
  BY <1>1 DEF ContextWritten
<1>2. CASE \E c \in calls : c.step \in {"documents", "trigger"}
  <2>1. \E c \in rest : c.step \in {"documents", "trigger"}
    BY <1>2
  <2>2. QED
    BY <2>1 DEF ContextWritten
<1>3. CASE \E c \in calls : c.step = "write" /\ SamePicture(c.picture, ctx)
  <2>1. \A picture : SamePicture(picture, ctx) => SamePicture(picture, new)
    BY DEF SamePicture
  <2>2. \E c \in rest : c.step = "write" /\ SamePicture(c.picture, new)
    BY <1>3, <2>1
  <2>3. QED
    BY <2>2 DEF ContextWritten
<1>4. CASE (\A c \in calls : c.step # "write") /\ SameConfigs(config, ctx)
  <2>1. SameConfigs(config, new)
    BY <1>4 DEF SameConfigs
  <2>2. QED
    BY <1>4, <2>1 DEF ContextWritten
<1>5. QED
  BY <1>1, <1>2, <1>3, <1>4 DEF ContextWritten

\* A callback of the versions that has nothing new to tell.
LEMMA VersionKnown ==
    ASSUME NEW ctx \in ServerContext, NEW calls, NEW told, NEW teller, Following(ctx, calls, told, teller),
           NEW c \in calls, c.what = "versions", c.step = "start", c.data \in {Unread, ctx.version},
           \A d \in calls : CallOK(d),
           NEW new \in ServerContext, new = [ctx EXCEPT !.spoiled = new.spoiled],
           ~ new.spoiled => ~ ctx.spoiled /\ c.sees # "nothing" /\ ~ Overtaken(calls, c)
    PROVE  Following(new, calls \ {c}, told, teller)
<1>1. /\ new.version = ctx.version /\ new.spec = ctx.spec /\ new.tools = ctx.tools
      /\ new.service = ctx.service /\ new.subscribed = ctx.subscribed
      /\ new.callbackRef = ctx.callbackRef /\ new # None /\ ctx # None
      /\ \A what \in {"spec", "tools"} : new[what] = ctx[what]
  BY NoneIsNoRecord DEF ServerContext
<1>2. SeesContext(new, calls \ {c})
  BY <1>1 DEF Following, SeesContext
<1>3. ASSUME ~ new.spoiled
      PROVE  UpToDate(new, calls \ {c}, told, teller)
  <2>1. /\ VersionFollowed(ctx, calls, told, teller)
        /\ DocumentsFollowed(ctx, calls)
        /\ ContentFollowed(ctx, calls, "spec") /\ ContentFollowed(ctx, calls, "tools")
        /\ BackendFollowed(ctx, calls)
    BY <1>1, <1>3 DEF Following, UpToDate
  <2>2. \A d \in calls : d.what = "versions" /\ d.sees # "nothing" => d.of = c.of /\ c.of = teller
    BY <1>3, <2>1 DEF VersionFollowed
  <2>3. \A d \in calls \ {c} : ~ (d.what = "versions" /\ d.step = "start" /\ d.sees # "nothing")
    BY <1>3, <2>2 DEF Overtaken
  <2>4. told \in Version => ctx.version = told
    <3>1. ASSUME told \in Version, NEW w \in calls, Tells(w, "versions", teller, told)
          PROVE  ctx.version = told
      BY <2>3, <3>1, McpAssumption DEF Tells
    <3>2. QED
      BY <2>1, <3>1 DEF VersionFollowed
  <2>5. VersionFollowed(new, calls \ {c}, told, teller)
    BY <1>1, <2>1, <2>3, <2>4 DEF VersionFollowed
  <2>6. DocumentsFollowed(new, calls \ {c})
    BY <1>1, <2>1 DEF DocumentsFollowed
  <2>7. ASSUME NEW what \in {"spec", "tools"}
        PROVE  ContentFollowed(new, calls \ {c}, what)
    BY <1>1, <2>1 DEF ContentFollowed, Tells
  <2>8. BackendFollowed(new, calls \ {c})
    BY <1>1, <2>1 DEF BackendFollowed, Tells
  <2>9. QED
    BY <2>5, <2>6, <2>7, <2>8 DEF UpToDate
<1>4. QED
  BY <1>1, <1>2, <1>3 DEF Following

\* A callback of the versions that tells a new one, whose documents are to be read.
LEMMA VersionTold ==
    ASSUME NEW ctx \in ServerContext, NEW calls, NEW told, NEW teller, Following(ctx, calls, told, teller),
           NEW c \in calls, c.what = "versions", c.step = "start", c.data \in Version, c.data # ctx.version,
           \A d \in calls : CallOK(d),
           NEW new \in ServerContext, new = [ctx EXCEPT !.spoiled = new.spoiled, !.version = c.data],
           ~ new.spoiled => ~ ctx.spoiled /\ c.sees # "nothing" /\ ~ Overtaken(calls, c),
           NEW on, on.what = "versions", on.of = c.of, on.data = c.data, on.sees = "entry",
           on.step = "documents", on.left = {"spec", "tools"}
    PROVE  Following(new, (calls \ {c}) \cup {on}, told, teller)
<1> DEFINE after == (calls \ {c}) \cup {on}
<1>1. /\ new.version = c.data /\ new.spec = ctx.spec /\ new.tools = ctx.tools
      /\ new.service = ctx.service /\ new.subscribed = ctx.subscribed
      /\ new.callbackRef = ctx.callbackRef /\ new # None /\ ctx # None
      /\ \A what \in {"spec", "tools"} : new[what] = ctx[what]
  <2>1. /\ new.version = c.data /\ new.spec = ctx.spec /\ new.tools = ctx.tools
        /\ new.service = ctx.service /\ new.subscribed = ctx.subscribed
        /\ new.callbackRef = ctx.callbackRef
    BY DEF ServerContext
  <2>2. new # None /\ ctx # None
    BY NoneIsNoRecord
  <2>3. QED
    BY <2>1, <2>2
<1>2. SeesContext(new, after)
  BY <1>1 DEF Following, SeesContext
<1>3. ASSUME ~ new.spoiled
      PROVE  UpToDate(new, after, told, teller)
  <2>1. /\ VersionFollowed(ctx, calls, told, teller)
        /\ DocumentsFollowed(ctx, calls)
        /\ ContentFollowed(ctx, calls, "spec") /\ ContentFollowed(ctx, calls, "tools")
        /\ BackendFollowed(ctx, calls)
    BY <1>1, <1>3 DEF Following, UpToDate
  <2>2. \A d \in calls : d.what = "versions" /\ d.sees # "nothing" => d.of = c.of /\ c.of = teller
    BY <1>3, <2>1 DEF VersionFollowed
  <2>3. \A d \in calls \ {c} : ~ (d.what = "versions" /\ d.step \in {"start", "documents"} /\ d.sees # "nothing")
    BY <1>3, <2>2 DEF Overtaken
  <2>4. told \in Version => c.data = told
    <3>1. ASSUME told \in Version, NEW w \in calls, Tells(w, "versions", teller, told)
          PROVE  c.data = told
      BY <2>3, <3>1 DEF Tells
    <3>2. QED
      BY <1>3, <2>1, <3>1 DEF VersionFollowed
  <2>5. VersionFollowed(new, after, told, teller)
    BY <1>1, <1>3, <2>1, <2>2, <2>3, <2>4 DEF VersionFollowed
  <2>6. DocumentsFollowed(new, after)
    BY <1>1, <2>3 DEF DocumentsFollowed, CallOK
  <2>7. ASSUME NEW what \in {"spec", "tools"}
        PROVE  ContentFollowed(new, after, what)
    BY <1>1, <2>1 DEF ContentFollowed, Tells
  <2>8. BackendFollowed(new, after)
    BY <1>1, <2>1 DEF BackendFollowed, Tells
  <2>9. QED
    BY <2>5, <2>6, <2>7, <2>8 DEF UpToDate
<1>4. QED
  BY <1>1, <1>2, <1>3 DEF Following

\* A change in Nacos, or a request that fails, is counted.
LEMMA CountedType == ASSUME NEW n \in NacosType PROVE Counted(n) \in NacosType
<1> DEFINE L == SUBSET McpServer
           V == [McpServer -> Version]
           S == [McpServer -> [Version -> ServerSpec]]
           T == [McpServer -> [Version -> Tools]]
           H == [Backend -> Hosts]
           NT == [listed : L, latest : V, spec : S, tools : T, hosts : H, events : Nat]
<1>1. n \in NT
  BY DEF NacosType
<1> HIDE DEF L, V, S, T, H
<1>2. n.events + 1 \in Nat
  BY <1>1
<1> DEFINE e == n.events + 1
<1> HIDE DEF e
<1>3. [n EXCEPT !.events = e] \in NT
  BY <1>1, <1>2 DEF e
<1>4. Counted(n) = [n EXCEPT !.events = e]
  BY DEF Counted, e
<1>5. QED
  BY <1>3, <1>4 DEF NacosType, L, V, S, T, H

\* What following the backend that a specification names leaves in a context.
BackendRead(ctx, new, ref) ==
    /\ ctx.callbackRef # None => new.callbackRef # None
    /\ (\E b \in Backend : new.subscribed[b] # None) =>
           new.callbackRef # None \/ \E b \in Backend : ctx.subscribed[b] # None
    /\ ctx.spoiled => new.spoiled
    /\ ~ new.spoiled =>
          /\ new.service # None /\ new.service.name = ref
          /\ \/ new.service = ctx.service /\ new.subscribed = ctx.subscribed
             \/ new.subscribed[ref] # None /\ new.service.hosts = new.subscribed[ref]

\* What the refresh of the backend leaves, whichever of its requests fail.
LEMMA RefreshedGives ==
    ASSUME NEW n \in NacosType, NEW ctx \in ServerContext, NEW ref \in Backend,
           NEW y \in Refreshed(Going(n, ctx), ref)
    PROVE  /\ y.n \in NacosType /\ y.ctx \in ServerContext /\ y = [n |-> y.n, ctx |-> y.ctx]
           /\ y.ctx.version = ctx.version /\ y.ctx.told = ctx.told
           /\ y.ctx.spec = ctx.spec /\ y.ctx.tools = ctx.tools
           /\ BackendRead(ctx, y.ctx, ref)
<1> DEFINE x == Going(n, ctx)
           XType == [n : NacosType, ctx : ServerContext]
<1>1. x \in XType /\ x.n = n /\ x.ctx = ctx
  BY DEF Going
<1>2. CASE ctx.service # None /\ ctx.service.name = ref
  <2>1. y = x /\ x = [n |-> n, ctx |-> ctx]
    BY <1>1, <1>2 DEF Refreshed, Going
  <2>2. QED
    BY <1>1, <1>2, <2>1 DEF BackendRead
<1>3. CASE ~ (ctx.service # None /\ ctx.service.name = ref)
  <2>1. PICK z \in Unsubscribed(x) : y \in Resubscribed(z, ref)
    BY <1>1, <1>3 DEF Refreshed
  <2> HIDE DEF x
  <2>2. /\ z \in XType /\ z.ctx.version = ctx.version /\ z.ctx.told = ctx.told
        /\ z.ctx.spec = ctx.spec /\ z.ctx.tools = ctx.tools /\ z.ctx.callbackRef = ctx.callbackRef
        /\ (ctx.spoiled => z.ctx.spoiled)
        /\ \A b \in Backend : z.ctx.subscribed[b] # None => ctx.subscribed[b] # None
    <3>1. CASE z = x
      BY <1>1, <3>1
    <3>2. CASE ctx.service # None /\ z = [x EXCEPT !.ctx.subscribed[ctx.service.name] = None]
      <4>1. ctx.service.name \in Backend
        BY <3>2 DEF ServerContext, Endpoints
      <4> DEFINE sub == [ctx.subscribed EXCEPT ![ctx.service.name] = None]
                 c2 == [ctx EXCEPT !.subscribed = sub]
      <4>2. sub \in [Backend -> Hosts \cup {None}] /\ \A b \in Backend : sub[b] # None => ctx.subscribed[b] # None
        BY <4>1 DEF ServerContext
      <4>3. z = [x EXCEPT !.ctx = c2]
        BY <1>1, <3>2
      <4> HIDE DEF sub
      <4>4. c2 \in ServerContext /\ c2.version = ctx.version /\ c2.told = ctx.told /\ c2.spec = ctx.spec
            /\ c2.tools = ctx.tools /\ c2.callbackRef = ctx.callbackRef /\ c2.spoiled = ctx.spoiled
            /\ c2.subscribed = sub
        BY <4>2 DEF ServerContext
      <4> HIDE DEF c2
      <4>5. QED
        BY <1>1, <4>2, <4>3, <4>4
    <3>3. CASE z = Failing(n, ctx)
      <4>1. Counted(n) \in NacosType
        BY CountedType
      <4> DEFINE c2 == [ctx EXCEPT !.spoiled = TRUE]
      <4>2. c2 \in ServerContext /\ c2.version = ctx.version /\ c2.told = ctx.told /\ c2.spec = ctx.spec
            /\ c2.tools = ctx.tools /\ c2.callbackRef = ctx.callbackRef /\ c2.spoiled
            /\ c2.subscribed = ctx.subscribed
        BY DEF ServerContext
      <4>3. z = [n |-> Counted(n), ctx |-> c2]
        BY <3>3 DEF Failing
      <4> HIDE DEF c2
      <4>4. QED
        BY <4>1, <4>2, <4>3
    <3>4. QED
      BY <1>1, <2>1, <3>1, <3>2, <3>3 DEF Unsubscribed
  <2> DEFINE hosts == z.n.hosts[ref]
             back == IF z.ctx.callbackRef = None THEN ref ELSE z.ctx.callbackRef
             named == [z.ctx EXCEPT !.service = [name |-> ref, hosts |-> hosts], !.callbackRef = back]
             sub == [named.subscribed EXCEPT ![ref] = hosts]
  <2>3. y = Going(z.n, [named EXCEPT !.subscribed = sub]) \/ y = Failing(z.n, z.ctx) \/ y = Failing(z.n, named)
    BY <2>1 DEF Resubscribed
  <2>4. hosts \in Hosts /\ hosts # None /\ back \in Backend /\ back # None
    BY <2>2, McpAssumption DEF NacosType, ServerContext
  <2> HIDE DEF hosts, back
  <2> DEFINE ends == [name |-> ref, hosts |-> hosts]
  <2>5. ends \in Endpoints /\ ends # None /\ ends.name = ref /\ ends.hosts = hosts
    BY <2>4, NoneIsNoRecord DEF Endpoints
  <2> HIDE DEF ends
  <2>6. /\ named \in ServerContext /\ named.version = ctx.version /\ named.told = ctx.told
        /\ named.spec = ctx.spec /\ named.tools = ctx.tools /\ named.callbackRef = back
        /\ named.service = ends /\ named.spoiled = z.ctx.spoiled /\ named.subscribed = z.ctx.subscribed
    BY <2>2, <2>4, <2>5 DEF ServerContext, ends
  <2> HIDE DEF named
  <2>7. sub \in [Backend -> Hosts \cup {None}] /\ sub[ref] = hosts
    BY <2>4, <2>6 DEF ServerContext
  <2> HIDE DEF sub
  <2>8. Counted(z.n) \in NacosType
    BY <2>2, CountedType
  <2>9. CASE y = Going(z.n, [named EXCEPT !.subscribed = sub])
    <3> DEFINE c2 == [named EXCEPT !.subscribed = sub]
    <3>1. /\ c2 \in ServerContext /\ c2.version = ctx.version /\ c2.told = ctx.told
          /\ c2.spec = ctx.spec /\ c2.tools = ctx.tools /\ c2.callbackRef = back
          /\ c2.service = ends /\ c2.spoiled = z.ctx.spoiled /\ c2.subscribed = sub
      BY <2>6, <2>7 DEF ServerContext
    <3>2. y = [n |-> z.n, ctx |-> c2]
      BY <2>9 DEF Going
    <3> HIDE DEF c2
    <3>3. QED
      BY <2>2, <2>4, <2>5, <2>7, <3>1, <3>2 DEF BackendRead
  <2>10. ASSUME NEW c1 \in {z.ctx, named}, y = Failing(z.n, c1)
         PROVE  /\ y.n \in NacosType /\ y.ctx \in ServerContext /\ y = [n |-> y.n, ctx |-> y.ctx]
                /\ y.ctx.version = ctx.version /\ y.ctx.told = ctx.told
                /\ y.ctx.spec = ctx.spec /\ y.ctx.tools = ctx.tools
                /\ BackendRead(ctx, y.ctx, ref)
    <3> DEFINE c2 == [c1 EXCEPT !.spoiled = TRUE]
    <3>1. c1 \in ServerContext /\ c1.version = ctx.version /\ c1.told = ctx.told
          /\ c1.spec = ctx.spec /\ c1.tools = ctx.tools /\ c1.subscribed = z.ctx.subscribed
          /\ c1.callbackRef \in {back, ctx.callbackRef}
      BY <2>2, <2>6
    <3>2. c2 \in ServerContext /\ c2.version = c1.version /\ c2.told = c1.told
          /\ c2.spec = c1.spec /\ c2.tools = c1.tools /\ c2.subscribed = c1.subscribed
          /\ c2.callbackRef = c1.callbackRef /\ c2.spoiled
      BY <3>1 DEF ServerContext
    <3>3. y = [n |-> Counted(z.n), ctx |-> c2]
      BY <2>10 DEF Failing
    <3> HIDE DEF c2
    <3>4. QED
      BY <2>2, <2>4, <2>8, <3>1, <3>2, <3>3 DEF BackendRead
  <2>11. QED
    BY <2>3, <2>9, <2>10
<1>4. QED
  BY <1>2, <1>3

\* A document of the version was read, and its older listener is gone.
LEMMA DocumentRead ==
    ASSUME NEW ctx \in ServerContext, NEW calls, NEW told, NEW teller, UpToDate(ctx, calls, told, teller),
           NEW c \in calls, \A d \in calls : CallOK(d), c.step = "documents", c.sees = "entry",
           NEW what \in c.left, NEW other, {what, other} = {"spec", "tools"}, what # other,
           NEW new \in ServerContext, new.version = ctx.version,
           new[other] = ctx[other], new[what] # None, new[what].version = c.data,
           new[what].data = new[what].told,
           what = "tools" => new.service = ctx.service /\ new.subscribed = ctx.subscribed,
           what = "spec" => BackendRead(ctx, new, new.spec.data.ref), ~ new.spoiled,
           NEW on, on.what = c.what, on.of = c.of, on.data = c.data, on.sees = "entry",
           on.left = c.left \ {what}, on.step \in {"documents", "trigger"},
           on.step = "documents" \/ c.left = {what},
           NEW after, on \in after,
           \A e \in after : \/ e = on
                            \/ e \in calls /\ ~ (e.what = what /\ e.sees = "entry")
                            \/ e.what = what /\ e.sees = "context" /\ e.step # "documents",
           \A d \in calls \ {c} : d.what = what \/ d \in after
    PROVE  UpToDate(new, after, told, teller)
<1>1. c.what = "versions"
  BY DEF CallOK
<1>2. c.data = ctx.version
  BY DEF UpToDate, DocumentsFollowed
<1>3. VersionFollowed(new, after, told, teller)
  <2>1. \A e \in after : e.what = "versions" /\ e.sees # "nothing" => e.of = teller
    BY <1>1 DEF UpToDate, VersionFollowed
  <2>2. \A w \in calls : Tells(w, "versions", teller, told) => w \in after
    BY <1>1 DEF Tells
  <2>3. QED
    BY <1>1, <2>1, <2>2 DEF UpToDate, VersionFollowed
<1>4. DocumentsFollowed(new, after)
  <2>1. \A e \in after : e.step = "documents" /\ e.sees # "nothing" => e.sees = "entry" /\ e.data = new.version
    BY <1>2 DEF UpToDate, DocumentsFollowed
  <2>2. ASSUME ctx.version # None
        PROVE  \/ new[other] # None /\ new[other].version = new.version
               \/ \E e \in after : e.step = "documents" /\ e.sees = "entry" /\ other \in e.left
    <3>1. \/ ctx[other] # None /\ ctx[other].version = ctx.version
          \/ \E e \in calls : e.step = "documents" /\ e.sees = "entry" /\ other \in e.left
      BY <2>2 DEF UpToDate, DocumentsFollowed
    <3>2. ASSUME NEW e \in calls, e.step = "documents", e.sees = "entry", other \in e.left, e # c
          PROVE  e \in after
      BY <3>2 DEF CallOK
    <3>3. QED
      BY <3>1, <3>2
  <2>3. QED
    BY <1>2, <2>1, <2>2 DEF DocumentsFollowed
<1>5. ContentFollowed(new, after, what)
  BY <1>1 DEF ContentFollowed
<1>6. ContentFollowed(new, after, other)
  <2>1. ContentFollowed(ctx, calls, other)
    BY DEF UpToDate
  <2>2. QED
    BY <1>1, <2>1 DEF ContentFollowed, Tells
<1>7. BackendFollowed(new, after)
  <2>1. \A of, data : (\E w \in calls : Tells(w, "naming", of, data)) => \E w \in after : Tells(w, "naming", of, data)
    BY <1>1 DEF Tells
  <2>2. BackendFollowed(ctx, calls)
    BY DEF UpToDate
  <2>3. CASE what = "spec"
    BY <2>1, <2>2, <2>3 DEF BackendFollowed, BackendRead
  <2>4. CASE what = "tools"
    BY <2>1, <2>2, <2>4 DEF BackendFollowed
  <2>5. QED
    BY <2>3, <2>4
<1>8. QED
  BY <1>3, <1>4, <1>5, <1>6, <1>7 DEF UpToDate

\* Two callbacks that differ in the picture they took only.
Alike(e, d) ==
    e.what = d.what /\ e.of = d.of /\ e.data = d.data /\ e.sees = d.sees /\ e.step = d.step /\ e.left = d.left

\* A callback of a document that has nothing new to tell.
LEMMA DocumentKnown ==
    ASSUME NEW ctx \in ServerContext, NEW calls, NEW told, NEW teller, Following(ctx, calls, told, teller),
           NEW c \in calls, NEW what \in {"spec", "tools"}, c.what = what, c.step = "start", c.sees = "entry",
           \A d \in calls : CallOK(d), ctx[what].data = c.data,
           NEW new \in ServerContext, new = [ctx EXCEPT !.spoiled = new.spoiled],
           ~ new.spoiled => ~ ctx.spoiled /\ ~ Overtaken(calls, c)
    PROVE  Following(new, calls \ {c}, told, teller)
<1>1. /\ new.version = ctx.version /\ new.spec = ctx.spec /\ new.tools = ctx.tools
      /\ new.service = ctx.service /\ new.subscribed = ctx.subscribed
      /\ new.callbackRef = ctx.callbackRef /\ new # None /\ ctx # None
      /\ \A w \in {"spec", "tools"} : new[w] = ctx[w]
  BY NoneIsNoRecord DEF ServerContext
<1>2. SeesContext(new, calls \ {c})
  BY <1>1 DEF Following, SeesContext
<1>3. ASSUME ~ new.spoiled
      PROVE  UpToDate(new, calls \ {c}, told, teller)
  <2>1. /\ VersionFollowed(ctx, calls, told, teller)
        /\ DocumentsFollowed(ctx, calls)
        /\ ContentFollowed(ctx, calls, "spec") /\ ContentFollowed(ctx, calls, "tools")
        /\ BackendFollowed(ctx, calls)
    BY <1>1, <1>3 DEF Following, UpToDate
  <2>2. ContentFollowed(ctx, calls, what)
    BY <2>1
  <2>3. \A d \in calls : d.what = what /\ d.sees = "entry" => d.of = c.of /\ ctx[what] # None /\ c.of = ctx[what].version
    BY <2>2 DEF ContentFollowed
  <2>4. \A d \in calls \ {c} : ~ (d.what = what /\ d.step = "start" /\ d.sees = "entry")
    BY <1>3, <2>3 DEF Overtaken
  <2>5. ctx[what].data = ctx[what].told
    BY <2>2, <2>3, <2>4 DEF ContentFollowed, Tells
  <2>6. ContentFollowed(new, calls \ {c}, what)
    BY <1>1, <2>3, <2>4, <2>5 DEF ContentFollowed
  <2>7. ASSUME NEW other \in {"spec", "tools"}, other # what
        PROVE  ContentFollowed(new, calls \ {c}, other)
    BY <1>1, <2>1, <2>7 DEF ContentFollowed, Tells
  <2>8. VersionFollowed(new, calls \ {c}, told, teller)
    BY <1>1, <2>1 DEF VersionFollowed, Tells
  <2>9. DocumentsFollowed(new, calls \ {c})
    BY <1>1, <2>1 DEF DocumentsFollowed
  <2>10. BackendFollowed(new, calls \ {c})
    BY <1>1, <2>1 DEF BackendFollowed, Tells
  <2>11. QED
    BY <2>6, <2>7, <2>8, <2>9, <2>10 DEF UpToDate
<1>4. QED
  BY <1>1, <1>2, <1>3 DEF Following

\* What a callback of a document finds and leaves behind: the document is read, and what else there
\* is of the context stays, but for the backend that a specification names.
Documented(ctx, new, calls, c, what, other, on) ==
    /\ {what, other} = {"spec", "tools"} /\ what # other
    /\ c.what = what /\ c.step = "start" /\ c.sees = "entry"
    /\ \A d \in calls : CallOK(d)
    /\ ctx[what].data # c.data /\ ~ Overtaken(calls, c)
    /\ new.version = ctx.version /\ new[other] = ctx[other] /\ new[what] # None
    /\ new[what].version = ctx[what].version /\ new[what].data = c.data /\ new[what].told = ctx[what].told
    /\ what = "tools" => new.service = ctx.service /\ new.subscribed = ctx.subscribed
    /\ what = "spec" => BackendRead(ctx, new, c.data.ref)
    /\ ~ new.spoiled
    /\ on.what = c.what /\ on.of = c.of /\ on.data = c.data /\ on.sees = "entry" /\ on.step = "trigger"

\* A callback of a document that tells something else.
LEMMA DocumentTold ==
    ASSUME NEW ctx \in ServerContext, NEW new \in ServerContext, NEW calls, NEW c \in calls,
           NEW told, NEW teller, UpToDate(ctx, calls, told, teller),
           NEW what, NEW other, NEW on, Documented(ctx, new, calls, c, what, other, on)
    PROVE  UpToDate(new, (calls \ {c}) \cup {on}, told, teller)
<1> /\ {what, other} = {"spec", "tools"} /\ what # other
    /\ c.what = what /\ c.step = "start" /\ c.sees = "entry"
    /\ \A d \in calls : CallOK(d)
    /\ ctx[what].data # c.data /\ ~ Overtaken(calls, c)
    /\ new.version = ctx.version /\ new[other] = ctx[other] /\ new[what] # None
    /\ new[what].version = ctx[what].version /\ new[what].data = c.data /\ new[what].told = ctx[what].told
    /\ what = "tools" => new.service = ctx.service /\ new.subscribed = ctx.subscribed
    /\ what = "spec" => BackendRead(ctx, new, c.data.ref)
    /\ ~ new.spoiled
    /\ on.what = c.what /\ on.of = c.of /\ on.data = c.data /\ on.sees = "entry" /\ on.step = "trigger"
  BY DEF Documented
<1> DEFINE after == (calls \ {c}) \cup {on}
<1>1. /\ VersionFollowed(ctx, calls, told, teller)
      /\ DocumentsFollowed(ctx, calls)
      /\ ContentFollowed(ctx, calls, "spec") /\ ContentFollowed(ctx, calls, "tools")
      /\ BackendFollowed(ctx, calls)
  BY DEF UpToDate
<1>2. ContentFollowed(ctx, calls, what) /\ ContentFollowed(ctx, calls, other)
  BY <1>1
<1>3. \A d \in calls : d.what = what /\ d.sees = "entry" => d.of = c.of /\ ctx[what] # None /\ c.of = ctx[what].version
  BY <1>2 DEF ContentFollowed
<1>4. \A d \in calls \ {c} : ~ (d.what = what /\ d.step = "start" /\ d.sees = "entry")
  BY <1>3 DEF Overtaken
<1>5. c.data = ctx[what].told
  BY <1>2, <1>3, <1>4 DEF ContentFollowed, Tells
<1>6. ContentFollowed(new, after, what)
  BY <1>3, <1>4, <1>5 DEF ContentFollowed
<1>7. ContentFollowed(new, after, other)
  BY <1>2 DEF ContentFollowed, Tells
<1>8. VersionFollowed(new, after, told, teller)
  BY <1>1 DEF VersionFollowed, Tells
<1>9. DocumentsFollowed(new, after)
  BY <1>1, <1>3 DEF DocumentsFollowed
<1>10. BackendFollowed(new, after)
  <2>1. \A of, data : (\E w \in calls : Tells(w, "naming", of, data)) => \E w \in after : Tells(w, "naming", of, data)
    BY DEF Tells
  <2>2. CASE what = "spec"
    BY <1>1, <2>1, <2>2 DEF BackendFollowed, BackendRead
  <2>3. CASE what = "tools"
    BY <1>1, <2>1, <2>3 DEF BackendFollowed
  <2>4. QED
    BY <2>2, <2>3
<1>11. QED
  BY <1>6, <1>7, <1>8, <1>9, <1>10 DEF UpToDate

\* What a callback of the instances finds and leaves behind.
Instanced(ctx, new, calls, c, on, after) ==
    /\ c.what = "naming" /\ c.step = "start" /\ c.sees = "entry"
    /\ \A d \in calls : CallOK(d)
    /\ ctx.spec # None => c.of = ctx.service.name
    /\ c.data = ctx.subscribed[c.of]
    /\ new.version = ctx.version /\ new.spec = ctx.spec /\ new.tools = ctx.tools
    /\ new.service # None /\ new.service.name = c.of /\ new.service.hosts = c.data
    /\ new.subscribed = ctx.subscribed
    /\ on.what = c.what /\ on.of = c.of /\ on.sees = "entry" /\ on.step = "trigger"
    /\ \A e \in after : e = on \/ \E d \in calls \ {c} : Alike(e, d)
    /\ \A d \in calls \ {c} : \E e \in after : Alike(e, d)

\* A callback of the endpoints, on time and about the backend that is followed.
LEMMA EndpointsTold ==
    ASSUME NEW ctx \in ServerContext, NEW new \in ServerContext, NEW calls, NEW c \in calls,
           NEW told, NEW teller, UpToDate(ctx, calls, told, teller),
           NEW on, NEW after, Instanced(ctx, new, calls, c, on, after)
    PROVE  UpToDate(new, after, told, teller)
<1> /\ c.what = "naming" /\ c.step = "start" /\ c.sees = "entry"
    /\ \A d \in calls : CallOK(d)
    /\ ctx.spec # None => c.of = ctx.service.name
    /\ c.data = ctx.subscribed[c.of]
    /\ new.version = ctx.version /\ new.spec = ctx.spec /\ new.tools = ctx.tools
    /\ new.service # None /\ new.service.name = c.of /\ new.service.hosts = c.data
    /\ new.subscribed = ctx.subscribed
    /\ on.what = c.what /\ on.of = c.of /\ on.sees = "entry" /\ on.step = "trigger"
    /\ \A e \in after : e = on \/ \E d \in calls \ {c} : Alike(e, d)
    /\ \A d \in calls \ {c} : \E e \in after : Alike(e, d)
  BY DEF Instanced
<1>1. /\ VersionFollowed(ctx, calls, told, teller)
      /\ DocumentsFollowed(ctx, calls)
      /\ ContentFollowed(ctx, calls, "spec") /\ ContentFollowed(ctx, calls, "tools")
      /\ BackendFollowed(ctx, calls)
  BY DEF UpToDate
<1>2. ASSUME NEW what, what # "naming", NEW of, NEW data, \E w \in calls : Tells(w, what, of, data)
      PROVE  \E w \in after : Tells(w, what, of, data)
  BY <1>2 DEF Tells, Alike
<1>3. VersionFollowed(new, after, told, teller)
  <2>1. \A e \in after : e.what = "versions" => \E d \in calls : Alike(e, d)
    OBVIOUS
  <2>2. QED
    BY <1>1, <1>2, <2>1 DEF VersionFollowed, Alike
<1>4. DocumentsFollowed(new, after)
  <2>1. \A e \in after : e.step = "documents" => \E d \in calls : Alike(e, d)
    OBVIOUS
  <2>2. \A d \in calls : d.step = "documents" => \E e \in after : Alike(e, d)
    BY DEF CallOK
  <2>3. \A what \in {"spec", "tools"} : new[what] = ctx[what]
    OBVIOUS
  <2>4. QED
    BY <1>1, <2>1, <2>2, <2>3 DEF DocumentsFollowed, Alike
<1>5. ASSUME NEW what \in {"spec", "tools"}
      PROVE  ContentFollowed(new, after, what)
  <2>1. \A e \in after : e.what = what => \E d \in calls : Alike(e, d)
    OBVIOUS
  <2>2. ContentFollowed(ctx, calls, what) /\ new[what] = ctx[what]
    BY <1>1
  <2>3. QED
    BY <1>2, <2>1, <2>2 DEF ContentFollowed, Alike
<1>6. BackendFollowed(new, after)
  <2>1. c.of \in Backend /\ c.data \in Hosts /\ c.data # None
    BY McpAssumption DEF CallOK
  <2>2. QED
    BY <1>1, <2>1 DEF BackendFollowed
<1>7. QED
  BY <1>3, <1>4, <1>5, <1>6 DEF UpToDate

\* A listener is called back: what it was told last is what the new callback tells.
LEMMA VersionNotified ==
    ASSUME NEW ctx \in ServerContext, NEW calls, NEW told, NEW teller, Following(ctx, calls, told, teller),
           NEW latest, NEW new \in ServerContext, new = [ctx EXCEPT !.told = latest],
           NEW n, Tells(n, "versions", teller, latest)
    PROVE  Following(new, calls \cup {n}, latest, teller)
<1>1. /\ new.version = ctx.version /\ new.spec = ctx.spec /\ new.tools = ctx.tools
      /\ new.service = ctx.service /\ new.subscribed = ctx.subscribed /\ new.spoiled = ctx.spoiled
      /\ new.callbackRef = ctx.callbackRef /\ new # None /\ ctx # None
      /\ \A what \in {"spec", "tools"} : new[what] = ctx[what]
  BY NoneIsNoRecord DEF ServerContext
<1>2. n.what = "versions" /\ n.step = "start" /\ n.sees = "entry" /\ n.of = teller
  BY DEF Tells
<1>3. SeesContext(new, calls \cup {n})
  BY <1>1, <1>2 DEF Following, SeesContext
<1>4. ASSUME UpToDate(ctx, calls, told, teller)
      PROVE  UpToDate(new, calls \cup {n}, latest, teller)
  <2>1. VersionFollowed(new, calls \cup {n}, latest, teller)
    BY <1>2, <1>4 DEF VersionFollowed, UpToDate
  <2>2. DocumentsFollowed(new, calls \cup {n})
    BY <1>1, <1>2, <1>4 DEF DocumentsFollowed, UpToDate
  <2>3. ASSUME NEW what \in {"spec", "tools"}
        PROVE  ContentFollowed(new, calls \cup {n}, what)
    <3>1. ContentFollowed(ctx, calls, what)
      BY <1>4 DEF UpToDate
    <3>2. QED
      BY <1>1, <1>2, <3>1 DEF ContentFollowed
  <2>4. BackendFollowed(new, calls \cup {n})
    BY <1>1, <1>4 DEF BackendFollowed, UpToDate
  <2>5. QED
    BY <2>1, <2>2, <2>3, <2>4 DEF UpToDate
<1>5. QED
  BY <1>1, <1>3, <1>4 DEF Following

\* A listener of a document is told something new.
LEMMA DocumentNotified ==
    ASSUME NEW ctx \in ServerContext, NEW calls, NEW told, NEW teller, Following(ctx, calls, told, teller),
           NEW what, NEW other, {what, other} = {"spec", "tools"}, what # other, ctx[what] # None,
           NEW new \in ServerContext, new.version = ctx.version, new.spoiled = ctx.spoiled,
           new.service = ctx.service, new.subscribed = ctx.subscribed, new.callbackRef = ctx.callbackRef,
           new[other] = ctx[other], new[what] # None, new[what].version = ctx[what].version,
           new[what].data = ctx[what].data,
           NEW n, Tells(n, what, ctx[what].version, new[what].told)
    PROVE  Following(new, calls \cup {n}, told, teller)
<1>1. new # None /\ ctx # None
  BY NoneIsNoRecord
<1>2. n.what = what /\ n.step = "start" /\ n.sees = "entry" /\ n.of = ctx[what].version
  BY DEF Tells
<1>3. SeesContext(new, calls \cup {n})
  BY <1>1, <1>2 DEF Following, SeesContext
<1>4. ASSUME UpToDate(ctx, calls, told, teller)
      PROVE  UpToDate(new, calls \cup {n}, told, teller)
  <2>1. VersionFollowed(new, calls \cup {n}, told, teller)
    BY <1>2, <1>4 DEF VersionFollowed, UpToDate
  <2>2. DocumentsFollowed(new, calls \cup {n})
    BY <1>1, <1>2, <1>4 DEF DocumentsFollowed, UpToDate
  <2>3. ContentFollowed(ctx, calls, what) /\ ContentFollowed(ctx, calls, other)
    BY <1>4 DEF UpToDate
  <2>4. ContentFollowed(new, calls \cup {n}, what)
    BY <1>2, <2>3 DEF ContentFollowed
  <2>5. ContentFollowed(new, calls \cup {n}, other)
    BY <1>2, <2>3 DEF ContentFollowed
  <2>6. BackendFollowed(new, calls \cup {n})
    <3>1. new.spec # None => ctx.spec # None /\ new.spec.data.ref = ctx.spec.data.ref
      OBVIOUS
    <3>2. QED
      BY <1>4, <3>1 DEF BackendFollowed, UpToDate
  <2>7. QED
    BY <2>1, <2>2, <2>4, <2>5, <2>6 DEF UpToDate
<1>5. QED
  BY <1>1, <1>3, <1>4 DEF Following

\* A listener of a backend is told something new.
LEMMA EndpointsNotified ==
    ASSUME NEW ctx \in ServerContext, NEW calls, NEW told, NEW teller, Following(ctx, calls, told, teller),
           NEW b \in Backend, ctx.subscribed[b] # None, NEW hosts \in Hosts,
           NEW new \in ServerContext,
           new = [ctx EXCEPT !.subscribed = [ctx.subscribed EXCEPT ![b] = hosts]],
           NEW n, Tells(n, "naming", b, hosts)
    PROVE  Following(new, calls \cup {n}, told, teller)
<1> DEFINE sub == [ctx.subscribed EXCEPT ![b] = hosts]
<1>1. ctx.subscribed \in [Backend -> Hosts \cup {None}]
  BY DEF ServerContext
<1>2. sub[b] = hosts /\ \A x \in Backend : x # b => sub[x] = ctx.subscribed[x]
  BY <1>1
<1>3. hosts # None
  BY McpAssumption
<1> HIDE DEF sub
<1>4. /\ new.version = ctx.version /\ new.spec = ctx.spec /\ new.tools = ctx.tools
      /\ new.service = ctx.service /\ new.subscribed = sub /\ new.spoiled = ctx.spoiled
      /\ new.callbackRef = ctx.callbackRef /\ new # None /\ ctx # None
      /\ \A what \in {"spec", "tools"} : new[what] = ctx[what]
  BY NoneIsNoRecord DEF ServerContext, sub
<1>5. n.what = "naming" /\ n.step = "start" /\ n.sees = "entry"
  BY DEF Tells
<1>6. SeesContext(new, calls \cup {n})
  BY <1>2, <1>4, <1>5 DEF Following, SeesContext
<1>7. ASSUME UpToDate(ctx, calls, told, teller)
      PROVE  UpToDate(new, calls \cup {n}, told, teller)
  <2>1. VersionFollowed(new, calls \cup {n}, told, teller)
    BY <1>4, <1>5, <1>7 DEF VersionFollowed, UpToDate
  <2>2. DocumentsFollowed(new, calls \cup {n})
    BY <1>4, <1>5, <1>7 DEF DocumentsFollowed, UpToDate
  <2>3. ASSUME NEW what \in {"spec", "tools"}
        PROVE  ContentFollowed(new, calls \cup {n}, what)
    <3>1. ContentFollowed(ctx, calls, what)
      BY <1>7 DEF UpToDate
    <3>2. QED
      BY <1>4, <1>5, <3>1 DEF ContentFollowed
  <2>4. BackendFollowed(new, calls \cup {n})
    <3>1. BackendFollowed(ctx, calls)
      BY <1>7 DEF UpToDate
    <3>2. ctx.service # None => ctx.service.name \in Backend
      BY DEF ServerContext, Endpoints
    <3>3. QED
      BY <1>2, <1>3, <1>4, <3>1, <3>2 DEF BackendFollowed
  <2>5. QED
    BY <2>1, <2>2, <2>3, <2>4 DEF UpToDate
<1>8. QED
  BY <1>4, <1>6, <1>7 DEF Following

\* A server that is listened to from now on: ListenToMcpServer tells the first of its versions.
LEMMA NewContext ==
    /\ NewServerContext \in ServerContext /\ NewServerContext # None
    /\ NewServerContext.spec = None /\ NewServerContext.tools = None /\ NewServerContext.service = None
    /\ NewServerContext.version = None /\ NewServerContext.told = None
    /\ \A b \in Backend : NewServerContext.subscribed[b] = None
<1> DEFINE sub == [b \in Backend |-> None]
           new == [version |-> None, told |-> None, spec |-> None, tools |-> None, service |-> None,
                   callbackRef |-> None, subscribed |-> sub, spoiled |-> FALSE]
<1>1. sub \in [Backend -> Hosts \cup {None}] /\ \A b \in Backend : sub[b] = None
  OBVIOUS
<1>2. NewServerContext = new
  BY DEF NewServerContext
<1> HIDE DEF sub
<1>3. new \in ServerContext
  BY <1>1 DEF ServerContext
<1>4. QED
  BY <1>1, <1>2, <1>3, NoneIsNoRecord

\* A server that is listened to from now on.
LEMMA NewServer ==
    ASSUME NEW calls, NEW told, NEW teller, SeesContext(None, calls),
           NEW n, Tells(n, "versions", teller, told)
    PROVE  Following(NewServerContext, calls \cup {n}, told, teller)
<1> DEFINE new == NewServerContext
<1>1. /\ new.spec = None /\ new.tools = None /\ new.service = None /\ new.version = None /\ new # None
      /\ \A what \in {"spec", "tools"} : new[what] = None
      /\ \A b \in Backend : new.subscribed[b] = None
  BY NewContext
<1> HIDE DEF new
<1>2. \A c \in calls : c.sees = "nothing"
  BY DEF SeesContext
<1>3. n.what = "versions" /\ n.step = "start" /\ n.sees = "entry" /\ n.of = teller
  BY DEF Tells
<1>4. SeesContext(new, calls \cup {n})
  BY <1>1, <1>2, <1>3 DEF SeesContext
<1>5. VersionFollowed(new, calls \cup {n}, told, teller)
  BY <1>2, <1>3 DEF VersionFollowed
<1>6. /\ DocumentsFollowed(new, calls \cup {n}) /\ BackendFollowed(new, calls \cup {n})
      /\ ContentFollowed(new, calls \cup {n}, "spec") /\ ContentFollowed(new, calls \cup {n}, "tools")
  BY <1>1, <1>2, <1>3 DEF DocumentsFollowed, BackendFollowed, ContentFollowed
<1>7. QED
  BY <1>4, <1>5, <1>6 DEF Following, UpToDate, new

\* Its listener is registered once the callback that was made for it has returned.
LEMMA ListenerRegistered ==
    ASSUME NEW ctx \in ServerContext, NEW calls, NEW told, Following(ctx, calls, told, "run"),
           \A d \in calls : d.of # "run",
           NEW new \in ServerContext, new = [ctx EXCEPT !.told = told]
    PROVE  Following(new, calls, told, None)
<1>1. /\ new.version = ctx.version /\ new.spec = ctx.spec /\ new.tools = ctx.tools
      /\ new.service = ctx.service /\ new.subscribed = ctx.subscribed /\ new.spoiled = ctx.spoiled
      /\ new.callbackRef = ctx.callbackRef /\ new # None /\ ctx # None
      /\ \A what \in {"spec", "tools"} : new[what] = ctx[what]
  BY NoneIsNoRecord DEF ServerContext
<1>2. SeesContext(new, calls)
  BY <1>1 DEF Following, SeesContext
<1>3. ASSUME UpToDate(ctx, calls, told, "run")
      PROVE  UpToDate(new, calls, told, None)
  <2>1. VersionFollowed(new, calls, told, None)
    BY <1>1, <1>3 DEF VersionFollowed, UpToDate, Tells
  <2>2. DocumentsFollowed(new, calls) /\ BackendFollowed(new, calls)
    BY <1>1, <1>3 DEF DocumentsFollowed, BackendFollowed, UpToDate
  <2>3. ASSUME NEW what \in {"spec", "tools"}
        PROVE  ContentFollowed(new, calls, what)
    <3>1. ContentFollowed(ctx, calls, what)
      BY <1>3 DEF UpToDate
    <3>2. QED
      BY <1>1, <3>1 DEF ContentFollowed
  <2>4. QED
    BY <2>1, <2>2, <2>3 DEF UpToDate
<1>4. QED
  BY <1>1, <1>2, <1>3 DEF Following

\* A step of one server leaves the others as they were.
LEMMA OthersStay ==
    ASSUME ServersFollowed, NEW s \in McpServer,
           \A t \in McpServer \ {s} :
              /\ Context(t)' = Context(t) /\ Callbacks(t)' = Callbacks(t) /\ LastTold(t)' = LastTold(t)
              /\ Teller(t)' = Teller(t) /\ configs'[t] = configs[t] /\ (t \in mcp'.crossed) = (t \in mcp.crossed),
           ServerOK(Context(s)', Callbacks(s)', LastTold(s)', Teller(s)', configs'[s], s \in mcp'.crossed)
    PROVE  ServersFollowed'
<1> SUFFICES ASSUME NEW t \in McpServer
             PROVE  ServerOK(Context(t)', Callbacks(t)', LastTold(t)', Teller(t)', configs'[t], t \in mcp'.crossed)
  BY DEF ServersFollowed
<1>1. CASE t # s
  BY <1>1 DEF ServersFollowed
<1>2. QED
  BY <1>1

\* A step of one server in the client: its context is another one, and its callbacks are others.
LEMMA ClientMoves ==
    ASSUME McpInv, NEW s \in McpServer, NEW ctx \in ServerContext \cup {None}, NEW calls \in SUBSET Call,
           NEW crashed \in BOOLEAN, nacos' \in NacosType, UNCHANGED <<mcp, configs>>,
           client' = [servers |-> [client.servers EXCEPT ![s] = ctx], calls |-> calls, crashed |-> crashed],
           \A d \in calls : CallOK(d),
           \A d \in calls \cup client.calls : d.server # s => d \in calls /\ d \in client.calls,
           (ctx = None) = (Context(s) = None), BeingListened(s) => ctx.told = None,
           ServerOK(ctx, {d \in calls : d.server = s},
                    IF BeingListened(s) THEN mcp.listening.content ELSE ctx.told, Teller(s), configs[s],
                    s \in mcp.crossed)
    PROVE  McpInv'
<1> DEFINE servers == [client.servers EXCEPT ![s] = ctx]
<1>1. client.servers \in [McpServer -> ServerContext \cup {None}]
  BY DEF McpInv, McpTyped
<1>2. /\ servers \in [McpServer -> ServerContext \cup {None}] /\ servers[s] = ctx
      /\ \A t \in McpServer \ {s} : servers[t] = client.servers[t]
  BY <1>1
<1> HIDE DEF servers
<1>3. client'.servers = servers /\ client'.calls = calls
  BY DEF servers
<1>4. client' \in [servers : [McpServer -> ServerContext \cup {None}], calls : SUBSET Call, crashed : BOOLEAN]
  BY <1>2 DEF servers
<1>5. McpTyped'
  BY <1>3, <1>4 DEF McpInv, McpTyped
<1>6. \A t \in McpServer : (Context(t)' = None) = (Context(t) = None)
  BY <1>2, <1>3 DEF Context
<1>7. McpPhases'
  <2>1. mcp.listening # None => mcp.listening.server \in McpServer
    BY DEF McpInv, McpTyped
  <2>2. mcp.listening # None =>
          Context(mcp.listening.server)' # None /\ Context(mcp.listening.server)'.told = None
    <3>1. CASE mcp.listening # None /\ mcp.listening.server = s
      BY <1>2, <1>3, <1>6, <3>1 DEF McpInv, McpPhases, BeingListened, Context
    <3>2. CASE mcp.listening # None /\ mcp.listening.server # s
      BY <1>2, <1>3, <2>1, <3>2 DEF McpInv, McpPhases, Context
    <3>3. QED
      BY <3>1, <3>2
  <2>3. \A t \in McpServer : Context(t)' # None <=> Context(t) # None
    BY <1>6
  <2>4. QED
    BY <2>2, <2>3 DEF McpInv, McpPhases
<1>8. McpCleansUp'
  BY <1>6 DEF McpInv, McpCleansUp
<1>9. \A t \in McpServer : Callbacks(t)' = {d \in calls : d.server = t}
  BY <1>3 DEF Callbacks
<1>10. \A t \in McpServer : (BeingListened(t)' <=> BeingListened(t)) /\ Teller(t)' = Teller(t)
  BY DEF BeingListened, Teller
<1>11. Context(s)' = ctx /\ LastTold(s)' = (IF BeingListened(s) THEN mcp.listening.content ELSE ctx.told)
  BY <1>2, <1>3, <1>10 DEF Context, LastTold
<1>12. ASSUME NEW t \in McpServer \ {s}
       PROVE  Context(t)' = Context(t) /\ Callbacks(t)' = Callbacks(t) /\ LastTold(t)' = LastTold(t)
  <2>1. Context(t)' = Context(t)
    BY <1>2, <1>3 DEF Context
  <2>2. Callbacks(t)' = Callbacks(t)
    BY <1>9 DEF Callbacks
  <2>3. QED
    BY <1>10, <2>1, <2>2 DEF LastTold
<1>13. ServersFollowed'
  <2>1. ServersFollowed
    BY DEF McpInv
  <2>2. ServerOK(Context(s)', Callbacks(s)', LastTold(s)', Teller(s)', configs'[s], s \in mcp'.crossed)
    BY <1>9, <1>10, <1>11
  <2>3. QED
    BY <1>10, <1>12, <2>1, <2>2, OthersStay
<1>14. QED
  BY <1>5, <1>7, <1>8, <1>13 DEF McpInv

\* What the invariant says of one server that has a context.
LEMMA ServerFacts ==
    ASSUME McpInv, NEW s \in McpServer
    PROVE  /\ client.servers \in [McpServer -> ServerContext \cup {None}] /\ client.calls \in SUBSET Call
           /\ client.crashed \in BOOLEAN /\ nacos \in NacosType
           /\ client = [servers |-> client.servers, calls |-> client.calls, crashed |-> client.crashed]
           /\ Context(s) \in ServerContext \cup {None} /\ Context(s) = client.servers[s]
           /\ \A c \in client.calls : CallOK(c) /\ c.server \in McpServer
           /\ SeesContext(Context(s), Callbacks(s))
           /\ Following(Context(s), Callbacks(s), LastTold(s), Teller(s))
           /\ Context(s) # None => Context(s) \in ServerContext
           /\ Context(s) # None /\ ~ Context(s).spoiled =>
                 s \in mcp.crossed \/ ContextWritten(Context(s), Callbacks(s), configs[s])
<1>1. /\ client.servers \in [McpServer -> ServerContext \cup {None}] /\ client.calls \in SUBSET Call
      /\ client.crashed \in BOOLEAN /\ nacos \in NacosType
      /\ client = [servers |-> client.servers, calls |-> client.calls, crashed |-> client.crashed]
  BY DEF McpInv, McpTyped
<1>2. \A c \in client.calls : CallOK(c) /\ c.server \in McpServer
  BY <1>1 DEF McpInv, McpTyped, Call
<1>3. ServerOK(Context(s), Callbacks(s), LastTold(s), Teller(s), configs[s], s \in mcp.crossed)
  BY DEF McpInv, ServersFollowed
<1>4. Context(s) \in ServerContext \cup {None} /\ Context(s) = client.servers[s]
  BY <1>1 DEF Context
<1>5. QED
  BY <1>1, <1>2, <1>3, <1>4 DEF ServerOK, Following

\* A callback that was just made.
LEMMA CallMade ==
    ASSUME NEW s \in McpServer, NEW what \in {"versions", "spec", "tools", "naming"},
           NEW of \in {None, "run"} \cup Version \cup Backend,
           NEW data \in Version \cup {Unread} \cup ServerSpec \cup Tools \cup Hosts
    PROVE  /\ NewCall(s, what, of, data) \in Call /\ NewCall(s, what, of, data).server = s
           /\ Tells(NewCall(s, what, of, data), what, of, data)
           /\ NewCall(s, what, of, data).left = {} /\ NewCall(s, what, of, data).step = "start"
           /\ NewCall(s, what, of, data).sees = "entry"
BY DEF NewCall, Call, Tells

\* A listener of a server is called back, and remembers what it told.
LEMMA NotifiedKeeps ==
    ASSUME McpInv, NEW s \in McpServer, Context(s) # None, NEW ctx \in ServerContext, NEW n \in Call, CallOK(n),
           n.server = s, n.step = "start",
           ctx.spoiled = Context(s).spoiled, ctx.service = Context(s).service,
           ctx.spec = None <=> Context(s).spec = None, ctx.tools = None <=> Context(s).tools = None,
           ctx.spec # None => ctx.spec.data = Context(s).spec.data,
           ctx.tools # None => ctx.tools.data = Context(s).tools.data,
           BeingListened(s) => ctx.told = None,
           Following(ctx, Callbacks(s) \cup {n},
                     IF BeingListened(s) THEN mcp.listening.content ELSE ctx.told, Teller(s)),
           client' = [servers |-> [client.servers EXCEPT ![s] = ctx], calls |-> client.calls \cup {n},
                      crashed |-> client.crashed],
           UNCHANGED <<nacos, mcp, configs>>
    PROVE  McpInv'
<1> DEFINE calls == client.calls \cup {n}
           told == IF BeingListened(s) THEN mcp.listening.content ELSE ctx.told
<1>1. {d \in calls : d.server = s} = Callbacks(s) \cup {n}
  BY DEF Callbacks
<1>2. calls \in SUBSET Call /\ (\A d \in calls : CallOK(d)) /\ client.crashed \in BOOLEAN /\ nacos' \in NacosType
  BY ServerFacts
<1>3. ~ ctx.spoiled => s \in mcp.crossed \/ ContextWritten(ctx, Callbacks(s) \cup {n}, configs[s])
  <2>1. ASSUME NEW picture, SamePicture(picture, Context(s)), ctx.spec # None
        PROVE  SamePicture(picture, ctx)
    BY <2>1 DEF SamePicture
  <2>2. ASSUME NEW config, SameConfigs(config, Context(s)), ctx.spec # None
        PROVE  SameConfigs(config, ctx)
    BY <2>2 DEF SameConfigs
  <2>3. QED
    BY <2>1, <2>2, ServerFacts DEF ContextWritten
<1>4. ServerOK(ctx, Callbacks(s) \cup {n}, told, Teller(s), configs[s], s \in mcp.crossed)
  BY <1>3 DEF ServerOK
<1>5. (ctx = None) = (Context(s) = None)
  BY NoneIsNoRecord
<1> HIDE DEF calls, told
<1>6. \A d \in calls \cup client.calls : d.server # s => d \in calls /\ d \in client.calls
  BY DEF calls
<1>7. ctx \in ServerContext \cup {None}
  OBVIOUS
<1>8. UNCHANGED <<mcp, configs>>
  OBVIOUS
<1>9. ServerOK(ctx, {d \in calls : d.server = s}, told, Teller(s), configs[s], s \in mcp.crossed)
  BY <1>1, <1>4
<1>10. client' = [servers |-> [client.servers EXCEPT ![s] = ctx], calls |-> calls, crashed |-> client.crashed]
  BY DEF calls
<1>11. QED
  BY <1>2, <1>5, <1>6, <1>7, <1>8, <1>9, <1>10, ClientMoves DEF told

\* A callback begins: what it was told is what the listener was told last.
LEMMA NotifiesKeepsMcp == ASSUME McpInv, NEW s \in McpServer, Notifies(s) PROVE McpInv'
<1> DEFINE ctx == Context(s)
<1>1. ctx \in ServerContext /\ ctx # None /\ ctx = client.servers[s]
  BY ServerFacts DEF Notifies
<1>2. ctx.told # None => ~ BeingListened(s) /\ Teller(s) = None /\ LastTold(s) = ctx.told
  BY DEF McpInv, McpPhases, BeingListened, Teller, LastTold
<1>3. UNCHANGED <<nacos, mcp, configs>>
  BY DEF Notifies
<1>4. Following(ctx, Callbacks(s), LastTold(s), Teller(s))
  BY ServerFacts
<1>5. client = [servers |-> client.servers, calls |-> client.calls, crashed |-> client.crashed]
      /\ client.servers \in [McpServer -> ServerContext \cup {None}]
  BY ServerFacts
<1>6. BeingListened(s) => ctx.told = None
  BY <1>2
<1>7. LastTold(s) = IF BeingListened(s) THEN mcp.listening.content ELSE ctx.told
  BY DEF LastTold
<1>8. nacos \in NacosType
  BY ServerFacts
<1>9. CASE /\ ctx.told # None
           /\ CallsBack(NewCall(s, "versions", None, nacos.latest[s]),
                        [client EXCEPT !.servers[s].told = nacos.latest[s]])
  <2> DEFINE latest == nacos.latest[s]
             n == NewCall(s, "versions", None, latest)
             new == [ctx EXCEPT !.told = latest]
  <2>1. latest \in Version
    BY <1>8 DEF NacosType
  <2>2. client' = [servers |-> [client.servers EXCEPT ![s] = new], calls |-> client.calls \cup {n},
                   crashed |-> client.crashed]
    BY <1>1, <1>5, <1>9 DEF CallsBack
  <2>3. /\ n \in Call /\ n.server = s /\ Tells(n, "versions", None, latest) /\ n.left = {} /\ n.step = "start"
        /\ n.sees = "entry"
    BY <2>1, CallMade
  <2> HIDE DEF latest, n
  <2>4. CallOK(n)
    BY <2>1, <2>3 DEF CallOK, Tells
  <2>5. /\ new \in ServerContext /\ new.spoiled = ctx.spoiled /\ new.service = ctx.service
        /\ new.spec = ctx.spec /\ new.tools = ctx.tools /\ new.told = latest
    BY <1>1, <2>1 DEF ServerContext
  <2>6. Following(new, Callbacks(s) \cup {n}, latest, Teller(s))
    BY <1>1, <1>2, <1>4, <1>9, <2>3, <2>5, VersionNotified
  <2> HIDE DEF new
  <2>7. ~ BeingListened(s)
    BY <1>2, <1>9
  <2>8. QED
    BY <1>1, <1>3, <2>2, <2>3, <2>4, <2>5, <2>6, <2>7, NotifiedKeeps
<1>10. CASE /\ ctx.spec # None
            /\ CallsBack(NewCall(s, "spec", ctx.spec.version, nacos.spec[s][ctx.spec.version]),
                         [client EXCEPT !.servers[s].spec.told = nacos.spec[s][ctx.spec.version]])
  <2> DEFINE v == ctx.spec.version
             data == nacos.spec[s][v]
             n == NewCall(s, "spec", v, data)
             doc == [ctx.spec EXCEPT !.told = data]
             new == [ctx EXCEPT !.spec = doc]
  <2>1. ctx.spec \in SpecDocument
    BY <1>1, <1>10 DEF ServerContext
  <2>2. v \in Version /\ data \in ServerSpec
    BY <1>8, <2>1 DEF NacosType, SpecDocument
  <2>3. client' = [servers |-> [client.servers EXCEPT ![s] = new], calls |-> client.calls \cup {n},
                   crashed |-> client.crashed]
    BY <1>1, <1>5, <1>10 DEF CallsBack
  <2>4. /\ n \in Call /\ n.server = s /\ Tells(n, "spec", v, data) /\ n.left = {} /\ n.step = "start"
        /\ n.sees = "entry"
    BY <2>2, CallMade
  <2> HIDE DEF data, n
  <2>5. CallOK(n)
    BY <2>2, <2>4 DEF CallOK, Tells
  <2>6. doc \in SpecDocument /\ doc.version = v /\ doc.data = ctx.spec.data /\ doc.told = data /\ doc # None
    BY <2>1, <2>2, NoneIsNoRecord DEF SpecDocument
  <2> HIDE DEF doc, v
  <2>7. /\ new \in ServerContext /\ new.spoiled = ctx.spoiled /\ new.service = ctx.service
        /\ new.version = ctx.version /\ new.subscribed = ctx.subscribed /\ new.callbackRef = ctx.callbackRef
        /\ new.spec = doc /\ new.tools = ctx.tools /\ new.told = ctx.told
    BY <1>1, <2>6 DEF ServerContext
  <2> HIDE DEF new
  <2>8. Following(new, Callbacks(s) \cup {n}, LastTold(s), Teller(s))
    <3>1. ctx["spec"].version = v /\ ctx["spec"] # None /\ ctx["spec"].data = ctx.spec.data
      BY <1>10 DEF v
    <3>2. new["tools"] = ctx["tools"] /\ new["spec"] = doc
      BY <2>7
    <3>3. Tells(n, "spec", ctx["spec"].version, new["spec"].told)
      BY <2>4, <2>6, <3>1, <3>2
    <3>4. new["spec"] # None /\ new["spec"].version = ctx["spec"].version /\ new["spec"].data = ctx["spec"].data
      BY <2>6, <3>1, <3>2
    <3>5. {"spec", "tools"} = {"spec", "tools"} /\ "spec" # "tools"
      OBVIOUS
    <3> HIDE DEF ctx
    <3>6. QED
      BY <1>1, <1>4, <2>7, <3>1, <3>2, <3>3, <3>4, <3>5, DocumentNotified
  <2>9. /\ new.spec = None <=> ctx.spec = None
        /\ new.tools = None <=> ctx.tools = None
        /\ new.spec # None => new.spec.data = ctx.spec.data
        /\ new.tools # None => new.tools.data = ctx.tools.data
    BY <1>10, <2>6, <2>7
  <2>10. Following(new, Callbacks(s) \cup {n}, IF BeingListened(s) THEN mcp.listening.content ELSE new.told, Teller(s))
    BY <1>7, <2>7, <2>8
  <2>11. QED
    BY <1>1, <1>3, <1>6, <2>3, <2>4, <2>5, <2>7, <2>9, <2>10, NotifiedKeeps
<1>11. CASE /\ ctx.tools # None
            /\ CallsBack(NewCall(s, "tools", ctx.tools.version, nacos.tools[s][ctx.tools.version]),
                         [client EXCEPT !.servers[s].tools.told = nacos.tools[s][ctx.tools.version]])
  <2> DEFINE v == ctx.tools.version
             data == nacos.tools[s][v]
             n == NewCall(s, "tools", v, data)
             doc == [ctx.tools EXCEPT !.told = data]
             new == [ctx EXCEPT !.tools = doc]
  <2>1. ctx.tools \in ToolsDocument
    BY <1>1, <1>11 DEF ServerContext
  <2>2. v \in Version /\ data \in Tools
    BY <1>8, <2>1 DEF NacosType, ToolsDocument
  <2>3. client' = [servers |-> [client.servers EXCEPT ![s] = new], calls |-> client.calls \cup {n},
                   crashed |-> client.crashed]
    BY <1>1, <1>5, <1>11 DEF CallsBack
  <2>4. /\ n \in Call /\ n.server = s /\ Tells(n, "tools", v, data) /\ n.left = {} /\ n.step = "start"
        /\ n.sees = "entry"
    BY <2>2, CallMade
  <2> HIDE DEF data, n
  <2>5. CallOK(n)
    BY <2>2, <2>4 DEF CallOK, Tells
  <2>6. doc \in ToolsDocument /\ doc.version = v /\ doc.data = ctx.tools.data /\ doc.told = data /\ doc # None
    BY <2>1, <2>2, NoneIsNoRecord DEF ToolsDocument
  <2> HIDE DEF doc, v
  <2>7. /\ new \in ServerContext /\ new.spoiled = ctx.spoiled /\ new.service = ctx.service
        /\ new.version = ctx.version /\ new.subscribed = ctx.subscribed /\ new.callbackRef = ctx.callbackRef
        /\ new.tools = doc /\ new.spec = ctx.spec /\ new.told = ctx.told
    BY <1>1, <2>6 DEF ServerContext
  <2> HIDE DEF new
  <2>8. Following(new, Callbacks(s) \cup {n}, LastTold(s), Teller(s))
    <3>1. ctx["tools"].version = v /\ ctx["tools"] # None /\ ctx["tools"].data = ctx.tools.data
      BY <1>11 DEF v
    <3>2. new["spec"] = ctx["spec"] /\ new["tools"] = doc
      BY <2>7
    <3>3. Tells(n, "tools", ctx["tools"].version, new["tools"].told)
      BY <2>4, <2>6, <3>1, <3>2
    <3>4. new["tools"] # None /\ new["tools"].version = ctx["tools"].version /\ new["tools"].data = ctx["tools"].data
      BY <2>6, <3>1, <3>2
    <3>5. {"tools", "spec"} = {"spec", "tools"} /\ "tools" # "spec"
      OBVIOUS
    <3> HIDE DEF ctx
    <3>6. QED
      BY <1>1, <1>4, <2>7, <3>1, <3>2, <3>3, <3>4, <3>5, DocumentNotified
  <2>9. /\ new.spec = None <=> ctx.spec = None
        /\ new.tools = None <=> ctx.tools = None
        /\ new.spec # None => new.spec.data = ctx.spec.data
        /\ new.tools # None => new.tools.data = ctx.tools.data
    BY <1>11, <2>6, <2>7
  <2>10. Following(new, Callbacks(s) \cup {n}, IF BeingListened(s) THEN mcp.listening.content ELSE new.told, Teller(s))
    BY <1>7, <2>7, <2>8
  <2>11. QED
    BY <1>1, <1>3, <1>6, <2>3, <2>4, <2>5, <2>7, <2>9, <2>10, NotifiedKeeps
<1>12. ASSUME NEW b \in Backend, ctx.subscribed[b] # None,
              CallsBack(NewCall(s, "naming", b, nacos.hosts[b]),
                        [client EXCEPT !.servers[s].subscribed[b] = nacos.hosts[b]])
       PROVE  McpInv'
  <2> DEFINE hosts == nacos.hosts[b]
             n == NewCall(s, "naming", b, hosts)
             sub == [ctx.subscribed EXCEPT ![b] = hosts]
             new == [ctx EXCEPT !.subscribed = sub]
  <2>1. hosts \in Hosts
    BY <1>8 DEF NacosType
  <2>2. client' = [servers |-> [client.servers EXCEPT ![s] = new], calls |-> client.calls \cup {n},
                   crashed |-> client.crashed]
    BY <1>1, <1>5, <1>12 DEF CallsBack
  <2>3. /\ n \in Call /\ n.server = s /\ Tells(n, "naming", b, hosts) /\ n.left = {} /\ n.step = "start"
        /\ n.sees = "entry"
    BY <2>1, CallMade
  <2> HIDE DEF hosts, n
  <2>4. CallOK(n)
    BY <2>1, <2>3 DEF CallOK, Tells
  <2>5. sub \in [Backend -> Hosts \cup {None}]
    BY <1>1, <2>1 DEF ServerContext
  <2> HIDE DEF sub
  <2>6. /\ new \in ServerContext /\ new.spoiled = ctx.spoiled /\ new.service = ctx.service
        /\ new.spec = ctx.spec /\ new.tools = ctx.tools /\ new.told = ctx.told
    BY <1>1, <2>5 DEF ServerContext
  <2>7. Following(new, Callbacks(s) \cup {n}, LastTold(s), Teller(s))
    BY <1>1, <1>4, <1>12, <2>1, <2>3, <2>6, EndpointsNotified DEF sub
  <2> HIDE DEF new
  <2>8. QED
    BY <1>1, <1>3, <1>6, <1>7, <2>2, <2>3, <2>4, <2>6, <2>7, NotifiedKeeps
<1>13. QED
  BY <1>9, <1>10, <1>11, <1>12 DEF Notifies

\* A step of a callback.
LEMMA CallbackMoves ==
    ASSUME McpInv, NEW s \in McpServer, NEW ctx \in ServerContext \cup {None}, NEW calls \in SUBSET Call,
           NEW crashed \in BOOLEAN, nacos' \in NacosType, UNCHANGED <<mcp, configs>>,
           client' = [servers |-> [client.servers EXCEPT ![s] = ctx], calls |-> calls, crashed |-> crashed],
           \A d \in calls : CallOK(d),
           \A d \in calls \cup client.calls : d.server # s => d \in calls /\ d \in client.calls,
           (ctx = None) = (Context(s) = None), ctx.told = Context(s).told,
           NEW here, here = {d \in calls : d.server = s},
           Following(ctx, here, LastTold(s), Teller(s)),
           ctx # None /\ ~ ctx.spoiled => s \in mcp.crossed \/ ContextWritten(ctx, here, configs[s])
    PROVE  McpInv'
<1>1. BeingListened(s) => ctx.told = None
  BY DEF McpInv, McpPhases, BeingListened
<1>2. LastTold(s) = IF BeingListened(s) THEN mcp.listening.content ELSE ctx.told
  BY DEF LastTold
<1>3. ServerOK(ctx, here, IF BeingListened(s) THEN mcp.listening.content ELSE ctx.told, Teller(s), configs[s],
               s \in mcp.crossed)
  BY <1>2 DEF ServerOK
<1>4. UNCHANGED <<mcp, configs>>
  OBVIOUS
<1>5. QED
  BY <1>1, <1>3, <1>4, ClientMoves, SMTT(30)

\* What a callback that goes on is, and the callbacks of its server.
LEMMA HereAfter ==
    ASSUME NEW s, NEW c, c.server = s
    PROVE  /\ {d \in client.calls \ {c} : d.server = s} = Callbacks(s) \ {c}
           /\ Overtakes(c) <=> Overtaken(Callbacks(s), c)
           /\ \A on : on.server = s => {d \in (client.calls \ {c}) \cup {on} : d.server = s} = (Callbacks(s) \ {c}) \cup {on}
BY DEF Callbacks, Overtakes, Overtaken

\* What a callback that comes late leaves alone.
LEMMA LateFields ==
    ASSUME NEW ctx \in ServerContext, NEW condition \in BOOLEAN
    PROVE  /\ Late(ctx, condition) \in ServerContext
           /\ Late(ctx, condition) = [ctx EXCEPT !.spoiled = Late(ctx, condition).spoiled]
           /\ Late(ctx, condition).version = ctx.version /\ Late(ctx, condition).told = ctx.told
           /\ Late(ctx, condition).spec = ctx.spec /\ Late(ctx, condition).tools = ctx.tools
           /\ Late(ctx, condition).service = ctx.service /\ Late(ctx, condition).subscribed = ctx.subscribed
           /\ Late(ctx, condition).callbackRef = ctx.callbackRef
           /\ ~ Late(ctx, condition).spoiled => ~ ctx.spoiled /\ ~ condition
<1> DEFINE b == ctx.spoiled \/ condition
           new == [ctx EXCEPT !.spoiled = b]
<1>1. b \in BOOLEAN /\ (~ b => ~ ctx.spoiled /\ ~ condition)
  BY DEF ServerContext
<1>2. Late(ctx, condition) = new
  BY DEF Late
<1> HIDE DEF b
<1>3. /\ new \in ServerContext /\ new.version = ctx.version /\ new.told = ctx.told
      /\ new.spec = ctx.spec /\ new.tools = ctx.tools
      /\ new.service = ctx.service /\ new.subscribed = ctx.subscribed
      /\ new.callbackRef = ctx.callbackRef /\ new.spoiled = b
  BY <1>1 DEF ServerContext
<1>4. new = [ctx EXCEPT !.spoiled = new.spoiled]
  BY <1>3
<1>5. QED
  BY <1>1, <1>2, <1>3, <1>4

\* The callback of the versions takes the new one, or comes late.
LEMMA VersionsKeepMcp == ASSUME McpInv, NEW c \in client.calls, VersionsChanged(c) PROVE McpInv'
<1> DEFINE s == c.server
           ctx == Context(s)
           late == c.sees = "nothing" \/ Overtakes(c)
           new == Late(ctx, late)
<1>1. s \in McpServer /\ c \in Call /\ CallOK(c) /\ c.what = "versions" /\ c.step = "start"
      /\ c.data \in Version \cup {Unread} /\ c \in Callbacks(s)
  BY DEF McpInv, McpTyped, VersionsChanged, CallOK, Call, Callbacks
<1>2. /\ client.servers \in [McpServer -> ServerContext \cup {None}] /\ client.calls \in SUBSET Call
      /\ client = [servers |-> client.servers, calls |-> client.calls, crashed |-> client.crashed]
      /\ ctx = client.servers[s] /\ ctx \in ServerContext \cup {None} /\ client.crashed \in BOOLEAN
      /\ Following(ctx, Callbacks(s), LastTold(s), Teller(s))
      /\ (ctx # None /\ ~ ctx.spoiled => s \in mcp.crossed \/ ContextWritten(ctx, Callbacks(s), configs[s]))
  BY <1>1, ServerFacts
<1>3. \A d \in client.calls : CallOK(d)
  BY <1>1, ServerFacts
<1>4. UNCHANGED <<mcp, configs>> /\ nacos' \in NacosType
  BY <1>1, ServerFacts DEF VersionsChanged
<1>5. \A d \in Callbacks(s) : CallOK(d)
  BY <1>3 DEF Callbacks
<1>6. /\ {d \in client.calls \ {c} : d.server = s} = Callbacks(s) \ {c}
      /\ Overtakes(c) <=> Overtaken(Callbacks(s), c)
  BY HereAfter
<1>7. CASE ctx = None
  <2>1. client' = [servers |-> [client.servers EXCEPT ![s] = ctx], calls |-> client.calls, crashed |-> TRUE]
    BY <1>1, <1>2, <1>7 DEF VersionsChanged
  <2>2. Callbacks(s) = {d \in client.calls : d.server = s}
    BY DEF Callbacks
  <2>3. QED
    BY <1>1, <1>2, <1>3, <1>4, <1>7, <2>1, <2>2, CallbackMoves
<1>8. CASE ctx # None /\ c.data \in {Unread, ctx.version}
  <2>1. client' = [servers |-> [client.servers EXCEPT ![s] = new], calls |-> client.calls \ {c},
                   crashed |-> client.crashed]
    BY <1>1, <1>2, <1>8 DEF VersionsChanged, Returned
  <2>2. /\ ctx \in ServerContext /\ new \in ServerContext /\ new = [ctx EXCEPT !.spoiled = new.spoiled]
        /\ new.told = ctx.told /\ (~ new.spoiled => ~ ctx.spoiled /\ ~ late)
        /\ new.spec = ctx.spec /\ new.tools = ctx.tools /\ new.service = ctx.service /\ new # None
    <3>1. late \in BOOLEAN /\ ctx \in ServerContext
      BY <1>2, <1>8
    <3> HIDE DEF late, ctx
    <3>2. QED
      BY <3>1, LateFields, NoneIsNoRecord
  <2> HIDE DEF new
  <2>3. Following(new, Callbacks(s) \ {c}, LastTold(s), Teller(s))
    BY <1>1, <1>2, <1>5, <1>6, <1>8, <2>2, VersionKnown
  <2>4. ~ new.spoiled => s \in mcp.crossed \/ ContextWritten(new, Callbacks(s) \ {c}, configs[s])
    <3>1. ~ new.spoiled => s \in mcp.crossed \/ ContextWritten(ctx, Callbacks(s), configs[s])
      BY <1>2, <1>8, <2>2
    <3>2. \A d \in Callbacks(s) : d \in Callbacks(s) \ {c} \/ d.step = "start"
      BY <1>1
    <3>3. QED
      BY <2>2, <3>1, <3>2, StillWritten
  <2>5. client.calls \ {c} \in SUBSET Call
    BY <1>2
  <2>6. \A d \in (client.calls \ {c}) \cup client.calls : d.server # s => d \in client.calls \ {c} /\ d \in client.calls
    OBVIOUS
  <2>7. (new = None) = (ctx = None) /\ new \in ServerContext \cup {None}
    BY <1>8, <2>2
  <2> HIDE DEF ctx, s
  <2>8. QED
    BY <1>1, <1>2, <1>3, <1>4, <1>6, <2>1, <2>2, <2>3, <2>4, <2>5, <2>6, <2>7, CallbackMoves DEF ctx
<1>9. CASE ctx # None /\ c.data \notin {Unread, ctx.version}
  <2> DEFINE ctx2 == [new EXCEPT !.version = c.data]
             on == [c EXCEPT !.sees = "entry", !.step = "documents", !.left = {"spec", "tools"}]
             calls == (client.calls \ {c}) \cup {on}
  <2>1. client' = [servers |-> [client.servers EXCEPT ![s] = ctx2], calls |-> calls, crashed |-> client.crashed]
    BY <1>1, <1>2, <1>9 DEF VersionsChanged, Replaced
  <2>2. /\ ctx \in ServerContext /\ new \in ServerContext /\ new = [ctx EXCEPT !.spoiled = new.spoiled]
        /\ new.told = ctx.told /\ (~ new.spoiled => ~ ctx.spoiled /\ ~ late) /\ new # None
    <3>1. late \in BOOLEAN /\ ctx \in ServerContext
      BY <1>2, <1>9
    <3> HIDE DEF late, ctx
    <3>2. QED
      BY <3>1, LateFields, NoneIsNoRecord
  <2> HIDE DEF new
  <2>3. c.data \in Version
    BY <1>1, <1>9
  <2>4. ctx2 \in ServerContext /\ ctx2.told = ctx.told /\ ctx2.spoiled = new.spoiled
    BY <2>2, <2>3 DEF ServerContext
  <2>5. ctx2 = [ctx EXCEPT !.spoiled = ctx2.spoiled, !.version = c.data]
    BY <2>2, <2>4
  <2>6. /\ on \in Call /\ on.server = s /\ on.what = "versions" /\ on.of = c.of /\ on.data = c.data
        /\ on.sees = "entry" /\ on.step = "documents" /\ on.left = {"spec", "tools"}
    BY <1>1 DEF Call
  <2>7. CallOK(on)
    BY <1>1, <2>3, <2>6 DEF CallOK
  <2> HIDE DEF ctx2, on
  <2>8. Following(ctx2, (Callbacks(s) \ {c}) \cup {on}, LastTold(s), Teller(s))
    BY <1>1, <1>2, <1>5, <1>6, <1>9, <2>2, <2>3, <2>4, <2>5, <2>6, VersionTold
  <2>9. {d \in calls : d.server = s} = (Callbacks(s) \ {c}) \cup {on}
    BY <2>6, HereAfter
  <2>10. ContextWritten(ctx2, (Callbacks(s) \ {c}) \cup {on}, configs[s])
    BY <2>6 DEF ContextWritten
  <2>11. calls \in SUBSET Call /\ \A d \in calls : CallOK(d)
    BY <1>2, <1>3, <2>6, <2>7
  <2>12. \A d \in calls \cup client.calls : d.server # s => d \in calls /\ d \in client.calls
    BY <2>6
  <2>13. (ctx2 = None) = (ctx = None) /\ ctx2 \in ServerContext \cup {None}
    BY <1>9, <2>4, NoneIsNoRecord
  <2> HIDE DEF ctx, s, calls
  <2>14. QED
    BY <1>1, <1>2, <1>4, <2>1, <2>4, <2>8, <2>9, <2>10, <2>11, <2>12, <2>13, CallbackMoves DEF ctx
<1>10. QED
  BY <1>7, <1>8, <1>9

\* What ListenToConfig for a document leaves in a context.
LEMMA ListenedGives ==
    ASSUME NEW n \in NacosType, NEW ctx \in ServerContext, NEW s \in McpServer, NEW v \in Version,
           NEW what \in {"spec", "tools"}, NEW other \in {"spec", "tools"}, what # other,
           NEW x \in Listened(Going(n, ctx), s, what, v)
    PROVE  /\ x.n \in NacosType /\ x.ctx \in ServerContext
           /\ x.ctx.version = ctx.version /\ x.ctx.told = ctx.told /\ x.ctx[other] = ctx[other]
           /\ ctx.callbackRef # None => x.ctx.callbackRef # None
           /\ (\E b \in Backend : x.ctx.subscribed[b] # None) =>
                  x.ctx.callbackRef # None \/ \E b \in Backend : ctx.subscribed[b] # None
           /\ ctx.spoiled => x.ctx.spoiled
           /\ ctx[what] # None => x.ctx[what] # None
           /\ ~ x.ctx.spoiled =>
                 /\ x.ctx[what] # None /\ x.ctx[what].version = v /\ x.ctx[what].data = x.ctx[what].told
                 /\ what = "tools" => x.ctx.service = ctx.service /\ x.ctx.subscribed = ctx.subscribed
                 /\ what = "spec" => BackendRead(ctx, x.ctx, x.ctx.spec.data.ref)
<1> DEFINE x0 == Going(n, ctx)
           data == Document(n, s, what, v)
           new == [version |-> v, data |-> data, told |-> data, on |-> TRUE]
<1>1. x0.n = n /\ x0.ctx = ctx
  BY DEF Going
<1>2. /\ what = "spec" => data \in ServerSpec /\ data.ref \in Backend
      /\ what = "tools" => data \in Tools
      /\ what \in {"spec", "tools"}
  <2>1. what \in {"spec", "tools"}
    OBVIOUS
  <2>2. n.spec[s][v] \in ServerSpec /\ n.tools[s][v] \in Tools
    BY DEF NacosType
  <2>3. CASE what = "spec"
    BY <2>2, <2>3 DEF Document, ServerSpec
  <2>4. CASE what = "tools"
    BY <2>2, <2>4 DEF Document
  <2>5. QED
    BY <2>1, <2>3, <2>4
<1> HIDE DEF x0, data
<1>3. /\ what = "spec" => new \in SpecDocument /\ new # None /\ new.data.ref = data.ref
      /\ what = "tools" => new \in ToolsDocument /\ new # None
      /\ new.version = v /\ new.data = data /\ new.told = data
  <2>1. new.version = v /\ new.data = data /\ new.told = data
    OBVIOUS
  <2>2. what = "spec" => new \in SpecDocument
    BY <1>2 DEF SpecDocument
  <2>3. what = "tools" => new \in ToolsDocument
    BY <1>2 DEF ToolsDocument
  <2> HIDE DEF new
  <2>4. QED
    BY <2>1, <2>2, <2>3, NoneIsNoRecord
<1> HIDE DEF new
<1>4. CASE \E y \in Read(x0, what, data) : x = [y EXCEPT !.ctx[what] = new]
  <2>1. PICK y \in Read(x0, what, data) : x = [y EXCEPT !.ctx[what] = new]
    BY <1>4
  <2>2. CASE what = "spec"
    <3>1. y \in Refreshed(Going(n, ctx), data.ref)
      BY <2>1, <2>2 DEF Read, x0
    <3>2. /\ y.n \in NacosType /\ y.ctx \in ServerContext
          /\ y.ctx.version = ctx.version /\ y.ctx.told = ctx.told
          /\ y.ctx.spec = ctx.spec /\ y.ctx.tools = ctx.tools
          /\ BackendRead(ctx, y.ctx, data.ref) /\ y = [n |-> y.n, ctx |-> y.ctx]
      BY <1>2, <2>2, <3>1, RefreshedGives
    <3> DEFINE c2 == [y.ctx EXCEPT !.spec = new]
    <3>3. /\ c2 \in ServerContext /\ c2.version = ctx.version /\ c2.told = ctx.told /\ c2.spec = new
          /\ c2.tools = ctx.tools /\ c2.service = y.ctx.service /\ c2.subscribed = y.ctx.subscribed
          /\ c2.callbackRef = y.ctx.callbackRef /\ c2.spoiled = y.ctx.spoiled
      BY <1>3, <2>2, <3>2 DEF ServerContext
    <3>4. x = [y EXCEPT !.ctx = c2]
      BY <2>1, <2>2
    <3>5. x.n = y.n /\ x.ctx = c2
      BY <3>2, <3>4
    <3> HIDE DEF c2
    <3>6. BackendRead(ctx, c2, c2.spec.data.ref)
      BY <1>3, <2>2, <3>2, <3>3 DEF BackendRead
    <3>7. x.ctx["tools"] = ctx["tools"] /\ x.ctx["spec"] = new /\ other = "tools"
      BY <2>2, <3>3, <3>5
    <3>8. QED
      BY <1>3, <2>2, <3>2, <3>3, <3>5, <3>6, <3>7 DEF BackendRead
  <2>3. CASE what = "tools"
    <3>1. y = x0
      BY <2>1, <2>3 DEF Read
    <3> DEFINE c2 == [ctx EXCEPT !.tools = new]
    <3>2. x = [n |-> n, ctx |-> c2]
      BY <2>1, <2>3, <3>1 DEF x0, Going
    <3>3. /\ c2 \in ServerContext /\ c2.version = ctx.version /\ c2.told = ctx.told /\ c2.tools = new
          /\ c2.spec = ctx.spec /\ c2.service = ctx.service /\ c2.subscribed = ctx.subscribed
          /\ c2.callbackRef = ctx.callbackRef /\ c2.spoiled = ctx.spoiled
      BY <1>3, <2>3 DEF ServerContext
    <3>4. x.n = n /\ x.ctx = c2
      BY <3>2
    <3> HIDE DEF c2
    <3>5. x.ctx["spec"] = ctx["spec"] /\ x.ctx["tools"] = new /\ other = "spec"
      BY <2>3, <3>3, <3>4
    <3>6. QED
      BY <1>3, <2>3, <3>3, <3>4, <3>5
  <2>4. QED
    BY <1>2, <2>2, <2>3
<1>5. CASE x = Failing(n, IF ctx[what] = None THEN ctx ELSE [ctx EXCEPT ![what].on = FALSE])
  <2> DEFINE c1 == IF ctx[what] = None THEN ctx ELSE [ctx EXCEPT ![what].on = FALSE]
             c2 == [c1 EXCEPT !.spoiled = TRUE]
  <2>1. /\ c1 \in ServerContext /\ c1.version = ctx.version /\ c1.told = ctx.told
        /\ c1.subscribed = ctx.subscribed /\ c1.callbackRef = ctx.callbackRef /\ c1[other] = ctx[other]
        /\ ctx[what] # None => c1[what] # None
    <3>1. CASE ctx[what] = None
      BY <3>1
    <3>2. CASE what = "spec" /\ ctx[what] # None
      <4> DEFINE doc == [ctx.spec EXCEPT !.on = FALSE]
      <4>1. doc \in SpecDocument /\ doc # None
        <5>1. ctx.spec \in SpecDocument
          BY <3>2 DEF ServerContext
        <5>2. doc \in SpecDocument
          BY <5>1 DEF SpecDocument
        <5>3. QED
          BY <5>2, NoneIsNoRecord
      <4>2. c1 = [ctx EXCEPT !.spec = doc]
        BY <3>2
      <4> HIDE DEF doc, c1
      <4>3. other = "tools"
        BY <3>2
      <4>4. QED
        BY <4>1, <4>2, <4>3 DEF ServerContext
    <3>3. CASE what = "tools" /\ ctx[what] # None
      <4> DEFINE doc == [ctx.tools EXCEPT !.on = FALSE]
      <4>1. doc \in ToolsDocument /\ doc # None
        <5>1. ctx.tools \in ToolsDocument
          BY <3>3 DEF ServerContext
        <5>2. doc \in ToolsDocument
          BY <5>1 DEF ToolsDocument
        <5>3. QED
          BY <5>2, NoneIsNoRecord
      <4>2. c1 = [ctx EXCEPT !.tools = doc]
        BY <3>3
      <4> HIDE DEF doc, c1
      <4>3. other = "spec"
        BY <3>3
      <4>4. QED
        BY <4>1, <4>2, <4>3 DEF ServerContext
    <3>4. QED
      BY <1>2, <3>1, <3>2, <3>3
  <2> HIDE DEF c1
  <2>2. /\ c2 \in ServerContext /\ c2.version = ctx.version /\ c2.told = ctx.told
        /\ c2.subscribed = ctx.subscribed /\ c2.callbackRef = ctx.callbackRef /\ c2.spoiled
        /\ c2.spec = c1.spec /\ c2.tools = c1.tools
    BY <2>1 DEF ServerContext
  <2>3. x = [n |-> Counted(n), ctx |-> c2]
    BY <1>5 DEF Failing, c1
  <2> HIDE DEF c2
  <2>4. c2[other] = c1[other] /\ c2[what] = c1[what]
    BY <1>2, <2>2
  <2>5. QED
    BY <2>1, <2>2, <2>3, <2>4, CountedType
<1>6. QED
  BY <1>1, <1>4, <1>5 DEF Listened, x0, new, data

\* The callbacks of a server whose document is replaced.
LEMMA OutdatingGives ==
    ASSUME NEW calls \in SUBSET Call, \A d \in calls : CallOK(d), NEW s, NEW what \in {"spec", "tools"}
    PROVE  /\ Outdating(calls, s, what) \in SUBSET Call
           /\ \A e \in Outdating(calls, s, what) : CallOK(e)
           /\ \A e \in Outdating(calls, s, what) :
                 \/ e \in calls /\ ~ (e.server = s /\ e.what = what /\ e.sees = "entry")
                 \/ e.server = s /\ e.what = what /\ e.sees = "context" /\ e.step # "documents"
                    /\ \E d \in calls : d.server = s /\ d.what = what /\ d.sees = "entry"
           /\ \A d \in calls : (d.server = s /\ d.what = what) \/ d \in Outdating(calls, s, what)
<1> DEFINE Older(d) == [d EXCEPT !.sees = "context"]
<1>1. ASSUME NEW d \in calls, d.server = s, d.what = what
      PROVE  /\ Older(d) \in Call /\ CallOK(Older(d)) /\ Older(d).server = s /\ Older(d).what = what
             /\ Older(d).sees = "context" /\ Older(d).step # "documents"
  <2> DEFINE e == Older(d)
  <2>1. d \in Call /\ CallOK(d)
    OBVIOUS
  <2>2. /\ e \in Call /\ e.server = d.server /\ e.what = d.what /\ e.of = d.of /\ e.data = d.data
        /\ e.sees = "context" /\ e.step = d.step /\ e.left = d.left /\ e.picture = d.picture
    BY <2>1 DEF Call
  <2> HIDE DEF e
  <2>3. CallOK(e) /\ e.step # "documents"
    BY <1>1, <2>1, <2>2 DEF CallOK
  <2>4. QED
    BY <1>1, <2>2, <2>3 DEF e
<1>2. Outdating(calls, s, what) =
        {IF d.server = s /\ d.what = what /\ d.sees = "entry" THEN Older(d) ELSE d : d \in calls}
  BY DEF Outdating
<1> HIDE DEF Older
<1>3. QED
  BY <1>1, <1>2

\* The listeners of the documents are moved to the new version, one by one.
LEMMA DocumentsKeepMcp ==
    ASSUME McpInv, NEW c \in client.calls, NEW what \in c.left, OnServerVersionChanged(c, what)
    PROVE  McpInv'
<1> DEFINE s == c.server
           ctx == Context(s)
           on == [c EXCEPT !.left = @ \ {what}, !.step = IF c.left = {what} THEN "trigger" ELSE @]
<1>1. s \in McpServer /\ c \in Call /\ CallOK(c) /\ c.step = "documents" /\ c.what = "versions"
      /\ c.sees \in {"entry", "nothing"} /\ c.data \in Version /\ c \in Callbacks(s) /\ what \in {"spec", "tools"}
  BY DEF McpInv, McpTyped, OnServerVersionChanged, CallOK, Call, Callbacks
<1>2. /\ client.servers \in [McpServer -> ServerContext \cup {None}] /\ client.calls \in SUBSET Call
      /\ client = [servers |-> client.servers, calls |-> client.calls, crashed |-> client.crashed]
      /\ ctx = client.servers[s] /\ ctx \in ServerContext \cup {None} /\ client.crashed \in BOOLEAN
      /\ Following(ctx, Callbacks(s), LastTold(s), Teller(s)) /\ nacos \in NacosType
  BY <1>1, ServerFacts
<1>3. \A d \in client.calls : CallOK(d)
  BY <1>1, ServerFacts
<1>4. UNCHANGED <<mcp, configs>>
  BY DEF OnServerVersionChanged
<1>5. \A d \in Callbacks(s) : CallOK(d)
  BY <1>3 DEF Callbacks
<1>6. /\ on \in Call /\ on.server = s /\ on.what = c.what /\ on.of = c.of /\ on.data = c.data /\ on.sees = c.sees
      /\ on.left = c.left \ {what} /\ on.step \in {"documents", "trigger"}
      /\ (on.step = "documents" => c.left # {what}) /\ (on.step = "trigger" => c.left = {what})
  <2> DEFINE left == c.left \ {what}
             step == IF c.left = {what} THEN "trigger" ELSE "documents"
  <2>1. left \in SUBSET {"spec", "tools"} /\ step \in {"documents", "trigger"}
        /\ (step = "documents" => c.left # {what}) /\ (step = "trigger" => c.left = {what})
    BY <1>1 DEF Call
  <2>2. on = [c EXCEPT !.left = left, !.step = step]
    BY <1>1
  <2> HIDE DEF on, left, step
  <2>3. on \in Call /\ on.server = s /\ on.what = c.what /\ on.of = c.of /\ on.data = c.data /\ on.sees = c.sees
        /\ on.left = left /\ on.step = step
    BY <1>1, <2>1, <2>2 DEF Call
  <2>4. QED
    BY <2>1, <2>3 DEF left
<1> HIDE DEF on
<1>7. CallOK(on)
  BY <1>1, <1>6 DEF CallOK
<1>8. CASE c.sees = "nothing"
  <2> DEFINE calls == (client.calls \ {c}) \cup {on}
  <2>1. client' = Replaced(client, c, on) /\ UNCHANGED nacos
    BY <1>8 DEF OnServerVersionChanged, on
  <2>2. client' = [servers |-> [client.servers EXCEPT ![s] = ctx], calls |-> calls, crashed |-> client.crashed]
    BY <1>1, <1>2, <2>1 DEF Replaced
  <2>3. {d \in calls : d.server = s} = (Callbacks(s) \ {c}) \cup {on}
    BY <1>6, HereAfter
  <2> DEFINE here == (Callbacks(s) \ {c}) \cup {on}
  <2>4. Following(ctx, here, LastTold(s), Teller(s))
    <3>1. \A e \in here : e \in Callbacks(s) \/ \E d \in Callbacks(s) :
               /\ e.what = d.what /\ e.of = d.of /\ e.data = d.data /\ e.sees = d.sees
               /\ e.sees = "nothing" \/ e.step \in {"trigger", "write"}
      BY <1>1, <1>6, <1>8
    <3>2. \A e \in Callbacks(s) : e \in here \/ e.sees = "nothing" \/ e.step \in {"trigger", "write"}
      BY <1>8
    <3> HIDE DEF here, ctx
    <3>3. QED
      BY <1>2, <3>1, <3>2, StepAside
  <2>5. ContextWritten(ctx, here, configs[s])
    BY <1>6 DEF ContextWritten
  <2>6. calls \in SUBSET Call /\ (\A d \in calls : CallOK(d)) /\ nacos' \in NacosType
    BY <1>2, <1>3, <1>6, <1>7, <2>1
  <2>7. \A d \in calls \cup client.calls : d.server # s => d \in calls /\ d \in client.calls
    BY <1>6
  <2> HIDE DEF ctx, s, calls, here
  <2>8. here = {d \in calls : d.server = s}
    BY <2>3 DEF here
  <2>9. QED
    BY <1>1, <1>2, <1>4, <2>2, <2>4, <2>5, <2>6, <2>7, <2>8, CallbackMoves DEF ctx
<1>9. CASE c.sees # "nothing"
  <2>1. ctx # None /\ ctx \in ServerContext /\ c.sees = "entry"
    BY <1>1, <1>2, <1>9 DEF Following, SeesContext
  <2>2. PICK x \in Listened(Going(nacos, ctx), s, what, c.data) :
           /\ nacos' = x.n
           /\ client' = [client EXCEPT !.servers[s] = x.ctx, !.calls = Outdating(@ \ {c}, s, what) \cup {on}]
    BY <1>9 DEF OnServerVersionChanged, on
  <2>3. PICK other : {what, other} = {"spec", "tools"} /\ what # other
    <3>1. CASE what = "spec"
      <4> WITNESS "tools"
      <4>1. QED
        BY <3>1
    <3>2. CASE what = "tools"
      <4> WITNESS "spec"
      <4>1. QED
        BY <3>2
    <3>3. QED
      BY <1>1, <3>1, <3>2
  <2> DEFINE new == x.ctx
             calls == Outdating(client.calls \ {c}, s, what) \cup {on}
             here == {d \in calls : d.server = s}
  <2>4. /\ x.n \in NacosType /\ new \in ServerContext
        /\ new.version = ctx.version /\ new.told = ctx.told /\ new[other] = ctx[other]
        /\ ctx.callbackRef # None => new.callbackRef # None
        /\ (\E b \in Backend : new.subscribed[b] # None) =>
                  new.callbackRef # None \/ \E b \in Backend : ctx.subscribed[b] # None
        /\ ctx.spoiled => new.spoiled
        /\ ctx[what] # None => new[what] # None
        /\ ~ new.spoiled =>
                 /\ new[what] # None /\ new[what].version = c.data /\ new[what].data = new[what].told
                 /\ what = "tools" => new.service = ctx.service /\ new.subscribed = ctx.subscribed
                 /\ what = "spec" => BackendRead(ctx, new, new.spec.data.ref)
    <3> DEFINE v == c.data
    <3>1. nacos \in NacosType /\ ctx \in ServerContext /\ s \in McpServer /\ v \in Version
          /\ what \in {"spec", "tools"} /\ other \in {"spec", "tools"} /\ what # other /\ x \in Listened(Going(nacos, ctx), s, what, v)
      BY <1>1, <1>2, <2>1, <2>2, <2>3
    <3> HIDE DEF ctx, s, v
    <3>2. /\ x.n \in NacosType /\ x.ctx \in ServerContext
          /\ x.ctx.version = ctx.version /\ x.ctx.told = ctx.told /\ x.ctx[other] = ctx[other]
          /\ ctx.callbackRef # None => x.ctx.callbackRef # None
          /\ (\E b \in Backend : x.ctx.subscribed[b] # None) =>
                  x.ctx.callbackRef # None \/ \E b \in Backend : ctx.subscribed[b] # None
          /\ ctx.spoiled => x.ctx.spoiled
          /\ ctx[what] # None => x.ctx[what] # None
          /\ ~ x.ctx.spoiled =>
                 /\ x.ctx[what] # None /\ x.ctx[what].version = v /\ x.ctx[what].data = x.ctx[what].told
                 /\ what = "tools" => x.ctx.service = ctx.service /\ x.ctx.subscribed = ctx.subscribed
                 /\ what = "spec" => BackendRead(ctx, x.ctx, x.ctx.spec.data.ref)
      BY <3>1, ListenedGives
    <3>3. QED
      BY <3>2 DEF v
  <2>5. client' = [servers |-> [client.servers EXCEPT ![s] = new], calls |-> calls, crashed |-> client.crashed]
    BY <1>1, <1>2, <2>2
  <2>6. client.calls \ {c} \in SUBSET Call /\ \A d \in client.calls \ {c} : CallOK(d)
    BY <1>2, <1>3
  <2>7. /\ Outdating(client.calls \ {c}, s, what) \in SUBSET Call
        /\ \A e \in Outdating(client.calls \ {c}, s, what) : CallOK(e)
        /\ \A e \in Outdating(client.calls \ {c}, s, what) :
                 \/ e \in client.calls \ {c} /\ ~ (e.server = s /\ e.what = what /\ e.sees = "entry")
                 \/ /\ e.server = s /\ e.what = what /\ e.sees = "context" /\ e.step # "documents"
                    /\ \E d \in client.calls \ {c} : d.server = s /\ d.what = what /\ d.sees = "entry"
        /\ \A d \in client.calls \ {c} : (d.server = s /\ d.what = what) \/ d \in Outdating(client.calls \ {c}, s, what)
    <3> DEFINE others == client.calls \ {c}
    <3>1. others \in SUBSET Call /\ (\A d \in others : CallOK(d)) /\ what \in {"spec", "tools"}
      BY <1>1, <2>6
    <3> HIDE DEF others, s
    <3>2. /\ Outdating(others, s, what) \in SUBSET Call
          /\ \A e \in Outdating(others, s, what) : CallOK(e)
          /\ \A e \in Outdating(others, s, what) :
                 \/ e \in others /\ ~ (e.server = s /\ e.what = what /\ e.sees = "entry")
                 \/ /\ e.server = s /\ e.what = what /\ e.sees = "context" /\ e.step # "documents"
                    /\ \E d \in others : d.server = s /\ d.what = what /\ d.sees = "entry"
          /\ \A d \in others : (d.server = s /\ d.what = what) \/ d \in Outdating(others, s, what)
      BY <3>1, OutdatingGives
    <3>3. QED
      BY <3>2 DEF others
  <2>8. calls \in SUBSET Call /\ (\A d \in calls : CallOK(d)) /\ nacos' \in NacosType
    BY <1>6, <1>7, <2>2, <2>4, <2>7
  <2>9. \A d \in calls \cup client.calls : d.server # s => d \in calls /\ d \in client.calls
    BY <1>6, <2>7
  <2>10. /\ on \in here
         /\ \A e \in here : \/ e = on
                            \/ e \in Callbacks(s) /\ ~ (e.what = what /\ e.sees = "entry")
                            \/ /\ e.what = what /\ e.sees = "context" /\ e.step # "documents"
                               /\ \E d \in Callbacks(s) : d.what = what /\ d.sees = "entry"
         /\ \A d \in Callbacks(s) \ {c} : d.what = what \/ d \in here
    BY <1>6, <2>7 DEF Callbacks
  <2>11. SeesContext(new, here)
    <3> HIDE DEF new, here
    <3>1. new # None
      BY <2>4, NoneIsNoRecord
    <3>2. \A e \in here : e.sees # "nothing" /\ e.what = "naming" => new.callbackRef # None
      BY <1>1, <1>2, <1>6, <2>1, <2>4, <2>10 DEF Following, SeesContext
    <3>3. (\E b \in Backend : new.subscribed[b] # None) => new.callbackRef # None
      BY <1>2, <2>1, <2>4 DEF Following, SeesContext
    <3>4. \A d \in Callbacks(s) : d.sees # "nothing" /\ d.what \in {"spec", "tools"} => ctx[d.what] # None
      BY <1>2 DEF Following, SeesContext
    <3>5. \A e \in here : e.sees # "nothing" /\ e.what \in {"spec", "tools"} => new[e.what] # None
      BY <1>1, <1>6, <2>3, <2>4, <2>10, <3>4
    <3>6. QED
      BY <3>1, <3>2, <3>3, <3>5 DEF SeesContext
  <2>12. ASSUME ~ new.spoiled
         PROVE  UpToDate(new, here, LastTold(s), Teller(s))
    <3>1. UpToDate(ctx, Callbacks(s), LastTold(s), Teller(s))
      BY <1>2, <2>1, <2>4, <2>12 DEF Following
    <3>2. c.sees = "entry" /\ on.sees = "entry"
      BY <1>6, <2>1
    <3> HIDE DEF new, here, ctx, s
    <3>3. /\ new[what] # None /\ new[what].version = c.data /\ new[what].data = new[what].told
          /\ what = "tools" => new.service = ctx.service /\ new.subscribed = ctx.subscribed
          /\ what = "spec" => BackendRead(ctx, new, new.spec.data.ref)
      BY <2>4, <2>12
    <3>4. QED
      BY <1>1, <1>5, <1>6, <2>1, <2>3, <2>4, <2>10, <2>12, <3>1, <3>2, <3>3, DocumentRead, SMTT(30)
  <2>13. ContextWritten(new, here, configs[s])
    BY <1>6, <2>10 DEF ContextWritten
  <2>14. Following(new, here, LastTold(s), Teller(s))
    BY <2>11, <2>12 DEF Following
  <2>15. (new = None) = (ctx = None) /\ new \in ServerContext \cup {None}
    BY <2>1, <2>4, NoneIsNoRecord
  <2> HIDE DEF ctx, s, calls, new
  <2>16. here = {d \in calls : d.server = s}
    OBVIOUS
  <2> HIDE DEF here
  <2>17. QED
    BY <1>1, <1>2, <1>4, <2>4, <2>5, <2>8, <2>9, <2>13, <2>14, <2>15, <2>16, CallbackMoves DEF ctx
<1>10. QED
  BY <1>8, <1>9

\* What the lemmas of the callbacks start from.
LEMMA CallbackFacts ==
    ASSUME McpInv, NEW c \in client.calls, NEW s, s = c.server, NEW ctx, ctx = Context(s)
    PROVE  /\ s \in McpServer /\ c \in Call /\ CallOK(c) /\ c \in Callbacks(s)
           /\ client.servers \in [McpServer -> ServerContext \cup {None}] /\ client.calls \in SUBSET Call
           /\ client = [servers |-> client.servers, calls |-> client.calls, crashed |-> client.crashed]
           /\ ctx = client.servers[s] /\ ctx \in ServerContext \cup {None} /\ client.crashed \in BOOLEAN
           /\ Following(ctx, Callbacks(s), LastTold(s), Teller(s)) /\ SeesContext(ctx, Callbacks(s))
           /\ nacos \in NacosType
           /\ \A d \in client.calls : CallOK(d)
           /\ \A d \in Callbacks(s) : CallOK(d)
           /\ ctx # None /\ ~ ctx.spoiled => s \in mcp.crossed \/ ContextWritten(ctx, Callbacks(s), configs[s])
<1>1. s \in McpServer /\ c \in Call /\ CallOK(c) /\ c \in Callbacks(s)
  BY DEF McpInv, McpTyped, CallOK, Call, Callbacks
<1>2. \A d \in client.calls : CallOK(d)
  BY <1>1, ServerFacts
<1>3. \A d \in Callbacks(s) : CallOK(d)
  BY <1>2 DEF Callbacks
<1>4. QED
  BY <1>1, <1>2, <1>3, ServerFacts

\* A callback that goes on, with what it leaves in the context of its server.
LEMMA CallGoesOn ==
    ASSUME McpInv, NEW c \in client.calls, NEW s, s = c.server, NEW ctx, ctx = Context(s),
           NEW new \in ServerContext \cup {None}, (new = None) = (ctx = None), new.told = ctx.told,
           NEW on \in Call, CallOK(on), on.server = s,
           nacos' \in NacosType, UNCHANGED <<mcp, configs>>,
           client' = [servers |-> [client.servers EXCEPT ![s] = new], calls |-> (client.calls \ {c}) \cup {on},
                      crashed |-> client.crashed],
           NEW here, here = (Callbacks(s) \ {c}) \cup {on}, Following(new, here, LastTold(s), Teller(s)),
           new # None /\ ~ new.spoiled => s \in mcp.crossed \/ ContextWritten(new, here, configs[s])
    PROVE  McpInv'
<1> DEFINE calls == (client.calls \ {c}) \cup {on}
<1>1. here = {d \in calls : d.server = s}
  BY HereAfter
<1>2. s \in McpServer /\ client.crashed \in BOOLEAN /\ client.calls \in SUBSET Call /\ \A d \in client.calls : CallOK(d)
  BY CallbackFacts
<1>3. calls \in SUBSET Call /\ \A d \in calls : CallOK(d)
  BY <1>2
<1>4. \A d \in calls \cup client.calls : d.server # s => d \in calls /\ d \in client.calls
  OBVIOUS
<1>5. UNCHANGED <<mcp, configs>>
  OBVIOUS
<1>6. client' = [servers |-> [client.servers EXCEPT ![s] = new], calls |-> calls, crashed |-> client.crashed]
  OBVIOUS
<1> HIDE DEF calls
<1>7. QED
  BY <1>1, <1>2, <1>3, <1>4, <1>5, <1>6, CallbackMoves

\* A callback that sees nothing of its server any more.
LEMMA UnseenKeepsMcp ==
    ASSUME McpInv, NEW c \in client.calls, c.sees = "nothing", NEW on \in Call, CallOK(on), on.server = c.server,
           on.what = c.what, on.of = c.of, on.data = c.data, on.sees = "nothing",
           on.step \in {"documents", "trigger"},
           client' = Replaced(client, c, on), UNCHANGED <<nacos, mcp, configs>>
    PROVE  McpInv'
<1> DEFINE s == c.server
           ctx == Context(s)
           here == (Callbacks(s) \ {c}) \cup {on}
<1>1. /\ s \in McpServer /\ c \in Callbacks(s) /\ ctx = client.servers[s] /\ ctx \in ServerContext \cup {None}
      /\ client.servers \in [McpServer -> ServerContext \cup {None}]
      /\ client = [servers |-> client.servers, calls |-> client.calls, crashed |-> client.crashed]
      /\ Following(ctx, Callbacks(s), LastTold(s), Teller(s)) /\ nacos \in NacosType
  BY CallbackFacts
<1>2. client' = [servers |-> [client.servers EXCEPT ![s] = ctx], calls |-> (client.calls \ {c}) \cup {on},
                 crashed |-> client.crashed]
  BY <1>1 DEF Replaced
<1>3. Following(ctx, here, LastTold(s), Teller(s))
  <2>1. \A e \in here : e \in Callbacks(s) \/ \E d \in Callbacks(s) :
               /\ e.what = d.what /\ e.of = d.of /\ e.data = d.data /\ e.sees = d.sees
               /\ e.sees = "nothing" \/ e.step \in {"trigger", "write"}
    BY <1>1
  <2>2. \A e \in Callbacks(s) : e \in here \/ e.sees = "nothing" \/ e.step \in {"trigger", "write"}
    OBVIOUS
  <2> HIDE DEF here, ctx
  <2>3. QED
    BY <1>1, <2>1, <2>2, StepAside
<1>4. ContextWritten(ctx, here, configs[s])
  BY DEF ContextWritten
<1>5. UNCHANGED <<mcp, configs>> /\ nacos' \in NacosType
  BY <1>1
<1>6. on.server = s /\ here = (Callbacks(s) \ {c}) \cup {on} /\ ctx = Context(s) /\ s = c.server
  OBVIOUS
<1> HIDE DEF s, ctx, here
<1>7. QED
  BY <1>1, <1>2, <1>3, <1>4, <1>5, <1>6, CallGoesOn

\* What a callback is once it has told the client what it was to tell.
LEMMA TriggerNext ==
    ASSUME NEW c \in Call, CallOK(c), c.step = "start", c.what # "versions", NEW on, on = [c EXCEPT !.step = "trigger"]
    PROVE  /\ on \in Call /\ CallOK(on) /\ on.server = c.server /\ on.what = c.what /\ on.of = c.of
           /\ on.data = c.data /\ on.sees = c.sees /\ on.step = "trigger"
<1>1. /\ on \in Call /\ on.server = c.server /\ on.what = c.what /\ on.of = c.of
      /\ on.data = c.data /\ on.sees = c.sees /\ on.step = "trigger" /\ on.left = c.left
  BY DEF Call
<1>2. QED
  BY <1>1 DEF CallOK

\* What a callback of a document leaves in a context that it sees.
LEMMA ReadGives ==
    ASSUME NEW n \in NacosType, NEW ctx \in ServerContext, NEW what \in {"spec", "tools"}, NEW data,
           what = "spec" => data \in ServerSpec, NEW x \in Read(Going(n, ctx), what, data)
    PROVE  /\ x.n \in NacosType /\ x.ctx \in ServerContext
           /\ x.ctx.version = ctx.version /\ x.ctx.told = ctx.told
           /\ x.ctx.spec = ctx.spec /\ x.ctx.tools = ctx.tools
           /\ ctx.callbackRef # None => x.ctx.callbackRef # None
           /\ (\E b \in Backend : x.ctx.subscribed[b] # None) =>
                  x.ctx.callbackRef # None \/ \E b \in Backend : ctx.subscribed[b] # None
           /\ ctx.spoiled => x.ctx.spoiled
           /\ what = "tools" => x.ctx.service = ctx.service /\ x.ctx.subscribed = ctx.subscribed
           /\ what = "spec" => BackendRead(ctx, x.ctx, data.ref)
<1>1. CASE what = "spec"
  <2>1. x \in Refreshed(Going(n, ctx), data.ref) /\ data.ref \in Backend
    BY <1>1 DEF Read, ServerSpec
  <2>2. QED
    BY <1>1, <2>1, RefreshedGives DEF BackendRead
<1>2. CASE what = "tools"
  <2>1. x = [n |-> n, ctx |-> ctx]
    BY <1>2 DEF Read, Going
  <2>2. QED
    BY <1>2, <2>1
<1>3. QED
  BY <1>1, <1>2

\* The callback of a document enters what it was told, and refreshes the backend.
LEMMA DocumentKeepsMcp == ASSUME McpInv, NEW c \in client.calls, DocumentChanged(c) PROVE McpInv'
<1> DEFINE s == c.server
           ctx == Context(s)
           what == c.what
           on == [c EXCEPT !.step = "trigger"]
           here == (Callbacks(s) \ {c}) \cup {on}
<1>1. /\ s \in McpServer /\ c \in Call /\ CallOK(c) /\ c \in Callbacks(s)
      /\ client.servers \in [McpServer -> ServerContext \cup {None}] /\ client.calls \in SUBSET Call
      /\ client = [servers |-> client.servers, calls |-> client.calls, crashed |-> client.crashed]
      /\ ctx = client.servers[s] /\ ctx \in ServerContext \cup {None} /\ client.crashed \in BOOLEAN
      /\ Following(ctx, Callbacks(s), LastTold(s), Teller(s)) /\ SeesContext(ctx, Callbacks(s))
      /\ nacos \in NacosType
      /\ \A d \in client.calls : CallOK(d)
      /\ \A d \in Callbacks(s) : CallOK(d)
      /\ ctx # None /\ ~ ctx.spoiled => s \in mcp.crossed \/ ContextWritten(ctx, Callbacks(s), configs[s])
  BY CallbackFacts
<1>2. what \in {"spec", "tools"} /\ c.step = "start" /\ UNCHANGED <<mcp, configs>>
  BY DEF DocumentChanged
<1>3. /\ on \in Call /\ CallOK(on) /\ on.server = s /\ on.what = c.what /\ on.of = c.of
      /\ on.data = c.data /\ on.sees = c.sees /\ on.step = "trigger"
  BY <1>1, <1>2, TriggerNext
<1>4. CASE c.sees = "nothing"
  <2>1. client' = Replaced(client, c, on) /\ UNCHANGED <<nacos, mcp, configs>>
    BY <1>2, <1>4 DEF DocumentChanged
  <2> HIDE DEF on
  <2>2. QED
    BY <1>3, <1>4, <2>1, UnseenKeepsMcp
<1>5. ASSUME c.sees # "nothing"
      PROVE  ctx \in ServerContext /\ ctx # None /\ ctx[what] # None /\ c.sees \in {"entry", "context"}
  BY <1>1, <1>2, <1>5 DEF SeesContext, Call
<1>6. /\ {d \in client.calls \ {c} : d.server = s} = Callbacks(s) \ {c}
      /\ Overtakes(c) <=> Overtaken(Callbacks(s), c)
      /\ Overtakes(c) \in BOOLEAN
  BY HereAfter DEF Overtakes
<1>7. CASE c.sees = "entry" /\ ctx[what].data = c.data
  <2> DEFINE new == Late(ctx, Overtakes(c))
  <2>1. client' = [servers |-> [client.servers EXCEPT ![s] = new], calls |-> client.calls \ {c},
                   crashed |-> client.crashed]
    BY <1>1, <1>2, <1>5, <1>7 DEF DocumentChanged, Returned
  <2>2. /\ ctx \in ServerContext /\ new \in ServerContext /\ new = [ctx EXCEPT !.spoiled = new.spoiled]
        /\ new.told = ctx.told /\ (~ new.spoiled => ~ ctx.spoiled /\ ~ Overtakes(c))
        /\ new.spec = ctx.spec /\ new.tools = ctx.tools /\ new.service = ctx.service /\ new # None
    <3>1. ctx \in ServerContext
      BY <1>5, <1>7
    <3> HIDE DEF ctx
    <3>2. QED
      BY <1>6, <3>1, LateFields, NoneIsNoRecord
  <2> HIDE DEF new
  <2>3. Following(new, Callbacks(s) \ {c}, LastTold(s), Teller(s))
    <3> HIDE DEF ctx
    <3>1. QED
      BY <1>1, <1>2, <1>5, <1>6, <1>7, <2>2, DocumentKnown, SMTT(30)
  <2>4. ~ new.spoiled => s \in mcp.crossed \/ ContextWritten(new, Callbacks(s) \ {c}, configs[s])
    <3>1. ~ new.spoiled => s \in mcp.crossed \/ ContextWritten(ctx, Callbacks(s), configs[s])
      BY <1>1, <1>5, <1>7, <2>2
    <3>2. \A d \in Callbacks(s) : d \in Callbacks(s) \ {c} \/ d.step = "start"
      BY <1>2
    <3> HIDE DEF ctx
    <3>3. QED
      BY <2>2, <3>1, <3>2, StillWritten
  <2>5. client.calls \ {c} \in SUBSET Call /\ nacos' \in NacosType
    BY <1>1, <1>2, <1>7 DEF DocumentChanged
  <2>6. \A d \in (client.calls \ {c}) \cup client.calls : d.server # s => d \in client.calls \ {c} /\ d \in client.calls
    OBVIOUS
  <2>7. (new = None) = (ctx = None) /\ new \in ServerContext \cup {None}
    BY <1>5, <1>7, <2>2
  <2> HIDE DEF ctx, s
  <2>8. QED
    BY <1>1, <1>2, <1>6, <2>1, <2>2, <2>3, <2>4, <2>5, <2>6, <2>7, CallbackMoves DEF ctx
<1>8. CASE c.sees # "nothing" /\ ~ (c.sees = "entry" /\ ctx[what].data = c.data)
  <2> DEFINE late == Late(ctx, IF c.sees = "entry" THEN Overtakes(c) ELSE TRUE)
             told == IF c.sees = "entry" THEN [late EXCEPT ![what].data = c.data] ELSE late
  <2>1. PICK x \in Read(Going(nacos, told), what, c.data) :
           nacos' = x.n /\ client' = [Replaced(client, c, on) EXCEPT !.servers[s] = x.ctx]
    <3>1. CASE c.sees = "entry"
      BY <1>2, <1>8, <3>1 DEF DocumentChanged
    <3>2. CASE c.sees # "entry"
      BY <1>2, <1>8, <3>2 DEF DocumentChanged
    <3>3. QED
      BY <3>1, <3>2
  <2>2. /\ ctx \in ServerContext /\ ctx # None /\ ctx[what] # None
    BY <1>5, <1>8
  <2>3. PICK other \in {"spec", "tools"} : what # other /\ {what, other} = {"spec", "tools"}
    <3>1. CASE what = "spec"
      <4> WITNESS "tools" \in {"spec", "tools"}
      <4>1. QED
        BY <3>1
    <3>2. CASE what = "tools"
      <4> WITNESS "spec" \in {"spec", "tools"}
      <4>1. QED
        BY <3>2
    <3>3. QED
      BY <1>2, <3>1, <3>2
  <2>4. /\ late \in ServerContext /\ late.version = ctx.version /\ late.told = ctx.told
        /\ late.spec = ctx.spec /\ late.tools = ctx.tools /\ late.service = ctx.service
        /\ late.subscribed = ctx.subscribed /\ late.callbackRef = ctx.callbackRef
        /\ ~ late.spoiled => ~ ctx.spoiled /\ c.sees = "entry" /\ ~ Overtakes(c)
    <3> DEFINE condition == IF c.sees = "entry" THEN Overtakes(c) ELSE TRUE
    <3>1. condition \in BOOLEAN /\ (~ condition => c.sees = "entry" /\ ~ Overtakes(c))
      BY <1>6
    <3>2. late = Late(ctx, condition)
      OBVIOUS
    <3> HIDE DEF condition, ctx, late
    <3>3. QED
      BY <2>2, <3>1, <3>2, LateFields
  <2>5. (what = "spec" => c.data \in ServerSpec) /\ (what = "tools" => c.data \in Tools)
    BY <1>1 DEF CallOK
  <2> HIDE DEF late
  <2>6. /\ told \in ServerContext /\ told.version = ctx.version /\ told.told = ctx.told
        /\ told[other] = ctx[other] /\ told[what] # None /\ told.service = ctx.service
        /\ told.subscribed = ctx.subscribed /\ told.callbackRef = ctx.callbackRef
        /\ told.spoiled = late.spoiled
        /\ c.sees = "entry" => told[what].data = c.data /\ told[what].version = ctx[what].version
                               /\ told[what].told = ctx[what].told
    <3>1. CASE c.sees # "entry"
      <4>1. told = late
        BY <3>1
      <4>2. late["spec"] = ctx["spec"] /\ late["tools"] = ctx["tools"]
        BY <2>4
      <4> HIDE DEF told, ctx
      <4>3. late[what] = ctx[what] /\ late[other] = ctx[other]
        BY <1>2, <4>2
      <4>4. QED
        BY <2>2, <2>4, <3>1, <4>1, <4>3
    <3>2. CASE c.sees = "entry" /\ what = "spec"
      <4> DEFINE data == c.data
                 doc == [late.spec EXCEPT !.data = data]
                 with == [late EXCEPT !.spec = doc]
      <4>1. late.spec \in SpecDocument /\ data \in ServerSpec
        BY <2>2, <2>4, <2>5, <3>2 DEF ServerContext
      <4> HIDE DEF data
      <4>2. doc \in SpecDocument /\ doc # None /\ doc.data = data /\ doc.version = ctx.spec.version /\ doc.told = ctx.spec.told
        BY <2>4, <4>1, NoneIsNoRecord DEF SpecDocument
      <4>3. told = with
        BY <3>2 DEF data
      <4> HIDE DEF doc, told, ctx
      <4>4. /\ with \in ServerContext /\ with.version = late.version /\ with.told = late.told /\ with.spec = doc
            /\ with.tools = late.tools /\ with.service = late.service /\ with.subscribed = late.subscribed
            /\ with.callbackRef = late.callbackRef /\ with.spoiled = late.spoiled
        BY <2>4, <4>2 DEF ServerContext
      <4> HIDE DEF with
      <4>5. told[what] = doc /\ told[other] = ctx.tools /\ ctx[what] = ctx.spec /\ ctx[other] = ctx.tools
        BY <2>3, <2>4, <3>2, <4>3, <4>4
      <4>6. QED
        BY <2>4, <4>2, <4>3, <4>4, <4>5 DEF data
    <3>3. CASE c.sees = "entry" /\ what = "tools"
      <4> DEFINE data == c.data
                 doc == [late.tools EXCEPT !.data = data]
                 with == [late EXCEPT !.tools = doc]
      <4>1. late.tools \in ToolsDocument /\ data \in Tools
        BY <2>2, <2>4, <2>5, <3>3 DEF ServerContext
      <4> HIDE DEF data
      <4>2. doc \in ToolsDocument /\ doc # None /\ doc.data = data /\ doc.version = ctx.tools.version /\ doc.told = ctx.tools.told
        BY <2>4, <4>1, NoneIsNoRecord DEF ToolsDocument
      <4>3. told = with
        BY <3>3 DEF data
      <4> HIDE DEF doc, told, ctx
      <4>4. /\ with \in ServerContext /\ with.version = late.version /\ with.told = late.told /\ with.tools = doc
            /\ with.spec = late.spec /\ with.service = late.service /\ with.subscribed = late.subscribed
            /\ with.callbackRef = late.callbackRef /\ with.spoiled = late.spoiled
        BY <2>4, <4>2 DEF ServerContext
      <4> HIDE DEF with
      <4>5. told[what] = doc /\ told[other] = ctx.spec /\ ctx[what] = ctx.tools /\ ctx[other] = ctx.spec
        BY <2>3, <2>4, <3>3, <4>3, <4>4
      <4>6. QED
        BY <2>4, <4>2, <4>3, <4>4, <4>5 DEF data
    <3>4. QED
      BY <1>2, <3>1, <3>2, <3>3
  <2> DEFINE new == x.ctx
  <2> HIDE DEF told
  <2>7. /\ x.n \in NacosType /\ new \in ServerContext /\ new.version = told.version /\ new.told = told.told
        /\ new.spec = told.spec /\ new.tools = told.tools
        /\ told.callbackRef # None => new.callbackRef # None
        /\ (\E b \in Backend : new.subscribed[b] # None) =>
                  new.callbackRef # None \/ \E b \in Backend : told.subscribed[b] # None
        /\ told.spoiled => new.spoiled
        /\ what = "tools" => new.service = told.service /\ new.subscribed = told.subscribed
        /\ what = "spec" => BackendRead(told, new, c.data.ref)
    <3> DEFINE data == c.data
    <3>1. /\ nacos \in NacosType /\ told \in ServerContext /\ what \in {"spec", "tools"}
          /\ what = "spec" => data \in ServerSpec
          /\ x \in Read(Going(nacos, told), what, data)
      BY <1>1, <1>2, <2>1, <2>5, <2>6
    <3> HIDE DEF data, what
    <3>2. /\ x.n \in NacosType /\ x.ctx \in ServerContext
          /\ x.ctx.version = told.version /\ x.ctx.told = told.told
          /\ x.ctx.spec = told.spec /\ x.ctx.tools = told.tools
          /\ told.callbackRef # None => x.ctx.callbackRef # None
          /\ (\E b \in Backend : x.ctx.subscribed[b] # None) =>
                 x.ctx.callbackRef # None \/ \E b \in Backend : told.subscribed[b] # None
          /\ told.spoiled => x.ctx.spoiled
          /\ what = "tools" => x.ctx.service = told.service /\ x.ctx.subscribed = told.subscribed
          /\ what = "spec" => BackendRead(told, x.ctx, data.ref)
      BY <3>1, ReadGives
    <3>3. QED
      BY <3>2 DEF data
  <2>8. client' = [servers |-> [client.servers EXCEPT ![s] = new], calls |-> (client.calls \ {c}) \cup {on},
                   crashed |-> client.crashed]
    BY <1>1, <2>1 DEF Replaced
  <2> HIDE DEF new
  <2>9. new[what] = told[what] /\ new[other] = told[other]
    <3>1. new["spec"] = told["spec"] /\ new["tools"] = told["tools"]
      BY <2>7
    <3>2. QED
      BY <1>2, <3>1
  <2>10. new # None /\ (new = None) = (ctx = None) /\ new.told = ctx.told /\ new \in ServerContext \cup {None}
    BY <2>2, <2>6, <2>7, NoneIsNoRecord
  <2> HIDE DEF on, ctx
  <2>11. SeesContext(new, here)
    <3>1. \A d \in here : d.sees # "nothing" => /\ d.what = "naming" => new.callbackRef # None
                                                /\ d.what \in {"spec", "tools"} => new[d.what] # None
      <4>1. (ctx.callbackRef # None => new.callbackRef # None) /\ new[what] # None /\ new[other] = ctx[other]
        BY <2>6, <2>7, <2>9
      <4>2. ASSUME NEW d \in Callbacks(s), d.sees # "nothing"
            PROVE  /\ d.what = "naming" => new.callbackRef # None
                   /\ d.what \in {"spec", "tools"} => new[d.what] # None
        <5>1. /\ d.what = "naming" => ctx.callbackRef # None
              /\ d.what \in {"spec", "tools"} => ctx[d.what] # None
          BY <1>1, <4>2 DEF SeesContext
        <5>2. d.what \in {"spec", "tools"} => d.what = what \/ d.what = other
          BY <1>2, <2>3
        <5>3. QED
          BY <4>1, <5>1, <5>2
      <4>3. on.what = what /\ what # "naming"
        BY <1>2, <1>3
      <4>4. \A d \in here : d = on \/ d \in Callbacks(s)
        OBVIOUS
      <4> HIDE DEF here, s, what
      <4>5. QED
        BY <4>1, <4>2, <4>3, <4>4
    <3>2. (\E b \in Backend : new.subscribed[b] # None) => new.callbackRef # None
      <4>1. (\E b \in Backend : ctx.subscribed[b] # None) => ctx.callbackRef # None
        BY <1>1, <2>2 DEF SeesContext
      <4>2. told.subscribed = ctx.subscribed /\ told.callbackRef = ctx.callbackRef
        BY <2>6
      <4>3. QED
        BY <2>7, <4>1, <4>2
    <3>3. QED
      BY <2>10, <3>1, <3>2 DEF SeesContext
  <2>12. ASSUME ~ new.spoiled
         PROVE  UpToDate(new, here, LastTold(s), Teller(s))
    <3>1. ~ ctx.spoiled /\ c.sees = "entry" /\ ~ Overtaken(Callbacks(s), c) /\ ctx[what].data # c.data
      BY <1>6, <1>8, <2>4, <2>6, <2>7, <2>12 DEF ctx
    <3>2. UpToDate(ctx, Callbacks(s), LastTold(s), Teller(s))
      BY <1>1, <2>2, <3>1 DEF Following
    <3>3. /\ new.version = ctx.version /\ new[other] = ctx[other] /\ new[what] # None
          /\ new[what].version = ctx[what].version /\ new[what].data = c.data /\ new[what].told = ctx[what].told
          /\ what = "tools" => new.service = ctx.service /\ new.subscribed = ctx.subscribed
          /\ what = "spec" => BackendRead(ctx, new, c.data.ref)
      BY <2>6, <2>7, <2>9, <3>1 DEF BackendRead
    <3>4. c \in Callbacks(s) /\ c.what = what /\ c.step = "start" /\ on.sees = "entry"
      BY <1>1, <1>2, <1>3, <3>1
    <3>5. \A d \in Callbacks(s) : CallOK(d)
      BY <1>1
    <3> HIDE DEF s, what
    <3>6. Documented(ctx, new, Callbacks(s), c, what, other, on)
      BY <1>3, <2>3, <2>12, <3>1, <3>3, <3>4, <3>5 DEF Documented
    <3>7. QED
      BY <2>2, <2>7, <3>2, <3>4, <3>6, DocumentTold
  <2>13. Following(new, here, LastTold(s), Teller(s))
    BY <2>11, <2>12 DEF Following
  <2>14. ContextWritten(new, here, configs[s])
    BY <1>3 DEF ContextWritten
  <2>15. nacos' \in NacosType /\ s = c.server /\ ctx = Context(s) /\ here = (Callbacks(s) \ {c}) \cup {on}
    BY <2>1, <2>7 DEF ctx
  <2> HIDE DEF s, here
  <2>16. QED
    BY <1>2, <1>3, <2>8, <2>10, <2>13, <2>14, <2>15, CallGoesOn
<1>9. QED
  BY <1>1, <1>4, <1>7, <1>8 DEF Call

\* The service that a picture shows is changed in place.
LEMMA ShownGives ==
    ASSUME NEW d \in Call, CallOK(d), NEW s, NEW was, NEW now \in Endpoints,
           NEW e, e = IF d.server = s /\ d.step = "write" /\ d.picture.service = was
                      THEN [d EXCEPT !.picture.service = now] ELSE d
    PROVE  e \in Call /\ CallOK(e) /\ Alike(e, d) /\ e.server = d.server
<1>1. CASE e = d
  BY <1>1 DEF Alike
<1>2. CASE d.step = "write" /\ e = [d EXCEPT !.picture.service = now]
  <2> DEFINE picture == [d.picture EXCEPT !.service = now]
  <2>1. d.picture \in Picture
    BY <1>2 DEF CallOK
  <2>2. picture \in Picture
    BY <2>1 DEF Picture
  <2>3. e = [d EXCEPT !.picture = picture]
    BY <1>2
  <2> HIDE DEF picture
  <2>4. /\ e \in Call /\ e.server = d.server /\ e.what = d.what /\ e.of = d.of /\ e.data = d.data
        /\ e.sees = d.sees /\ e.step = d.step /\ e.left = d.left /\ e.picture = picture
    BY <2>2, <2>3 DEF Call
  <2>5. QED
    BY <2>2, <2>4 DEF CallOK, Alike
<1>3. QED
  BY <1>1, <1>2

\* The callback of the endpoints enters what it was told.
LEMMA InstancesKeepMcp == ASSUME McpInv, NEW c \in client.calls, InstancesChanged(c) PROVE McpInv'
<1> DEFINE s == c.server
           ctx == Context(s)
           on == [c EXCEPT !.step = "trigger"]
<1>1. /\ s \in McpServer /\ c \in Call /\ CallOK(c) /\ c \in Callbacks(s)
      /\ client.servers \in [McpServer -> ServerContext \cup {None}] /\ client.calls \in SUBSET Call
      /\ client = [servers |-> client.servers, calls |-> client.calls, crashed |-> client.crashed]
      /\ ctx = client.servers[s] /\ ctx \in ServerContext \cup {None} /\ client.crashed \in BOOLEAN
      /\ Following(ctx, Callbacks(s), LastTold(s), Teller(s)) /\ SeesContext(ctx, Callbacks(s))
      /\ nacos \in NacosType
      /\ \A d \in client.calls : CallOK(d)
      /\ \A d \in Callbacks(s) : CallOK(d)
  BY CallbackFacts
<1>2. c.what = "naming" /\ c.step = "start" /\ UNCHANGED <<nacos, mcp, configs>>
  BY DEF InstancesChanged
<1>3. /\ on \in Call /\ CallOK(on) /\ on.server = s /\ on.what = c.what /\ on.of = c.of
      /\ on.data = c.data /\ on.sees = c.sees /\ on.step = "trigger"
  BY <1>1, <1>2, TriggerNext
<1>4. CASE c.sees = "nothing"
  <2>1. client' = Replaced(client, c, on)
    BY <1>4 DEF InstancesChanged
  <2> HIDE DEF on
  <2>2. QED
    BY <1>2, <1>3, <1>4, <2>1, UnseenKeepsMcp
<1>5. CASE c.sees # "nothing"
  <2> DEFINE condition == \/ Overtakes(c) \/ c.of # ctx.callbackRef
                          \/ c.of # ctx.service.name \/ c.data # ctx.subscribed[c.of]
             late == Late(ctx, condition)
             changed == [name |-> ctx.callbackRef, hosts |-> c.data]
             new == [late EXCEPT !.service = changed]
             Shown(d) == IF d.server = s /\ d.step = "write" /\ d.picture.service = ctx.service
                         THEN [d EXCEPT !.picture.service = changed] ELSE d
             shown == {Shown(d) : d \in client.calls \ {c}}
             calls == shown \cup {on}
             here == {d \in calls : d.server = s}
  <2>1. /\ ctx \in ServerContext /\ ctx # None /\ ctx.callbackRef \in Backend /\ ctx.callbackRef # None
        /\ c.sees = "entry" /\ c.of \in Backend /\ c.data \in Hosts /\ c.data # None
    <3>1. ctx # None /\ ctx.callbackRef # None
      BY <1>1, <1>2, <1>5 DEF SeesContext
    <3>2. c.sees = "entry" /\ c.of \in Backend /\ c.data \in Hosts
      BY <1>1, <1>2, <1>5 DEF CallOK, Call
    <3>3. ctx \in ServerContext
      BY <1>1, <3>1
    <3>4. ctx.callbackRef \in Backend
      BY <3>1, <3>3 DEF ServerContext
    <3>5. QED
      BY <3>1, <3>2, <3>3, <3>4, McpAssumption
  <2>2. client' = [servers |-> [client.servers EXCEPT ![s] = new], calls |-> calls, crashed |-> client.crashed]
    BY <1>1, <1>2, <1>5 DEF InstancesChanged
  <2>3. /\ late \in ServerContext /\ late.version = ctx.version /\ late.told = ctx.told
        /\ late.spec = ctx.spec /\ late.tools = ctx.tools
        /\ late.subscribed = ctx.subscribed /\ late.callbackRef = ctx.callbackRef
        /\ ~ late.spoiled => ~ ctx.spoiled /\ ~ condition
    <3>1. condition \in BOOLEAN
      BY DEF Overtakes
    <3> HIDE DEF condition, ctx
    <3>2. QED
      BY <2>1, <3>1, LateFields
  <2>4. changed \in Endpoints /\ changed # None /\ changed.name = ctx.callbackRef /\ changed.hosts = c.data
    <3>1. changed \in Endpoints
      BY <2>1 DEF Endpoints
    <3>2. QED
      BY <3>1, NoneIsNoRecord
  <2> HIDE DEF late, changed
  <2>5. /\ new \in ServerContext /\ new.version = ctx.version /\ new.told = ctx.told
        /\ new.spec = ctx.spec /\ new.tools = ctx.tools /\ new.service = changed
        /\ new.subscribed = ctx.subscribed /\ new.callbackRef = ctx.callbackRef /\ new.spoiled = late.spoiled
    BY <2>3, <2>4 DEF ServerContext
  <2> HIDE DEF new
  <2>6. \A d \in client.calls : Shown(d) \in Call /\ CallOK(Shown(d)) /\ Alike(Shown(d), d) /\ Shown(d).server = d.server
    BY <1>1, <2>4, ShownGives
  <2>7. /\ calls \in SUBSET Call /\ \A d \in calls : CallOK(d)
    <3> HIDE DEF Shown, on
    <3>1. QED
      BY <1>3, <2>6
  <2>8. \A d \in calls \cup client.calls : d.server # s => d \in calls /\ d \in client.calls
    <3>1. \A d \in client.calls : d.server # s => Shown(d) = d
      OBVIOUS
    <3> HIDE DEF Shown, on
    <3>2. ASSUME NEW d \in calls, d.server # s
          PROVE  d \in client.calls
      BY <1>3, <2>6, <3>1, <3>2
    <3>3. ASSUME NEW d \in client.calls, d.server # s
          PROVE  d \in calls
      BY <3>1, <3>3
    <3>4. QED
      BY <3>2, <3>3
  <2>9. \A e \in here : e = on \/ \E d \in Callbacks(s) \ {c} : Alike(e, d)
    <3> HIDE DEF Shown, on
    <3>1. QED
      BY <2>6 DEF Callbacks
  <2>10. \A d \in Callbacks(s) \ {c} : \E e \in here : Alike(e, d)
    <3> HIDE DEF Shown, on
    <3>1. QED
      BY <2>6 DEF Callbacks
  <2>11. on \in here
    BY <1>3
  <2> HIDE DEF Shown, on, calls
  <2>12. /\ new # None /\ (new = None) = (ctx = None) /\ new.told = ctx.told /\ new \in ServerContext \cup {None}
         /\ new["spec"] = ctx["spec"] /\ new["tools"] = ctx["tools"]
    BY <2>1, <2>5, NoneIsNoRecord
  <2>13. here = {d \in calls : d.server = s}
    OBVIOUS
  <2> HIDE DEF here, ctx
  <2>14. SeesContext(new, here)
    <3>1. \A d \in here : d.sees # "nothing" => /\ d.what = "naming" => new.callbackRef # None
                                                /\ d.what \in {"spec", "tools"} => new[d.what] # None
      BY <1>1, <1>2, <1>3, <2>1, <2>5, <2>9, <2>12 DEF SeesContext, Alike
    <3>2. (\E b \in Backend : new.subscribed[b] # None) => new.callbackRef # None
      BY <2>1, <2>5
    <3>3. QED
      BY <2>12, <3>1, <3>2 DEF SeesContext
  <2>15. ASSUME ~ new.spoiled
         PROVE  UpToDate(new, here, LastTold(s), Teller(s))
    <3>1. /\ ~ ctx.spoiled /\ c.of = ctx.callbackRef /\ c.of = ctx.service.name /\ c.data = ctx.subscribed[c.of]
      BY <2>3, <2>5, <2>15
    <3>2. UpToDate(ctx, Callbacks(s), LastTold(s), Teller(s))
      BY <1>1, <2>1, <3>1 DEF Following
    <3>3. new.service # None /\ new.service.name = c.of /\ new.service.hosts = c.data
      BY <2>4, <2>5, <3>1
    <3>4. c \in Callbacks(s) /\ on.sees = "entry" /\ on.what = "naming"
      BY <1>1, <1>2, <1>3, <2>1
    <3>5. \A d \in Callbacks(s) : CallOK(d)
      BY <1>1
    <3> HIDE DEF s
    <3>6. Instanced(ctx, new, Callbacks(s), c, on, here)
      BY <1>2, <1>3, <2>1, <2>5, <2>9, <2>10, <3>1, <3>3, <3>4, <3>5 DEF Instanced
    <3>7. QED
      BY <2>1, <2>5, <3>2, <3>4, <3>6, EndpointsTold
  <2>16. Following(new, here, LastTold(s), Teller(s))
    BY <2>14, <2>15 DEF Following
  <2>17. ContextWritten(new, here, configs[s])
    BY <1>3, <2>11 DEF ContextWritten
  <2>18. nacos' \in NacosType /\ UNCHANGED <<mcp, configs>>
    BY <1>1, <1>2
  <2>19. (new = None) = (Context(s) = None) /\ new.told = Context(s).told
    BY <2>12 DEF ctx
  <2> HIDE DEF s
  <2>20. QED
    BY <1>1, <2>2, <2>7, <2>8, <2>12, <2>13, <2>16, <2>17, <2>18, <2>19, CallbackMoves
<1>6. QED
  BY <1>4, <1>5

\* A callback takes its picture of the context.
LEMMA TriggerKeepsMcp == ASSUME McpInv, NEW c \in client.calls, Trigger(c) PROVE McpInv'
<1> DEFINE s == c.server
           ctx == Context(s)
<1>1. /\ s \in McpServer /\ c \in Call /\ CallOK(c) /\ c \in Callbacks(s)
      /\ client.servers \in [McpServer -> ServerContext \cup {None}] /\ client.calls \in SUBSET Call
      /\ client = [servers |-> client.servers, calls |-> client.calls, crashed |-> client.crashed]
      /\ ctx = client.servers[s] /\ ctx \in ServerContext \cup {None} /\ client.crashed \in BOOLEAN
      /\ Following(ctx, Callbacks(s), LastTold(s), Teller(s)) /\ SeesContext(ctx, Callbacks(s))
      /\ nacos \in NacosType
      /\ \A d \in client.calls : CallOK(d)
  BY CallbackFacts
<1>2. c.step = "trigger" /\ UNCHANGED <<nacos, mcp, configs>>
  BY DEF Trigger
<1>3. CASE ctx = None
  <2> DEFINE calls == client.calls \ {c}
             here == Callbacks(s) \ {c}
  <2>1. client' = [servers |-> [client.servers EXCEPT ![s] = ctx], calls |-> calls, crashed |-> client.crashed]
    BY <1>1, <1>2, <1>3 DEF Trigger, Returned
  <2>2. here = {d \in calls : d.server = s} /\ calls \in SUBSET Call /\ \A d \in calls : CallOK(d)
    BY <1>1, HereAfter
  <2>3. Following(ctx, here, LastTold(s), Teller(s))
    <3>1. \A e \in here : e \in Callbacks(s)
      OBVIOUS
    <3>2. \A e \in Callbacks(s) : e \in here \/ e.sees = "nothing" \/ e.step \in {"trigger", "write"}
      BY <1>2
    <3> HIDE DEF here, ctx
    <3>3. QED
      BY <1>1, <3>1, <3>2, StepAside
  <2>4. \A d \in calls \cup client.calls : d.server # s => d \in calls /\ d \in client.calls
    OBVIOUS
  <2>5. ctx \in ServerContext \cup {None} /\ (ctx = None) = (Context(s) = None) /\ ctx.told = Context(s).told
        /\ (ctx # None /\ ~ ctx.spoiled => s \in mcp.crossed \/ ContextWritten(ctx, here, configs[s]))
    BY <1>3
  <2> HIDE DEF s, ctx, calls, here
  <2>6. UNCHANGED <<mcp, configs>> /\ nacos' \in NacosType
    BY <1>1, <1>2
  <2>7. QED
    BY <1>1, <2>1, <2>2, <2>3, <2>4, <2>5, <2>6, CallbackMoves
<1>4. CASE ctx # None
  <2> DEFINE picture == [spec |-> ctx.spec, tools |-> ctx.tools, service |-> ctx.service]
             on == [c EXCEPT !.step = "write", !.picture = picture]
             here == (Callbacks(s) \ {c}) \cup {on}
  <2>1. ctx \in ServerContext
    BY <1>1, <1>4
  <2>2. picture \in Picture
    BY <2>1 DEF Picture, ServerContext
  <2>3. client' = Replaced(client, c, on)
    BY <1>2, <1>4 DEF Trigger
  <2>4. client' = [servers |-> [client.servers EXCEPT ![s] = ctx], calls |-> (client.calls \ {c}) \cup {on},
                   crashed |-> client.crashed]
    BY <1>1, <2>3 DEF Replaced
  <2>5. picture.spec = ctx.spec /\ picture.tools = ctx.tools /\ picture.service = ctx.service
    OBVIOUS
  <2> HIDE DEF picture
  <2>6. /\ on \in Call /\ on.server = c.server /\ on.what = c.what /\ on.of = c.of /\ on.data = c.data
        /\ on.sees = c.sees /\ on.step = "write" /\ on.left = c.left /\ on.picture = picture
    BY <1>1, <2>2 DEF Call
  <2> HIDE DEF on
  <2>7. CallOK(on)
    BY <1>1, <1>2, <2>2, <2>6 DEF CallOK
  <2>8. Following(ctx, here, LastTold(s), Teller(s))
    <3>1. \A e \in here : e \in Callbacks(s) \/ \E d \in Callbacks(s) :
               /\ e.what = d.what /\ e.of = d.of /\ e.data = d.data /\ e.sees = d.sees
               /\ e.sees = "nothing" \/ e.step \in {"trigger", "write"}
      BY <1>1, <2>6
    <3>2. \A e \in Callbacks(s) : e \in here \/ e.sees = "nothing" \/ e.step \in {"trigger", "write"}
      BY <1>2
    <3> HIDE DEF here, ctx
    <3>3. QED
      BY <1>1, <3>1, <3>2, StepAside
  <2>9. ContextWritten(ctx, here, configs[s])
    <3>1. ctx.spec # None => SamePicture(on.picture, ctx)
      BY <2>5, <2>6 DEF SamePicture
    <3>2. QED
      BY <2>6, <3>1 DEF ContextWritten
  <2>10. ctx \in ServerContext \cup {None} /\ s = c.server /\ ctx = Context(s) /\ here = (Callbacks(s) \ {c}) \cup {on}
         /\ on.server = s
    BY <2>1, <2>6
  <2>11. UNCHANGED <<mcp, configs>> /\ nacos' \in NacosType
    BY <1>1, <1>2
  <2> HIDE DEF s, ctx, here
  <2>12. QED
    BY <2>4, <2>6, <2>7, <2>8, <2>9, <2>10, <2>11, CallGoesOn
<1>5. QED
  BY <1>3, <1>4

\* What is in the cache once a picture is written.
LEMMA WrittenGives ==
    ASSUME NEW picture \in Picture, picture.spec # None, NEW old, NEW config,
           config = UpdateConfigCache(old, ConfigsOf(picture))
    PROVE  LET spec == picture.spec.data IN
           /\ config["VirtualService"] = spec.ref
           /\ picture.tools # None => config["WasmPlugin"] = picture.tools.data
           /\ spec.https => config["DestinationRule"] = spec.ref
           /\ picture.service # None /\ picture.service.hosts # NoHosts =>
                 config["ServiceEntry"] = [host |-> spec.ref, hosts |-> picture.service.hosts]
<1> DEFINE spec == picture.spec.data
           new == ConfigsOf(picture)
<1>1. spec.ref \in Backend /\ spec.ref # None
  BY McpAssumption DEF Picture, SpecDocument, ServerSpec
<1>2. /\ new["ServiceEntry"] = ServiceEntryOf(spec, picture.service)
      /\ new["VirtualService"] = VirtualServiceOf(spec)
      /\ new["DestinationRule"] = DestinationRuleOf(spec)
      /\ new["WasmPlugin"] = WasmPluginOf(picture.tools)
  BY DEF ConfigsOf, Kind
<1>3. \A k \in Kind : config[k] = IF new[k] = None THEN old[k] ELSE new[k]
  BY DEF UpdateConfigCache
<1> HIDE DEF new
<1>4. config["VirtualService"] = spec.ref
  BY <1>1, <1>2, <1>3 DEF Kind, VirtualServiceOf
<1>5. ASSUME picture.tools # None
      PROVE  config["WasmPlugin"] = picture.tools.data
  <2>1. picture.tools.data # None
    BY <1>5, McpAssumption DEF Picture, ToolsDocument
  <2>2. QED
    BY <1>2, <1>3, <1>5, <2>1 DEF Kind, WasmPluginOf
<1>6. spec.https => config["DestinationRule"] = spec.ref
  BY <1>1, <1>2, <1>3 DEF Kind, DestinationRuleOf
<1>7. ASSUME picture.service # None, picture.service.hosts # NoHosts
      PROVE  config["ServiceEntry"] = [host |-> spec.ref, hosts |-> picture.service.hosts]
  <2> DEFINE entry == [host |-> spec.ref, hosts |-> picture.service.hosts]
  <2>1. picture.service.hosts \in Hosts
    BY <1>7 DEF Picture, Endpoints
  <2>2. entry \in [host : Backend, hosts : Hosts]
    BY <1>1, <2>1
  <2>3. new["ServiceEntry"] = entry
    BY <1>2, <1>7 DEF ServiceEntryOf
  <2> HIDE DEF entry
  <2>4. entry # None
    BY <2>2, NoneIsNoRecord
  <2>5. config["ServiceEntry"] = entry
    BY <1>3, <2>3, <2>4 DEF Kind
  <2>6. QED
    BY <2>5 DEF entry
<1>8. QED
  BY <1>4, <1>5, <1>6, <1>7

\* A callback writes its picture.
LEMMA PublishKeepsMcp == ASSUME McpInv, NEW c \in client.calls, PublishServer(c) PROVE McpInv'
<1> DEFINE s == c.server
           ctx == Context(s)
           calls == client.calls \ {c}
           here == Callbacks(s) \ {c}
           late == IF ctx = None THEN mcp.late \cup {s} ELSE mcp.late
           crossed == IF \E d \in calls : d.server = s /\ d.step = "write" THEN mcp.crossed \cup {s} ELSE mcp.crossed
<1>1. /\ s \in McpServer /\ c \in Call /\ CallOK(c) /\ c \in Callbacks(s)
      /\ client.servers \in [McpServer -> ServerContext \cup {None}] /\ client.calls \in SUBSET Call
      /\ client = [servers |-> client.servers, calls |-> client.calls, crashed |-> client.crashed]
      /\ ctx = client.servers[s] /\ ctx \in ServerContext \cup {None} /\ client.crashed \in BOOLEAN
      /\ Following(ctx, Callbacks(s), LastTold(s), Teller(s)) /\ SeesContext(ctx, Callbacks(s))
      /\ nacos \in NacosType
      /\ \A d \in client.calls : CallOK(d)
      /\ ctx # None /\ ~ ctx.spoiled => s \in mcp.crossed \/ ContextWritten(ctx, Callbacks(s), configs[s])
  BY CallbackFacts
<1>2. c.step = "write" /\ UNCHANGED nacos /\ c.picture \in Picture
  BY <1>1 DEF PublishServer, CallOK
<1>3. client' = [servers |-> client.servers, calls |-> calls, crashed |-> client.crashed]
  BY <1>1 DEF PublishServer, Returned
<1>4. mcp' = [mcp EXCEPT !.late = late, !.crossed = crossed]
  BY DEF PublishServer
<1>5. late \in SUBSET McpServer /\ crossed \in SUBSET McpServer /\ mcp.late \subseteq late
      /\ (ctx = None => s \in late)
      /\ (\A t \in McpServer \ {s} : t \in crossed <=> t \in mcp.crossed) /\ (s \notin crossed => s \notin mcp.crossed)
      /\ (s \notin crossed => ~ \E d \in calls : d.server = s /\ d.step = "write")
  BY <1>1 DEF McpInv, McpTyped
<1>6. configs' = IF c.picture.spec = None THEN configs
                 ELSE [configs EXCEPT ![s] = UpdateConfigCache(@, ConfigsOf(c.picture))]
  BY DEF PublishServer
<1>7. DOMAIN configs = McpServer
  BY DEF McpInv, McpTyped
<1>8. DOMAIN configs' = McpServer /\ \A t \in McpServer \ {s} : configs'[t] = configs[t]
  BY <1>6, <1>7
<1>9. c.picture.spec # None => configs'[s] = UpdateConfigCache(configs[s], ConfigsOf(c.picture))
  BY <1>1, <1>6, <1>7
<1> HIDE DEF late, crossed
<1>10. /\ mcp' \in [watchingConfig : SUBSET McpServer, mutex : {"free", "run", "stop"},
                run : {"fetch", "cancelling", "listening", "ready", "done"},
                listening : [server : McpServer, content : Version \cup {Unread}] \cup {None},
                left : SUBSET McpServer, isStop : BOOLEAN, ready : BOOLEAN,
                stopper : {"no", "servers", "done"}, late : SUBSET McpServer,
                kept : SUBSET McpServer, crossed : SUBSET McpServer]
       /\ mcp'.late = late /\ mcp'.crossed = crossed
       /\ mcp'.watchingConfig = mcp.watchingConfig /\ mcp'.mutex = mcp.mutex /\ mcp'.run = mcp.run
       /\ mcp'.listening = mcp.listening /\ mcp'.left = mcp.left /\ mcp'.stopper = mcp.stopper
       /\ mcp'.kept = mcp.kept
  BY <1>4, <1>5 DEF McpInv, McpTyped
<1>11. client'.servers = client.servers /\ client'.calls = calls
       /\ client' \in [servers : [McpServer -> ServerContext \cup {None}], calls : SUBSET Call, crashed : BOOLEAN]
  BY <1>1, <1>3
<1>12. McpTyped'
  BY <1>1, <1>2, <1>8, <1>10, <1>11 DEF McpTyped
<1>13. \A t : Context(t)' = Context(t)
  BY <1>11 DEF Context
<1>14. McpPhases'
  BY <1>10, <1>13 DEF McpInv, McpPhases
<1>15. McpCleansUp'
  <2>1. ASSUME NEW t \in McpServer, t # s, Context(t)' = None
        PROVE  configs'[t] = NoConfigs \/ t \in mcp'.late \cup mcp'.kept
    BY <1>5, <1>8, <1>10, <1>13, <2>1 DEF McpInv, McpCleansUp
  <2>2. Context(s)' = None => s \in mcp'.late
    BY <1>5, <1>10, <1>13
  <2>3. QED
    BY <2>1, <2>2 DEF McpCleansUp
<1>16. \A t : (BeingListened(t)' <=> BeingListened(t)) /\ Teller(t)' = Teller(t) /\ LastTold(t)' = LastTold(t)
  BY <1>10, <1>13 DEF BeingListened, Teller, LastTold
<1>17. Callbacks(s)' = here /\ \A t \in McpServer \ {s} : Callbacks(t)' = Callbacks(t)
  BY <1>11 DEF Callbacks
<1>18. Following(ctx, here, LastTold(s), Teller(s))
  <2>1. \A e \in here : e \in Callbacks(s)
    OBVIOUS
  <2>2. \A e \in Callbacks(s) : e \in here \/ e.sees = "nothing" \/ e.step \in {"trigger", "write"}
    BY <1>2
  <2> HIDE DEF here, ctx
  <2>3. QED
    BY <1>1, <2>1, <2>2, StepAside
<1>19. ASSUME ctx # None, ~ ctx.spoiled, s \notin crossed
       PROVE  ContextWritten(ctx, here, configs'[s])
  <2>1. ContextWritten(ctx, Callbacks(s), configs[s])
    BY <1>1, <1>5, <1>19
  <2>2. \A d \in here : d.step # "write"
    BY <1>5, <1>19 DEF Callbacks
  <2>3. ASSUME ctx.spec # None, SamePicture(c.picture, ctx)
        PROVE  SameConfigs(configs'[s], ctx)
    <3>1. ctx.service # None
      BY <1>1, <1>19, <2>3 DEF Following, UpToDate, BackendFollowed
    <3>2. c.picture.spec # None
      BY <2>3 DEF SamePicture
    <3> DEFINE config == configs'[s]
               spec == c.picture.spec.data
    <3>3. config = UpdateConfigCache(configs[s], ConfigsOf(c.picture))
      BY <1>9, <3>2
    <3>4. /\ config["VirtualService"] = spec.ref
          /\ c.picture.tools # None => config["WasmPlugin"] = c.picture.tools.data
          /\ spec.https => config["DestinationRule"] = spec.ref
          /\ c.picture.service # None /\ c.picture.service.hosts # NoHosts =>
                 config["ServiceEntry"] = [host |-> spec.ref, hosts |-> c.picture.service.hosts]
      BY <1>2, <3>2, <3>3, WrittenGives
    <3> HIDE DEF config, ctx
    <3>5. SameConfigs(config, ctx)
      BY <2>3, <3>1, <3>4 DEF SamePicture, SameConfigs
    <3>6. QED
      BY <3>5 DEF config
  <2> HIDE DEF ctx, s
  <2>4. QED
    BY <1>1, <1>2, <2>1, <2>2, <2>3 DEF ContextWritten
<1>20. ServersFollowed'
  <2>1. ServerOK(ctx, here, LastTold(s), Teller(s), configs'[s], s \in mcp'.crossed)
    BY <1>10, <1>18, <1>19 DEF ServerOK
  <2>2. \A t \in McpServer \ {s} : (t \in mcp'.crossed) = (t \in mcp.crossed)
    BY <1>5, <1>10
  <2>3. ServersFollowed
    BY DEF McpInv
  <2> HIDE DEF s
  <2>4. Context(s)' = ctx /\ Callbacks(s)' = here /\ LastTold(s)' = LastTold(s) /\ Teller(s)' = Teller(s)
    BY <1>13, <1>16, <1>17
  <2>5. ServerOK(Context(s)', Callbacks(s)', LastTold(s)', Teller(s)', configs'[s], s \in mcp'.crossed)
    BY <2>1, <2>4
  <2>6. QED
    BY <1>1, <1>8, <1>13, <1>16, <1>17, <2>2, <2>3, <2>5, OthersStay
<1>21. QED
  BY <1>12, <1>14, <1>15, <1>20 DEF McpInv

McpType ==
    [watchingConfig : SUBSET McpServer, mutex : {"free", "run", "stop"},
     run : {"fetch", "cancelling", "listening", "ready", "done"},
     listening : [server : McpServer, content : Version \cup {Unread}] \cup {None},
     left : SUBSET McpServer, isStop : BOOLEAN, ready : BOOLEAN,
     stopper : {"no", "servers", "done"}, late : SUBSET McpServer,
     kept : SUBSET McpServer, crossed : SUBSET McpServer]

\* A step of the watcher that leaves the client and the cache alone.
LEMMA WatcherTurn ==
    ASSUME McpInv, UNCHANGED <<client, configs>>, nacos' \in NacosType, mcp' \in McpType,
           mcp'.listening = mcp.listening, mcp'.late = mcp.late, mcp'.kept = mcp.kept,
           mcp'.crossed = mcp.crossed, McpPhases'
    PROVE  McpInv'
<1>1. McpTyped'
  BY DEF McpInv, McpTyped, McpType
<1>2. \A t : Context(t)' = Context(t) /\ Callbacks(t)' = Callbacks(t)
  BY DEF Context, Callbacks
<1>3. McpCleansUp'
  BY <1>2 DEF McpInv, McpCleansUp
<1>4. \A t : LastTold(t)' = LastTold(t) /\ Teller(t)' = Teller(t)
  BY <1>2 DEF LastTold, Teller, BeingListened
<1>5. ServersFollowed'
  <2> SUFFICES ASSUME NEW t \in McpServer
               PROVE  ServerOK(Context(t)', Callbacks(t)', LastTold(t)', Teller(t)', configs'[t], t \in mcp'.crossed)
    BY DEF ServersFollowed
  <2>1. ServerOK(Context(t), Callbacks(t), LastTold(t), Teller(t), configs[t], t \in mcp.crossed)
    BY DEF McpInv, ServersFollowed
  <2>2. (t \in mcp'.crossed) = (t \in mcp.crossed)
    OBVIOUS
  <2>3. QED
    BY <1>2, <1>4, <2>1, <2>2
<1>6. QED
  BY <1>1, <1>3, <1>5 DEF McpInv

\* Nacos changes, of which nobody knows yet.
LEMMA NacosKeepsMcp == ASSUME McpInv, NacosChanges PROVE McpInv'
<1> DEFINE L == SUBSET McpServer
           V == [McpServer -> Version]
           S == [McpServer -> [Version -> ServerSpec]]
           T == [McpServer -> [Version -> Tools]]
           H == [Backend -> Hosts]
           NT == [listed : L, latest : V, spec : S, tools : T, hosts : H, events : Nat]
<1>1. Counted(nacos) \in NT /\ Counted(nacos) \in NacosType
  BY CountedType DEF McpInv, McpTyped, NacosType
<1> DEFINE n == Counted(nacos)
<1> HIDE DEF n
<1>2. UNCHANGED <<client, mcp, configs>>
  BY DEF NacosChanges
<1>3. nacos' \in NacosType
  <2>1. n \in NT /\ n.listed \subseteq McpServer /\ n.latest \in [McpServer -> Version]
        /\ n.spec \in [McpServer -> [Version -> ServerSpec]] /\ n.tools \in [McpServer -> [Version -> Tools]]
        /\ n.hosts \in [Backend -> Hosts]
    BY <1>1 DEF n
  <2>2. ASSUME NEW s \in McpServer, NEW v \in Version, nacos' = [n EXCEPT !.latest[s] = v]
        PROVE  nacos' \in NT
    <3> DEFINE x == [n.latest EXCEPT ![s] = v]
    <3>1. x \in V
      BY <2>1
    <3>2. nacos' = [n EXCEPT !.latest = x]
      BY <2>2
    <3> HIDE DEF x, L, V, S, T, H
    <3>3. QED
      BY <2>1, <3>1, <3>2
  <2>3. ASSUME NEW s \in McpServer, NEW v \in Version, NEW spec \in ServerSpec, nacos' = [n EXCEPT !.spec[s][v] = spec]
        PROVE  nacos' \in NT
    <3> DEFINE y == [n.spec[s] EXCEPT ![v] = spec]
               x == [n.spec EXCEPT ![s] = y]
    <3>1. n.spec[s] \in [Version -> ServerSpec]
      BY <2>1
    <3>2. y \in [Version -> ServerSpec]
      BY <3>1
    <3>3. nacos' = [n EXCEPT !.spec = x]
      BY <2>3
    <3> HIDE DEF y
    <3>4. x \in S
      BY <2>1, <3>2
    <3> HIDE DEF x, L, V, S, T, H
    <3>5. QED
      BY <2>1, <3>3, <3>4
  <2>4. ASSUME NEW s \in McpServer, NEW v \in Version, NEW tools \in Tools, nacos' = [n EXCEPT !.tools[s][v] = tools]
        PROVE  nacos' \in NT
    <3> DEFINE y == [n.tools[s] EXCEPT ![v] = tools]
               x == [n.tools EXCEPT ![s] = y]
    <3>1. n.tools[s] \in [Version -> Tools]
      BY <2>1
    <3>2. y \in [Version -> Tools]
      BY <3>1
    <3>3. nacos' = [n EXCEPT !.tools = x]
      BY <2>4
    <3> HIDE DEF y
    <3>4. x \in T
      BY <2>1, <3>2
    <3> HIDE DEF x, L, V, S, T, H
    <3>5. QED
      BY <2>1, <3>3, <3>4
  <2>5. ASSUME NEW s \in McpServer, nacos' = [n EXCEPT !.listed = (@ \ {s}) \cup ({s} \ @)]
        PROVE  nacos' \in NT
    <3> DEFINE x == (n.listed \ {s}) \cup ({s} \ n.listed)
    <3>1. x \in L
      BY <2>1
    <3>2. nacos' = [n EXCEPT !.listed = x]
      BY <2>5
    <3> HIDE DEF x, L, V, S, T, H
    <3>3. QED
      BY <2>1, <3>1, <3>2
  <2>6. ASSUME NEW b \in Backend, NEW h \in Hosts, nacos' = [n EXCEPT !.hosts[b] = h]
        PROVE  nacos' \in NT
    <3> DEFINE x == [n.hosts EXCEPT ![b] = h]
    <3>1. x \in H
      BY <2>1
    <3>2. nacos' = [n EXCEPT !.hosts = x]
      BY <2>6
    <3> HIDE DEF x, L, V, S, T, H
    <3>3. QED
      BY <2>1, <3>1, <3>2
  <2>7. \/ \E s \in McpServer, v \in Version :
              \/ nacos' = [n EXCEPT !.latest[s] = v]
              \/ \E spec \in ServerSpec : nacos' = [n EXCEPT !.spec[s][v] = spec]
              \/ \E tools \in Tools : nacos' = [n EXCEPT !.tools[s][v] = tools]
        \/ \E s \in McpServer : nacos' = [n EXCEPT !.listed = (@ \ {s}) \cup ({s} \ @)]
        \/ \E b \in Backend : \E h \in Hosts : nacos' = [n EXCEPT !.hosts[b] = h]
    BY DEF NacosChanges, n
  <2>8. nacos' \in NT
    <3> HIDE DEF NT
    <3>1. QED
      BY <2>2, <2>3, <2>4, <2>5, <2>6, <2>7
  <2>9. QED
    BY <2>8 DEF NacosType
<1>4. McpPhases' /\ mcp' \in McpType
  BY <1>2 DEF McpInv, McpPhases, Context, McpTyped, McpType
<1>5. QED
  BY <1>2, <1>3, <1>4, WatcherTurn

\* The turns of the watcher that concern no single server.
LEMMA WatcherKeepsMcp ==
    ASSUME McpInv, \/ BeginMcpFetch \/ BeginListening \/ McpFetchReturns \/ SayMcpReady \/ McpRunReturns
                   \/ BeginMcpStop \/ EndMcpStop
    PROVE  McpInv'
<1>1. mcp \in McpType /\ nacos \in NacosType /\ Counted(nacos) \in NacosType /\ nacos.listed \subseteq McpServer
  BY CountedType DEF McpInv, McpTyped, McpType, NacosType
<1>2. McpPhases
  BY DEF McpInv
<1>3. CASE BeginMcpFetch
  <2>1. CASE mcp' = [mcp EXCEPT !.run = "ready"] /\ UNCHANGED nacos
    <3>1. /\ mcp' \in McpType /\ mcp'.run = "ready" /\ mcp'.mutex = mcp.mutex /\ mcp'.stopper = mcp.stopper
          /\ mcp'.left = mcp.left /\ mcp'.watchingConfig = mcp.watchingConfig /\ mcp'.listening = mcp.listening
          /\ mcp'.late = mcp.late /\ mcp'.kept = mcp.kept /\ mcp'.crossed = mcp.crossed
      BY <1>1, <2>1 DEF McpType
    <3>2. mcp.run = "fetch" /\ mcp.mutex = "free" /\ UNCHANGED <<client, configs>>
      BY <1>3 DEF BeginMcpFetch
    <3>3. McpPhases'
      BY <1>2, <3>1, <3>2 DEF McpPhases, Context
    <3>4. QED
      BY <1>1, <2>1, <3>1, <3>2, <3>3, WatcherTurn
  <2>2. ASSUME NEW fetched \in SUBSET nacos.listed, nacos' = nacos \/ nacos' = Counted(nacos),
               mcp' = [mcp EXCEPT !.run = "cancelling", !.mutex = "run", !.left = fetched]
        PROVE  McpInv'
    <3>1. /\ mcp' \in McpType /\ mcp'.run = "cancelling" /\ mcp'.mutex = "run" /\ mcp'.stopper = mcp.stopper
          /\ mcp'.left = fetched /\ mcp'.watchingConfig = mcp.watchingConfig /\ mcp'.listening = mcp.listening
          /\ mcp'.late = mcp.late /\ mcp'.kept = mcp.kept /\ mcp'.crossed = mcp.crossed
      BY <1>1, <2>2 DEF McpType
    <3>2. mcp.run = "fetch" /\ mcp.mutex = "free" /\ UNCHANGED <<client, configs>>
      BY <1>3 DEF BeginMcpFetch
    <3>3. McpPhases'
      BY <1>2, <3>1, <3>2 DEF McpPhases, Context
    <3>4. QED
      BY <1>1, <2>2, <3>1, <3>2, <3>3, WatcherTurn
  <2>3. QED
    BY <1>3, <2>1, <2>2 DEF BeginMcpFetch
<1>4. CASE BeginListening
  <2>1. /\ mcp' \in McpType /\ mcp'.run = "listening" /\ mcp'.mutex = mcp.mutex /\ mcp'.stopper = mcp.stopper
        /\ mcp'.left = mcp.left \ mcp.watchingConfig /\ mcp'.watchingConfig = mcp.watchingConfig
        /\ mcp'.listening = mcp.listening
        /\ mcp'.late = mcp.late /\ mcp'.kept = mcp.kept /\ mcp'.crossed = mcp.crossed
    BY <1>1, <1>4 DEF McpType, BeginListening
  <2>2. mcp.run = "cancelling" /\ UNCHANGED <<nacos, client, configs>>
    BY <1>4 DEF BeginListening
  <2>3. McpPhases'
    BY <1>2, <2>1, <2>2 DEF McpPhases, Context
  <2>4. QED
    BY <1>1, <2>1, <2>2, <2>3, WatcherTurn
<1>5. CASE McpFetchReturns
  <2>1. /\ mcp' \in McpType /\ mcp'.run = "ready" /\ mcp'.mutex = "free" /\ mcp'.stopper = mcp.stopper
        /\ mcp'.left = mcp.left /\ mcp'.watchingConfig = mcp.watchingConfig /\ mcp'.listening = mcp.listening
        /\ mcp'.late = mcp.late /\ mcp'.kept = mcp.kept /\ mcp'.crossed = mcp.crossed
    BY <1>1, <1>5 DEF McpType, McpFetchReturns
  <2>2. mcp.run = "listening" /\ mcp.listening = None /\ UNCHANGED <<nacos, client, configs>>
    BY <1>5 DEF McpFetchReturns
  <2>3. McpPhases'
    BY <1>2, <2>1, <2>2 DEF McpPhases, Context
  <2>4. QED
    BY <1>1, <2>1, <2>2, <2>3, WatcherTurn
<1>6. CASE SayMcpReady
  <2>1. /\ mcp' \in McpType /\ mcp'.run = "fetch" /\ mcp'.mutex = mcp.mutex /\ mcp'.stopper = mcp.stopper
        /\ mcp'.left = mcp.left /\ mcp'.watchingConfig = mcp.watchingConfig /\ mcp'.listening = mcp.listening
        /\ mcp'.late = mcp.late /\ mcp'.kept = mcp.kept /\ mcp'.crossed = mcp.crossed
    BY <1>1, <1>6 DEF McpType, SayMcpReady
  <2>2. mcp.run = "ready" /\ UNCHANGED <<nacos, client, configs>>
    BY <1>6 DEF SayMcpReady
  <2>3. McpPhases'
    BY <1>2, <2>1, <2>2 DEF McpPhases, Context
  <2>4. QED
    BY <1>1, <2>1, <2>2, <2>3, WatcherTurn
<1>7. CASE McpRunReturns
  <2>1. /\ mcp' \in McpType /\ mcp'.run = "done" /\ mcp'.mutex = mcp.mutex /\ mcp'.stopper = mcp.stopper
        /\ mcp'.left = mcp.left /\ mcp'.watchingConfig = mcp.watchingConfig /\ mcp'.listening = mcp.listening
        /\ mcp'.late = mcp.late /\ mcp'.kept = mcp.kept /\ mcp'.crossed = mcp.crossed
    BY <1>1, <1>7 DEF McpType, McpRunReturns
  <2>2. mcp.run = "fetch" /\ UNCHANGED <<nacos, client, configs>>
    BY <1>7 DEF McpRunReturns
  <2>3. McpPhases'
    BY <1>2, <2>1, <2>2 DEF McpPhases, Context
  <2>4. QED
    BY <1>1, <2>1, <2>2, <2>3, WatcherTurn
<1>8. CASE BeginMcpStop
  <2>1. /\ mcp' \in McpType /\ mcp'.run = mcp.run /\ mcp'.mutex = "stop" /\ mcp'.stopper = "servers"
        /\ mcp'.left = mcp.watchingConfig /\ mcp'.watchingConfig = mcp.watchingConfig /\ mcp'.listening = mcp.listening
        /\ mcp'.late = mcp.late /\ mcp'.kept = mcp.kept /\ mcp'.crossed = mcp.crossed
    BY <1>1, <1>8 DEF McpType, BeginMcpStop
  <2>2. mcp.mutex = "free" /\ UNCHANGED <<nacos, client, configs>>
    BY <1>8 DEF BeginMcpStop
  <2>3. McpPhases'
    BY <1>2, <2>1, <2>2 DEF McpPhases, Context
  <2>4. QED
    BY <1>1, <2>1, <2>2, <2>3, WatcherTurn
<1>9. CASE EndMcpStop
  <2>1. /\ mcp' \in McpType /\ mcp'.run = mcp.run /\ mcp'.mutex = "free" /\ mcp'.stopper = "done"
        /\ mcp'.left = mcp.left /\ mcp'.watchingConfig = mcp.watchingConfig /\ mcp'.listening = mcp.listening
        /\ mcp'.late = mcp.late /\ mcp'.kept = mcp.kept /\ mcp'.crossed = mcp.crossed
    BY <1>1, <1>9 DEF McpType, EndMcpStop
  <2>2. mcp.stopper = "servers" /\ UNCHANGED <<nacos, client, configs>>
    BY <1>9 DEF EndMcpStop
  <2>3. McpPhases'
    BY <1>2, <2>1, <2>2 DEF McpPhases, Context
  <2>4. QED
    BY <1>1, <2>1, <2>2, <2>3, WatcherTurn
<1>10. QED
  BY <1>3, <1>4, <1>5, <1>6, <1>7, <1>8, <1>9

\* A server that is given up: nothing is left to follow.
LEMMA CancelKeeps ==
    ASSUME McpInv, NEW s \in McpServer, CancelListenToServer(s), nacos' \in NacosType, mcp' \in McpType,
           mcp'.listening = mcp.listening, ~ BeingListened(s), mcp'.late = mcp.late,
           mcp.kept \subseteq mcp'.kept, mcp'.crossed = mcp.crossed,
           \/ configs' = [configs EXCEPT ![s] = NoConfigs]
           \/ configs' = configs /\ s \in mcp'.kept
    PROVE  /\ McpTyped' /\ McpCleansUp' /\ ServersFollowed' /\ Context(s)' = None
           /\ \A t \in McpServer \ {s} : Context(t)' = Context(t)
<1> DEFINE Blind(d) == IF d.server = s THEN [d EXCEPT !.sees = "nothing"] ELSE d
           calls == {Blind(d) : d \in client.calls}
           servers == [client.servers EXCEPT ![s] = None]
<1>1. /\ client.servers \in [McpServer -> ServerContext \cup {None}] /\ client.calls \in SUBSET Call
      /\ client.crashed \in BOOLEAN
      /\ client = [servers |-> client.servers, calls |-> client.calls, crashed |-> client.crashed]
      /\ \A d \in client.calls : CallOK(d)
  BY ServerFacts
<1>2. client' = [servers |-> servers, calls |-> calls, crashed |-> client.crashed]
  BY <1>1 DEF CancelListenToServer
<1>3. ASSUME NEW d \in client.calls
      PROVE  /\ Blind(d) \in Call /\ CallOK(Blind(d)) /\ Blind(d).server = d.server
             /\ d.server = s => Blind(d).sees = "nothing"
             /\ d.server # s => Blind(d) = d
  <2> DEFINE e == [d EXCEPT !.sees = "nothing"]
  <2>1. d \in Call /\ CallOK(d)
    BY <1>1
  <2>2. /\ e \in Call /\ e.server = d.server /\ e.what = d.what /\ e.of = d.of /\ e.data = d.data
        /\ e.sees = "nothing" /\ e.step = d.step /\ e.left = d.left /\ e.picture = d.picture
    BY <2>1 DEF Call
  <2> HIDE DEF e
  <2>3. CallOK(e)
    BY <2>1, <2>2 DEF CallOK
  <2>4. Blind(d) = IF d.server = s THEN e ELSE d
    BY DEF e
  <2> HIDE DEF Blind
  <2>5. QED
    BY <2>1, <2>2, <2>3, <2>4
<1> HIDE DEF Blind
<1>4. /\ servers \in [McpServer -> ServerContext \cup {None}] /\ servers[s] = None
      /\ \A t \in McpServer \ {s} : servers[t] = client.servers[t]
  BY <1>1
<1>5. calls \in SUBSET Call /\ \A d \in calls : CallOK(d)
  BY <1>3
<1> HIDE DEF servers
<1>6. client' \in [servers : [McpServer -> ServerContext \cup {None}], calls : SUBSET Call, crashed : BOOLEAN]
      /\ client'.servers = servers /\ client'.calls = calls
  BY <1>1, <1>2, <1>4, <1>5
<1>7. DOMAIN configs' = McpServer /\ \A t \in McpServer \ {s} : configs'[t] = configs[t]
  BY DEF McpInv, McpTyped
<1>8. configs'[s] = NoConfigs \/ s \in mcp'.kept
  BY DEF McpInv, McpTyped
<1>9. McpTyped'
  BY <1>5, <1>6, <1>7 DEF McpTyped, McpType
<1>10. Context(s)' = None /\ \A t \in McpServer \ {s} : Context(t)' = Context(t)
  BY <1>4, <1>6 DEF Context
<1>11. McpCleansUp'
  BY <1>7, <1>8, <1>10 DEF McpInv, McpCleansUp
<1>12. \A d \in Callbacks(s)' : d.sees = "nothing"
  BY <1>3, <1>6 DEF Callbacks
<1>13. \A t \in McpServer \ {s} : Callbacks(t)' = Callbacks(t)
  BY <1>3, <1>6 DEF Callbacks
<1>14. \A t \in McpServer \ {s} : LastTold(t)' = LastTold(t) /\ Teller(t)' = Teller(t)
  BY <1>10 DEF LastTold, Teller, BeingListened
<1>15. ServerOK(Context(s)', Callbacks(s)', LastTold(s)', Teller(s)', configs'[s], s \in mcp'.crossed)
  <2>1. ASSUME NEW here, \A d \in here : d.sees = "nothing", NEW told, NEW teller, NEW config, NEW crossed
        PROVE  ServerOK(None, here, told, teller, config, crossed)
    BY <2>1 DEF ServerOK, Following, SeesContext
  <2>2. QED
    BY <1>10, <1>12, <2>1
<1>16. ServersFollowed'
  <2>1. ServersFollowed /\ \A t \in McpServer \ {s} : (t \in mcp'.crossed) = (t \in mcp.crossed)
    BY DEF McpInv
  <2>2. QED
    BY <1>7, <1>10, <1>13, <1>14, <1>15, <2>1, OthersStay
<1>17. QED
  BY <1>9, <1>10, <1>11, <1>16

\* A server is given up, by a fetch or by Stop, and its configurations go.
LEMMA CancelServerKeepsMcp == ASSUME McpInv, NEW s \in McpServer, CancelServer(s) \/ StopServer(s) PROVE McpInv'
<1>1. mcp \in McpType /\ nacos \in NacosType /\ Counted(nacos) \in NacosType
  BY CountedType DEF McpInv, McpTyped, McpType
<1>2. McpPhases
  BY DEF McpInv
<1>3. mcp.run # "listening" /\ mcp.listening = None /\ ~ BeingListened(s)
  BY <1>2 DEF McpPhases, CancelServer, StopServer, BeingListened
<1>4. CASE CancelServer(s)
  <2>1. CASE Forget(s) /\ mcp' = [mcp EXCEPT !.watchingConfig = @ \ {s}]
    <3>1. /\ mcp' \in McpType /\ mcp'.run = mcp.run /\ mcp'.mutex = mcp.mutex /\ mcp'.stopper = mcp.stopper
          /\ mcp'.left = mcp.left /\ mcp'.watchingConfig = mcp.watchingConfig \ {s} /\ mcp'.listening = mcp.listening
          /\ mcp'.late = mcp.late /\ mcp'.kept = mcp.kept /\ mcp'.crossed = mcp.crossed
      BY <1>1, <2>1 DEF McpType
    <3>2. CancelListenToServer(s) /\ configs' = [configs EXCEPT ![s] = NoConfigs] /\ nacos' \in NacosType
      BY <1>1, <2>1 DEF Forget
    <3>3. /\ McpTyped' /\ McpCleansUp' /\ ServersFollowed' /\ Context(s)' = None
          /\ \A t \in McpServer \ {s} : Context(t)' = Context(t)
      BY <1>3, <3>1, <3>2, CancelKeeps
    <3>4. McpPhases'
      BY <1>2, <1>3, <3>1, <3>3 DEF McpPhases
    <3>5. QED
      BY <3>3, <3>4 DEF McpInv
  <2>2. CASE CancelFails(s) /\ mcp' = [mcp EXCEPT !.run = "fetch", !.mutex = "free", !.left = {}, !.kept = @ \cup {s}]
    <3>1. /\ mcp' \in McpType /\ mcp'.run = "fetch" /\ mcp'.mutex = "free" /\ mcp'.stopper = mcp.stopper
          /\ mcp'.left = {} /\ mcp'.watchingConfig = mcp.watchingConfig /\ mcp'.listening = mcp.listening
          /\ mcp'.late = mcp.late /\ mcp'.kept = mcp.kept \cup {s} /\ mcp'.crossed = mcp.crossed
      BY <1>1, <2>2 DEF McpType
    <3>2. CancelListenToServer(s) /\ configs' = configs /\ nacos' \in NacosType
      BY <1>1, <2>2 DEF CancelFails
    <3>3. /\ McpTyped' /\ McpCleansUp' /\ ServersFollowed' /\ Context(s)' = None
          /\ \A t \in McpServer \ {s} : Context(t)' = Context(t)
      BY <1>3, <3>1, <3>2, CancelKeeps
    <3>4. mcp.run = "cancelling"
      BY <1>4 DEF CancelServer
    <3>5. McpPhases'
      BY <1>2, <1>3, <3>1, <3>3, <3>4 DEF McpPhases
    <3>6. QED
      BY <3>3, <3>5 DEF McpInv
  <2>3. QED
    BY <1>4, <2>1, <2>2 DEF CancelServer
<1>5. CASE StopServer(s)
  <2>1. CASE Forget(s) /\ mcp' = [mcp EXCEPT !.left = @ \ {s}, !.watchingConfig = @ \ {s}]
    <3>1. /\ mcp' \in McpType /\ mcp'.run = mcp.run /\ mcp'.mutex = mcp.mutex /\ mcp'.stopper = mcp.stopper
          /\ mcp'.left = mcp.left \ {s} /\ mcp'.watchingConfig = mcp.watchingConfig \ {s}
          /\ mcp'.listening = mcp.listening
          /\ mcp'.late = mcp.late /\ mcp'.kept = mcp.kept /\ mcp'.crossed = mcp.crossed
      BY <1>1, <2>1 DEF McpType
    <3>2. CancelListenToServer(s) /\ configs' = [configs EXCEPT ![s] = NoConfigs] /\ nacos' \in NacosType
      BY <1>1, <2>1 DEF Forget
    <3>3. /\ McpTyped' /\ McpCleansUp' /\ ServersFollowed' /\ Context(s)' = None
          /\ \A t \in McpServer \ {s} : Context(t)' = Context(t)
      BY <1>3, <3>1, <3>2, CancelKeeps
    <3>4. McpPhases'
      BY <1>2, <1>3, <3>1, <3>3 DEF McpPhases
    <3>5. QED
      BY <3>3, <3>4 DEF McpInv
  <2>2. CASE CancelFails(s) /\ mcp' = [mcp EXCEPT !.left = @ \ {s}, !.kept = @ \cup {s}]
    <3>1. /\ mcp' \in McpType /\ mcp'.run = mcp.run /\ mcp'.mutex = mcp.mutex /\ mcp'.stopper = mcp.stopper
          /\ mcp'.left = mcp.left \ {s} /\ mcp'.watchingConfig = mcp.watchingConfig /\ mcp'.listening = mcp.listening
          /\ mcp'.late = mcp.late /\ mcp'.kept = mcp.kept \cup {s} /\ mcp'.crossed = mcp.crossed
      BY <1>1, <2>2 DEF McpType
    <3>2. CancelListenToServer(s) /\ configs' = configs /\ nacos' \in NacosType
      BY <1>1, <2>2 DEF CancelFails
    <3>3. /\ McpTyped' /\ McpCleansUp' /\ ServersFollowed' /\ Context(s)' = None
          /\ \A t \in McpServer \ {s} : Context(t)' = Context(t)
      BY <1>3, <3>1, <3>2, CancelKeeps
    <3>4. McpPhases'
      BY <1>2, <1>3, <3>1, <3>3 DEF McpPhases
    <3>5. QED
      BY <3>3, <3>4 DEF McpInv
  <2>3. QED
    BY <1>5, <2>1, <2>2 DEF StopServer
<1>6. QED
  BY <1>4, <1>5

\* The watcher begins to listen to a server.
LEMMA ListenKeepsMcp == ASSUME McpInv, NEW s \in McpServer, ListenToMcpServer(s) PROVE McpInv'
<1>1. PICK content \in {nacos.latest[s]} \cup (IF Busy THEN {Unread} ELSE {}) :
         /\ nacos' = IF content = Unread THEN Counted(nacos) ELSE nacos
         /\ client' = [client EXCEPT !.servers[s] = NewServerContext,
                                     !.calls = @ \cup {NewCall(s, "versions", "run", content)}]
         /\ mcp' = [mcp EXCEPT !.left = @ \ {s}, !.listening = [server |-> s, content |-> content]]
  BY DEF ListenToMcpServer
<1> DEFINE n == NewCall(s, "versions", "run", content)
           servers == [client.servers EXCEPT ![s] = NewServerContext]
           calls == client.calls \cup {n}
           listening == [server |-> s, content |-> content]
<1>2. mcp \in McpType /\ nacos \in NacosType /\ Counted(nacos) \in NacosType /\ nacos' \in NacosType
  BY <1>1, CountedType DEF McpInv, McpTyped, McpType
<1>3. content \in Version \cup {Unread}
  BY <1>1, <1>2 DEF NacosType
<1>4. listening \in [server : McpServer, content : Version \cup {Unread}] /\ listening.server = s
      /\ listening.content = content
  BY <1>3
<1> HIDE DEF listening
<1>5. listening # None
  BY <1>4, NoneIsNoRecord
<1>6. /\ client.servers \in [McpServer -> ServerContext \cup {None}] /\ client.calls \in SUBSET Call
      /\ client.crashed \in BOOLEAN
      /\ client = [servers |-> client.servers, calls |-> client.calls, crashed |-> client.crashed]
      /\ \A d \in client.calls : CallOK(d)
      /\ SeesContext(Context(s), Callbacks(s))
  BY ServerFacts
<1>7. /\ mcp.run = "listening" /\ mcp.listening = None /\ s \in mcp.left /\ UNCHANGED configs
  BY DEF ListenToMcpServer
<1>8. McpPhases
  BY DEF McpInv
<1>9. Context(s) = None
  BY <1>7, <1>8 DEF McpPhases
<1>10. /\ n \in Call /\ n.server = s /\ Tells(n, "versions", "run", content)
       /\ n.left = {} /\ n.step = "start" /\ n.sees = "entry"
  BY <1>3, CallMade
<1> HIDE DEF n
<1>11. CallOK(n)
  BY <1>3, <1>10 DEF CallOK, Tells
<1>12. client' = [servers |-> servers, calls |-> calls, crashed |-> client.crashed]
  BY <1>1, <1>6 DEF n
<1>13. /\ servers \in [McpServer -> ServerContext \cup {None}] /\ servers[s] = NewServerContext
       /\ \A t \in McpServer \ {s} : servers[t] = client.servers[t]
  BY <1>6, NewContext
<1> HIDE DEF servers
<1>14. client' \in [servers : [McpServer -> ServerContext \cup {None}], calls : SUBSET Call, crashed : BOOLEAN]
       /\ client'.servers = servers /\ client'.calls = calls /\ (\A d \in calls : CallOK(d))
  BY <1>6, <1>10, <1>11, <1>12, <1>13
<1>15. /\ mcp' \in McpType /\ mcp'.run = mcp.run /\ mcp'.mutex = mcp.mutex /\ mcp'.stopper = mcp.stopper
       /\ mcp'.left = mcp.left \ {s} /\ mcp'.watchingConfig = mcp.watchingConfig /\ mcp'.listening = listening
       /\ mcp'.late = mcp.late /\ mcp'.kept = mcp.kept /\ mcp'.crossed = mcp.crossed
  BY <1>1, <1>2, <1>4 DEF McpType, listening
<1>16. McpTyped'
  BY <1>2, <1>7, <1>14, <1>15 DEF McpInv, McpTyped, McpType
<1>17. Context(s)' = NewServerContext /\ \A t \in McpServer \ {s} : Context(t)' = Context(t)
  BY <1>13, <1>14 DEF Context
<1>18. McpPhases'
  <2>1. mcp'.listening # None /\ mcp'.listening.server = s
    BY <1>4, <1>5, <1>15
  <2>2. Context(mcp.listening.server)' = NewServerContext
    BY <1>13, <1>14, <2>1 DEF Context
  <2>3. \A t \in McpServer :
          /\ Context(t)' # None => t \in mcp'.watchingConfig \/ (mcp'.listening # None /\ mcp'.listening.server = t)
          /\ t \in mcp'.watchingConfig => Context(t)' # None \/ t \in mcp'.kept
    BY <1>7, <1>8, <1>15, <1>17, <2>1, NewContext DEF McpPhases
  <2>4. QED
    BY <1>7, <1>8, <1>15, <2>1, <2>2, <2>3, NewContext DEF McpPhases
<1>19. McpCleansUp'
  BY <1>7, <1>15, <1>17, NewContext DEF McpInv, McpCleansUp
<1>20. Callbacks(s)' = Callbacks(s) \cup {n} /\ \A t \in McpServer \ {s} : Callbacks(t)' = Callbacks(t)
  BY <1>10, <1>14 DEF Callbacks
<1>21. LastTold(s)' = content /\ Teller(s)' = "run"
  BY <1>4, <1>5, <1>15 DEF LastTold, Teller, BeingListened
<1>22. \A t \in McpServer \ {s} : LastTold(t)' = LastTold(t) /\ Teller(t)' = Teller(t)
  BY <1>4, <1>7, <1>15, <1>17 DEF LastTold, Teller, BeingListened
<1>23. ServerOK(NewServerContext, Callbacks(s) \cup {n}, content, "run", configs[s], s \in mcp.crossed)
  <2>1. Following(NewServerContext, Callbacks(s) \cup {n}, content, "run")
    BY <1>6, <1>9, <1>10, NewServer
  <2>2. QED
    BY <2>1, NewContext DEF ServerOK, ContextWritten
<1>24. ServersFollowed'
  <2>1. ServersFollowed /\ configs' = configs /\ mcp'.crossed = mcp.crossed
    BY <1>7, <1>15 DEF McpInv
  <2>2. ServerOK(Context(s)', Callbacks(s)', LastTold(s)', Teller(s)', configs'[s], s \in mcp'.crossed)
    BY <1>17, <1>20, <1>21, <1>23, <2>1
  <2>3. \A t \in McpServer \ {s} : configs'[t] = configs[t] /\ (t \in mcp'.crossed) = (t \in mcp.crossed)
    BY <2>1
  <2>4. QED
    BY <1>17, <1>20, <1>22, <2>1, <2>2, <2>3, OthersStay
<1>25. QED
  BY <1>16, <1>18, <1>19, <1>24 DEF McpInv

\* It has read the versions, or failed to.
LEMMA ListensKeepsMcp ==
    ASSUME McpInv, ListensToMcpServer,
           NEW s, s = mcp.listening.server, NEW content, content = mcp.listening.content
    PROVE  McpInv'
<1> DEFINE ctx == Context(s)
           new == [ctx EXCEPT !.told = content]
           servers == [client.servers EXCEPT ![s] = new]
<1>1. /\ mcp.listening # None /\ (\A c \in client.calls : c.of # "run") /\ UNCHANGED <<nacos, configs>>
      /\ client' = [client EXCEPT !.servers[s].told = content]
      /\ mcp' = [mcp EXCEPT !.listening = None, !.watchingConfig = @ \cup {s}]
  BY DEF ListensToMcpServer
<1>2. mcp \in McpType /\ nacos \in NacosType /\ mcp.listening \in [server : McpServer, content : Version \cup {Unread}]
  BY <1>1 DEF McpInv, McpTyped, McpType
<1>3. s \in McpServer /\ content \in Version \cup {Unread}
  BY <1>2
<1>4. McpPhases
  BY DEF McpInv
<1>5. ctx # None /\ ctx.told = None /\ mcp.run = "listening" /\ s \notin mcp.left
  BY <1>1, <1>4 DEF McpPhases
<1>6. BeingListened(s) /\ Teller(s) = "run" /\ LastTold(s) = content
  BY <1>1 DEF BeingListened, Teller, LastTold
<1>7. /\ client.servers \in [McpServer -> ServerContext \cup {None}] /\ client.calls \in SUBSET Call
      /\ client.crashed \in BOOLEAN
      /\ client = [servers |-> client.servers, calls |-> client.calls, crashed |-> client.crashed]
      /\ \A d \in client.calls : CallOK(d)
      /\ Following(ctx, Callbacks(s), LastTold(s), Teller(s)) /\ ctx = client.servers[s]
      /\ ctx \in ServerContext \cup {None}
      /\ (ctx # None /\ ~ ctx.spoiled => s \in mcp.crossed \/ ContextWritten(ctx, Callbacks(s), configs[s]))
  BY <1>3, ServerFacts
<1>8. /\ new \in ServerContext /\ new.told = content /\ new.spec = ctx.spec /\ new.tools = ctx.tools
      /\ new.service = ctx.service /\ new.spoiled = ctx.spoiled
  <2>1. ctx \in ServerContext
    BY <1>5, <1>7
  <2> HIDE DEF ctx
  <2>2. QED
    BY <1>3, <2>1 DEF ServerContext
<1>9. client' = [servers |-> servers, calls |-> client.calls, crashed |-> client.crashed]
  BY <1>1, <1>7
<1>10. new # None
  BY <1>8, NoneIsNoRecord
<1>11. Following(new, Callbacks(s), content, None)
  <2>1. \A d \in Callbacks(s) : d.of # "run"
    BY <1>1 DEF Callbacks
  <2>2. ctx \in ServerContext /\ Following(ctx, Callbacks(s), content, "run")
    BY <1>5, <1>6, <1>7
  <2> HIDE DEF ctx
  <2>3. QED
    BY <1>8, <2>1, <2>2, ListenerRegistered
<1> HIDE DEF new
<1>12. /\ servers \in [McpServer -> ServerContext \cup {None}] /\ servers[s] = new
       /\ \A t \in McpServer \ {s} : servers[t] = client.servers[t]
  BY <1>3, <1>7, <1>8
<1> HIDE DEF servers
<1>13. client' \in [servers : [McpServer -> ServerContext \cup {None}], calls : SUBSET Call, crashed : BOOLEAN]
       /\ client'.servers = servers /\ client'.calls = client.calls
  BY <1>7, <1>9, <1>12
<1>14. /\ mcp' \in McpType /\ mcp'.run = mcp.run /\ mcp'.mutex = mcp.mutex /\ mcp'.stopper = mcp.stopper
       /\ mcp'.left = mcp.left /\ mcp'.watchingConfig = mcp.watchingConfig \cup {s} /\ mcp'.listening = None
       /\ mcp'.late = mcp.late /\ mcp'.kept = mcp.kept /\ mcp'.crossed = mcp.crossed
  BY <1>1, <1>2, <1>3 DEF McpType
<1>15. McpTyped'
  BY <1>1, <1>2, <1>7, <1>13, <1>14 DEF McpInv, McpTyped, McpType
<1>16. Context(s)' = new /\ \A t \in McpServer \ {s} : Context(t)' = Context(t)
  BY <1>12, <1>13 DEF Context
<1>17. McpPhases'
  BY <1>4, <1>5, <1>10, <1>14, <1>16 DEF McpPhases
<1>18. McpCleansUp'
  BY <1>1, <1>10, <1>14, <1>16 DEF McpInv, McpCleansUp
<1>19. \A t \in McpServer : Callbacks(t)' = Callbacks(t)
  BY <1>13 DEF Callbacks
<1>20. LastTold(s)' = content /\ Teller(s)' = None
  BY <1>8, <1>14, <1>16 DEF LastTold, Teller, BeingListened
<1>21. \A t \in McpServer \ {s} : LastTold(t)' = LastTold(t) /\ Teller(t)' = Teller(t)
  BY <1>14, <1>16 DEF LastTold, Teller, BeingListened
<1>22. ServerOK(new, Callbacks(s), content, None, configs[s], s \in mcp.crossed)
  <2>1. ~ new.spoiled => s \in mcp.crossed \/ ContextWritten(new, Callbacks(s), configs[s])
    <3>1. ~ new.spoiled => s \in mcp.crossed \/ ContextWritten(ctx, Callbacks(s), configs[s])
      BY <1>5, <1>7, <1>8
    <3> HIDE DEF ctx
    <3>2. QED
      BY <1>8, <3>1, StillWritten
  <2>2. QED
    BY <1>11, <2>1 DEF ServerOK
<1>23. ServersFollowed'
  <2>1. ServersFollowed /\ configs' = configs /\ mcp'.crossed = mcp.crossed
    BY <1>1, <1>14 DEF McpInv
  <2>2. ServerOK(Context(s)', Callbacks(s)', LastTold(s)', Teller(s)', configs'[s], s \in mcp'.crossed)
    BY <1>3, <1>16, <1>19, <1>20, <1>22, <2>1
  <2>3. \A t \in McpServer \ {s} : configs'[t] = configs[t] /\ (t \in mcp'.crossed) = (t \in mcp.crossed)
    BY <2>1
  <2>4. QED
    BY <1>3, <1>16, <1>19, <1>21, <2>1, <2>2, <2>3, OthersStay
<1>24. QED
  BY <1>15, <1>17, <1>18, <1>23 DEF McpInv

\* The invariant is inductive.
LEMMA NextMcp == ASSUME McpInv, McpNext PROVE McpInv'
<1>1. ASSUME NEW c \in client.calls, CallbackStep(c)
      PROVE  McpInv'
  BY <1>1, VersionsKeepMcp, DocumentKeepsMcp, InstancesKeepMcp, TriggerKeepsMcp, PublishKeepsMcp, DocumentsKeepMcp
     DEF CallbackStep
<1>2. CASE ListensToMcpServer
  BY <1>2, ListensKeepsMcp
<1>3. QED
  BY <1>1, <1>2, NacosKeepsMcp, NotifiesKeepsMcp, CancelServerKeepsMcp, ListenKeepsMcp, WatcherKeepsMcp DEF McpNext

\* Nothing is listened to at the start.
LEMMA InitMcp == McpInit => McpInv
<1> SUFFICES ASSUME McpInit
             PROVE  McpInv
  OBVIOUS
<1>1. PICK https \in BOOLEAN :
       LET spec == [ref |-> CHOOSE b \in Backend : TRUE, https |-> https] IN
         nacos = [listed |-> McpServer, latest |-> [s \in McpServer |-> CHOOSE v \in Version : TRUE],
                  spec |-> [s \in McpServer |-> [w \in Version |-> spec]],
                  tools |-> [s \in McpServer |-> [w \in Version |-> CHOOSE t \in Tools : TRUE]],
                  hosts |-> [b \in Backend |-> CHOOSE h \in Hosts : h # NoHosts], events |-> 0]
  BY DEF McpInit
<1> DEFINE ref == CHOOSE b \in Backend : TRUE
           v == CHOOSE w \in Version : TRUE
           t == CHOOSE u \in Tools : TRUE
           h == CHOOSE g \in Hosts : g # NoHosts
           spec == [ref |-> ref, https |-> https]
           latest == [s \in McpServer |-> v]
           specs == [s \in McpServer |-> [w \in Version |-> spec]]
           tools == [s \in McpServer |-> [w \in Version |-> t]]
           hosts == [b \in Backend |-> h]
<1>2. nacos = [listed |-> McpServer, latest |-> latest, spec |-> specs, tools |-> tools, hosts |-> hosts, events |-> 0]
  BY <1>1
<1>3. ref \in Backend /\ v \in Version /\ t \in Tools /\ h \in Hosts
  BY McpAssumption
<1> HIDE DEF ref, v, t, h
<1>4. spec \in ServerSpec
  BY <1>3 DEF ServerSpec
<1> HIDE DEF spec
<1>5. /\ latest \in [McpServer -> Version] /\ specs \in [McpServer -> [Version -> ServerSpec]]
      /\ tools \in [McpServer -> [Version -> Tools]] /\ hosts \in [Backend -> Hosts]
  BY <1>3, <1>4
<1> HIDE DEF latest, specs, tools, hosts
<1>6. nacos \in NacosType
  BY <1>2, <1>5 DEF NacosType
<1> DEFINE servers == [s \in McpServer |-> None]
<1>7. servers \in [McpServer -> ServerContext \cup {None}] /\ \A s \in McpServer : servers[s] = None
  OBVIOUS
<1>8. client = [servers |-> servers, calls |-> {}, crashed |-> FALSE]
  BY DEF McpInit
<1> HIDE DEF servers
<1>9. client \in [servers : [McpServer -> ServerContext \cup {None}], calls : SUBSET Call, crashed : BOOLEAN]
      /\ client.servers = servers /\ client.calls = {}
  BY <1>7, <1>8
<1>10. /\ mcp \in McpType /\ mcp.watchingConfig = {} /\ mcp.mutex = "free" /\ mcp.run = "fetch"
       /\ mcp.listening = None /\ mcp.stopper = "no"
  BY DEF McpInit, McpType
<1>11. DOMAIN configs = McpServer /\ \A s \in McpServer : configs[s] = NoConfigs
  BY DEF McpInit
<1>12. \A s \in McpServer : Context(s) = None /\ Callbacks(s) = {}
  BY <1>7, <1>9 DEF Context, Callbacks
<1>13. McpTyped
  BY <1>6, <1>9, <1>10, <1>11 DEF McpTyped, McpType
<1>14. McpPhases
  BY <1>10, <1>12 DEF McpPhases
<1>15. McpCleansUp
  BY <1>11 DEF McpCleansUp
<1>16. ServersFollowed
  BY <1>12 DEF ServersFollowed, ServerOK, Following, SeesContext
<1>17. QED
  BY <1>13, <1>14, <1>15, <1>16 DEF McpInv

\* What is published once nothing is under way: the invariant says it of what the context holds,
\* and the listeners that know what Nacos holds say it of Nacos.
LEMMA McpHolds == McpInv => McpServersPublished /\ McpCleansUp
<1> SUFFICES ASSUME McpInv
             PROVE  McpServersPublished
  BY DEF McpInv
<1> SUFFICES ASSUME NEW s \in McpServer
             PROVE  /\ s \in mcp.watchingConfig => Context(s) # None \/ s \in mcp.kept
                    /\ Quiet(s) /\ ~ Context(s).spoiled /\ s \notin mcp.crossed =>
                         LET latest == nacos.latest[s]
                             spec == nacos.spec[s][latest]
                         IN /\ configs[s]["VirtualService"] = spec.ref
                            /\ configs[s]["WasmPlugin"] = nacos.tools[s][latest]
                            /\ spec.https => configs[s]["DestinationRule"] = spec.ref
                            /\ nacos.hosts[spec.ref] # NoHosts =>
                                 configs[s]["ServiceEntry"] = [host |-> spec.ref, hosts |-> nacos.hosts[spec.ref]]
  BY DEF McpServersPublished
<1>1. s \in mcp.watchingConfig => Context(s) # None \/ s \in mcp.kept
  BY DEF McpInv, McpPhases
<1>2. ASSUME Quiet(s), ~ Context(s).spoiled, s \notin mcp.crossed
      PROVE  LET latest == nacos.latest[s]
                 spec == nacos.spec[s][latest]
             IN /\ configs[s]["VirtualService"] = spec.ref
                /\ configs[s]["WasmPlugin"] = nacos.tools[s][latest]
                /\ spec.https => configs[s]["DestinationRule"] = spec.ref
                /\ nacos.hosts[spec.ref] # NoHosts =>
                     configs[s]["ServiceEntry"] = [host |-> spec.ref, hosts |-> nacos.hosts[spec.ref]]
  <2> DEFINE ctx == Context(s)
             latest == nacos.latest[s]
             spec == nacos.spec[s][latest]
  <2>1. ctx # None /\ ctx \in ServerContext /\ Callbacks(s) = {} /\ nacos \in NacosType
    BY <1>2, ServerFacts DEF Quiet, Callbacks
  <2>2. UpToDate(ctx, {}, LastTold(s), Teller(s)) /\ ContextWritten(ctx, {}, configs[s])
    BY <1>2, <2>1, ServerFacts DEF Following
  <2>3. latest \in Version /\ latest # None /\ ctx.told = latest
    BY <1>2, <2>1, McpAssumption DEF NacosType, Quiet
  <2>4. LastTold(s) = latest
    BY <2>3 DEF McpInv, McpPhases, LastTold, BeingListened
  <2>5. ctx.version = latest
    BY <2>2, <2>3, <2>4 DEF UpToDate, VersionFollowed
  <2>6. \A what \in {"spec", "tools"} : /\ ctx[what] # None /\ ctx[what].version = latest
                                        /\ ctx[what].data = ctx[what].told
                                        /\ ctx[what].told = Document(nacos, s, what, ctx[what].version)
    <3>1. \A what \in {"spec", "tools"} : ctx[what] # None /\ ctx[what].version = ctx.version
      BY <2>2, <2>3, <2>5 DEF UpToDate, DocumentsFollowed
    <3>2. \A what \in {"spec", "tools"} : ContentFollowed(ctx, {}, what)
      BY <2>2 DEF UpToDate
    <3>3. QED
      BY <1>2, <2>5, <3>1, <3>2 DEF ContentFollowed, Quiet
  <2>7. /\ ctx.spec # None /\ ctx.spec.data = spec
        /\ ctx.tools # None /\ ctx.tools.data = nacos.tools[s][latest]
    BY <2>6 DEF Document
  <2>8. SameConfigs(configs[s], ctx)
    BY <2>2, <2>7 DEF ContextWritten
  <2>9. /\ ctx.service # None /\ ctx.service.name = spec.ref
        /\ ctx.subscribed[spec.ref] # None /\ ctx.service.hosts = ctx.subscribed[spec.ref]
    BY <2>2, <2>7 DEF UpToDate, BackendFollowed
  <2>10. spec.ref \in Backend
    BY <2>1, <2>3 DEF NacosType, ServerSpec
  <2>11. ctx.subscribed[spec.ref] = nacos.hosts[spec.ref]
    BY <1>2, <2>9, <2>10 DEF Quiet
  <2> HIDE DEF ctx, latest
  <2>12. QED
    BY <2>7, <2>8, <2>9, <2>11 DEF SameConfigs, latest
<1>3. QED
  BY <1>1, <1>2

-----------------------------------------------------------------------------
(* The watchers with the cache they write *)

\* A watcher that is not there has published nothing and has nothing to clean up.
ZkIdle == zk.stopper = "no" /\ ~ zk.ready /\ \A l \in Listener : listeners[l] = NoListener
PollIdle == watcher.stopper = "no"

WatchersInv ==
    /\ CacheInv /\ McpInv
    /\ IF kind = "poll" THEN PollInv ELSE PollIdle
    /\ IF kind = "zookeeper" THEN ZkInv ELSE ZkIdle

\* It holds at the start, whichever watcher is there.
LEMMA WatchersStart == WatchersInit => WatchersInv
<1> SUFFICES ASSUME WatchersInit
             PROVE  WatchersInv
  OBVIOUS
<1>1. CacheInv /\ McpInv
  BY CacheInvInit, InitMcp DEF WatchersInit
<1>2. PollInv /\ PollIdle
  BY InitPoll DEF WatchersInit, PollIdle, PollInit
<1>3. ZkInv
  BY InitZk DEF WatchersInit
<1>4. ZkIdle
  BY DEF WatchersInit, ZkIdle, ZkInit
<1>5. QED
  BY <1>1, <1>2, <1>3, <1>4 DEF WatchersInv

\* What a subscription writes is a content of a service.
LEMMA CallbackIsCacheStep ==
    ASSUME PollTyped, NEW p \in Plan, CallbackReturns(p)
    PROVE  CacheNext
<1>1. plans[p].call # "none" /\ plans[p] # NoPlan
  BY DEF CallbackReturns, NoPlan
<1>2. plans[p].service \in Service /\ (plans[p].call = "update" => plans[p].data \in Data)
  BY <1>1 DEF PollTyped
<1>3. CASE plans[p].call = "update"
  BY <1>2, <1>3 DEF CallbackReturns, CacheNext, Write
<1>4. CASE plans[p].call # "update"
  BY <1>2, <1>4 DEF CallbackReturns, CacheNext, Write
<1>5. QED
  BY <1>3, <1>4

\* A watcher that polls writes the cache by its methods only.
LEMMA PollIsCacheStep == ASSUME PollTyped, PollNext PROVE [CacheNext]_cacheVars
<1>1. CASE BeginFetch \/ BeginSubscribing \/ FetchReturns \/ SayReady \/ RunReturns \/ BeginStop \/ EndStop
  BY <1>1 DEF BeginFetch, BeginSubscribing, FetchReturns, SayReady, RunReturns, BeginStop, EndStop
<1>2. ASSUME NEW s \in Service, Unsubscribe(s) \/ Subscribe(s) \/ StopService(s)
      PROVE  [CacheNext]_cacheVars
  BY <1>2 DEF Unsubscribe, Subscribe, SubscribeEureka, StopService, CacheNext, Write
<1>3. ASSUME NEW p \in Plan, LibraryCalls(p) \/ PollerAsks(p) \/ PollerStep(p) \/ ConsumerStops(p)
                             \/ ConsumerReadsClosed(p)
      PROVE  UNCHANGED cacheVars
  BY <1>3 DEF LibraryCalls, PollerAsks, PollerStep, PollerAnswered, PollerCloses, ConsumerStops, ConsumerReadsClosed
<1>4. CASE PollPurge
  BY <1>4 DEF PollPurge, CacheNext, Write
<1>5. QED
  BY <1>1, <1>2, <1>3, <1>4, CallbackIsCacheStep DEF PollNext, RunStep, StopStep

\* So does the watcher of ZooKeeper: it publishes children that are there, and never none.
LEMMA ZkIsCacheStep == ASSUME ZkTyped, ZkNext PROVE [CacheNext]_cacheVars
<1>1. zk.world \in Worlds
  BY DEF ZkTyped, ZkType
<1>2. CASE FirstFetch \/ FetchAgain \/ SayZkReady \/ StopWatching \/ BeginCleaning \/ EndStopZk
  BY <1>2 DEF FirstFetch, FetchAgain, SayZkReady, StopWatching, BeginCleaning, EndStopZk
<1>3. ASSUME NEW s \in Found, NodesChange(s) \/ CleanService(s)
      PROVE  [CacheNext]_cacheVars
  BY <1>1, <1>3, FoundFacts DEF NodesChange, CleanService, CacheNext, Write
<1>4. CASE ZkPurge
  BY <1>4 DEF ZkPurge, CacheNext, Write
<1>5. ASSUME NEW l \in Listener, Look(l) \/ ListenerExits(l) \/ Tick20s(l) \/ WatchFires(l) \/ DeleteChild(l)
                                 \/ Deleted(l)
      PROVE  UNCHANGED cacheVars
  BY <1>5 DEF Look, ListenerExits, Tick20s, WatchFires, DeleteChild, Deleted
<1>6. ASSUME NEW l \in Listener
      PROVE  /\ l[1] \in Found /\ l[1] \in Service
             /\ listeners[l].read # {} => listeners[l].read \in Data
             /\ listeners[l].data # {} => listeners[l].data \in Data
  BY <1>1, FoundFacts DEF Listener, ZkTyped, ListenerType
<1>7. ASSUME NEW l \in Listener, WriteChildren(l)
      PROVE  [CacheNext]_cacheVars
  BY <1>6, <1>7 DEF WriteChildren, Writing, ChildToServiceEntry, CacheNext, Write
<1>8. ASSUME NEW l \in Listener, Publish(l)
      PROVE  [CacheNext]_cacheVars
  BY <1>6, <1>8 DEF Publish, CacheNext, Write
<1>9. QED
  BY <1>2, <1>3, <1>4, <1>5, <1>7, <1>8 DEF ZkNext, ListenerNext

\* A watcher that is not there stays away, and the MCP servers are left alone.
LEMMA IdleStays ==
    /\ PollIdle /\ UNCHANGED pollVars => PollIdle'
    /\ ZkIdle /\ UNCHANGED zkVars => ZkIdle'
    /\ McpInv /\ UNCHANGED mcpVars => McpInv'
<1>1. PollIdle /\ UNCHANGED pollVars => PollIdle'
  BY DEF PollIdle, pollVars
<1>2. ZkIdle /\ UNCHANGED zkVars => ZkIdle'
  BY DEF ZkIdle, zkVars, Listener, Found
<1>3. McpInv /\ UNCHANGED mcpVars => McpInv'
  <2> SUFFICES ASSUME McpInv, UNCHANGED mcpVars PROVE McpInv'
    OBVIOUS
  <2>1. nacos' = nacos /\ client' = client /\ mcp' = mcp /\ configs' = configs
    BY DEF mcpVars
  <2>2. McpTyped' = McpTyped
    BY <2>1 DEF McpTyped
  <2>3. McpPhases' /\ McpCleansUp'
    BY <2>1 DEF McpInv, McpPhases, McpCleansUp, Context
  <2>4. \A s \in McpServer : /\ Context(s)' = Context(s) /\ Callbacks(s)' = Callbacks(s)
                              /\ LastTold(s)' = LastTold(s) /\ Teller(s)' = Teller(s)
    BY <2>1 DEF Context, Callbacks, LastTold, Teller, BeingListened
  <2>5. ServersFollowed'
    BY <2>1, <2>4 DEF McpInv, ServersFollowed
  <2>6. QED
    BY <2>2, <2>3, <2>5 DEF McpInv
<1>4. QED
  BY <1>1, <1>2, <1>3

\* Every step of every watcher is a step of the cache, or leaves it alone.
LEMMA WatchersAreCacheSteps ==
    ASSUME WatchersInv, [WatchersNext]_watchersVars
    PROVE  [CacheNext]_cacheVars
<1>1. CASE PollStep
  BY <1>1, PollIsCacheStep DEF PollStep, WatchersInv, PollInv
<1>2. CASE ZkStep
  BY <1>2, ZkIsCacheStep DEF ZkStep, WatchersInv, ZkInv
<1>3. CASE McpStep
  BY <1>3 DEF McpStep, McpNext
<1>4. CASE CacheStep
  BY <1>4 DEF CacheStep
<1>5. CASE UNCHANGED watchersVars
  BY <1>5 DEF watchersVars
<1>6. QED
  BY <1>1, <1>2, <1>3, <1>4, <1>5 DEF WatchersNext

\* A step that leaves all of it alone.
LEMMA PollStutters == PollInv /\ UNCHANGED <<pollVars, cacheVars>> => PollInv'
BY DEF PollInv, PollTyped, PollPhases, StoredForAReason, PlansForAReason, OnePlanEach, Followed, Watching,
       pollVars, cacheVars, serviceVars

\* The same for ZooKeeper.
LEMMA ZkStutters == ZkInv /\ UNCHANGED <<zkVars, cacheVars>> => ZkInv'
<1> SUFFICES ASSUME ZkInv, UNCHANGED <<zkVars, cacheVars>>
             PROVE  ZkInv'
  OBVIOUS
<1>1. /\ nodes' = nodes /\ zk' = zk /\ listeners' = listeners /\ seen' = seen
      /\ sew' = sew /\ deferredDeleteServices' = deferredDeleteServices
  BY DEF zkVars, cacheVars, serviceVars
<1>2. Found' = Found /\ Listener' = Listener /\ AllChildren' = AllChildren
      /\ (\A t : Children(t)' = Children(t) /\ ListenerType(t)' = ListenerType(t))
      /\ ZkType' = ZkType /\ SeenType' = SeenType
  BY <1>1, SameWorld DEF ZkType, SeenType
<1>3. ZkTyped' /\ ListenersOK' /\ ZkPhases'
  BY <1>1, <1>2 DEF ZkInv, ZkTyped, ListenersOK, ZkPhases
<1>4. StoredHaveEntries' /\ CleanedAreMarked' /\ EntriesPublished' /\ WaitingAgree'
  BY <1>1, <1>2 DEF ZkInv, StoredHaveEntries, CleanedAreMarked, ZkCleansUp, EntriesPublished, WaitingAgree,
     Publishing
<1>5. LooksCounted'
  BY <1>1 DEF ZkInv, LooksCounted, ReadyMeansLooked
<1>6. QED
  BY <1>3, <1>4, <1>5 DEF ZkInv

\* The invariant of the cache holds by what its methods do, that of a watcher by its own steps.
LEMMA WatchersKeep ==
    ASSUME WatchersInv, [WatchersNext]_watchersVars
    PROVE  WatchersInv'
<1>1. CacheInv' /\ CacheTypeOK
  BY WatchersAreCacheSteps, CacheInvStep DEF WatchersInv, CacheInv
<1>2. CASE PollStep
  <2>1. PollInv'
    BY <1>1, <1>2, NextPoll DEF PollStep, WatchersInv
  <2>2. QED
    BY <1>1, <1>2, <2>1, IdleStays DEF PollStep, WatchersInv
<1>3. CASE ZkStep
  <2>1. ZkInv'
    BY <1>1, <1>3, NextZk DEF ZkStep, WatchersInv
  <2>2. QED
    BY <1>1, <1>3, <2>1, IdleStays DEF ZkStep, WatchersInv
<1>4. CASE McpStep
  <2>1. McpInv'
    BY <1>4, NextMcp DEF McpStep, WatchersInv
  <2>2. QED
    BY <1>1, <1>4, <2>1, IdleStays DEF McpStep, WatchersInv
<1>5. CASE CacheStep
  BY <1>1, <1>5, IdleStays DEF CacheStep, WatchersInv
<1>6. CASE UNCHANGED watchersVars
  <2>1. UNCHANGED <<kind, pollVars, zkVars, mcpVars, cacheVars>>
    BY <1>6 DEF watchersVars
  <2>2. QED
    BY <1>1, <2>1, IdleStays, PollStutters, ZkStutters DEF WatchersInv
<1>7. QED
  BY <1>2, <1>3, <1>4, <1>5, <1>6 DEF WatchersNext

\* What the invariant says of each watcher.
LEMMA WatchersHold == WatchersInv => WatchersCleanUp /\ WatchedIsPublished /\ ReadyMeansLooked
<1> SUFFICES ASSUME WatchersInv
             PROVE  WatchersCleanUp /\ WatchedIsPublished /\ ReadyMeansLooked
  OBVIOUS
<1>1. PollersCleanUp
  BY PollCleansUp DEF WatchersInv, PollIdle, PollersCleanUp
<1>2. ZkPublished /\ ZkCleansUp /\ ReadyMeansLooked
  <2>1. CASE kind = "zookeeper"
    BY <2>1, ZkHolds DEF WatchersInv
  <2>2. CASE kind # "zookeeper"
    BY <2>2 DEF WatchersInv, ZkIdle, ZkPublished, ZkCleansUp, ReadyMeansLooked, NoListener
  <2>3. QED
    BY <2>1, <2>2
<1>3. McpServersPublished /\ McpCleansUp
  BY McpHolds DEF WatchersInv
<1>4. QED
  BY <1>1, <1>2, <1>3 DEF WatchersCleanUp, WatchedIsPublished

-----------------------------------------------------------------------------
\* The inductive invariant of the watchers, whichever one it is and whatever it does.
THEOREM WatchersInvariant == WatchersSpec => []WatchersInv
<1>. QED
  BY WatchersStart, WatchersKeep, PTL DEF WatchersSpec

\* The watchers write the cache by its methods only, with services and contents that are there:
\* what is proved of the cache, whoever calls it, holds with any of them.
THEOREM WatchersImplementCache == WatchersSpec => CacheSpec
<1>1. WatchersInit => CacheInit
  BY DEF WatchersInit
<1>2. WatchersInv /\ [WatchersNext]_watchersVars => [CacheNext]_cacheVars
  BY WatchersAreCacheSteps
<1>. QED
  BY <1>1, <1>2, WatchersInvariant, PTL DEF WatchersSpec, CacheSpec

\* After Stop nothing that a watcher published stays in the cache, but what the registry had
\* stopped listing and what was written behind the cleaning.
THEOREM WatchersAreCleanedUp == WatchersSpec => []WatchersCleanUp
<1>. QED
  BY WatchersInvariant, WatchersHold, PTL

\* What a watcher follows, and nothing is under way for, is in the cache as the registry has it.
THEOREM WatchedArePublished == WatchersSpec => []WatchedIsPublished
<1>. QED
  BY WatchersInvariant, WatchersHold, PTL

\* The ZooKeeper watcher is not ready before every service it found was looked at.
THEOREM ReadyHaveLooked == WatchersSpec => []ReadyMeansLooked
<1>. QED
  BY WatchersInvariant, WatchersHold, PTL

\* With the watchers too, a service keeps its creation time and goes only when it was marked.
THEOREM WatchersKeepIdentity == WatchersSpec => ServicesKeepTheirIdentity
<1>. QED
  BY WatchersImplementCache, IdentityIsKept, PTL
=============================================================================
