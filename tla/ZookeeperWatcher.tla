-------------------------- MODULE ZookeeperWatcher --------------------------
(***************************************************************************)
(* registry/zookeeper/watcher.go.  fetchAllServices finds the services and *)
(* starts a goroutine that listens to each: it reads the children of the   *)
(* service with a watch, publishes them, and waits for the watch, a tick or *)
(* its exit.  Run says that the watcher is ready once as many services were *)
(* looked at as its first fetch found.  A service has one host, whichever   *)
(* of Dubbo and Spring Cloud it is.                                         *)
(***************************************************************************)
EXTENDS ServiceCache, FiniteSets

CONSTANT
    Worlds  \* bounds: the services there may be in ZooKeeper with their children, how many
            \* goroutines listen at once, and how many events there are: changes, fetches
            \* after the first, ticks, lost sessions

ASSUME WorldsMakeData ==
    \A world \in Worlds :
        /\ world.listeners \in Nat /\ world.events \in Nat
        /\ IsFiniteSet(DOMAIN world.children)
        /\ \A s \in DOMAIN world.children :
              /\ s \in Service /\ (SUBSET world.children[s]) \ {{}} \subseteq Data
              /\ \A entry \in SUBSET world.children[s] : entry # None

ASSUME NoneIsNoCount == None \notin Nat

VARIABLES
    nodes,      \* the children of each service, in ZooKeeper
    zk,         \* the watcher
    listeners,  \* the listening goroutines
    seen        \* history

zkVars == <<nodes, zk, listeners, seen>>

Found == DOMAIN zk.world.children
Listener == Found \X (1 .. zk.world.listeners)

\* read is what the goroutine holds of the children, all of them if complete; old what it
\* looked at last; changed that its watch has fired; next where it goes from here; data what
\* DataChange is about to publish.
NoListener == [phase |-> "gone", read |-> {}, complete |-> TRUE, old |-> {},
               changed |-> FALSE, exit |-> FALSE, next |-> "wait", data |-> {}]
Listening(s) == {l \in Listener : l[1] = s /\ listeners[l] # NoListener}
FreeSlots(s) == {k \in 1 .. zk.world.listeners : listeners[<<s, k>>] = NoListener}

\* serviceRemaind is None before the first fetch, and counts down to 0: below, nothing changes.
ZkInit ==
    /\ \E world \in Worlds :
          /\ nodes = world.children
          /\ zk = [world |-> world, WatchingServices |-> {}, serviceRemaind |-> None,
                   fetched |-> FALSE, ready |-> FALSE, serviceEntry |-> [s \in DOMAIN nodes |-> None],
                   isStop |-> FALSE, stopper |-> "no", left |-> {}]
    /\ listeners = [l \in Listener |-> NoListener]
    /\ seen = [first |-> {}, looked |-> {}, recounted |-> FALSE, disturbed |-> {}, crossed |-> {},
               late |-> {}, events |-> 0]

Event(history) == [history EXCEPT !.events = @ + 1]

-----------------------------------------------------------------------------
\* The registry. The watches on the service fire.
NodesChange(s) ==
    /\ seen.events < zk.world.events
    /\ \E children \in (SUBSET zk.world.children[s]) \ {nodes[s]} : nodes' = [nodes EXCEPT ![s] = children]
    /\ listeners' = [l \in Listener |->
          IF l \in Listening(s) /\ listeners[l].phase # "look" /\ listeners[l].next = "wait"
          THEN [listeners[l] EXCEPT !.changed = TRUE] ELSE listeners[l]]
    /\ seen' = Event(seen)
    /\ UNCHANGED <<zk, cacheVars>>

-----------------------------------------------------------------------------
(* fetchAllServices, under the mutex: Run calls it first and on its ticks, the reconnect
   handler at any time.  A path that cannot be read lists nothing. *)

Fetch(fetched) ==
    LET new == fetched \ zk.WatchingServices
        left == zk.WatchingServices \ fetched
        Starts(l) == l[1] \in new /\ l[2] = CHOOSE k \in FreeSlots(l[1]) : TRUE
    IN /\ Cardinality({l \in Listener : listeners[l] # NoListener}) + Cardinality(new)
             <= zk.world.listeners
       /\ listeners' = [l \in Listener |->
             IF Starts(l) THEN [NoListener EXCEPT !.phase = "look"]
             ELSE IF l \in Listening(l[1]) /\ l[1] \in left THEN [listeners[l] EXCEPT !.exit = TRUE]
             ELSE listeners[l]]

\* The count is of what this fetch found new, which an earlier one may have found already.
FirstFetch ==
    /\ ~ zk.fetched
    /\ \/ /\ zk.isStop
          /\ zk' = [zk EXCEPT !.fetched = TRUE]
          /\ UNCHANGED <<listeners, seen>>
       \/ /\ ~ zk.isStop
          /\ \E fetched \in SUBSET Found :
                LET new == fetched \ zk.WatchingServices
                IN /\ Fetch(fetched)
                   /\ zk' = [zk EXCEPT !.fetched = TRUE, !.WatchingServices = fetched,
                                       !.serviceRemaind = Cardinality(new)]
                   /\ seen' = [seen EXCEPT !.first = new]
    /\ UNCHANGED <<nodes, cacheVars>>

FetchAgain ==
    /\ ~ zk.isStop /\ seen.events < zk.world.events
    /\ \E fetched \in (SUBSET Found) \ {zk.WatchingServices} :
          /\ Fetch(fetched)
          /\ zk' = [zk EXCEPT !.WatchingServices = fetched]
    /\ seen' = Event(seen)
    /\ UNCHANGED <<nodes, cacheVars>>

\* watcherReady, on a tick of Run, which may come before Run sees that it is stopped.
SayZkReady ==
    /\ zk.fetched /\ ~ zk.ready
    /\ zk.serviceRemaind \in {None, 0}
    /\ zk' = [zk EXCEPT !.ready = TRUE]
    /\ UNCHANGED <<nodes, listeners, seen, cacheVars>>

-----------------------------------------------------------------------------
(* The goroutine that listens to one service *)

Listen(l, listener) == listeners' = [listeners EXCEPT ![l] = listener]

\* Each child is read by a request of its own, which may fail.
Reading(l, phase, read) ==
    [listeners[l] EXCEPT !.phase = phase, !.read = read, !.complete = read = nodes[l[1]]]

\* GetChildrenW sets the watch as it reads.
Look(l) ==
    /\ listeners[l].phase = "look"
    /\ \E read \in SUBSET nodes[l[1]] :
          Listen(l, [Reading(l, "looked", read) EXCEPT
                        !.old = nodes[l[1]], !.next = "wait", !.changed = FALSE])
    /\ UNCHANGED <<nodes, zk, seen, cacheVars>>

\* A failed look is tried again, unless the service is no longer watched; a wait ends then.
ListenerExits(l) ==
    /\ listeners[l].phase \in {"look", "wait"} /\ listeners[l].exit
    /\ Listen(l, NoListener)
    /\ UNCHANGED <<nodes, zk, seen, cacheVars>>

\* handleZkNodeEvent. Where no children are left, those of the last look are to be deleted.
Handle(l, next) ==
    \/ /\ nodes[l[1]] # {}
       /\ \E read \in SUBSET nodes[l[1]] : Listen(l, [Reading(l, "read", read) EXCEPT !.next = next])
    \/ /\ nodes[l[1]] = {}
       /\ Listen(l, [Reading(l, "deleting", listeners[l].old) EXCEPT !.next = next])
    \/ Listen(l, [listeners[l] EXCEPT !.phase = next])

Tick20s(l) ==
    /\ seen.events < zk.world.events
    /\ listeners[l].phase = "wait"
    /\ Handle(l, "wait")
    /\ seen' = Event(seen)
    /\ UNCHANGED <<nodes, zk, cacheVars>>

\* The watch fires once, for a change or because the session is lost, and is set again by the
\* next look.
WatchFires(l) ==
    /\ listeners[l].phase = "wait"
    /\ \/ listeners[l].changed /\ Handle(l, "look") /\ UNCHANGED seen
       \/ /\ ~ listeners[l].changed /\ seen.events < zk.world.events
          /\ Listen(l, [listeners[l] EXCEPT !.phase = "look"])
          /\ seen' = Event(seen)
    /\ UNCHANGED <<nodes, zk, cacheVars>>

seMuxFree == zk.stopper # "cleaning"
AlreadyCleaned(s) == zk.stopper = "done" \/ (zk.stopper = "cleaning" /\ s \notin zk.left)
LateIf(history, s) == IF AlreadyCleaned(s) THEN [history EXCEPT !.late = @ \cup {s}] ELSE history

\* What two goroutines of a service write may come in any order, and what was not read whole
\* is not what is there.
Disturbs(l) ==
    [seen EXCEPT !.disturbed = IF Listening(l[1]) = {l} /\ listeners[l].complete
                               THEN @ \ {l[1]} ELSE @ \cup {l[1]}]

\* Only a difference to the entry is published, and nothing read is nothing written.
ChildToServiceEntry(s, read) ==
    IF read \in {{}, zk.serviceEntry[s]} THEN UNCHANGED cacheVars ELSE UpdateServiceWrapper(s, read)

Entered(s, read, counts) ==
    [zk EXCEPT !.serviceEntry[s] = IF read = {} THEN @ ELSE read,
               !.serviceRemaind = IF counts /\ @ \notin {None, 0} THEN @ - 1 ELSE @]

\* A look that counts, but is not the first at a service of the first fetch, counts for another.
Looked(history, s) ==
    [history EXCEPT !.looked = @ \cup {s}, !.recounted = @ \/ s \notin seen.first \ seen.looked]

\* Mutant of Writing: the watch is set once the children are published.
WritingThenWatching(l) ==
    /\ listeners[l].phase \in {"looked", "read"}
    /\ listeners[l].read = {} \/ seMuxFree
    /\ ChildToServiceEntry(l[1], listeners[l].read)
    /\ Listen(l, [listeners[l] EXCEPT !.phase = listeners[l].next, !.read = {}, !.complete = TRUE,
                                      !.changed = FALSE])
    /\ UNCHANGED nodes

Writing(l) ==
    /\ listeners[l].phase \in {"looked", "read"}
    /\ listeners[l].read = {} \/ seMuxFree
    /\ ChildToServiceEntry(l[1], listeners[l].read)
    /\ Listen(l, [listeners[l] EXCEPT !.phase = listeners[l].next, !.read = {}, !.complete = TRUE])
    /\ UNCHANGED nodes

Written(l) == IF listeners[l].read = {} THEN Disturbs(l) ELSE LateIf(Disturbs(l), l[1])

\* Mutant of WriteChildren: what a tick or a watch reads counts as well.
WriteCountsAll(l) ==
    /\ Writing(l)
    /\ zk' = Entered(l[1], listeners[l].read, TRUE)
    /\ seen' = IF listeners[l].phase = "looked" /\ zk.serviceRemaind # None THEN Looked(Written(l), l[1])
               ELSE Written(l)

\* seMux is held over the entry and the cache. Then a look counts.
WriteChildren(l) ==
    /\ Writing(l)
    /\ zk' = Entered(l[1], listeners[l].read, listeners[l].phase = "looked")
    /\ seen' = IF listeners[l].phase = "looked" /\ zk.serviceRemaind # None THEN Looked(Written(l), l[1])
               ELSE Written(l)

\* DataChange with a deletion: the child was read again, so it is back. The entry is changed
\* under seMux, and published when that is free again.
DeleteChild(l) ==
    LET s == l[1]
        rest(i) == [listeners[l] EXCEPT !.read = @ \ {i}]
    IN /\ listeners[l].phase = "deleting"
       /\ \E i \in listeners[l].read :
             \/ Listen(l, rest(i)) /\ UNCHANGED <<zk, seen>>
             \/ /\ i \in nodes[s] /\ seMuxFree
                /\ LET kept == IF zk.serviceEntry[s] = None THEN {} ELSE zk.serviceEntry[s] \ {i}
                   IN /\ Listen(l, [rest(i) EXCEPT !.phase = "publishing", !.data = kept])
                      /\ zk' = [zk EXCEPT !.serviceEntry[s] = IF @ = None THEN None ELSE kept]
                /\ seen' = IF Listening(s) = {l} THEN seen ELSE [seen EXCEPT !.disturbed = @ \cup {s}]
    /\ UNCHANGED <<nodes, cacheVars>>

\* keepStaleWhenEmpty is a setting: a service that lost its last child stays, or goes.
Publish(l) ==
    LET s == l[1]
        data == listeners[l].data
    IN /\ listeners[l].phase = "publishing"
       /\ \/ data = {} /\ (DeleteServiceWrapper(s) \/ UNCHANGED cacheVars)
          \/ data # {} /\ UpdateServiceWrapper(s, data)
       /\ seen' = [LateIf(seen, s) EXCEPT
                      !.crossed = IF data = zk.serviceEntry[s] THEN @ ELSE @ \cup {s}]
       /\ Listen(l, [listeners[l] EXCEPT !.phase = "deleting", !.data = {}])
       /\ UNCHANGED <<nodes, zk>>

Deleted(l) ==
    /\ listeners[l].phase = "deleting" /\ listeners[l].read = {}
    /\ Listen(l, [listeners[l] EXCEPT !.phase = listeners[l].next, !.complete = TRUE])
    /\ UNCHANGED <<nodes, zk, seen, cacheVars>>

-----------------------------------------------------------------------------
(* Stop *)

StopWatching ==
    /\ zk.stopper = "no"
    /\ zk' = [zk EXCEPT !.stopper = "watching", !.isStop = TRUE, !.WatchingServices = {}]
    /\ listeners' = [l \in Listener |->
          IF l \in Listening(l[1]) THEN [listeners[l] EXCEPT !.exit = TRUE] ELSE listeners[l]]
    /\ UNCHANGED <<nodes, seen, cacheVars>>

BeginCleaning ==
    /\ zk.stopper = "watching"
    /\ zk' = [zk EXCEPT !.stopper = "cleaning", !.left = {s \in Found : zk.serviceEntry[s] # None}]
    /\ UNCHANGED <<nodes, listeners, seen, cacheVars>>

\* Mutant of CleanService: what has no endpoints left is skipped.
CleanServiceWithEndpoints(s) ==
    /\ zk.stopper = "cleaning" /\ s \in zk.left
    /\ IF zk.serviceEntry[s] = {} THEN UNCHANGED cacheVars ELSE DeleteServiceWrapper(s)
    /\ zk' = [zk EXCEPT !.left = @ \ {s}]
    /\ UNCHANGED <<nodes, listeners, seen>>

CleanService(s) ==
    /\ zk.stopper = "cleaning" /\ s \in zk.left
    /\ DeleteServiceWrapper(s)
    /\ zk' = [zk EXCEPT !.left = @ \ {s}]
    /\ UNCHANGED <<nodes, listeners, seen>>

EndStopZk ==
    /\ zk.stopper = "cleaning" /\ zk.left = {}
    /\ zk' = [zk EXCEPT !.stopper = "done", !.ready = FALSE]
    /\ UNCHANGED <<nodes, listeners, seen, cacheVars>>

\* The reconciler purges what Stop marked.
ZkPurge == PurgeStaleItems /\ UNCHANGED zkVars

-----------------------------------------------------------------------------
ListenerNext(l) ==
    \/ Look(l) \/ ListenerExits(l) \/ Tick20s(l) \/ WatchFires(l) \/ WriteChildren(l)
    \/ DeleteChild(l) \/ Publish(l) \/ Deleted(l)

ZkNext ==
    \/ FirstFetch \/ FetchAgain \/ SayZkReady
    \/ \E s \in Found : NodesChange(s) \/ CleanService(s)
    \/ \E l \in Listener : ListenerNext(l)
    \/ StopWatching \/ BeginCleaning \/ EndStopZk \/ ZkPurge

-----------------------------------------------------------------------------
\* A goroutine whose watch is set and has not fired has published what ZooKeeper holds, unless
\* another one listens or listened to the same service, or a child could not be read; but for
\* the last child, which is never taken away.
ZkPublished ==
    \A l \in Listener :
        listeners[l].phase = "wait" /\ ~ listeners[l].changed /\ ~ listeners[l].exit
        /\ l[1] \notin seen.disturbed \cup seen.crossed /\ nodes[l[1]] # {}
            => sew[l[1]] # None /\ sew[l[1]].data = nodes[l[1]] /\ l[1] \notin deferredDeleteServices

\* The watcher says that it is ready when every service of its first fetch was looked at and
\* published, but for the looks that were counted in the place of others: a second one at the
\* same service, or at one that another fetch found; and but for a watcher that is stopped.
ReadyMeansLooked ==
    zk.ready /\ ~ zk.isStop /\ ~ seen.recounted => seen.first \subseteq seen.looked

\* After Stop every service is marked for deletion, but those a late goroutine wrote again.
ZkCleansUp ==
    zk.stopper = "done" => \A s \in Found : sew[s] # None => s \in deferredDeleteServices \cup seen.late
=============================================================================
