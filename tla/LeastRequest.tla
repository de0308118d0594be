---------------------------- MODULE LeastRequest ----------------------------
(***************************************************************************)
(* The policy global_least_request of ai-load-balancer.  The gateways      *)
(* share a table in Redis, host -> requests in progress.  A script picks a *)
(* healthy host with the lowest count, counts the request, and from time   *)
(* to time drops the hosts that are not in the list of the gateway that    *)
(* runs it.  The end of the stream, or the limit, takes the request back.  *)
(***************************************************************************)
EXTENDS Integers, FiniteSets

CONSTANTS
    Request,
    Host,
    None,
    MaxRequestCounts,   \* what may be configured as the limit, 0 for none
    CleanInterval,      \* lb.cleanInterval
    MaxTime             \* bound on the clock

Reply == [host : Host, count : Int]

ASSUME NoneIsNoHost == None \notin Host /\ None \notin Reply
ASSUME Limits == MaxRequestCounts \subseteq Nat /\ CleanInterval \in Nat /\ MaxTime \in Nat
ASSUME FiniteRequests == IsFiniteSet(Request)

VARIABLES
    maxRequestCount,    \* lb.maxRequestCount
    table,      \* the counts, 0 for an absent field
    lastClean,  \* last_clean_key
    decs,       \* HINCRBY -1 on their way to Redis
    clock,
    \* per request
    phase,      \* "new", "paused", "upstream", "answered" or "done"
    view,       \* the hosts, the healthy ones and the time its script carries
    eval,       \* its script: "none", "sent", "ran" (the reply is on its way), "over"
    reply,      \* host and count of that reply
    error, host,        \* ctx "error" and "host_selected"
    \* history
    wiped,      \* hosts dropped by a cleanup while they had a count
    lost        \* hosts with a request counted that nobody will take back

redis == <<table, lastClean, decs>>
context == <<phase, view, eval, reply, error, host>>
vars == <<maxRequestCount, redis, clock, context, wiped, lost>>

View == [all : SUBSET Host, healthy : SUBSET Host, time : 0 .. MaxTime]
NoView == [all |-> {}, healthy |-> {}, time |-> 0]

Init ==
    /\ maxRequestCount \in MaxRequestCounts
    /\ table = [h \in Host |-> 0]
    /\ lastClean = 0
    /\ decs = [h \in Host |-> 0]
    /\ clock = 0
    /\ phase = [r \in Request |-> "new"]
    /\ view = [r \in Request |-> NoView]
    /\ eval = [r \in Request |-> "none"]
    /\ reply = [r \in Request |-> None]
    /\ error = [r \in Request |-> FALSE]
    /\ host = [r \in Request |-> None]
    /\ wiped = {} /\ lost = {}

-----------------------------------------------------------------------------
\* A request without route, cluster or healthy host, or whose script cannot be
\* sent, is left to the default policy.
NotBalanced(r) ==
    /\ phase[r] = "new"
    /\ phase' = [phase EXCEPT ![r] = "upstream"]
    /\ error' = [error EXCEPT ![r] = TRUE]
    /\ UNCHANGED <<redis, clock, view, eval, reply, host, wiped, lost>>

\* Every gateway has a list of hosts of its own, which may be outdated.
HandleHttpRequestBody(r, all, healthy) ==
    /\ phase[r] = "new"
    /\ healthy # {}
    /\ phase' = [phase EXCEPT ![r] = "paused"]
    /\ view' = [view EXCEPT ![r] = [all |-> all, healthy |-> healthy, time |-> clock]]
    /\ eval' = [eval EXCEPT ![r] = "sent"]
    /\ UNCHANGED <<redis, clock, reply, error, host, wiped, lost>>

LeastLoaded(hosts) == {h \in hosts : \A g \in hosts : table[h] <= table[g]}

CleanDue(r) == view[r].time - lastClean >= CleanInterval

\* RedisLua.  When the request is no longer paused nobody reads the reply.
RunScript(r, h) ==
    LET counted == [table EXCEPT ![h] = @ + 1]
        dropped == IF CleanDue(r) THEN Host \ view[r].all ELSE {}
    IN  /\ eval[r] = "sent"
        /\ h \in LeastLoaded(view[r].healthy)
        /\ table' = [g \in Host |-> IF g \in dropped THEN 0 ELSE counted[g]]
        /\ lastClean' = IF CleanDue(r) THEN view[r].time ELSE lastClean
        /\ wiped' = wiped \cup {g \in dropped : counted[g] # 0}
        /\ IF phase[r] = "paused"
           THEN /\ eval' = [eval EXCEPT ![r] = "ran"]
                /\ reply' = [reply EXCEPT ![r] = [host |-> h, count |-> counted[h]]]
                /\ UNCHANGED lost
           ELSE /\ eval' = [eval EXCEPT ![r] = "over"]
                /\ lost' = lost \cup {h}
                /\ UNCHANGED reply
        /\ view' = [view EXCEPT ![r] = NoView]
        /\ UNCHANGED <<decs, clock, phase, error, host>>

-----------------------------------------------------------------------------
(* The callback of the script *)

\* Mutant of TooMany: the limit is compared with the count before this request.
TooManyOthers(r) == maxRequestCount > 0 /\ reply[r].count - 1 > maxRequestCount

\* checkRateLimit
TooMany(r) == maxRequestCount > 0 /\ reply[r].count > maxRequestCount

Answered(r) ==
    /\ phase[r] = "paused" /\ eval[r] = "ran"
    /\ eval' = [eval EXCEPT ![r] = "over"]
    /\ reply' = [reply EXCEPT ![r] = None]
    /\ UNCHANGED <<table, lastClean, clock, view, wiped>>

\* Mutant of Rejected: the count is not restored.
RejectedCounted(r) ==
    /\ Answered(r)
    /\ TooMany(r)
    /\ phase' = [phase EXCEPT ![r] = "answered"]
    /\ error' = [error EXCEPT ![r] = TRUE]
    /\ UNCHANGED <<decs, host, lost>>

\* The response 429.
Rejected(r) ==
    /\ Answered(r)
    /\ TooMany(r)
    /\ decs' = [decs EXCEPT ![reply[r].host] = @ + 1]
    /\ phase' = [phase EXCEPT ![r] = "answered"]
    /\ error' = [error EXCEPT ![r] = TRUE]
    /\ UNCHANGED <<host, lost>>

Selected(r) ==
    /\ Answered(r)
    /\ ~TooMany(r)
    /\ phase' = [phase EXCEPT ![r] = "upstream"]
    /\ host' = [host EXCEPT ![r] = reply[r].host]
    /\ UNCHANGED <<decs, error, lost>>

\* SetUpstreamOverrideHost fails: the default policy takes over, and the request
\* stays counted for the host it does not go to.
OverrideFails(r) ==
    /\ Answered(r)
    /\ ~TooMany(r)
    /\ phase' = [phase EXCEPT ![r] = "upstream"]
    /\ error' = [error EXCEPT ![r] = TRUE]
    /\ lost' = lost \cup {reply[r].host}
    /\ UNCHANGED <<decs, host>>

\* Hosts whose count the request, whose reply nobody will read, leaves behind.
Unread(r) == IF eval[r] = "ran" THEN {reply[r].host} ELSE {}

\* The callback gets an error: Redis failed or did not answer in time.  The script
\* may have run, or still run.
EvalFails(r) ==
    /\ phase[r] = "paused"
    /\ phase' = [phase EXCEPT ![r] = "upstream"]
    /\ error' = [error EXCEPT ![r] = TRUE]
    /\ eval' = [eval EXCEPT ![r] = IF @ = "ran" THEN "over" ELSE @]
    /\ reply' = [reply EXCEPT ![r] = None]
    /\ lost' = lost \cup Unread(r)
    /\ UNCHANGED <<redis, clock, view, host, wiped>>

-----------------------------------------------------------------------------
\* The stream may end while the request is paused: the client went away, and the
\* callback of the script will not be called.
HandleHttpStreamDone(r) ==
    /\ phase[r] \in {"paused", "upstream", "answered"}
    /\ phase' = [phase EXCEPT ![r] = "done"]
    /\ decs' = IF ~error[r] /\ host[r] # None THEN [decs EXCEPT ![host[r]] = @ + 1] ELSE decs
    /\ eval' = [eval EXCEPT ![r] = IF @ = "ran" THEN "over" ELSE @]
    /\ reply' = [reply EXCEPT ![r] = None]
    /\ lost' = lost \cup Unread(r)
    /\ UNCHANGED <<table, lastClean, clock, view, error, host, wiped>>

\* HINCRBY makes an absent field -1.
ApplyDecrement(h) ==
    /\ decs[h] > 0
    /\ decs' = [decs EXCEPT ![h] = @ - 1]
    /\ table' = [table EXCEPT ![h] = @ - 1]
    /\ UNCHANGED <<lastClean, clock, context, wiped, lost>>

LoseDecrement(h) ==
    /\ decs[h] > 0
    /\ decs' = [decs EXCEPT ![h] = @ - 1]
    /\ lost' = lost \cup {h}
    /\ UNCHANGED <<table, lastClean, clock, context, wiped>>

Tick ==
    /\ clock < MaxTime
    /\ clock' = clock + 1
    /\ UNCHANGED <<redis, context, wiped, lost>>

Next ==
    /\ \/ \E r \in Request :
             \/ NotBalanced(r)
             \/ \E all \in SUBSET Host : \E healthy \in SUBSET all :
                   HandleHttpRequestBody(r, all, healthy)
             \/ \E h \in Host : RunScript(r, h)
             \/ Rejected(r) \/ Selected(r) \/ OverrideFails(r)
             \/ EvalFails(r)
             \/ HandleHttpStreamDone(r)
       \/ \E h \in Host : ApplyDecrement(h) \/ LoseDecrement(h)
       \/ Tick
    /\ UNCHANGED maxRequestCount

Spec == Init /\ [][Next]_vars

-----------------------------------------------------------------------------
\* The types; a reply is known exactly while a paused request waits for it.
BalancerTypeOK ==
    /\ maxRequestCount \in MaxRequestCounts
    /\ table \in [Host -> Int]
    /\ lastClean \in 0 .. MaxTime
    /\ decs \in [Host -> Nat]
    /\ clock \in 0 .. MaxTime
    /\ phase \in [Request -> {"new", "paused", "upstream", "answered", "done"}]
    /\ view \in [Request -> View]
    /\ eval \in [Request -> {"none", "sent", "ran", "over"}]
    /\ reply \in [Request -> Reply \cup {None}]
    /\ \A r \in Request : reply[r] # None <=> eval[r] = "ran"
    /\ \A r \in Request : eval[r] = "ran" => phase[r] = "paused"
    /\ error \in [Request -> BOOLEAN]
    /\ host \in [Request -> Host \cup {None}]
    /\ wiped \subseteq Host /\ lost \subseteq Host

\* The requests counted for a host that will take themselves back.
Holders(h) ==
    {r \in Request : \/ eval[r] = "ran" /\ reply[r].host = h
                     \/ phase[r] = "upstream" /\ ~error[r] /\ host[r] = h}

\* However the scripts, callbacks, ends of streams and decrements of the gateways
\* interleave, a host that no cleanup dropped is never credited with fewer
\* requests than it has, so no gateway prefers it wrongly. Where nothing failed,
\* the count is the number of requests in progress, those whose decrement is on
\* its way included: none is left over when they end.
CountsFollowRequests ==
    \A h \in Host \ wiped :
        LET held == Cardinality(Holders(h)) + decs[h]
        IN  held <= table[h] /\ (h \notin lost => held = table[h])

AtHost(h) == {r \in Request : phase[r] = "upstream" /\ host[r] = h}

\* A host that no cleanup dropped never serves more requests than the limit,
\* although the limit is compared with a count that is old when it arrives.
LimitUnlessWiped ==
    maxRequestCount > 0 => \A h \in Host \ wiped : Cardinality(AtHost(h)) <= maxRequestCount
=============================================================================
