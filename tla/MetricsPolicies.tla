-------------------------- MODULE MetricsPolicies --------------------------
(***************************************************************************)
(* The policies of ai-load-balancer that choose by what they measure.       *)
(* cluster_metrics chooses a service by the requests it has, or by the      *)
(* average of its last latencies; endpoint_metrics chooses a pod by the     *)
(* metrics the pod exposes.  Both turn away from who gets more than its     *)
(* share.  The ring buffers they measure with are those of FixedQueue, used *)
(* here through what BoundedQueue promises of them.                         *)
(***************************************************************************)
EXTENDS Integers, FiniteSets, Sequences, SequencesExt, FiniteSetsExt

CONSTANTS
    Service,      \* ServiceList
    Visit,        \* the requests a cluster serves
    Duration,     \* the milliseconds a request may take
    QueueSize,    \* queue_size
    RateLimit,    \* rate_limit: the share a service or pod may get, as a numerator and a denominator
    Mode,         \* the modes of cluster_metrics
    Pod, Model,
    Metrics,      \* what a pod may expose: waiting requests, used cache, active adapters, their limit
    Threshold,    \* queueingThresholdLoRA: queues below it are short
    Policy,       \* the metric_policy
    Remembers,    \* FixedQueueSize
    Nobody        \* no service and no pod

ASSUME MetricsAssumption ==
    /\ Nobody \notin Service \cup Pod /\ IsFiniteSet(Service)
    /\ QueueSize \in 1 .. 2 /\ Duration \subseteq Nat /\ Remembers \in Nat \ {0}
    /\ RateLimit[1] \in Nat \ {0} /\ RateLimit[2] \in Nat \ {0}
    /\ Mode \subseteq {"LeastBusy", "LeastFirstTokenLatency", "LeastTotalLatency"}
    /\ Policy \subseteq {"default", "least", "most"}

VARIABLES
    setting,    \* the mode and the metric policy
    cluster,    \* the requests in progress and in all, and the latencies, of each service
    visit,      \* what became of each request
    recent,     \* endpointRequests
    chosen      \* history: the last choice of a pod

metricsVars == <<setting, cluster, visit, recent, chosen>>

\* FixedQueue.Enqueue, by BoundedQueue.
Enqueued(q, limit, x) == Append(IF Len(q) = limit THEN Tail(q) ELSE q, x)

\* Fractions: what is not positive below counts as 1.
Less(a, b) == a[1] * b[2] < b[1] * a[2]
Sum(q) == FoldLeft(LAMBDA a, b : a + b, 0, q)
Average(q) == IF q = <<>> THEN <<0, 1>> ELSE <<Sum(q), Len(q)>>

MetricsInit ==
    /\ setting \in [mode : Mode, policy : Policy]
    /\ cluster = [ongoing |-> [s \in Service |-> 0], all |-> [s \in Service |-> 0],
                  first |-> [s \in Service |-> <<>>], total |-> [s \in Service |-> <<>>]]
    /\ visit = [v \in Visit |-> [at |-> "new", service |-> Nobody, failed |-> FALSE, recorded |-> FALSE]]
    /\ recent = <<>>
    /\ chosen = Nobody

-----------------------------------------------------------------------------
(* cluster_metrics *)

\* A service whose share of all requests has reached the limit.
Crowded(s) ==
    LET all == SumFunctionOnSet(cluster.all, Service)
    IN  all # 0 /\ cluster.all[s] * RateLimit[2] >= RateLimit[1] * all

Load(s) == CASE setting.mode = "LeastBusy" -> <<cluster.ongoing[s], 1>>
             [] setting.mode = "LeastFirstTokenLatency" -> Average(cluster.first[s])
             [] OTHER -> Average(cluster.total[s])

\* Mutant of Better: the candidate is kept although it has its share.
BetterCrowded(candidate, s) ==
    IF candidate # s /\ Less(Load(s), Load(candidate)) /\ ~ Crowded(s) THEN s ELSE candidate

\* One turn of the loop over the services.
Better(candidate, s) ==
    IF candidate # s /\ (Crowded(candidate) \/ (Less(Load(s), Load(candidate)) /\ ~ Crowded(s)))
    THEN s ELSE candidate

\* HandleHttpRequestHeaders: the loop starts with a candidate drawn at random and visits the
\* services in the order of a map.
ClusterRequest(v) ==
    /\ visit[v].at = "new"
    /\ \E first \in Service, order \in SetToSeqs(Service) :
        LET s == FoldLeft(Better, first, order)
        IN  /\ visit' = [visit EXCEPT ![v].at = "upstream", ![v].service = s]
            /\ cluster' = [cluster EXCEPT !.ongoing[s] = @ + 1, !.all[s] = @ + 1]
    /\ UNCHANGED <<setting, recent, chosen>>

ClusterResponse(v) ==
    /\ visit[v].at = "upstream"
    /\ \E failed \in BOOLEAN : visit' = [visit EXCEPT ![v].at = "answering", ![v].failed = failed]
    /\ UNCHANGED <<setting, cluster, recent, chosen>>

\* A failed request counts as twice the longest average, or as twice what it took.
Punished(duration, latencies) ==
    LET Twice(q) == (2 * Average(q)[1]) \div Average(q)[2]
    IN  Max({2 * duration} \cup {Twice(latencies[s]) : s \in Service})

Recorded(v, duration, latencies) ==
    [latencies EXCEPT ![visit[v].service] =
        Enqueued(@, QueueSize, IF visit[v].failed THEN Punished(duration, latencies) ELSE duration)]

\* HandleHttpStreamingResponseBody, for the first piece.
ClusterFirstPiece(v) ==
    /\ visit[v].at = "answering" /\ ~ visit[v].recorded
    /\ \E duration \in Duration : cluster' = [cluster EXCEPT !.first = Recorded(v, duration, @)]
    /\ visit' = [visit EXCEPT ![v].recorded = TRUE]
    /\ UNCHANGED <<setting, recent, chosen>>

\* HandleHttpStreamDone: without a response there is no status, the handler fails at the type
\* assertion behind the count, and no latency is recorded.
ClusterDone(v) ==
    /\ visit[v].at \in {"upstream", "answering"}
    /\ \E duration \in Duration :
        cluster' = [cluster EXCEPT !.ongoing[visit[v].service] = @ - 1,
                                   !.total = IF visit[v].at = "answering"
                                             THEN Recorded(v, duration, @) ELSE @]
    /\ visit' = [visit EXCEPT ![v].at = "over"]
    /\ UNCHANGED <<setting, recent, chosen>>

-----------------------------------------------------------------------------
(* endpoint_metrics *)

\* Those within the first part of the range, of as many parts as there are pods.
Lowest(pods, Value(_)) ==
    LET least == Min({Value(p) : p \in pods})
        most == Max({Value(p) : p \in pods})
    IN  {p \in pods : (Value(p) - least) * Cardinality(pods) <= most - least}

Highest(pods, Value(_)) == Lowest(pods, LAMBDA p : - Value(p))

\* The filters of the default flow, by which pods it is asked about; a filter that leaves
\* nobody is passed over. Every request is critical, so the flow for others is never entered.
Active(found, pods, model) == {p \in pods : model \in found[p].active}
Room(found, pods) == {p \in pods : Cardinality(found[p].active) < found[p].limit}
Unless(kept, pods) == IF kept = {} THEN pods ELSE kept
LeastQueuing(found, pods) == Lowest(pods, LAMBDA p : found[p].waiting)
LeastCache(found, pods) == Lowest(pods, LAMBDA p : found[p].cache)

\* lowLatencyFilter and what follows it.
ShortQueues(found, low, model) ==
    LET affine == Unless(Active(found, low, model), Unless(Room(found, low), low))
    IN  LeastCache(found, LeastQueuing(found, affine))

\* queueLoRAAndKVCacheFilter
LongQueues(found, pods, model) ==
    LET queued == LeastQueuing(found, pods)
        cheap == Active(found, queued, model) \cup Room(found, queued)
    IN  LeastCache(found, Unless(cheap, queued))

\* Mutant of Scheduled: the pods are ranked by their queues before their adapters are asked for.
ScheduledByQueue(found, model) == LongQueues(found, DOMAIN found, model)

\* Schedule: the pods one of which is drawn. The selected metric stands for the queue.
Scheduled(found, model) ==
    LET pods == DOMAIN found
        low == {p \in pods : found[p].waiting < Threshold}
    IN  CASE setting.policy = "least" -> LeastQueuing(found, pods)
          [] setting.policy = "most" -> Highest(pods, LAMBDA p : found[p].waiting)
          [] setting.policy = "default" /\ low # {} -> ShortQueues(found, low, model)
          [] OTHER -> LongQueues(found, pods, model)

Share(p) == Cardinality({i \in DOMAIN recent : recent[i] = p})

\* Of the last requests the pod got more than a pod may.
HasShare(p) == recent # <<>> /\ Share(p) * RateLimit[2] > RateLimit[1] * Len(recent)

\* HandleHttpRequestBody. Without metrics for every pod nothing is chosen.
EndpointRequest(found, model) ==
    /\ \E p \in Scheduled(found, model) :
        LET others == DOMAIN found \ {p}
        IN  \E final \in IF HasShare(p) /\ others # {} THEN others ELSE {p} :
                /\ chosen' = [found |-> found, model |-> model, pod |-> final]
                /\ recent' = Enqueued(recent, Remembers, final)
    /\ UNCHANGED <<setting, cluster, visit>>

ClusterNext ==
    \E v \in Visit : ClusterRequest(v) \/ ClusterResponse(v) \/ ClusterFirstPiece(v) \/ ClusterDone(v)

EndpointNext ==
    \E pods \in (SUBSET Pod) \ {{}}, model \in Model :
        \E found \in [pods -> Metrics] : EndpointRequest(found, model)

-----------------------------------------------------------------------------
InProgress(s) == {v \in Visit : visit[v].service = s /\ visit[v].at \in {"upstream", "answering"}}

\* The service that gets a request has not reached its share, if there is such a one, and of
\* these it has the least load.
LeastLoadedService ==
    \A v \in Visit :
        LET s == visit'[v].service
            open == {o \in Service : ~ Crowded(o)}
        IN  visit[v].at = "new" /\ visit'[v].at = "upstream" /\ open # {} =>
                s \in open /\ \A o \in open : ~ Less(Load(o), Load(s))

\* As long as no pod had its share, the pod has a short queue if there is one, and the adapter,
\* or room for it, if any with a short queue has; and a pod that had its share, which is not
\* less than half, gets nothing while there is another.
AffinePod ==
    LET found == chosen'.found
        pods == DOMAIN found
        low == {p \in pods : found[p].waiting < Threshold}
        Preferred(S) == S # {} => chosen'.pod \in S
    IN  chosen' # chosen =>
            /\ setting.policy = "default" /\ (\A p \in pods : ~ HasShare(p)) =>
                  /\ Preferred(low)
                  /\ Preferred(Active(found, low, chosen'.model))
                  /\ Active(found, low, chosen'.model) = {} => Preferred(Room(found, low))
            /\ 2 * RateLimit[1] >= RateLimit[2] /\ HasShare(chosen'.pod) => pods = {chosen'.pod}

\* Whichever candidate was drawn first and in whatever order a map was walked, cluster_metrics
\* finds the service with the least load and endpoint_metrics a pod that serves the adapter,
\* within their shares; and the requests in progress of a service are those that were sent to
\* it and are not over.
LeastIsChosen ==
    /\ [](\A s \in Service : cluster.ongoing[s] = Cardinality(InProgress(s)))
    /\ [][LeastLoadedService /\ AffinePod]_metricsVars
=============================================================================
