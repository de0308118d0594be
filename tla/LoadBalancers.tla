--------------------------- MODULE LoadBalancers ---------------------------
(***************************************************************************)
(* The policies of ai-load-balancer, one of which a configuration names,    *)
(* and the ring buffer that those which measure are built on.               *)
(***************************************************************************)
EXTENDS PrefixCache, MetricsPolicies, FixedQueue

VARIABLE policy    \* lb_policy, or "queue" for the ring buffer by itself

balancerVars == <<policy, vars, prefixVars, metricsVars, queueVars>>

\* The state of the policies that are not configured does not vary.
BalancersInit ==
    /\ policy \in {"global_least_request", "prefix_cache", "cluster_metrics", "endpoint_metrics", "queue"}
    /\ Init /\ PrefixInit /\ MetricsInit /\ QueueInit
    /\ policy = "global_least_request" \/ maxRequestCount = 0
    /\ policy = "cluster_metrics" \/ setting.mode = "LeastBusy"
    /\ policy = "endpoint_metrics" \/ setting.policy = "default"

BalancersNext ==
    /\ \/ policy = "global_least_request" /\ Next /\ UNCHANGED <<prefixVars, metricsVars, queueVars>>
       \/ policy = "prefix_cache" /\ PrefixNext /\ UNCHANGED <<metricsVars, queueVars>>
       \/ policy = "cluster_metrics" /\ ClusterNext /\ UNCHANGED <<vars, prefixVars, queueVars>>
       \/ policy = "endpoint_metrics" /\ EndpointNext /\ UNCHANGED <<vars, prefixVars, queueVars>>
       \/ policy = "queue" /\ QueueNext /\ UNCHANGED <<vars, prefixVars, metricsVars>>
    /\ UNCHANGED policy

BalancersSpec == BalancersInit /\ [][BalancersNext]_balancerVars

\* The same with one policy configured.
PrefixCacheSpec == policy = "prefix_cache" /\ BalancersSpec
=============================================================================
