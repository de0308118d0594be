------------------------------ MODULE Failover ------------------------------
(***************************************************************************)
(* The two protocols that the machines of ai-proxy run over shared data:    *)
(* one moves API tokens between the lists, one grants the health check.     *)
(***************************************************************************)
EXTENDS TokenFailover, VmLease

VARIABLE part    \* the protocol under consideration

bothVars == <<part, vars, leaseVars>>

\* Their keys are different ones, and what a machine does for the one is not seen by the other.
BothInit == part \in {"tokens", "lease"} /\ Init /\ LeaseInit

BothNext ==
    /\ \/ part = "tokens" /\ Next /\ UNCHANGED leaseVars
       \/ part = "lease" /\ LeaseNext /\ UNCHANGED vars
    /\ UNCHANGED part

\* While the lease is considered, nothing the fairness is about is enabled.
BothSpec == BothInit /\ [][BothNext]_bothVars /\ Fairness
=============================================================================
