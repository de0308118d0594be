------------------------------- MODULE VmLease -------------------------------
(***************************************************************************)
(* The lease of ai-proxy/provider/failover.go: on every tick a machine     *)
(* tries to acquire or renew it by a compare-and-swap on one key of the    *)
(* shared data, and checks the health of the tokens if it succeeds.  A     *)
(* machine that starts clears the key.                                     *)
(***************************************************************************)
EXTENDS Naturals

CONSTANTS
    Machine,
    Nobody,
    LeaseTime,   \* 60 seconds
    MaxTime,     \* bound on the clock
    MaxClears    \* bound on the starts of a machine

Lease == [vm : Machine, time : Nat]

ASSUME NobodyIsNoLease == Nobody \notin Lease
ASSUME LeaseTimes == LeaseTime \in Nat /\ MaxTime \in Nat /\ MaxClears \in Nat

VARIABLES
    lease,    \* the shared key
    clock,    \* time.Now().Unix()
    phase,    \* where tryAcquireOrRenewLease is: "idle", "timed", "swap"
    now,      \* the time it read
    fresh,    \* the version it read is still the current one
    clears,
    grants    \* history: the leases granted since the key was last cleared

leaseVars == <<lease, clock, phase, now, fresh, clears, grants>>

LeaseInit ==
    /\ lease = Nobody
    /\ clock = 0
    /\ phase = [v \in Machine |-> "idle"]
    /\ now = [v \in Machine |-> 0]
    /\ fresh = [v \in Machine |-> FALSE]
    /\ clears = 0
    /\ grants = {}

\* resetSharedData writes nil whatever the version.
ResetSharedData(v) ==
    /\ phase[v] = "idle"
    /\ clears < MaxClears
    /\ clears' = clears + 1
    /\ lease' = Nobody
    /\ fresh' = [u \in Machine |-> FALSE]
    /\ grants' = {}
    /\ UNCHANGED <<clock, phase, now>>

TryAcquireOrRenewLease(v) ==
    /\ phase[v] = "idle"
    /\ phase' = [phase EXCEPT ![v] = "timed"]
    /\ now' = [now EXCEPT ![v] = clock]
    /\ UNCHANGED <<lease, clock, fresh, clears, grants>>

\* Mutant of MayTake: the lease is taken in the second it expires.
MayTakeEarly(v) ==
    \/ lease = Nobody
    \/ lease.vm = v
    \/ now[v] >= lease.time + LeaseTime

MayTake(v) ==
    \/ lease = Nobody
    \/ lease.vm = v
    \/ now[v] > lease.time + LeaseTime

GetLease(v) ==
    /\ phase[v] = "timed"
    /\ phase' = [phase EXCEPT ![v] = IF MayTake(v) THEN "swap" ELSE "idle"]
    /\ fresh' = [fresh EXCEPT ![v] = MayTake(v)]
    /\ UNCHANGED <<lease, clock, now, clears, grants>>

\* Mutant of SetLease: the write names no version.
SetLeaseBlindly(v) ==
    LET new == [vm |-> v, time |-> now[v]]
    IN  /\ phase[v] = "swap"
        /\ phase' = [phase EXCEPT ![v] = "idle"]
        /\ lease' = new /\ grants' = grants \cup {new} /\ fresh' = [u \in Machine |-> FALSE]
        /\ UNCHANGED <<clock, now, clears>>

SetLease(v) ==
    LET new == [vm |-> v, time |-> now[v]]
    IN  /\ phase[v] = "swap"
        /\ phase' = [phase EXCEPT ![v] = "idle"]
        /\ IF fresh[v]
           THEN lease' = new /\ grants' = grants \cup {new} /\ fresh' = [u \in Machine |-> FALSE]
           ELSE UNCHANGED <<lease, grants, fresh>>
        /\ UNCHANGED <<clock, now, clears>>

Tick ==
    /\ clock < MaxTime
    /\ clock' = clock + 1
    /\ UNCHANGED <<lease, phase, now, fresh, clears, grants>>

LeaseNext ==
    \/ \E v \in Machine : \/ ResetSharedData(v)
                     \/ TryAcquireOrRenewLease(v)
                     \/ GetLease(v)
                     \/ SetLease(v)
    \/ Tick

LeaseSpec == LeaseInit /\ [][LeaseNext]_leaseVars

-----------------------------------------------------------------------------
\* The types; only a machine that is about to write holds a version.
LeaseTypeOK ==
    /\ lease \in Lease \cup {Nobody}
    /\ clock \in 0 .. MaxTime
    /\ phase \in [Machine -> {"idle", "timed", "swap"}]
    /\ now \in [Machine -> 0 .. MaxTime]
    /\ fresh \in [Machine -> BOOLEAN]
    /\ \A v \in Machine : fresh[v] => phase[v] = "swap"
    /\ clears \in 0 .. MaxClears
    /\ grants \subseteq Lease

\* "Only the Wasm VM that successfully acquires the lease will perform health
\* check" (failover.go:150): two machines never hold it within the same period,
\* however long one of them is held up between reading the lease and writing it,
\* as long as no machine starts and clears the key.
LeaseExclusive ==
    \A g, h \in grants :
        g.vm # h.vm => \/ g.time > h.time + LeaseTime
                       \/ h.time > g.time + LeaseTime
=============================================================================
