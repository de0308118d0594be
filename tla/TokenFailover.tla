---------------------------- MODULE TokenFailover ----------------------------
(***************************************************************************)
(* The failover of API tokens in ai-proxy/provider/failover.go.  Every     *)
(* worker of Envoy runs the plugin in a virtual machine of its own.  The   *)
(* machines share four keys of Envoy's shared data, two lists of tokens    *)
(* and two maps of counts, each with a version (cas) that a write may      *)
(* name.  A machine runs one handler at a time; between two host calls of  *)
(* a handler any other machine may run.  Which machine may check the       *)
(* health of tokens is the subject of VmLease; here any of them may.       *)
(***************************************************************************)
EXTENDS Naturals, Sequences, FiniteSets

CONSTANTS
    VM,
    Token,              \* c.apiTokens
    None,
    FailureThreshold, SuccessThreshold,
    CasMaxRetries,      \* casMaxRetries
    MaxResets,          \* bound on the configuration updates
    MaxFailures         \* bound on the failed responses

ASSUME NoneIsNoToken == None \notin Token
ASSUME Thresholds ==
    /\ FailureThreshold \in Nat \ {0}
    /\ SuccessThreshold \in Nat \ {0}
    /\ CasMaxRetries \in Nat \ {0}
    /\ MaxResets \in Nat /\ MaxFailures \in Nat
ASSUME SomeMachines == IsFiniteSet(VM) /\ VM # {}

VARIABLES
    \* the shared data
    apiTokens, unavailableTokens,   \* the two lists, without their order
    failureCount, successCount,     \* the counts, 0 for an absent key
    endpoint,                       \* some request left a host and a path to check
    \* the machines
    handler,    \* what each machine is executing
    pos,        \* the next call of its script
    token,      \* the token the handler is about
    count,      \* the count a response handler read first
    attempt,    \* failed attempts of the current compare-and-swap
    view,       \* is what it read for it still the current version
    checks,     \* tokens whose health check is on its way
    \* bounds and history
    resets, failed,
    gaveUp      \* tokens some compare-and-swap was abandoned for

shared == <<apiTokens, unavailableTokens, failureCount, successCount, endpoint>>
thread == <<handler, pos, token, count, attempt, view>>
history == <<resets, failed, gaveUp>>
vars == <<shared, thread, checks, history>>

\* Mutant of Script: the token that fails is not put on the other list.
ScriptForgetsToken ==
    [failover  |-> <<"removeAvailable", "resetFailure", "setEndpoint">>,
     fail      |-> <<"addFailure">>,
     success   |-> <<"resetFailure">>,
     recover   |-> <<"removeUnavailable", "addAvailable", "resetSuccess">>,
     pass      |-> <<"addSuccess">>,
     configure |-> <<"clearAvailable", "clearUnavailable", "clearSuccess",
                     "clearFailure", "initTokens">>]

\* The calls of each handler, in order.
Script ==
    [failover  |-> <<"removeAvailable", "addUnavailable", "resetFailure", "setEndpoint">>,
     fail      |-> <<"addFailure">>,
     success   |-> <<"resetFailure">>,
     recover   |-> <<"removeUnavailable", "addAvailable", "resetSuccess">>,
     pass      |-> <<"addSuccess">>,
     configure |-> <<"clearAvailable", "clearUnavailable", "clearSuccess",
                     "clearFailure", "initTokens">>]

Call(v) == IF handler[v] \in DOMAIN Script THEN Script[handler[v]][pos[v]] ELSE "none"

KeyOf ==
    [removeAvailable   |-> "apiTokens",    addAvailable   |-> "apiTokens",
     removeUnavailable |-> "unavailable",  addUnavailable |-> "unavailable",
     addFailure        |-> "failures",     resetFailure   |-> "failures",
     addSuccess        |-> "successes",    resetSuccess   |-> "successes",
     clearAvailable    |-> "apiTokens",    clearUnavailable |-> "unavailable",
     clearFailure      |-> "failures",     clearSuccess   |-> "successes",
     initTokens        |-> "apiTokens",    setEndpoint    |-> "endpoint"]

Blind == {"clearAvailable", "clearUnavailable", "clearSuccess", "clearFailure",
          "initTokens", "setEndpoint"}   \* written with cas 0, without a read
Swap == DOMAIN KeyOf \ Blind

Init ==
    /\ apiTokens = Token /\ unavailableTokens = {}
    /\ failureCount = [t \in Token |-> 0]
    /\ successCount = [t \in Token |-> 0]
    /\ endpoint = FALSE
    /\ handler = [v \in VM |-> "idle"]
    /\ pos = [v \in VM |-> 1]
    /\ token = [v \in VM |-> None]
    /\ count = [v \in VM |-> 0]
    /\ attempt = [v \in VM |-> 0]
    /\ view = [v \in VM |-> "none"]
    /\ checks = [v \in VM |-> {}]
    /\ resets = 0 /\ failed = 0
    /\ gaveUp = {}

-----------------------------------------------------------------------------
(* Starting a handler *)

Start(v, h, t) ==
    /\ handler' = [handler EXCEPT ![v] = h]
    /\ pos' = [pos EXCEPT ![v] = 1]
    /\ token' = [token EXCEPT ![v] = t]
    /\ attempt' = [attempt EXCEPT ![v] = 0]
    /\ view' = [view EXCEPT ![v] = "none"]

Idle(v) == handler[v] = "idle"

\* SetApiTokensFailover: a machine starts, or its configuration is updated.
SetApiTokensFailover(v) ==
    /\ Idle(v)
    /\ resets < MaxResets
    /\ resets' = resets + 1
    /\ Start(v, "configure", None)
    /\ UNCHANGED <<shared, count, checks, failed, gaveUp>>

\* GetGlobalRandomToken reads the two lists one after the other.  It draws from
\* an empty slice, and panics, when both reads came back empty.
PickToken(v) ==
    /\ Idle(v)
    /\ apiTokens = {}
    /\ Start(v, "pick", None)
    /\ UNCHANGED <<shared, count, checks, history>>

PickUnavailable(v) ==
    /\ handler[v] = "pick"
    /\ Start(v, IF unavailableTokens = {} THEN "panic" ELSE "idle", None)
    /\ UNCHANGED <<shared, count, checks, history>>

\* handleUnavailableApiToken: the count is read first, then the list.
RequestFailed(v, t) ==
    /\ Idle(v)
    /\ failed < MaxFailures
    /\ failed' = failed + 1
    /\ count' = [count EXCEPT ![v] = failureCount[t]]
    /\ Start(v, "check", t)
    /\ UNCHANGED <<shared, checks, resets, gaveUp>>

\* Mutant of CheckListed: the count is compared without this failure.
CheckListedLate(v) ==
    /\ handler[v] = "check"
    /\ IF token[v] \notin apiTokens THEN Start(v, "idle", None)
       ELSE Start(v, IF count[v] >= FailureThreshold THEN "failover" ELSE "fail", token[v])
    /\ UNCHANGED <<shared, count, checks, history>>

CheckListed(v) ==
    /\ handler[v] = "check"
    /\ IF token[v] \notin apiTokens THEN Start(v, "idle", None)
       ELSE Start(v, IF count[v] + 1 >= FailureThreshold THEN "failover" ELSE "fail", token[v])
    /\ UNCHANGED <<shared, count, checks, history>>

\* ResetApiTokenRequestFailureCount
RequestSucceeded(v, t) ==
    /\ Idle(v)
    /\ failureCount[t] # 0
    /\ Start(v, "success", t)
    /\ UNCHANGED <<shared, count, checks, history>>

\* Mutant of HealthCheck: the wrong list is checked.
CheckAvailable(v) ==
    /\ Idle(v)
    /\ endpoint
    /\ checks' = [checks EXCEPT ![v] = @ \cup apiTokens]
    /\ UNCHANGED <<shared, thread, history>>

\* The tick of the machine that holds the lease.
HealthCheck(v) ==
    /\ Idle(v)
    /\ endpoint
    /\ checks' = [checks EXCEPT ![v] = @ \cup unavailableTokens]
    /\ UNCHANGED <<shared, thread, history>>

\* handleAvailableApiToken, in the callback of a health check.
CheckPassed(v, t) ==
    /\ Idle(v)
    /\ t \in checks[v]
    /\ checks' = [checks EXCEPT ![v] = @ \ {t}]
    /\ Start(v, IF successCount[t] + 1 >= SuccessThreshold THEN "recover" ELSE "pass", t)
    /\ UNCHANGED <<shared, count, history>>

CheckFailed(v, t) ==
    /\ Idle(v)
    /\ t \in checks[v]
    /\ checks' = [checks EXCEPT ![v] = @ \ {t}]
    /\ UNCHANGED <<shared, thread, history>>

-----------------------------------------------------------------------------
(* The calls of a handler *)

\* The call is over: the next one, or the end of the handler.
Advance(v, w) ==
    LET last == pos[v] = Len(Script[handler[v]])
    IN  /\ handler' = IF last THEN [handler EXCEPT ![v] = "idle"] ELSE handler
        /\ pos' = [pos EXCEPT ![v] = IF last THEN 1 ELSE @ + 1]
        /\ token' = IF last THEN [token EXCEPT ![v] = None] ELSE token
        /\ attempt' = [attempt EXCEPT ![v] = 0]
        /\ view' = [w EXCEPT ![v] = "none"]
        /\ UNCHANGED count

\* Every read of the key that another machine holds becomes stale.
Outdated(key) ==
    [u \in VM |-> IF view[u] = "fresh" /\ Call(u) \in Swap /\ KeyOf[Call(u)] = key
                  THEN "stale" ELSE view[u]]

\* What a call writes.
Write(c, t) ==
    /\ apiTokens' = CASE c = "removeAvailable" -> apiTokens \ {t}
                      [] c = "addAvailable"    -> apiTokens \cup {t}
                      [] c = "clearAvailable"  -> {}
                      [] c = "initTokens"      -> Token
                      [] OTHER                 -> apiTokens
    /\ unavailableTokens' =
                    CASE c = "removeUnavailable" -> unavailableTokens \ {t}
                      [] c = "addUnavailable"    -> unavailableTokens \cup {t}
                      [] c = "clearUnavailable"  -> {}
                      [] OTHER                   -> unavailableTokens
    /\ failureCount' =
                    CASE c = "addFailure"   -> [failureCount EXCEPT ![t] = @ + 1]
                      [] c = "resetFailure" -> [failureCount EXCEPT ![t] = 0]
                      [] c = "clearFailure" -> [u \in Token |-> 0]
                      [] OTHER              -> failureCount
    /\ successCount' =
                    CASE c = "addSuccess"   -> [successCount EXCEPT ![t] = @ + 1]
                      [] c = "resetSuccess" -> [successCount EXCEPT ![t] = 0]
                      [] c = "clearSuccess" -> [u \in Token |-> 0]
                      [] OTHER              -> successCount
    /\ endpoint' = (endpoint \/ c = "setEndpoint")

BlindWrite(v) ==
    /\ Call(v) \in Blind
    /\ Write(Call(v), token[v])
    /\ Advance(v, Outdated(KeyOf[Call(v)]))
    /\ UNCHANGED <<checks, history>>

\* The list already is as the call wants it.
NothingToDo(c, t) ==
    \/ c = "addAvailable"      /\ t \in apiTokens
    \/ c = "removeAvailable"   /\ t \notin apiTokens
    \/ c = "addUnavailable"    /\ t \in unavailableTokens
    \/ c = "removeUnavailable" /\ t \notin unavailableTokens

SwapRead(v) ==
    /\ Call(v) \in Swap
    /\ view[v] = "none"
    /\ IF NothingToDo(Call(v), token[v]) THEN Advance(v, view)
       ELSE /\ view' = [view EXCEPT ![v] = "fresh"]
            /\ UNCHANGED <<handler, pos, token, count, attempt>>
    /\ UNCHANGED <<shared, checks, history>>

SwapWrite(v) ==
    /\ Call(v) \in Swap
    /\ view[v] = "fresh"
    /\ Write(Call(v), token[v])
    /\ Advance(v, Outdated(KeyOf[Call(v)]))
    /\ UNCHANGED <<checks, history>>

\* After the last attempt the call returns without having done anything, and
\* the handler goes on.
SwapFails(v) ==
    /\ Call(v) \in Swap
    /\ view[v] = "stale"
    /\ IF attempt[v] + 1 = CasMaxRetries
       THEN /\ Advance(v, view)
            /\ gaveUp' = gaveUp \cup {token[v]}
       ELSE /\ attempt' = [attempt EXCEPT ![v] = @ + 1]
            /\ view' = [view EXCEPT ![v] = "none"]
            /\ UNCHANGED <<handler, pos, token, count, gaveUp>>
    /\ UNCHANGED <<shared, checks, resets, failed>>

-----------------------------------------------------------------------------
\* The machine goes on with the handler it is in.
Continue(v) ==
    \/ PickUnavailable(v)
    \/ CheckListed(v)
    \/ BlindWrite(v)
    \/ SwapRead(v)
    \/ SwapWrite(v)
    \/ SwapFails(v)

Next ==
    \E v \in VM :
        \/ SetApiTokensFailover(v)
        \/ PickToken(v)
        \/ HealthCheck(v)
        \/ \E t \in Token :
              \/ RequestFailed(v, t)
              \/ RequestSucceeded(v, t)
              \/ CheckPassed(v, t)
              \/ CheckFailed(v, t)
        \/ Continue(v)

Spec == Init /\ [][Next]_vars

\* A machine finishes the handler it is in.  The tick and the callbacks come
\* between requests for ever; VmLease grants the tick to some machine again and
\* again, and the check of a token that is back in order passes in the end.
Fairness ==
    /\ \A v \in VM : WF_vars(Continue(v))
    /\ SF_vars(\E v \in VM : HealthCheck(v))
    /\ \A v \in VM, t \in Token : SF_vars(CheckPassed(v, t))

-----------------------------------------------------------------------------
SharedOK ==
    /\ apiTokens \subseteq Token
    /\ unavailableTokens \subseteq Token
    /\ failureCount \in [Token -> Nat]
    /\ successCount \in [Token -> Nat]
    /\ endpoint \in BOOLEAN

ThreadOK ==
    /\ handler \in [VM -> DOMAIN Script \cup {"idle", "pick", "check", "panic"}]
    /\ pos \in [VM -> Nat] /\ token \in [VM -> Token \cup {None}]
    /\ \A v \in VM : pos[v] \in (IF handler[v] \in DOMAIN Script
                                 THEN DOMAIN Script[handler[v]] ELSE {1})
    /\ \A v \in VM : token[v] \in (IF handler[v] \in {"idle", "pick", "panic", "configure"}
                                   THEN {None} ELSE Token)
    /\ count \in [VM -> Nat]
    /\ attempt \in [VM -> 0 .. CasMaxRetries - 1]
    /\ view \in [VM -> {"none", "fresh", "stale"}]

\* The types; a machine is inside its script, about a token where it needs one.
FailoverTypeOK ==
    /\ SharedOK
    /\ ThreadOK
    /\ checks \in [VM -> SUBSET Token]
    /\ resets \in 0 .. MaxResets
    /\ failed \in 0 .. MaxFailures
    /\ gaveUp \subseteq Token

\* The token has left one list, or is about to, and will be put on the other.
Moving(t) ==
    \E v \in VM : handler[v] \in {"failover", "recover"} /\ pos[v] <= 2 /\ token[v] = t

Configuring == \E v \in VM : handler[v] = "configure"

\* However the handlers of the machines overlap, no token drops out of both
\* lists for good: it is on one of them, or being moved, or a machine is setting
\* the lists up; unless a compare-and-swap for it was given up.
NoTokenLost ==
    \A t \in Token :
        t \in apiTokens \cup unavailableTokens \cup gaveUp \/ Moving(t) \/ Configuring

\* A bad token is not used for ever: though the count is compared before it is
\* incremented, it passes the threshold by fewer failures than there are machines.
CountsStayNearThreshold ==
    \A t \in Token : failureCount[t] + 2 <= FailureThreshold + Cardinality(VM)

\* A token whose health checks pass becomes available again, unless a write for
\* it was given up or no machine is left.
TokensRecover ==
    \A t \in Token : t \in unavailableTokens ~>
        t \in apiTokens \cup gaveUp \/ \A v \in VM : handler[v] = "panic"
=============================================================================
