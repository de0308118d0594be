--------------------------- MODULE FailoverProofs ---------------------------
(***************************************************************************)
(* The failover loses no token and counts no failure far beyond the        *)
(* threshold, for any number of machines, tokens and retries and any       *)
(* thresholds; and the lease of the health check is exclusive, for any     *)
(* lease time and any delay between the read and the write of a machine.   *)
(***************************************************************************)
EXTENDS Failover, FiniteSetTheorems, TLAPS

USE NoneIsNoToken, Thresholds, SomeMachines

Scripted == {"failover", "fail", "success", "recover", "pass", "configure"}
Unscripted == {"idle", "pick", "check", "panic"}

\* The handlers with a script and the length of each.
LEMMA ScriptShape ==
    /\ DOMAIN Script = Scripted
    /\ \A h \in Scripted : /\ Len(Script[h]) \in Nat \ {0}
                           /\ DOMAIN Script[h] = 1 .. Len(Script[h])
    /\ Len(Script["failover"]) = 4
    /\ Len(Script["recover"]) = 3
    /\ Len(Script["configure"]) = 5
<1>1. /\ DOMAIN Script = Scripted
      /\ Len(Script["failover"]) = 4 /\ DOMAIN Script["failover"] = 1 .. 4
      /\ Len(Script["fail"]) = 1 /\ DOMAIN Script["fail"] = 1 .. 1
      /\ Len(Script["success"]) = 1 /\ DOMAIN Script["success"] = 1 .. 1
      /\ Len(Script["recover"]) = 3 /\ DOMAIN Script["recover"] = 1 .. 3
      /\ Len(Script["pass"]) = 1 /\ DOMAIN Script["pass"] = 1 .. 1
      /\ Len(Script["configure"]) = 5 /\ DOMAIN Script["configure"] = 1 .. 5
  BY DEF Script, Scripted
<1>2. ASSUME NEW h \in Scripted
      PROVE  Len(Script[h]) \in Nat \ {0} /\ DOMAIN Script[h] = 1 .. Len(Script[h])
  <2>1. CASE h = "failover"
    <3>1. Len(Script[h]) = 4 /\ DOMAIN Script[h] = 1 .. 4
      BY <1>1, <2>1, Zenon
    <3>2. QED
      BY <3>1
  <2>2. CASE h = "recover"
    <3>1. Len(Script[h]) = 3 /\ DOMAIN Script[h] = 1 .. 3
      BY <1>1, <2>2, Zenon
    <3>2. QED
      BY <3>1
  <2>3. CASE h = "configure"
    <3>1. Len(Script[h]) = 5 /\ DOMAIN Script[h] = 1 .. 5
      BY <1>1, <2>3, Zenon
    <3>2. QED
      BY <3>1
  <2>4. CASE h = "fail"
    <3>1. Len(Script[h]) = 1 /\ DOMAIN Script[h] = 1 .. 1
      BY <1>1, <2>4, Zenon
    <3>2. QED
      BY <3>1
  <2>5. CASE h = "success"
    <3>1. Len(Script[h]) = 1 /\ DOMAIN Script[h] = 1 .. 1
      BY <1>1, <2>5, Zenon
    <3>2. QED
      BY <3>1
  <2>6. CASE h = "pass"
    <3>1. Len(Script[h]) = 1 /\ DOMAIN Script[h] = 1 .. 1
      BY <1>1, <2>6, Zenon
    <3>2. QED
      BY <3>1
  <2>7. QED
    BY <2>1, <2>2, <2>3, <2>4, <2>5, <2>6 DEF Scripted
<1>3. QED
  BY <1>1, <1>2

\* The call at each place of a script.
LEMMA ScriptCalls ==
    /\ Script["failover"][1] = "removeAvailable"
    /\ Script["failover"][2] = "addUnavailable"
    /\ Script["failover"][3] = "resetFailure"
    /\ Script["failover"][4] = "setEndpoint"
    /\ Script["fail"][1] = "addFailure" /\ Len(Script["fail"]) = 1
    /\ Script["success"][1] = "resetFailure" /\ Len(Script["success"]) = 1
    /\ Script["recover"][1] = "removeUnavailable"
    /\ Script["recover"][2] = "addAvailable"
    /\ Script["recover"][3] = "resetSuccess"
    /\ Script["pass"][1] = "addSuccess" /\ Len(Script["pass"]) = 1
    /\ Script["configure"][1] = "clearAvailable"
    /\ Script["configure"][2] = "clearUnavailable"
    /\ Script["configure"][3] = "clearSuccess"
    /\ Script["configure"][4] = "clearFailure"
    /\ Script["configure"][5] = "initTokens"
BY DEF Script

\* A call determines the handler that makes it and its place there, and a
\* machine that makes a call that names a token has one.
LEMMA CallSites ==
    ASSUME ThreadOK, NEW v \in VM, Call(v) \in DOMAIN KeyOf
    PROVE  /\ handler[v] \in Scripted
           /\ pos[v] \in 1 .. Len(Script[handler[v]])
           /\ handler[v] # "configure" => token[v] \in Token
           /\ Call(v) = "removeAvailable" => handler[v] = "failover" /\ pos[v] = 1
           /\ Call(v) = "removeUnavailable" => handler[v] = "recover" /\ pos[v] = 1
           /\ Call(v) = "clearAvailable" => handler[v] = "configure" /\ pos[v] = 1
           /\ Call(v) = "clearUnavailable" => handler[v] = "configure" /\ pos[v] = 2
           /\ handler[v] = "failover" /\ pos[v] = 2 => Call(v) = "addUnavailable"
           /\ handler[v] = "recover" /\ pos[v] = 2 => Call(v) = "addAvailable"
           /\ handler[v] = "configure" /\ pos[v] = 5 => Call(v) = "initTokens"
           /\ handler[v] = "configure" => Call(v) \in Blind
           /\ Call(v) = "addFailure" <=> handler[v] = "fail"
<1>1. handler[v] \in Scripted
  <2>1. "none" \notin DOMAIN KeyOf
    BY DEF KeyOf
  <2>2. handler[v] \in DOMAIN Script
    BY <2>1 DEF Call
  <2>3. QED
    BY <2>2, ScriptShape
<1>2. /\ Call(v) = Script[handler[v]][pos[v]]
      /\ pos[v] \in 1 .. Len(Script[handler[v]])
      /\ handler[v] # "configure" => token[v] \in Token
  BY <1>1, ScriptShape DEF Call, ThreadOK, Scripted
<1>3. \/ handler[v] = "failover" /\ pos[v] \in {1, 2, 3, 4}
      \/ handler[v] \in {"fail", "success", "pass"} /\ pos[v] = 1
      \/ handler[v] = "recover" /\ pos[v] \in {1, 2, 3}
      \/ handler[v] = "configure" /\ pos[v] \in {1, 2, 3, 4, 5}
  <2>1. CASE handler[v] = "failover"
    BY <1>2, <2>1, ScriptShape
  <2>2. CASE handler[v] \in {"fail", "success", "pass"}
    <3>1. Len(Script[handler[v]]) = 1
      BY <2>2, ScriptShape, ScriptCalls
    <3>2. QED
      BY <1>2, <2>2, <3>1
  <2>3. CASE handler[v] = "recover"
    BY <1>2, <2>3, ScriptShape
  <2>4. CASE handler[v] = "configure"
    BY <1>2, <2>4, ScriptShape
  <2>5. QED
    BY <1>1, <2>1, <2>2, <2>3, <2>4 DEF Scripted
<1>4. CASE handler[v] = "failover"
  <2>1. \/ pos[v] = 1 /\ Call(v) = "removeAvailable"
        \/ pos[v] = 2 /\ Call(v) = "addUnavailable"
        \/ pos[v] = 3 /\ Call(v) = "resetFailure"
        \/ pos[v] = 4 /\ Call(v) = "setEndpoint"
    BY <1>2, <1>3, <1>4, ScriptCalls
  <2>2. QED
    BY <1>1, <1>2, <1>4, <2>1
<1>5. CASE handler[v] \in {"fail", "success", "pass"}
  <2>1. /\ pos[v] = 1
        /\ \/ handler[v] = "fail" /\ Call(v) = "addFailure"
           \/ handler[v] = "success" /\ Call(v) = "resetFailure"
           \/ handler[v] = "pass" /\ Call(v) = "addSuccess"
    BY <1>2, <1>3, <1>5, ScriptCalls
  <2>2. QED
    BY <1>1, <1>2, <2>1
<1>6. CASE handler[v] = "recover"
  <2>1. \/ pos[v] = 1 /\ Call(v) = "removeUnavailable"
        \/ pos[v] = 2 /\ Call(v) = "addAvailable"
        \/ pos[v] = 3 /\ Call(v) = "resetSuccess"
    BY <1>2, <1>3, <1>6, ScriptCalls
  <2>2. QED
    BY <1>1, <1>2, <1>6, <2>1
<1>7. CASE handler[v] = "configure"
  <2>1. \/ pos[v] = 1 /\ Call(v) = "clearAvailable"
        \/ pos[v] = 2 /\ Call(v) = "clearUnavailable"
        \/ pos[v] = 3 /\ Call(v) = "clearSuccess"
        \/ pos[v] = 4 /\ Call(v) = "clearFailure"
        \/ pos[v] = 5 /\ Call(v) = "initTokens"
    BY <1>2, <1>3, <1>7, ScriptCalls
  <2>2. Call(v) \in Blind
    BY <2>1 DEF Blind
  <2>3. QED
    BY <1>1, <1>2, <1>7, <2>1, <2>2
<1>8. QED
  BY <1>3, <1>4, <1>5, <1>6, <1>7

-----------------------------------------------------------------------------
(* Types *)

LEMMA InitType == Init => FailoverTypeOK
<1> SUFFICES ASSUME Init PROVE FailoverTypeOK
  OBVIOUS
<1>1. SharedOK
  BY DEF Init, SharedOK
<1>2. ThreadOK
  BY ScriptShape DEF Init, ThreadOK, Scripted
<1>3. QED
  BY <1>1, <1>2 DEF Init, FailoverTypeOK

\* A machine that starts a handler is at its first call.
LEMMA StartType ==
    ASSUME ThreadOK, NEW v \in VM, NEW h, NEW t, Start(v, h, t),
           h \in Scripted \cup Unscripted,
           t \in (IF h \in {"idle", "pick", "panic", "configure"} THEN {None} ELSE Token),
           count' \in [VM -> Nat]
    PROVE  ThreadOK'
<1>1. h \in Scripted => 1 \in DOMAIN Script[h]
  BY ScriptShape
<1>2. /\ handler' \in [VM -> DOMAIN Script \cup {"idle", "pick", "check", "panic"}]
      /\ pos' \in [VM -> Nat] /\ token' \in [VM -> Token \cup {None}]
      /\ attempt' \in [VM -> 0 .. CasMaxRetries - 1]
      /\ view' \in [VM -> {"none", "fresh", "stale"}]
  <2>1. handler' \in [VM -> DOMAIN Script \cup {"idle", "pick", "check", "panic"}]
    BY ScriptShape DEF ThreadOK, Start, Unscripted
  <2>2. pos' \in [VM -> Nat]
    BY DEF ThreadOK, Start
  <2>3. token' \in [VM -> Token \cup {None}]
    BY DEF ThreadOK, Start
  <2>4. attempt' \in [VM -> 0 .. CasMaxRetries - 1]
    <3>1. attempt[v] \in 0 .. CasMaxRetries - 1
      BY DEF ThreadOK
    <3>2. 0 \in 0 .. CasMaxRetries - 1
      BY <3>1
    <3>3. QED
      BY <3>2 DEF ThreadOK, Start
  <2>5. view' \in [VM -> {"none", "fresh", "stale"}]
    BY DEF ThreadOK, Start
  <2>6. QED
    BY <2>1, <2>2, <2>3, <2>4, <2>5
<1>3. ASSUME NEW u \in VM
      PROVE  /\ pos'[u] \in (IF handler'[u] \in DOMAIN Script
                              THEN DOMAIN Script[handler'[u]] ELSE {1})
             /\ token'[u] \in (IF handler'[u] \in {"idle", "pick", "panic", "configure"}
                                THEN {None} ELSE Token)
  <2>1. CASE u = v
    <3>1. handler'[v] = h /\ pos'[v] = 1 /\ token'[v] = t
      BY DEF ThreadOK, Start
    <3>2. QED
      BY <2>1, <3>1, <1>1, ScriptShape
  <2>2. CASE u # v
    <3>1. handler'[u] = handler[u] /\ pos'[u] = pos[u] /\ token'[u] = token[u]
      BY <2>2 DEF ThreadOK, Start
    <3>2. QED
      BY <3>1 DEF ThreadOK
  <2>3. QED
    BY <2>1, <2>2
<1>4. QED
  BY <1>2, <1>3 DEF ThreadOK

\* A machine that ends a call is at the next one of its script or at rest.
LEMMA AdvanceType ==
    ASSUME ThreadOK, NEW v \in VM, NEW w, Advance(v, w), handler[v] \in Scripted,
           w \in [VM -> {"none", "fresh", "stale"}]
    PROVE  ThreadOK'
<1> DEFINE last == pos[v] = Len(Script[handler[v]])
<1>1. pos[v] \in 1 .. Len(Script[handler[v]]) /\ Len(Script[handler[v]]) \in Nat
  BY ScriptShape DEF ThreadOK
<1>2. /\ handler' \in [VM -> DOMAIN Script \cup {"idle", "pick", "check", "panic"}]
      /\ pos' \in [VM -> Nat] /\ token' \in [VM -> Token \cup {None}]
      /\ count' \in [VM -> Nat]
      /\ attempt' \in [VM -> 0 .. CasMaxRetries - 1]
      /\ view' \in [VM -> {"none", "fresh", "stale"}]
  <2>1. handler' \in [VM -> DOMAIN Script \cup {"idle", "pick", "check", "panic"}]
    BY DEF ThreadOK, Advance
  <2>2. pos' \in [VM -> Nat]
    BY <1>1 DEF ThreadOK, Advance
  <2>3. token' \in [VM -> Token \cup {None}]
    BY DEF ThreadOK, Advance
  <2>4. count' \in [VM -> Nat] /\ attempt' \in [VM -> 0 .. CasMaxRetries - 1]
    BY DEF ThreadOK, Advance
  <2>5. view' \in [VM -> {"none", "fresh", "stale"}]
    BY DEF Advance
  <2>6. QED
    BY <2>1, <2>2, <2>3, <2>4, <2>5
<1>3. ASSUME NEW u \in VM
      PROVE  /\ pos'[u] \in (IF handler'[u] \in DOMAIN Script
                              THEN DOMAIN Script[handler'[u]] ELSE {1})
             /\ token'[u] \in (IF handler'[u] \in {"idle", "pick", "panic", "configure"}
                                THEN {None} ELSE Token)
  <2>1. CASE u = v /\ last
    <3>1. handler'[v] = "idle" /\ pos'[v] = 1 /\ token'[v] = None
      BY <2>1 DEF ThreadOK, Advance
    <3>2. QED
      BY <2>1, <3>1, ScriptShape DEF Scripted
  <2>2. CASE u = v /\ ~last
    <3>1. handler'[v] = handler[v] /\ pos'[v] = pos[v] + 1 /\ token'[v] = token[v]
      BY <2>2 DEF ThreadOK, Advance
    <3>2. pos'[v] \in 1 .. Len(Script[handler[v]])
      BY <1>1, <2>2, <3>1
    <3>3. QED
      BY <2>2, <3>1, <3>2, ScriptShape DEF ThreadOK
  <2>3. CASE u # v
    <3>1. handler'[u] = handler[u] /\ pos'[u] = pos[u] /\ token'[u] = token[u]
      BY <2>3 DEF ThreadOK, Advance
    <3>2. QED
      BY <3>1 DEF ThreadOK
  <2>4. QED
    BY <2>1, <2>2, <2>3
<1>4. QED
  BY <1>2, <1>3 DEF ThreadOK

\* What a call writes has the right type.
LEMMA WriteType ==
    ASSUME FailoverTypeOK, NEW v \in VM, Call(v) \in DOMAIN KeyOf, Write(Call(v), token[v])
    PROVE  SharedOK'
<1>1. Call(v) \in {"addAvailable", "addUnavailable"} => token[v] \in Token
  BY CallSites DEF FailoverTypeOK, Blind
<1>2. apiTokens' \subseteq Token
  BY <1>1 DEF FailoverTypeOK, SharedOK, Write
<1>3. unavailableTokens' \subseteq Token
  BY <1>1 DEF FailoverTypeOK, SharedOK, Write
<1>4. failureCount' \in [Token -> Nat] /\ successCount' \in [Token -> Nat]
  <2>1. \A f \in [Token -> Nat] : /\ [f EXCEPT ![token[v]] = @ + 1] \in [Token -> Nat]
                                  /\ [f EXCEPT ![token[v]] = 0] \in [Token -> Nat]
    <3>1. TAKE f \in [Token -> Nat]
    <3>2. CASE token[v] \in Token
      BY <3>2
    <3>3. CASE token[v] \notin Token
      BY <3>3
    <3>4. QED
      BY <3>2, <3>3
  <2>2. [u \in Token |-> 0] \in [Token -> Nat]
    OBVIOUS
  <2>3. \/ failureCount' = failureCount
        \/ failureCount' = [failureCount EXCEPT ![token[v]] = @ + 1]
        \/ failureCount' = [failureCount EXCEPT ![token[v]] = 0]
        \/ failureCount' = [u \in Token |-> 0]
    BY DEF Write
  <2>4. \/ successCount' = successCount
        \/ successCount' = [successCount EXCEPT ![token[v]] = @ + 1]
        \/ successCount' = [successCount EXCEPT ![token[v]] = 0]
        \/ successCount' = [u \in Token |-> 0]
    BY DEF Write
  <2>5. QED
    BY <2>1, <2>2, <2>3, <2>4 DEF FailoverTypeOK, SharedOK
<1>5. endpoint' \in BOOLEAN
  BY DEF Write
<1>6. QED
  BY <1>2, <1>3, <1>4, <1>5 DEF SharedOK

\* Every step keeps the types.
LEMMA NextType ==
    ASSUME FailoverTypeOK, [Next]_vars
    PROVE  FailoverTypeOK'
<1> USE DEF FailoverTypeOK
<1>1. CASE UNCHANGED vars
  BY <1>1 DEF vars, shared, thread, history, SharedOK, ThreadOK
<1>2. ASSUME NEW v \in VM, SetApiTokensFailover(v)
      PROVE  FailoverTypeOK'
  <2>1. ThreadOK'
    BY <1>2, StartType DEF SetApiTokensFailover, ThreadOK, Scripted
  <2>2. SharedOK' /\ resets' \in 0 .. MaxResets
    BY <1>2 DEF SetApiTokensFailover, shared, SharedOK
  <2>3. QED
    BY <1>2, <2>1, <2>2 DEF SetApiTokensFailover
<1>3. ASSUME NEW v \in VM, PickToken(v)
      PROVE  FailoverTypeOK'
  <2>1. ThreadOK'
    BY <1>3, StartType DEF PickToken, ThreadOK, Unscripted
  <2>2. QED
    BY <1>3, <2>1 DEF PickToken, shared, history, SharedOK
<1>4. ASSUME NEW v \in VM, PickUnavailable(v)
      PROVE  FailoverTypeOK'
  <2>1. ThreadOK'
    BY <1>4, StartType DEF PickUnavailable, ThreadOK, Unscripted
  <2>2. QED
    BY <1>4, <2>1 DEF PickUnavailable, shared, history, SharedOK
<1>5. ASSUME NEW v \in VM, NEW t \in Token, RequestFailed(v, t)
      PROVE  FailoverTypeOK'
  <2>1. count' \in [VM -> Nat]
    BY <1>5 DEF RequestFailed, SharedOK, ThreadOK
  <2>2. ThreadOK'
    BY <1>5, <2>1, StartType DEF RequestFailed, Unscripted
  <2>3. SharedOK' /\ failed' \in 0 .. MaxFailures
    BY <1>5 DEF RequestFailed, shared, SharedOK
  <2>4. QED
    BY <1>5, <2>2, <2>3 DEF RequestFailed
<1>6. ASSUME NEW v \in VM, CheckListed(v)
      PROVE  FailoverTypeOK'
  <2>1. token[v] \in Token
    BY <1>6 DEF CheckListed, ThreadOK
  <2>2. ThreadOK'
    <3>1. count' \in [VM -> Nat]
      BY <1>6 DEF CheckListed, ThreadOK
    <3>2. CASE Start(v, "idle", None)
      BY <3>1, <3>2, StartType DEF Unscripted
    <3>3. CASE Start(v, "failover", token[v])
      BY <2>1, <3>1, <3>3, StartType DEF Scripted
    <3>4. CASE Start(v, "fail", token[v])
      BY <2>1, <3>1, <3>4, StartType DEF Scripted
    <3>5. QED
      BY <1>6, <3>2, <3>3, <3>4 DEF CheckListed
  <2>3. QED
    BY <1>6, <2>2 DEF CheckListed, shared, history, SharedOK
<1>7. ASSUME NEW v \in VM, NEW t \in Token, RequestSucceeded(v, t)
      PROVE  FailoverTypeOK'
  <2>1. ThreadOK'
    BY <1>7, StartType DEF RequestSucceeded, ThreadOK, Scripted
  <2>2. QED
    BY <1>7, <2>1 DEF RequestSucceeded, shared, history, SharedOK
<1>8. ASSUME NEW v \in VM, HealthCheck(v)
      PROVE  FailoverTypeOK'
  <2>1. checks' \in [VM -> SUBSET Token]
    BY <1>8 DEF HealthCheck, SharedOK
  <2>2. QED
    BY <1>8, <2>1 DEF HealthCheck, shared, thread, history, SharedOK, ThreadOK
<1>9. ASSUME NEW v \in VM, NEW t \in Token, CheckPassed(v, t)
      PROVE  FailoverTypeOK'
  <2>1. checks' \in [VM -> SUBSET Token] /\ count' \in [VM -> Nat]
    BY <1>9 DEF CheckPassed, ThreadOK
  <2>2. ThreadOK'
    <3>1. CASE Start(v, "recover", t)
      BY <2>1, <3>1, StartType DEF Scripted
    <3>2. CASE Start(v, "pass", t)
      BY <2>1, <3>2, StartType DEF Scripted
    <3>3. QED
      BY <1>9, <3>1, <3>2 DEF CheckPassed
  <2>3. QED
    BY <1>9, <2>1, <2>2 DEF CheckPassed, shared, history, SharedOK
<1>10. ASSUME NEW v \in VM, NEW t \in Token, CheckFailed(v, t)
       PROVE  FailoverTypeOK'
  <2>1. checks' \in [VM -> SUBSET Token]
    BY <1>10 DEF CheckFailed
  <2>2. QED
    BY <1>10, <2>1 DEF CheckFailed, shared, thread, history, SharedOK, ThreadOK
<1>11. ASSUME NEW key PROVE Outdated(key) \in [VM -> {"none", "fresh", "stale"}]
  BY DEF Outdated, ThreadOK
<1>12. \A c : c \in Blind \/ c \in Swap => c \in DOMAIN KeyOf
  BY DEF Blind, Swap, KeyOf
<1>13. ASSUME NEW v \in VM, BlindWrite(v) \/ SwapWrite(v)
       PROVE  FailoverTypeOK'
  <2>1. Call(v) \in DOMAIN KeyOf /\ Write(Call(v), token[v])
    BY <1>12, <1>13 DEF BlindWrite, SwapWrite
  <2>2. Advance(v, Outdated(KeyOf[Call(v)])) /\ UNCHANGED <<checks, history>>
    BY <1>13 DEF BlindWrite, SwapWrite
  <2>3. SharedOK'
    BY <2>1, WriteType
  <2>4. ThreadOK'
    BY <1>11, <2>1, <2>2, CallSites, AdvanceType
  <2>5. QED
    BY <2>2, <2>3, <2>4 DEF history
<1>14. ASSUME NEW v \in VM, SwapRead(v)
       PROVE  FailoverTypeOK'
  <2>1. ThreadOK'
    <3>1. CASE Advance(v, view)
      BY <1>12, <1>14, <3>1, CallSites, AdvanceType DEF SwapRead, ThreadOK
    <3>2. CASE /\ view' = [view EXCEPT ![v] = "fresh"]
               /\ UNCHANGED <<handler, pos, token, count, attempt>>
      BY <3>2 DEF ThreadOK
    <3>3. QED
      BY <1>14, <3>1, <3>2 DEF SwapRead
  <2>2. QED
    BY <1>14, <2>1 DEF SwapRead, shared, history, SharedOK
<1>15. ASSUME NEW v \in VM, SwapFails(v)
       PROVE  FailoverTypeOK'
  <2>1. handler[v] \in Scripted /\ token[v] \in Token
    <3>1. Call(v) \notin Blind /\ Call(v) \in DOMAIN KeyOf
      BY <1>15 DEF SwapFails, Swap
    <3>2. QED
      BY <3>1, CallSites
  <2>2. CASE attempt[v] + 1 = CasMaxRetries
    <3>1. Advance(v, view) /\ gaveUp' = gaveUp \cup {token[v]}
      BY <1>15, <2>2 DEF SwapFails
    <3>2. ThreadOK'
      BY <2>1, <3>1, AdvanceType DEF ThreadOK
    <3>3. QED
      BY <1>15, <2>1, <3>1, <3>2 DEF SwapFails, shared, SharedOK
  <2>3. CASE attempt[v] + 1 # CasMaxRetries
    <3>1. /\ attempt' = [attempt EXCEPT ![v] = @ + 1]
          /\ view' = [view EXCEPT ![v] = "none"]
          /\ UNCHANGED <<handler, pos, token, count, gaveUp>>
      BY <1>15, <2>3 DEF SwapFails
    <3>2. attempt' \in [VM -> 0 .. CasMaxRetries - 1] /\ view' \in [VM -> {"none", "fresh", "stale"}]
      BY <2>3, <3>1 DEF ThreadOK
    <3>3. ThreadOK'
      BY <3>1, <3>2 DEF ThreadOK
    <3>4. QED
      BY <1>15, <3>1, <3>3 DEF SwapFails, shared, SharedOK
  <2>4. QED
    BY <2>2, <2>3
<1>16. QED
  BY <1>1, <1>2, <1>3, <1>4, <1>5, <1>6, <1>7, <1>8, <1>9, <1>10, <1>13, <1>14, <1>15
     DEF Next, Continue

\* The types hold in every reachable state.
THEOREM FailoverTypeCorrect == Spec => []FailoverTypeOK
<1>1. Init => FailoverTypeOK
  BY InitType
<1>2. FailoverTypeOK /\ [Next]_vars => FailoverTypeOK'
  BY NextType
<1>3. QED
  BY <1>1, <1>2, PTL DEF Spec

-----------------------------------------------------------------------------
(* No token is lost *)

\* A handler that starts in place of one without a script moves no token.
LEMMA StartKeepsTokens ==
    ASSUME ThreadOK, NoTokenLost, NEW v \in VM, NEW h, NEW t, Start(v, h, t),
           handler[v] \in Unscripted, UNCHANGED <<shared, gaveUp>>
    PROVE  NoTokenLost'
<1>1. \A u \in VM : u # v => handler'[u] = handler[u] /\ pos'[u] = pos[u] /\ token'[u] = token[u]
  BY DEF Start, ThreadOK
<1>2. \A s \in Token : Moving(s) => Moving(s)'
  BY <1>1 DEF Moving, Unscripted
<1>3. Configuring => Configuring'
  BY <1>1 DEF Configuring, Unscripted
<1>4. QED
  BY <1>2, <1>3 DEF NoTokenLost, shared

\* A machine at rest or in the middle of a call moves no token.
LEMMA StandingKeepsTokens ==
    ASSUME NoTokenLost, UNCHANGED <<shared, handler, pos, token, gaveUp>>
    PROVE  NoTokenLost'
BY DEF NoTokenLost, Moving, Configuring, shared

\* A call that ends, having written, found nothing to do or been given up,
\* leaves every token on a list, on its way or abandoned.
LEMMA CallKeepsTokens ==
    ASSUME FailoverTypeOK, NoTokenLost, NEW v \in VM, NEW w, Advance(v, w),
           Call(v) \in DOMAIN KeyOf,
           \/ Write(Call(v), token[v]) /\ UNCHANGED gaveUp
           \/ UNCHANGED <<shared, gaveUp>> /\ NothingToDo(Call(v), token[v])
           \/ UNCHANGED shared /\ gaveUp' = gaveUp \cup {token[v]} /\ Call(v) \notin Blind
    PROVE  NoTokenLost'
<1> DEFINE Written == Write(Call(v), token[v]) /\ UNCHANGED gaveUp
           Idling == UNCHANGED <<shared, gaveUp>> /\ NothingToDo(Call(v), token[v])
           Abandoned == /\ UNCHANGED shared /\ gaveUp' = gaveUp \cup {token[v]}
                        /\ Call(v) \notin Blind
<1>1. Written \/ Idling \/ Abandoned
  OBVIOUS
<1>2. ThreadOK
  BY DEF FailoverTypeOK
<1>3. \A u \in VM : u # v => handler'[u] = handler[u] /\ pos'[u] = pos[u] /\ token'[u] = token[u]
  BY <1>2 DEF Advance, ThreadOK
<1>4. pos[v] # Len(Script[handler[v]]) =>
          handler'[v] = handler[v] /\ pos'[v] = pos[v] + 1 /\ token'[v] = token[v]
  BY <1>2 DEF Advance, ThreadOK
<1>5. /\ pos[v] \in Nat
      /\ handler[v] = "failover" => Len(Script[handler[v]]) = 4
      /\ handler[v] = "recover" => Len(Script[handler[v]]) = 3
      /\ handler[v] = "configure" => Len(Script[handler[v]]) = 5
  BY <1>2, ScriptShape DEF ThreadOK
<1>6. \A s \in Token : handler[v] \in {"failover", "recover"} /\ pos[v] = 1 /\ token[v] = s
                         => Moving(s)'
  BY <1>4, <1>5 DEF Moving
<1>7. ASSUME NEW u \in VM, handler[u] = "configure", u # v \/ pos[v] # 5
      PROVE  Configuring'
  <2>1. handler'[u] = "configure"
    BY <1>3, <1>4, <1>5, <1>7
  <2>2. QED
    BY <2>1 DEF Configuring
<1>8. ASSUME NEW s \in Token
      PROVE  s \in (apiTokens \cup unavailableTokens \cup gaveUp)' \/ Moving(s)' \/ Configuring'
  <2>1. CASE s \in apiTokens
    <3>1. CASE Written
      <4>1. CASE s \notin apiTokens'
        <5>1. (Call(v) = "removeAvailable" /\ s = token[v]) \/ Call(v) = "clearAvailable"
          BY <2>1, <3>1, <4>1 DEF Write
        <5>2. CASE Call(v) = "removeAvailable" /\ s = token[v]
          BY <1>2, <1>6, <5>2, CallSites
        <5>3. CASE Call(v) = "clearAvailable"
          BY <1>2, <1>7, <5>3, CallSites
        <5>4. QED
          BY <5>1, <5>2, <5>3
      <4>2. QED
        BY <4>1
    <3>2. QED
      BY <1>1, <2>1, <3>1 DEF shared
  <2>2. CASE s \in unavailableTokens
    <3>1. CASE Written
      <4>1. CASE s \notin unavailableTokens'
        <5>1. (Call(v) = "removeUnavailable" /\ s = token[v]) \/ Call(v) = "clearUnavailable"
          BY <2>2, <3>1, <4>1 DEF Write
        <5>2. CASE Call(v) = "removeUnavailable" /\ s = token[v]
          BY <1>2, <1>6, <5>2, CallSites
        <5>3. CASE Call(v) = "clearUnavailable"
          BY <1>2, <1>7, <5>3, CallSites
        <5>4. QED
          BY <5>1, <5>2, <5>3
      <4>2. QED
        BY <4>1
    <3>2. QED
      BY <1>1, <2>2, <3>1 DEF shared
  <2>3. CASE s \in gaveUp
    BY <1>1, <2>3
  <2>4. CASE Moving(s)
    <3>1. PICK u \in VM : handler[u] \in {"failover", "recover"} /\ pos[u] <= 2 /\ token[u] = s
      BY <2>4 DEF Moving
    <3>2. CASE u # v
      BY <1>3, <3>1, <3>2 DEF Moving
    <3>3. CASE u = v /\ pos[v] = 1
      BY <1>6, <3>1, <3>3
    <3>4. CASE u = v /\ pos[v] = 2
      <4>1. Call(v) \in {"addAvailable", "addUnavailable"}
        BY <1>2, <3>1, <3>4, CallSites
      <4>2. Written => s \in (apiTokens \cup unavailableTokens)'
        BY <3>1, <3>4, <4>1 DEF Write
      <4>3. Idling => s \in (apiTokens \cup unavailableTokens)'
        BY <3>1, <3>4, <4>1 DEF NothingToDo, shared
      <4>4. Abandoned => s \in gaveUp'
        BY <3>1, <3>4
      <4>5. QED
        BY <1>1, <4>2, <4>3, <4>4
    <3>5. pos[u] \in Nat \ {0} \/ u # v
      BY <1>2, CallSites
    <3>6. QED
      BY <3>1, <3>2, <3>3, <3>4, <3>5
  <2>5. CASE Configuring
    <3>1. PICK u \in VM : handler[u] = "configure"
      BY <2>5 DEF Configuring
    <3>2. CASE u # v \/ pos[v] # 5
      BY <1>7, <3>1, <3>2
    <3>3. CASE u = v /\ pos[v] = 5
      <4>1. Call(v) = "initTokens"
        BY <1>2, <3>1, <3>3, CallSites
      <4>2. Written
        BY <1>1, <4>1 DEF NothingToDo, Blind
      <4>3. QED
        BY <4>1, <4>2 DEF Write
    <3>4. QED
      BY <3>2, <3>3
  <2>6. QED
    BY <2>1, <2>2, <2>3, <2>4, <2>5 DEF NoTokenLost
<1>9. QED
  BY <1>8 DEF NoTokenLost

\* Every step keeps every token on a list, on its way or abandoned.
LEMMA NextKeepsTokens ==
    ASSUME FailoverTypeOK, NoTokenLost, [Next]_vars
    PROVE  NoTokenLost'
<1> USE DEF FailoverTypeOK
<1>1. CASE UNCHANGED vars
  BY <1>1, StandingKeepsTokens DEF vars, thread, history
<1>2. ASSUME NEW v \in VM, SetApiTokensFailover(v)
      PROVE  NoTokenLost'
  BY <1>2, StartKeepsTokens DEF SetApiTokensFailover, Idle, Unscripted
<1>3. ASSUME NEW v \in VM, PickToken(v)
      PROVE  NoTokenLost'
  BY <1>3, StartKeepsTokens DEF PickToken, Idle, Unscripted, history
<1>4. ASSUME NEW v \in VM, PickUnavailable(v)
      PROVE  NoTokenLost'
  BY <1>4, StartKeepsTokens DEF PickUnavailable, Unscripted, history
<1>5. ASSUME NEW v \in VM, NEW t \in Token, RequestFailed(v, t)
      PROVE  NoTokenLost'
  BY <1>5, StartKeepsTokens DEF RequestFailed, Idle, Unscripted
<1>6. ASSUME NEW v \in VM, CheckListed(v)
      PROVE  NoTokenLost'
  BY <1>6, StartKeepsTokens DEF CheckListed, Unscripted, history
<1>7. ASSUME NEW v \in VM, NEW t \in Token, RequestSucceeded(v, t)
      PROVE  NoTokenLost'
  BY <1>7, StartKeepsTokens DEF RequestSucceeded, Idle, Unscripted, history
<1>8. ASSUME NEW v \in VM, NEW t \in Token, CheckFailed(v, t)
      PROVE  NoTokenLost'
  BY <1>8, StandingKeepsTokens DEF CheckFailed, thread, history
<1>9. ASSUME NEW v \in VM, HealthCheck(v)
      PROVE  NoTokenLost'
  BY <1>9, StandingKeepsTokens DEF HealthCheck, thread, history
<1>10. ASSUME NEW v \in VM, NEW t \in Token, CheckPassed(v, t)
       PROVE  NoTokenLost'
  BY <1>10, StartKeepsTokens DEF CheckPassed, Idle, Unscripted, history
<1>11. \A c : c \in Blind \/ c \in Swap => c \in DOMAIN KeyOf
  BY DEF Blind, Swap, KeyOf
<1>12. ASSUME NEW v \in VM, BlindWrite(v) \/ SwapWrite(v)
       PROVE  NoTokenLost'
  BY <1>11, <1>12, CallKeepsTokens DEF BlindWrite, SwapWrite, history
<1>13. ASSUME NEW v \in VM, SwapRead(v)
       PROVE  NoTokenLost'
  <2>1. CASE NothingToDo(Call(v), token[v])
    BY <1>11, <1>13, <2>1, CallKeepsTokens DEF SwapRead, history
  <2>2. CASE ~NothingToDo(Call(v), token[v])
    BY <1>13, <2>2, StandingKeepsTokens DEF SwapRead, history
  <2>3. QED
    BY <2>1, <2>2
<1>14. ASSUME NEW v \in VM, SwapFails(v)
       PROVE  NoTokenLost'
  <2>1. CASE attempt[v] + 1 = CasMaxRetries
    BY <1>11, <1>14, <2>1, CallKeepsTokens DEF SwapFails, Swap
  <2>2. CASE attempt[v] + 1 # CasMaxRetries
    BY <1>14, <2>2, StandingKeepsTokens DEF SwapFails
  <2>3. QED
    BY <2>1, <2>2
<1>15. QED
  BY <1>1, <1>2, <1>3, <1>4, <1>5, <1>6, <1>7, <1>8, <1>9, <1>10, <1>12, <1>13, <1>14
     DEF Next, Continue

\* However the handlers of the machines overlap, a token is on a list, on its
\* way to one, about to be listed by a configuration, or was given up.
THEOREM NoTokenIsLost == Spec => []NoTokenLost
<1>1. Init => FailoverTypeOK /\ NoTokenLost
  BY InitType DEF Init, NoTokenLost
<1>2. FailoverTypeOK /\ NoTokenLost /\ [Next]_vars => (FailoverTypeOK /\ NoTokenLost)'
  BY NextType, NextKeepsTokens
<1>3. QED
  BY <1>1, <1>2, PTL DEF Spec

-----------------------------------------------------------------------------
(* The counts *)

\* The machines that will still count a failure of the token, having found the
\* count below the threshold or about to.
Pending(t) ==
    {v \in VM : /\ token[v] = t
               /\ \/ handler[v] = "fail"
                  \/ handler[v] = "check" /\ count[v] + 2 <= FailureThreshold}

\* Each of them adds at most one to the count.
CountBound(t) ==
    failureCount[t] + Cardinality(Pending(t)) + 2 <= FailureThreshold + Cardinality(VM)

\* A set of machines is finite and no larger than all of them.
LEMMA PendingIsSmall ==
    ASSUME NEW P, P \subseteq VM
    PROVE  /\ IsFiniteSet(P) /\ Cardinality(P) \in Nat
           /\ Cardinality(P) <= Cardinality(VM)
           /\ Cardinality(VM) \in Nat \ {0}
<1>1. IsFiniteSet(P) /\ Cardinality(P) <= Cardinality(VM)
  BY FS_Subset
<1>2. Cardinality(P) \in Nat /\ Cardinality(VM) \in Nat
  BY <1>1, FS_CardinalityType
<1>3. Cardinality(VM) # 0
  BY FS_EmptySet
<1>4. QED
  BY <1>1, <1>2, <1>3

\* The bound on the counts is the property.
LEMMA BoundGivesProperty ==
    ASSUME SharedOK, \A t \in Token : CountBound(t)
    PROVE  CountsStayNearThreshold
<1> SUFFICES ASSUME NEW t \in Token
             PROVE  failureCount[t] + 2 <= FailureThreshold + Cardinality(VM)
  BY DEF CountsStayNearThreshold
<1>1. Cardinality(Pending(t)) \in Nat /\ Cardinality(VM) \in Nat
  BY PendingIsSmall DEF Pending
<1>2. failureCount[t] \in Nat
  BY DEF SharedOK
<1>3. QED
  BY <1>1, <1>2 DEF CountBound

\* Without a new machine that will count nor a higher count, the bound stays.
LEMMA BoundStays ==
    ASSUME FailoverTypeOK, FailoverTypeOK', NEW t \in Token, CountBound(t),
           Pending(t)' \subseteq Pending(t), failureCount'[t] <= failureCount[t]
    PROVE  CountBound(t)'
<1> DEFINE P == Pending(t)
           Q == Pending(t)'
<1>1. P \subseteq VM
  BY DEF Pending
<1>2. /\ IsFiniteSet(P) /\ Cardinality(P) \in Nat
      /\ Cardinality(Q) \in Nat /\ Cardinality(VM) \in Nat
      /\ Cardinality(Q) <= Cardinality(P)
  BY <1>1, PendingIsSmall, FS_Subset
<1>3. failureCount[t] \in Nat /\ failureCount'[t] \in Nat
  BY DEF FailoverTypeOK, SharedOK
<1>4. failureCount[t] + Cardinality(P) + 2 <= FailureThreshold + Cardinality(VM)
  BY DEF CountBound
<1> HIDE DEF P, Q
<1>5. failureCount'[t] + Cardinality(Q) + 2 <= FailureThreshold + Cardinality(VM)
  BY <1>2, <1>3, <1>4
<1>6. QED
  BY <1>5 DEF CountBound, Q

\* A machine that counts its failure stops being one that will.
LEMMA BoundMoves ==
    ASSUME FailoverTypeOK, NEW t \in Token, CountBound(t), NEW v \in Pending(t),
           Pending(t)' \subseteq Pending(t) \ {v}, failureCount'[t] = failureCount[t] + 1
    PROVE  CountBound(t)'
<1> DEFINE P == Pending(t)
           Q == Pending(t)'
<1>1. P \subseteq VM /\ P \ {v} \subseteq VM
  BY DEF Pending
<1>2. IsFiniteSet(P) /\ Cardinality(P) \in Nat /\ Cardinality(VM) \in Nat
  BY <1>1, PendingIsSmall
<1>3. Cardinality(P \ {v}) = Cardinality(P) - 1 /\ IsFiniteSet(P \ {v})
  BY <1>2, FS_RemoveElement
<1>4. Cardinality(Q) <= Cardinality(P \ {v}) /\ Cardinality(Q) \in Nat
  BY <1>1, <1>3, PendingIsSmall, FS_Subset
<1>5. failureCount[t] \in Nat
  BY DEF FailoverTypeOK, SharedOK
<1>6. failureCount[t] + Cardinality(P) + 2 <= FailureThreshold + Cardinality(VM)
  BY DEF CountBound
<1> HIDE DEF P, Q
<1>7. failureCount'[t] + Cardinality(Q) + 2 <= FailureThreshold + Cardinality(VM)
  BY <1>2, <1>3, <1>4, <1>5, <1>6
<1>8. QED
  BY <1>7 DEF CountBound, Q

\* A machine that reads a low count may join those that will count.
LEMMA BoundAtLowCount ==
    ASSUME FailoverTypeOK, NEW t \in Token, failureCount'[t] = failureCount[t],
           failureCount[t] + 2 <= FailureThreshold
    PROVE  CountBound(t)'
<1> DEFINE Q == Pending(t)'
<1>1. Q \subseteq VM
  BY DEF Pending
<1>2. Cardinality(Q) \in Nat /\ Cardinality(VM) \in Nat /\ Cardinality(Q) <= Cardinality(VM)
  BY <1>1, PendingIsSmall
<1>3. failureCount[t] \in Nat
  BY DEF FailoverTypeOK, SharedOK
<1> HIDE DEF Q
<1>4. failureCount'[t] + Cardinality(Q) + 2 <= FailureThreshold + Cardinality(VM)
  BY <1>2, <1>3
<1>5. QED
  BY <1>4 DEF CountBound, Q

\* A machine that starts anything but the handling of a failure, or goes on with
\* it below the threshold, does not join those that will count.
LEMMA StartKeepsPending ==
    ASSUME ThreadOK, NEW v \in VM, NEW h, NEW s, Start(v, h, s), UNCHANGED count,
           \/ h \notin {"fail", "check"}
           \/ /\ h = "fail" /\ s = token[v]
              /\ handler[v] = "check" /\ count[v] + 2 <= FailureThreshold,
           NEW t \in Token
    PROVE  Pending(t)' \subseteq Pending(t)
<1>1. \A u \in VM : u # v => handler'[u] = handler[u] /\ token'[u] = token[u]
  BY DEF Start, ThreadOK
<1>2. handler'[v] = h /\ token'[v] = s
  BY DEF Start, ThreadOK
<1>3. QED
  BY <1>1, <1>2 DEF Pending

\* A machine that ends a call is not about to count a failure.
LEMMA AdvanceKeepsPending ==
    ASSUME ThreadOK, NEW v \in VM, NEW w, Advance(v, w), Call(v) \in DOMAIN KeyOf,
           NEW t \in Token
    PROVE  Pending(t)' \subseteq Pending(t) \ {v}
<1>1. \A u \in VM : u # v => handler'[u] = handler[u] /\ token'[u] = token[u]
  BY DEF Advance, ThreadOK
<1>2. handler'[v] = IF pos[v] = Len(Script[handler[v]]) THEN "idle" ELSE handler[v]
  BY DEF Advance, ThreadOK
<1>3. handler[v] \in Scripted /\ pos[v] \in 1 .. Len(Script[handler[v]])
  BY CallSites
<1>4. handler'[v] \notin {"fail", "check"}
  <2>1. CASE handler[v] = "fail"
    <3>1. Len(Script[handler[v]]) = 1
      BY <2>1, ScriptCalls
    <3>2. handler'[v] = "idle"
      BY <1>2, <1>3, <3>1
    <3>3. QED
      BY <3>2
  <2>2. CASE handler[v] # "fail"
    BY <1>2, <1>3, <2>2 DEF Scripted
  <2>3. QED
    BY <2>1, <2>2
<1>5. UNCHANGED count
  BY DEF Advance
<1>6. QED
  BY <1>1, <1>4, <1>5 DEF Pending

\* What a call does to the count of a token.
LEMMA WriteCounts ==
    ASSUME FailoverTypeOK, NEW v \in VM, Call(v) \in DOMAIN KeyOf,
           Write(Call(v), token[v]), NEW t \in Token
    PROVE  \/ failureCount'[t] <= failureCount[t]
           \/ handler[v] = "fail" /\ token[v] = t /\ failureCount'[t] = failureCount[t] + 1
<1>1. failureCount \in [Token -> Nat] /\ failureCount[t] \in Nat
  BY DEF FailoverTypeOK, SharedOK
<1>2. CASE Call(v) = "addFailure"
  <2>1. handler[v] = "fail"
    BY <1>2, CallSites DEF FailoverTypeOK
  <2>2. failureCount' = [failureCount EXCEPT ![token[v]] = @ + 1]
    BY <1>2 DEF Write
  <2>3. QED
    BY <1>1, <2>1, <2>2
<1>3. CASE Call(v) = "resetFailure"
  <2>1. failureCount' = [failureCount EXCEPT ![token[v]] = 0]
    BY <1>3 DEF Write
  <2>2. QED
    BY <1>1, <2>1
<1>4. CASE Call(v) = "clearFailure"
  <2>1. failureCount' = [u \in Token |-> 0]
    BY <1>4 DEF Write
  <2>2. QED
    BY <1>1, <2>1
<1>5. CASE Call(v) \notin {"addFailure", "resetFailure", "clearFailure"}
  <2>1. failureCount' = failureCount
    BY <1>5 DEF Write
  <2>2. QED
    BY <1>1, <2>1
<1>6. QED
  BY <1>2, <1>3, <1>4, <1>5

\* Every step keeps the bound.
LEMMA NextKeepsBound ==
    ASSUME FailoverTypeOK, FailoverTypeOK', \A s \in Token : CountBound(s), [Next]_vars,
           NEW t \in Token
    PROVE  CountBound(t)'
<1>1. ThreadOK /\ CountBound(t) /\ failureCount[t] \in Nat
  BY DEF FailoverTypeOK, SharedOK
<1>2. ASSUME UNCHANGED <<failureCount, handler, token, count>>
      PROVE  CountBound(t)'
  BY <1>1, <1>2, BoundStays DEF Pending
<1>3. ASSUME Pending(t)' \subseteq Pending(t), UNCHANGED failureCount
      PROVE  CountBound(t)'
  BY <1>1, <1>3, BoundStays
<1>4. CASE UNCHANGED vars
  BY <1>2, <1>4 DEF vars, shared, thread
<1>5. ASSUME NEW v \in VM, \/ SetApiTokensFailover(v)
                           \/ PickToken(v)
                           \/ PickUnavailable(v)
      PROVE  CountBound(t)'
  <2>1. PICK h \in {"configure", "pick", "idle", "panic"} : Start(v, h, None)
    BY <1>5 DEF SetApiTokensFailover, PickToken, PickUnavailable
  <2>2. UNCHANGED <<count, failureCount>>
    BY <1>5 DEF SetApiTokensFailover, PickToken, PickUnavailable, shared
  <2>3. QED
    BY <1>1, <1>3, <2>1, <2>2, StartKeepsPending
<1>6. ASSUME NEW v \in VM, NEW s \in Token, RequestFailed(v, s)
      PROVE  CountBound(t)'
  <2>1. failureCount' = failureCount /\ count' = [count EXCEPT ![v] = failureCount[s]]
    BY <1>6 DEF RequestFailed, shared
  <2>2. CASE t = s /\ failureCount[t] + 2 <= FailureThreshold
    BY <2>1, <2>2, BoundAtLowCount
  <2>3. CASE ~(t = s /\ failureCount[t] + 2 <= FailureThreshold)
    <3>1. \A u \in VM : u # v => /\ handler'[u] = handler[u] /\ token'[u] = token[u]
                                 /\ count'[u] = count[u]
      BY <1>1, <1>6, <2>1 DEF RequestFailed, Start, ThreadOK
    <3>2. handler'[v] = "check" /\ token'[v] = s /\ count'[v] = failureCount[s]
      BY <1>1, <1>6, <2>1 DEF RequestFailed, Start, ThreadOK
    <3>3. Pending(t)' \subseteq Pending(t)
      BY <2>3, <3>1, <3>2 DEF Pending
    <3>4. QED
      BY <1>3, <2>1, <3>3
  <2>4. QED
    BY <2>2, <2>3
<1>7. ASSUME NEW v \in VM, CheckListed(v)
      PROVE  CountBound(t)'
  <2>1. UNCHANGED <<count, failureCount>> /\ handler[v] = "check" /\ count[v] \in Nat
    BY <1>1, <1>7 DEF CheckListed, shared, ThreadOK
  <2>2. CASE Start(v, "idle", None) \/ Start(v, "failover", token[v])
    BY <1>1, <1>3, <2>1, <2>2, StartKeepsPending
  <2>3. CASE Start(v, "fail", token[v]) /\ count[v] + 1 < FailureThreshold
    <3>1. count[v] + 2 <= FailureThreshold
      BY <2>1, <2>3
    <3>2. QED
      BY <1>1, <1>3, <2>1, <2>3, <3>1, StartKeepsPending
  <2>4. count[v] + 1 >= FailureThreshold \/ count[v] + 1 < FailureThreshold
    BY <2>1
  <2>5. QED
    BY <1>7, <2>2, <2>3, <2>4 DEF CheckListed
<1>8. ASSUME NEW v \in VM, NEW s \in Token, RequestSucceeded(v, s) \/ CheckPassed(v, s)
      PROVE  CountBound(t)'
  <2>1. PICK h \in {"success", "recover", "pass"} : Start(v, h, s)
    BY <1>8 DEF RequestSucceeded, CheckPassed
  <2>2. UNCHANGED <<count, failureCount>>
    BY <1>8 DEF RequestSucceeded, CheckPassed, shared
  <2>3. QED
    BY <1>1, <1>3, <2>1, <2>2, StartKeepsPending
<1>9. ASSUME NEW v \in VM, NEW s \in Token, HealthCheck(v) \/ CheckFailed(v, s)
      PROVE  CountBound(t)'
  BY <1>2, <1>9 DEF HealthCheck, CheckFailed, shared, thread
<1>10. \A c : c \in Blind \/ c \in Swap => c \in DOMAIN KeyOf
  BY DEF Blind, Swap, KeyOf
<1>11. ASSUME NEW v \in VM, BlindWrite(v) \/ SwapWrite(v)
       PROVE  CountBound(t)'
  <2>1. /\ Call(v) \in DOMAIN KeyOf /\ Write(Call(v), token[v])
        /\ Advance(v, Outdated(KeyOf[Call(v)]))
    BY <1>10, <1>11 DEF BlindWrite, SwapWrite
  <2>2. Pending(t)' \subseteq Pending(t) \ {v}
    BY <1>1, <2>1, AdvanceKeepsPending
  <2>3. CASE failureCount'[t] <= failureCount[t]
    BY <1>1, <2>2, <2>3, BoundStays
  <2>4. CASE handler[v] = "fail" /\ token[v] = t /\ failureCount'[t] = failureCount[t] + 1
    <3>1. v \in Pending(t)
      BY <2>4 DEF Pending
    <3>2. QED
      BY <1>1, <2>2, <2>4, <3>1, BoundMoves
  <2>5. QED
    BY <2>1, <2>3, <2>4, WriteCounts
<1>12. ASSUME NEW v \in VM, SwapRead(v) \/ SwapFails(v)
       PROVE  CountBound(t)'
  <2>1. UNCHANGED failureCount /\ Call(v) \in DOMAIN KeyOf
    BY <1>10, <1>12 DEF SwapRead, SwapFails, shared
  <2>2. CASE Advance(v, view)
    BY <1>1, <1>3, <2>1, <2>2, AdvanceKeepsPending
  <2>3. CASE UNCHANGED <<handler, token, count>>
    BY <1>2, <2>1, <2>3
  <2>4. QED
    BY <1>12, <2>2, <2>3 DEF SwapRead, SwapFails
<1>13. QED
  <2>1. CASE \E v \in VM : HealthCheck(v)
    BY <1>9, <2>1
  <2>2. QED
    BY <1>4, <1>5, <1>6, <1>7, <1>8, <1>9, <1>11, <1>12, <2>1 DEF Next, Continue

\* The count of a token exceeds the threshold by fewer failures than there are
\* machines, for any number of machines and any thresholds.
THEOREM CountsAreBounded == Spec => []CountsStayNearThreshold
<1> DEFINE Bounded == \A t \in Token : CountBound(t)
<1>1. Init => FailoverTypeOK /\ Bounded
  <2> SUFFICES ASSUME Init, NEW t \in Token PROVE CountBound(t)
    BY InitType
  <2>1. Pending(t) = {} /\ failureCount[t] = 0
    BY DEF Init, Pending
  <2>2. Cardinality(Pending(t)) = 0 /\ Cardinality(VM) \in Nat \ {0}
    BY <2>1, FS_EmptySet, PendingIsSmall
  <2>3. QED
    BY <2>1, <2>2 DEF CountBound
<1>2. FailoverTypeOK /\ Bounded /\ [Next]_vars => (FailoverTypeOK /\ Bounded)'
  BY NextType, NextKeepsBound
<1>3. FailoverTypeOK /\ Bounded => CountsStayNearThreshold
  BY BoundGivesProperty DEF FailoverTypeOK
<1>4. QED
  BY <1>1, <1>2, <1>3, PTL DEF Spec
-----------------------------------------------------------------------------
(* The lease *)

\* The lease carries the latest time of its holder, and every other machine's
\* grants are older by more than a lease time.
GrantsOK ==
    /\ lease = Nobody => grants = {}
    /\ \A g \in grants :
          /\ g.vm = lease.vm => g.time <= lease.time
          /\ g.vm # lease.vm => g.time + LeaseTime < lease.time

\* A machine that is about to write with a current version may still take the
\* lease, and the time it read is not before its own last grant.
SwapOK ==
    /\ lease # Nobody => lease.time <= clock
    /\ \A v \in Machine :
          /\ now[v] <= clock
          /\ fresh[v] => MayTake(v)
          /\ phase[v] # "idle" /\ lease # Nobody /\ lease.vm = v => lease.time <= now[v]

LeaseInv == LeaseTypeOK /\ GrantsOK /\ SwapOK /\ LeaseExclusive

USE NobodyIsNoLease, LeaseTimes DEF Lease

LEMMA InitLease == LeaseInit => LeaseInv
BY DEF LeaseInit, LeaseInv, LeaseTypeOK, GrantsOK, SwapOK, LeaseExclusive

LEMMA ResetStep ==
    ASSUME LeaseInv, NEW v \in Machine, ResetSharedData(v)
    PROVE  LeaseInv'
BY DEF LeaseInv, ResetSharedData, LeaseTypeOK, GrantsOK, SwapOK, LeaseExclusive, MayTake

LEMMA TimeStep ==
    ASSUME LeaseInv, NEW v \in Machine, TryAcquireOrRenewLease(v)
    PROVE  LeaseInv'
<1>. USE DEF LeaseInv, TryAcquireOrRenewLease
<1>1. LeaseTypeOK'
    BY DEF LeaseTypeOK
<1>2. GrantsOK' /\ LeaseExclusive'
    BY DEF GrantsOK, LeaseExclusive
<1>3. SwapOK'
    BY DEF SwapOK, LeaseTypeOK, MayTake
<1>. QED
    BY <1>1, <1>2, <1>3

LEMMA GetStep ==
    ASSUME LeaseInv, NEW v \in Machine, GetLease(v)
    PROVE  LeaseInv'
<1>. USE DEF LeaseInv, GetLease
<1>1. LeaseTypeOK'
    BY DEF LeaseTypeOK, MayTake
<1>2. GrantsOK' /\ LeaseExclusive'
    BY DEF GrantsOK, LeaseExclusive
<1>3. SwapOK'
    BY DEF SwapOK, LeaseTypeOK, MayTake
<1>. QED
    BY <1>1, <1>2, <1>3

\* The write of a current version: the old lease was free, its own, or expired.
LEMMA SetStep ==
    ASSUME LeaseInv, NEW v \in Machine, SetLease(v)
    PROVE  LeaseInv'
<1>. USE DEF LeaseInv, SetLease
<1>1. CASE ~fresh[v]
    BY <1>1 DEF LeaseTypeOK, GrantsOK, SwapOK, LeaseExclusive, MayTake
<1>2. CASE fresh[v]
    <2>. DEFINE new == [vm |-> v, time |-> now[v]]
    <2>1. /\ lease' = new /\ grants' = grants \cup {new}
          /\ fresh' = [u \in Machine |-> FALSE]
          /\ phase' = [phase EXCEPT ![v] = "idle"]
          /\ UNCHANGED <<clock, now>>
        BY <1>2
    <2>2. new \in Lease /\ new.vm = v /\ new.time = now[v] /\ new.time \in Nat
        BY DEF LeaseTypeOK
    <2>3. phase[v] # "idle" /\ MayTake(v) /\ now[v] <= clock
        BY <1>2 DEF SwapOK
    <2>4. \A g \in grants :
              /\ g.vm = v => g.time <= now[v]
              /\ g.vm # v => g.time + LeaseTime < now[v]
        <3>. SUFFICES ASSUME NEW g \in grants
                      PROVE  /\ g.vm = v => g.time <= now[v]
                             /\ g.vm # v => g.time + LeaseTime < now[v]
            OBVIOUS
        <3>1. lease # Nobody /\ lease \in Lease /\ g \in Lease
            BY DEF GrantsOK, LeaseTypeOK
        <3>2. now[v] \in Nat
            BY DEF LeaseTypeOK
        <3>3. CASE lease.vm = v
            BY <3>1, <3>2, <3>3, <2>3 DEF GrantsOK, SwapOK
        <3>4. CASE lease.vm # v
            BY <3>1, <3>2, <3>4, <2>3 DEF GrantsOK, MayTake
        <3>. QED
            BY <3>3, <3>4
    <2>. HIDE DEF new
    <2>5. LeaseTypeOK'
        BY <2>1, <2>2 DEF LeaseTypeOK
    <2>6. GrantsOK'
        BY <2>1, <2>2, <2>4 DEF GrantsOK
    <2>7. SwapOK'
        BY <2>1, <2>2, <2>3 DEF SwapOK, LeaseTypeOK
    <2>8. LeaseExclusive'
        BY <2>1, <2>2, <2>4 DEF LeaseExclusive
    <2>. QED
        BY <2>5, <2>6, <2>7, <2>8
<1>. QED
    BY <1>1, <1>2

LEMMA TickStep ==
    ASSUME LeaseInv, Tick
    PROVE  LeaseInv'
BY DEF LeaseInv, Tick, LeaseTypeOK, GrantsOK, SwapOK, LeaseExclusive, MayTake

LEMMA LeaseInvariance == LeaseSpec => []LeaseInv
<1>1. LeaseInv /\ UNCHANGED leaseVars => LeaseInv'
    BY DEF LeaseInv, leaseVars, LeaseTypeOK, GrantsOK, SwapOK, LeaseExclusive, MayTake
<1>2. LeaseInv /\ [LeaseNext]_leaseVars => LeaseInv'
    BY <1>1, ResetStep, TimeStep, GetStep, SetStep, TickStep DEF LeaseNext
<1>. QED
    BY <1>2, InitLease, PTL DEF LeaseSpec

\* Type correctness of the lease protocol.
THEOREM LeaseTypeCorrect == LeaseSpec => []LeaseTypeOK
BY LeaseInvariance, PTL DEF LeaseInv

\* The leases of two machines are always more than a lease time apart, whatever
\* delays a machine between its read and its write.
THEOREM LeaseIsExclusive == LeaseSpec => []LeaseExclusive
BY LeaseInvariance, PTL DEF LeaseInv
=============================================================================
