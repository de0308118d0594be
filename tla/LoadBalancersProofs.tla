------------------------ MODULE LoadBalancersProofs ------------------------
(***************************************************************************)
(* The policies of the load balancer, for any hosts, services, pods and     *)
(* requests, and the ring buffer of those that measure, for any capacity.   *)
(***************************************************************************)
EXTENDS LoadBalancers, FiniteSetTheorems, SequenceTheorems, WellFoundedInduction, TLAPS

-----------------------------------------------------------------------------
(* The global least request policy *)

USE NoneIsNoHost, Limits, FiniteRequests

\* A request has a host only once it was selected, and never with an error; the
\* healthy hosts it saw are among all those it saw.
ContextOK ==
    /\ \A r \in Request : phase[r] \in {"new", "paused"} => ~error[r] /\ host[r] = None
    /\ \A r \in Request : error[r] \/ phase[r] = "answered" => host[r] = None
    /\ \A r \in Request : view[r].healthy \subseteq view[r].all

\* The requests a host serves or is about to serve.
Admitted(h) ==
    {r \in Request : \/ eval[r] = "ran" /\ reply[r].host = h /\ ~TooMany(r)
                     \/ phase[r] = "upstream" /\ host[r] = h}

\* At every host that no cleanup dropped, the count covers its requests, exactly
\* where nothing was lost, and no more than the limit are admitted.
HostOK(h) ==
    /\ h \notin wiped => Cardinality(Holders(h)) + decs[h] <= table[h]
    /\ h \notin wiped \cup lost => Cardinality(Holders(h)) + decs[h] = table[h]
    /\ maxRequestCount > 0 /\ h \notin wiped => Cardinality(Admitted(h)) <= maxRequestCount

IInv == BalancerTypeOK /\ ContextOK /\ \A h \in Host : HostOK(h)

-----------------------------------------------------------------------------
(* Types and contexts *)

LEMMA InitType == Init => BalancerTypeOK /\ ContextOK
BY DEF Init, BalancerTypeOK, ContextOK, View, NoView

\* Every step keeps the types and the contexts.
LEMMA NextType ==
    ASSUME BalancerTypeOK, ContextOK, [Next]_vars
    PROVE  BalancerTypeOK' /\ ContextOK'
<1> USE DEF BalancerTypeOK, ContextOK, redis, context
<1>0. maxRequestCount' = maxRequestCount
  BY DEF Next, vars
<1> USE <1>0
<1>1. CASE UNCHANGED vars
  BY <1>1 DEF vars
<1>2. ASSUME NEW r \in Request, NotBalanced(r)
      PROVE  BalancerTypeOK' /\ ContextOK'
  BY <1>2 DEF NotBalanced
<1>3. ASSUME NEW r \in Request, NEW all \in SUBSET Host, NEW healthy \in SUBSET all,
             HandleHttpRequestBody(r, all, healthy)
      PROVE  BalancerTypeOK' /\ ContextOK'
  <2>1. [all |-> all, healthy |-> healthy, time |-> clock] \in View
    BY DEF View
  <2>2. QED
    BY <1>3, <2>1 DEF HandleHttpRequestBody
<1>4. ASSUME NEW r \in Request, NEW h \in Host, RunScript(r, h)
      PROVE  BalancerTypeOK' /\ ContextOK'
  <2> DEFINE counted == [table EXCEPT ![h] = @ + 1]
             dropped == IF CleanDue(r) THEN Host \ view[r].all ELSE {}
  <2>1. counted \in [Host -> Int] /\ [host |-> h, count |-> counted[h]] \in Reply
    BY DEF Reply
  <2> HIDE DEF counted
  <2>2. table' = [g \in Host |-> IF g \in dropped THEN 0 ELSE counted[g]]
    BY <1>4 DEF RunScript, counted
  <2>3. table' \in [Host -> Int]
    BY <2>1, <2>2
  <2>4. lastClean' \in 0 .. MaxTime
    BY <1>4 DEF RunScript, View
  <2>5. wiped' \subseteq Host /\ lost' \subseteq Host
    <3>1. wiped' = wiped \cup {g \in dropped : counted[g] # 0} /\ dropped \subseteq Host
      BY <1>4 DEF RunScript, counted
    <3>2. lost' = lost \/ lost' = lost \cup {h}
      BY <1>4 DEF RunScript
    <3>3. QED
      BY <3>1, <3>2
  <2>6. view' \in [Request -> View]
    <3>1. NoView \in View
      BY DEF NoView, View
    <3>2. QED
      BY <1>4, <3>1 DEF RunScript
  <2> DEFINE seen(q) == view'[q].healthy \subseteq view'[q].all
  <2>11. \A q \in Request : seen(q)
    <3>1. ASSUME NEW q \in Request PROVE seen(q)
      <4>1. view'[q] = NoView \/ view'[q] = view[q]
        BY <1>4 DEF RunScript
      <4>2. QED
        BY <4>1 DEF NoView
    <3>2. QED
      BY <3>1
  <2>7. UNCHANGED <<decs, clock, phase, error, host>>
    BY <1>4 DEF RunScript
  <2>8. CASE phase[r] = "paused"
    <3>1. /\ eval' = [eval EXCEPT ![r] = "ran"]
          /\ reply' = [reply EXCEPT ![r] = [host |-> h, count |-> counted[h]]]
      BY <1>4, <2>8 DEF RunScript, counted
    <3>2. reply' \in [Request -> Reply \cup {None}] /\ [host |-> h, count |-> counted[h]] # None
      BY <2>1, <3>1
    <3>3. QED
      BY <2>3, <2>4, <2>5, <2>6, <2>7, <2>8, <2>11, <3>1, <3>2
  <2>9. CASE phase[r] # "paused"
    <3>1. eval' = [eval EXCEPT ![r] = "over"] /\ UNCHANGED reply /\ eval[r] = "sent"
      BY <1>4, <2>9 DEF RunScript
    <3>2. QED
      BY <2>3, <2>4, <2>5, <2>6, <2>7, <2>11, <3>1
  <2>10. QED
    BY <2>8, <2>9
<1>5. ASSUME NEW r \in Request, Rejected(r) \/ Selected(r) \/ OverrideFails(r)
      PROVE  BalancerTypeOK' /\ ContextOK'
  <2>1. Answered(r) /\ reply[r] \in Reply /\ reply[r].host \in Host
    BY <1>5 DEF Rejected, Selected, OverrideFails, Answered, Reply
  <2>2. CASE Rejected(r)
    BY <2>1, <2>2 DEF Rejected, Answered
  <2>3. CASE Selected(r)
    BY <2>1, <2>3 DEF Selected, Answered
  <2>4. CASE OverrideFails(r)
    BY <2>1, <2>4 DEF OverrideFails, Answered
  <2>5. QED
    BY <1>5, <2>2, <2>3, <2>4
<1>6. ASSUME NEW r \in Request PROVE Unread(r) \subseteq Host
  BY DEF Unread, Reply
<1>7. ASSUME NEW r \in Request, EvalFails(r)
      PROVE  BalancerTypeOK' /\ ContextOK'
  BY <1>6, <1>7 DEF EvalFails
<1>8. ASSUME NEW r \in Request, HandleHttpStreamDone(r)
      PROVE  BalancerTypeOK' /\ ContextOK'
  <2>1. decs' \in [Host -> Nat]
    BY <1>8 DEF HandleHttpStreamDone
  <2>2. QED
    BY <1>6, <1>8, <2>1 DEF HandleHttpStreamDone
<1>9. ASSUME NEW h \in Host, ApplyDecrement(h) \/ LoseDecrement(h)
      PROVE  BalancerTypeOK' /\ ContextOK'
  BY <1>9 DEF ApplyDecrement, LoseDecrement
<1>10. CASE Tick
  BY <1>10 DEF Tick
<1>11. QED
  BY <1>1, <1>2, <1>3, <1>4, <1>5, <1>7, <1>8, <1>9, <1>10 DEF Next

-----------------------------------------------------------------------------
(* Counts *)

LEMMA LimitIsNat ==
    ASSUME BalancerTypeOK
    PROVE  maxRequestCount \in Nat
BY DEF BalancerTypeOK

\* The requests of a host are finitely many; those admitted hold a count.
LEMMA FiniteParts ==
    ASSUME ContextOK, NEW h \in Host
    PROVE  /\ IsFiniteSet(Holders(h)) /\ Cardinality(Holders(h)) \in Nat
           /\ IsFiniteSet(Admitted(h)) /\ Cardinality(Admitted(h)) \in Nat
           /\ Admitted(h) \subseteq Holders(h)
           /\ Cardinality(Admitted(h)) <= Cardinality(Holders(h))
<1>1. Holders(h) \subseteq Request /\ Admitted(h) \subseteq Request
  BY DEF Holders, Admitted
<1>2. IsFiniteSet(Holders(h)) /\ IsFiniteSet(Admitted(h))
  BY <1>1, FS_Subset
<1>3. Admitted(h) \subseteq Holders(h)
  BY DEF Holders, Admitted, ContextOK
<1>4. QED
  BY <1>2, <1>3, FS_Subset, FS_CardinalityType

\* A step that keeps the balance of a host, or loses a count upward, and admits
\* nobody.
LEMMA Balanced ==
    ASSUME IInv, BalancerTypeOK', ContextOK', maxRequestCount' = maxRequestCount, NEW h \in Host, NEW a \in Int,
           Cardinality(Holders(h))' + decs'[h] = Cardinality(Holders(h)) + decs[h] - a,
           table'[h] >= table[h] - a, table'[h] = table[h] - a \/ h \in lost',
           Admitted(h)' \subseteq Admitted(h),
           wiped \subseteq wiped', lost \subseteq lost'
    PROVE  HostOK(h)'
<1> DEFINE H == Cardinality(Holders(h))
           K == Cardinality(Holders(h))'
           A == Cardinality(Admitted(h))
           B == Cardinality(Admitted(h))'
<1>1. H \in Nat /\ A \in Nat /\ IsFiniteSet(Admitted(h))
  BY FiniteParts DEF IInv
<1>2. K \in Nat /\ B \in Nat
  <2>1. Holders(h)' \subseteq Request /\ Admitted(h)' \subseteq Request
    BY DEF Holders, Admitted
  <2>2. IsFiniteSet(Holders(h)') /\ IsFiniteSet(Admitted(h)')
    BY <2>1, FS_Subset
  <2>3. QED
    BY <2>2, FS_CardinalityType
<1>3. B <= A
  BY <1>1, FS_Subset
<1>4. /\ decs[h] \in Nat /\ decs'[h] \in Nat /\ table[h] \in Int /\ table'[h] \in Int
      /\ maxRequestCount \in Nat
  BY LimitIsNat DEF IInv, BalancerTypeOK
<1>5. /\ h \notin wiped => H + decs[h] <= table[h]
      /\ h \notin wiped \cup lost => H + decs[h] = table[h]
      /\ maxRequestCount > 0 /\ h \notin wiped => A <= maxRequestCount
  BY DEF IInv, HostOK
<1>6. K + decs'[h] = H + decs[h] - a
  OBVIOUS
<1> HIDE DEF H, K, A, B
<1>7. /\ h \notin wiped' => K + decs'[h] <= table'[h]
      /\ h \notin (wiped' \cup lost') => K + decs'[h] = table'[h]
      /\ maxRequestCount > 0 /\ h \notin wiped' => B <= maxRequestCount
  BY <1>1, <1>2, <1>3, <1>4, <1>5, <1>6
<1>8. QED
  BY <1>7 DEF HostOK, K, B

\* A step that concerns other hosts.
LEMMA Untouched ==
    ASSUME IInv, BalancerTypeOK', ContextOK', maxRequestCount' = maxRequestCount, NEW h \in Host,
           Holders(h)' = Holders(h), Admitted(h)' \subseteq Admitted(h),
           decs'[h] = decs[h], table'[h] = table[h],
           wiped \subseteq wiped', lost \subseteq lost'
    PROVE  HostOK(h)'
<1>1. Cardinality(Holders(h)) \in Nat /\ decs[h] \in Nat /\ table[h] \in Int
  BY FiniteParts DEF IInv, BalancerTypeOK
<1>2. Cardinality(Holders(h))' + decs'[h] = Cardinality(Holders(h)) + decs[h] - 0
  BY <1>1
<1>3. table'[h] >= table[h] - 0 /\ table'[h] = table[h] - 0
  BY <1>1
<1>4. QED
  BY <1>2, <1>3, Balanced

\* A request gives its count back.
LEMMA Released ==
    ASSUME IInv, BalancerTypeOK', ContextOK', maxRequestCount' = maxRequestCount, NEW h \in Host, NEW r \in Holders(h),
           Holders(h)' = Holders(h) \ {r}, Admitted(h)' \subseteq Admitted(h),
           decs'[h] = decs[h] + 1, table'[h] = table[h],
           wiped \subseteq wiped', lost \subseteq lost'
    PROVE  HostOK(h)'
<1>1. IsFiniteSet(Holders(h)) /\ Cardinality(Holders(h)) \in Nat
  BY FiniteParts DEF IInv
<1>2. Cardinality(Holders(h))' = Cardinality(Holders(h)) - 1
  BY <1>1, FS_RemoveElement
<1>3. decs[h] \in Nat /\ table[h] \in Int
  BY DEF IInv, BalancerTypeOK
<1>4. Cardinality(Holders(h))' + decs'[h] = Cardinality(Holders(h)) + decs[h] - 0
  BY <1>1, <1>2, <1>3
<1>5. table'[h] >= table[h] - 0 /\ table'[h] = table[h] - 0
  BY <1>3
<1>6. 0 \in Int
  OBVIOUS
<1>7. QED
  BY <1>4, <1>5, <1>6, Balanced, Zenon

\* A request leaves its count behind.
LEMMA Abandoned ==
    ASSUME IInv, BalancerTypeOK', ContextOK', maxRequestCount' = maxRequestCount, NEW h \in Host, NEW r \in Holders(h),
           Holders(h)' = Holders(h) \ {r}, Admitted(h)' \subseteq Admitted(h),
           decs'[h] = decs[h], table'[h] = table[h],
           wiped \subseteq wiped', lost \subseteq lost', h \in lost'
    PROVE  HostOK(h)'
<1>1. IsFiniteSet(Holders(h)) /\ Cardinality(Holders(h)) \in Nat
  BY FiniteParts DEF IInv
<1>2. Cardinality(Holders(h))' = Cardinality(Holders(h)) - 1
  BY <1>1, FS_RemoveElement
<1>3. decs[h] \in Nat /\ table[h] \in Int
  BY DEF IInv, BalancerTypeOK
<1>4. Cardinality(Holders(h))' + decs'[h] = Cardinality(Holders(h)) + decs[h] - 1
  BY <1>1, <1>2, <1>3
<1>5. table'[h] >= table[h] - 1
  BY <1>3
<1>6. 1 \in Int /\ (table'[h] = table[h] - 1 \/ h \in lost')
  OBVIOUS
<1>7. QED
  BY <1>4, <1>5, <1>6, Balanced, Zenon

\* The script counts a request, and may drop hosts other than the one it chose.
LEMMA RunScriptKeeps ==
    ASSUME IInv, BalancerTypeOK', ContextOK', maxRequestCount' = maxRequestCount, NEW r \in Request, NEW h \in Host, RunScript(r, h),
           h \in view[r].all, NEW g \in Host
    PROVE  HostOK(g)'
<1> DEFINE dropped == IF CleanDue(r) THEN Host \ view[r].all ELSE {}
<1>1. /\ table \in [Host -> Int] /\ eval[r] = "sent"
      /\ UNCHANGED <<decs, phase, error, host>>
      /\ wiped \subseteq wiped' /\ lost \subseteq lost'
      /\ \A q \in Request : q # r => eval'[q] = eval[q] /\ reply'[q] = reply[q]
  BY DEF RunScript, IInv, BalancerTypeOK
<1>2. h \notin dropped /\ dropped \subseteq Host
  OBVIOUS
<1>3. /\ table'[h] = table[h] + 1
      /\ g # h /\ g \notin dropped => table'[g] = table[g]
      /\ g # h /\ g \in dropped => table'[g] = 0 /\ (g \in wiped' \/ table[g] = 0)
  <2> DEFINE counted == [table EXCEPT ![h] = @ + 1]
  <2>1. /\ table' = [x \in Host |-> IF x \in dropped THEN 0 ELSE counted[x]]
        /\ wiped' = wiped \cup {x \in dropped : counted[x] # 0}
    BY DEF RunScript
  <2>2. counted[h] = table[h] + 1 /\ (g # h => counted[g] = table[g])
    BY <1>1
  <2> HIDE DEF counted, dropped
  <2>3. QED
    BY <1>2, <2>1, <2>2
<1>4. CASE phase[r] = "paused"
  <2>1. /\ eval'[r] = "ran" /\ reply'[r].host = h /\ reply'[r].count = table[h] + 1
        /\ UNCHANGED lost
    BY <1>1, <1>4 DEF RunScript, IInv, BalancerTypeOK
  <2>2. Holders(g)' = IF g = h THEN Holders(g) \cup {r} ELSE Holders(g)
    BY <1>1, <2>1 DEF Holders
  <2>3. Admitted(g)' \subseteq IF g = h THEN Admitted(g) \cup {r} ELSE Admitted(g)
    BY <1>1, <2>1 DEF Admitted, TooMany
  <2>4. CASE g # h /\ g \in wiped'
    BY <2>4 DEF HostOK
  <2>5. CASE g # h /\ g \notin wiped'
    <3>1. table'[g] = table[g]
      BY <1>3, <2>5
    <3>2. QED
      BY <1>1, <2>2, <2>3, <2>5, <3>1, Untouched
  <2>6. CASE g = h
    <3> DEFINE H == Cardinality(Holders(h))
               A == Cardinality(Admitted(h))
    <3>1. r \notin Holders(h) /\ r \notin Admitted(h)
      BY <1>1, <1>4 DEF Holders, Admitted
    <3>2. /\ IsFiniteSet(Holders(h)) /\ IsFiniteSet(Admitted(h))
          /\ H \in Nat /\ A \in Nat /\ A <= H
      BY FiniteParts DEF IInv
    <3>3. Cardinality(Holders(h))' = H + 1
      BY <2>2, <2>6, <3>1, <3>2, FS_AddElement
    <3>4. Cardinality(Admitted(h) \cup {r}) = A + 1 /\ IsFiniteSet(Admitted(h) \cup {r})
      BY <3>1, <3>2, FS_AddElement
    <3>5. /\ table[h] \in Int /\ decs[h] \in Nat /\ maxRequestCount \in Nat
          /\ h \notin wiped => H + decs[h] <= table[h]
          /\ h \notin wiped \cup lost => H + decs[h] = table[h]
          /\ maxRequestCount > 0 /\ h \notin wiped => A <= maxRequestCount
      BY LimitIsNat DEF IInv, BalancerTypeOK, HostOK
    <3>6. ASSUME maxRequestCount > 0, h \notin wiped
          PROVE  Cardinality(Admitted(h))' <= maxRequestCount
      <4>1. CASE table[h] + 1 > maxRequestCount
        <5>1. Admitted(h)' \subseteq Admitted(h)
          BY <1>1, <2>1, <3>6, <4>1 DEF Admitted, TooMany
        <5>2. Cardinality(Admitted(h)') <= A /\ Cardinality(Admitted(h)') \in Nat
          BY <3>2, <5>1, FS_Subset, FS_CardinalityType
        <5>3. QED
          BY <3>2, <3>5, <3>6, <5>2
      <4>2. CASE table[h] + 1 <= maxRequestCount
        <5>1. Cardinality(Admitted(h)') <= A + 1 /\ Cardinality(Admitted(h)') \in Nat
          BY <2>3, <2>6, <3>4, FS_Subset, FS_CardinalityType
        <5>2. QED
          BY <3>2, <3>5, <3>6, <4>2, <5>1
      <4>3. QED
        BY <3>5, <4>1, <4>2
    <3>7. h \notin wiped' => H + 1 + decs[h] <= table[h] + 1
      BY <1>1, <3>2, <3>5
    <3>8. h \notin (wiped' \cup lost') => H + 1 + decs[h] = table[h] + 1
      BY <1>1, <3>2, <3>5
    <3>9. QED
      BY <1>1, <1>3, <2>6, <3>3, <3>6, <3>7, <3>8 DEF HostOK
  <2>7. QED
    BY <2>4, <2>5, <2>6
<1>5. CASE phase[r] # "paused"
  <2>1. eval'[r] = "over" /\ UNCHANGED reply /\ lost' = lost \cup {h}
    BY <1>1, <1>5 DEF RunScript, IInv, BalancerTypeOK
  <2>2. Holders(g)' = Holders(g) /\ Admitted(g)' \subseteq Admitted(g)
    BY <1>1, <2>1 DEF Holders, Admitted, TooMany
  <2>3. CASE g # h /\ g \in wiped'
    BY <2>3 DEF HostOK
  <2>4. CASE g # h /\ g \notin wiped'
    <3>1. table'[g] = table[g]
      BY <1>3, <2>4
    <3>2. QED
      BY <1>1, <2>2, <3>1, Untouched
  <2>5. CASE g = h
    <3>1. Cardinality(Holders(h)) \in Nat /\ decs[h] \in Nat /\ table[h] \in Int
      BY FiniteParts DEF IInv, BalancerTypeOK
    <3>2. Cardinality(Holders(h))' + decs'[h] = Cardinality(Holders(h)) + decs[h] - 0
      BY <1>1, <2>2, <2>5, <3>1
    <3>3. table'[h] >= table[h] - 0 /\ h \in lost' /\ 0 \in Int
      BY <1>3, <2>1, <3>1
    <3>4. QED
      BY <1>1, <2>2, <2>5, <3>2, <3>3, Balanced
  <2>6. QED
    BY <2>3, <2>4, <2>5
<1>6. QED
  BY <1>4, <1>5

\* Every step keeps every host in order.
LEMMA NextHosts ==
    ASSUME IInv, BalancerTypeOK', ContextOK', [Next]_vars, NEW g \in Host
    PROVE  HostOK(g)'
<1> USE DEF redis, context
<1>0. maxRequestCount' = maxRequestCount
  BY DEF Next, vars
<1> USE <1>0
<1>1. \A r \in Request : phase[r] \in {"new", "paused"} => ~error[r] /\ host[r] = None
  BY DEF IInv, ContextOK
<1>2. CASE UNCHANGED vars
  BY <1>2, Untouched DEF vars, Holders, Admitted, TooMany
<1>3. ASSUME NEW r \in Request, NotBalanced(r)
      PROVE  HostOK(g)'
  <2>1. /\ error'[r] /\ host[r] = None /\ phase[r] = "new"
        /\ \A q \in Request : q # r => phase'[q] = phase[q] /\ error'[q] = error[q]
        /\ UNCHANGED <<table, decs, eval, reply, host, wiped, lost>>
    BY <1>1, <1>3 DEF NotBalanced, IInv, BalancerTypeOK
  <2>2. Holders(g)' = Holders(g) /\ Admitted(g)' \subseteq Admitted(g)
    BY <2>1 DEF Holders, Admitted, TooMany
  <2>3. QED
    BY <2>1, <2>2, Untouched
<1>4. ASSUME NEW r \in Request, NEW all \in SUBSET Host, NEW healthy \in SUBSET all,
             HandleHttpRequestBody(r, all, healthy)
      PROVE  HostOK(g)'
  <2>1. /\ phase'[r] = "paused" /\ eval'[r] = "sent" /\ phase[r] = "new" /\ eval[r] # "ran"
        /\ \A q \in Request : q # r => phase'[q] = phase[q] /\ eval'[q] = eval[q]
        /\ UNCHANGED <<table, decs, reply, error, host, wiped, lost>>
    BY <1>4 DEF HandleHttpRequestBody, IInv, BalancerTypeOK
  <2>2. Holders(g)' = Holders(g) /\ Admitted(g)' \subseteq Admitted(g)
    BY <2>1 DEF Holders, Admitted, TooMany
  <2>3. QED
    BY <2>1, <2>2, Untouched
<1>5. ASSUME NEW r \in Request, NEW h \in Host, RunScript(r, h)
      PROVE  HostOK(g)'
  <2>1. h \in view[r].all
    BY <1>5 DEF RunScript, LeastLoaded, IInv, ContextOK
  <2>2. QED
    BY <1>5, <2>1, RunScriptKeeps
<1>6. ASSUME NEW r \in Request, Answered(r)
      PROVE  /\ eval[r] = "ran" /\ eval'[r] = "over" /\ phase[r] = "paused"
             /\ ~error[r] /\ host[r] = None /\ reply[r].host \in Host
             /\ \A q \in Request : q # r => eval'[q] = eval[q] /\ reply'[q] = reply[q]
             /\ UNCHANGED <<table, wiped>>
             /\ reply[r].host = g => r \in Holders(g)
  BY <1>1, <1>6 DEF Answered, IInv, BalancerTypeOK, Reply, Holders
<1>7. ASSUME NEW r \in Request, Rejected(r)
      PROVE  HostOK(g)'
  <2>1. /\ Answered(r) /\ TooMany(r) /\ phase'[r] = "answered" /\ UNCHANGED <<host, lost>>
        /\ \A q \in Request : q # r => phase'[q] = phase[q] /\ error'[q] = error[q]
        /\ decs'[reply[r].host] = decs[reply[r].host] + 1
        /\ \A h \in Host : h # reply[r].host => decs'[h] = decs[h]
    BY <1>6, <1>7 DEF Rejected, IInv, BalancerTypeOK
  <2>2. /\ Holders(g)' = IF reply[r].host = g THEN Holders(g) \ {r} ELSE Holders(g)
        /\ Admitted(g)' \subseteq Admitted(g)
    BY <1>6, <2>1 DEF Holders, Admitted, TooMany
  <2>3. CASE reply[r].host = g
    BY <1>6, <2>1, <2>2, <2>3, Released
  <2>4. CASE reply[r].host # g
    BY <1>6, <2>1, <2>2, <2>4, Untouched
  <2>5. QED
    BY <2>3, <2>4
<1>8. ASSUME NEW r \in Request, Selected(r)
      PROVE  HostOK(g)'
  <2>1. /\ Answered(r) /\ ~TooMany(r) /\ phase'[r] = "upstream" /\ UNCHANGED <<decs, error, lost>>
        /\ host'[r] = reply[r].host
        /\ \A q \in Request : q # r => phase'[q] = phase[q] /\ host'[q] = host[q]
    BY <1>8 DEF Selected, IInv, BalancerTypeOK
  <2>2. Holders(g)' = Holders(g) /\ Admitted(g)' \subseteq Admitted(g)
    BY <1>6, <2>1 DEF Holders, Admitted, TooMany
  <2>3. QED
    BY <1>6, <2>1, <2>2, Untouched
<1>9. ASSUME NEW r \in Request, OverrideFails(r)
      PROVE  HostOK(g)'
  <2>1. /\ Answered(r) /\ phase'[r] = "upstream" /\ error'[r] /\ UNCHANGED <<decs, host>>
        /\ lost' = lost \cup {reply[r].host}
        /\ \A q \in Request : q # r => phase'[q] = phase[q] /\ error'[q] = error[q]
    BY <1>9 DEF OverrideFails, IInv, BalancerTypeOK
  <2>2. /\ Holders(g)' = IF reply[r].host = g THEN Holders(g) \ {r} ELSE Holders(g)
        /\ Admitted(g)' \subseteq Admitted(g)
    BY <1>6, <2>1 DEF Holders, Admitted, TooMany
  <2>3. CASE reply[r].host = g
    BY <1>6, <2>1, <2>2, <2>3, Abandoned
  <2>4. CASE reply[r].host # g
    BY <1>6, <2>1, <2>2, <2>4, Untouched
  <2>5. QED
    BY <2>3, <2>4
<1>10. ASSUME NEW r \in Request, EvalFails(r)
       PROVE  HostOK(g)'
  <2>1. /\ phase[r] = "paused" /\ phase'[r] = "upstream" /\ error'[r] /\ eval'[r] # "ran"
        /\ ~error[r] /\ host[r] = None
        /\ lost' = lost \cup Unread(r)
        /\ UNCHANGED <<table, decs, host, wiped>>
        /\ \A q \in Request : q # r => /\ phase'[q] = phase[q] /\ error'[q] = error[q]
                                      /\ eval'[q] = eval[q] /\ reply'[q] = reply[q]
    BY <1>1, <1>10 DEF EvalFails, IInv, BalancerTypeOK
  <2>2. Admitted(g)' \subseteq Admitted(g)
    BY <2>1 DEF Admitted, TooMany
  <2>3. CASE eval[r] = "ran" /\ reply[r].host = g
    <3>1. r \in Holders(g) /\ Holders(g)' = Holders(g) \ {r} /\ g \in lost'
      BY <2>1, <2>3 DEF Holders, Unread
    <3>2. QED
      BY <2>1, <2>2, <3>1, Abandoned
  <2>4. CASE ~(eval[r] = "ran" /\ reply[r].host = g)
    <3>1. Holders(g)' = Holders(g)
      BY <2>1, <2>4 DEF Holders
    <3>2. QED
      BY <2>1, <2>2, <3>1, Untouched
  <2>5. QED
    BY <2>3, <2>4
<1>11. ASSUME NEW r \in Request, HandleHttpStreamDone(r)
       PROVE  HostOK(g)'
  <2>1. /\ phase'[r] = "done" /\ eval'[r] # "ran"
        /\ lost' = lost \cup Unread(r)
        /\ UNCHANGED <<table, error, host, wiped>>
        /\ \A q \in Request : q # r => /\ phase'[q] = phase[q]
                                      /\ eval'[q] = eval[q] /\ reply'[q] = reply[q]
    BY <1>11 DEF HandleHttpStreamDone, IInv, BalancerTypeOK
  <2>2. Admitted(g)' \subseteq Admitted(g)
    BY <2>1 DEF Admitted, TooMany
  <2>3. /\ ~error[r] /\ host[r] = g => decs'[g] = decs[g] + 1
        /\ ~(~error[r] /\ host[r] = g) => decs'[g] = decs[g]
    BY <1>11 DEF HandleHttpStreamDone, IInv, BalancerTypeOK
  <2>4. CASE eval[r] = "ran" /\ reply[r].host = g
    <3>1. phase[r] = "paused" /\ host[r] # g
      BY <1>1, <2>4 DEF IInv, BalancerTypeOK
    <3>2. r \in Holders(g) /\ Holders(g)' = Holders(g) \ {r} /\ g \in lost'
      BY <2>1, <2>4 DEF Holders, Unread
    <3>3. QED
      BY <2>1, <2>2, <2>3, <3>1, <3>2, Abandoned
  <2>5. CASE ~(eval[r] = "ran" /\ reply[r].host = g) /\ ~error[r] /\ host[r] = g
    <3>1. phase[r] = "upstream"
      <4>1. phase[r] # "paused"
        BY <1>1, <2>5
      <4>2. phase[r] # "answered"
        BY <2>5 DEF IInv, ContextOK
      <4>3. QED
        BY <1>11, <4>1, <4>2 DEF HandleHttpStreamDone
    <3>2. r \in Holders(g) /\ Holders(g)' = Holders(g) \ {r}
      BY <2>1, <2>5, <3>1 DEF Holders
    <3>3. QED
      BY <2>1, <2>2, <2>3, <2>5, <3>2, Released
  <2>6. CASE ~(eval[r] = "ran" /\ reply[r].host = g) /\ ~(~error[r] /\ host[r] = g)
    <3>1. Holders(g)' = Holders(g)
      BY <2>1, <2>6 DEF Holders
    <3>2. QED
      BY <2>1, <2>2, <2>3, <2>6, <3>1, Untouched
  <2>7. QED
    BY <2>4, <2>5, <2>6
<1>12. ASSUME NEW h \in Host, ApplyDecrement(h) \/ LoseDecrement(h)
       PROVE  HostOK(g)'
  <2>1. /\ decs[h] \in Nat /\ decs'[h] = decs[h] - 1 /\ wiped' = wiped /\ lost \subseteq lost'
        /\ \/ table'[h] = table[h] - 1
           \/ table'[h] = table[h] /\ h \in lost'
        /\ g # h => decs'[g] = decs[g] /\ table'[g] = table[g]
        /\ table[h] \in Int
    BY <1>12 DEF ApplyDecrement, LoseDecrement, IInv, BalancerTypeOK
  <2>2. Holders(g)' = Holders(g) /\ Admitted(g)' = Admitted(g)
    BY <1>12 DEF ApplyDecrement, LoseDecrement, Holders, Admitted, TooMany
  <2>3. CASE g # h
    BY <2>1, <2>2, <2>3, Untouched
  <2>4. CASE g = h
    <3>1. Cardinality(Holders(g)) \in Nat
      BY FiniteParts DEF IInv
    <3>2. Cardinality(Holders(g))' + decs'[g] = Cardinality(Holders(g)) + decs[g] - 1
      BY <2>1, <2>2, <2>4, <3>1
    <3>3. 1 \in Int /\ table'[g] >= table[g] - 1 /\ (table'[g] = table[g] - 1 \/ g \in lost')
      BY <2>1, <2>4
    <3>4. Admitted(g)' \subseteq Admitted(g) /\ wiped \subseteq wiped' /\ lost \subseteq lost'
      BY <2>1, <2>2
    <3>5. QED
      BY <3>2, <3>3, <3>4, Balanced, Zenon
  <2>5. QED
    BY <2>3, <2>4
<1>13. CASE Tick
  BY <1>13, Untouched DEF Tick, Holders, Admitted, TooMany
<1>14. QED
  BY <1>2, <1>3, <1>4, <1>5, <1>7, <1>8, <1>9, <1>10, <1>11, <1>12, <1>13 DEF Next

-----------------------------------------------------------------------------
\* The strengthened invariant holds in every reachable state.
LEMMA Invariance == Spec => []IInv
<1>1. Init => IInv
  <2> SUFFICES ASSUME Init, NEW h \in Host PROVE HostOK(h)
    BY InitType DEF IInv
  <2>1. Holders(h) = {} /\ Admitted(h) = {} /\ table[h] = 0 /\ decs[h] = 0
    BY DEF Init, Holders, Admitted
  <2>2. maxRequestCount \in Nat
    BY InitType, LimitIsNat
  <2>3. QED
    BY <2>1, <2>2, FS_EmptySet DEF HostOK
<1>2. IInv /\ [Next]_vars => IInv'
  <2> SUFFICES ASSUME IInv, [Next]_vars PROVE IInv'
    OBVIOUS
  <2>1. BalancerTypeOK' /\ ContextOK'
    BY NextType DEF IInv
  <2>2. \A h \in Host : HostOK(h)'
    BY <2>1, NextHosts
  <2>3. QED
    BY <2>1, <2>2 DEF IInv
<1>3. QED
  BY <1>1, <1>2, PTL DEF Spec

\* The types hold in every reachable state.
THEOREM BalancerTypeCorrect == Spec => []BalancerTypeOK
<1>1. IInv => BalancerTypeOK
  BY DEF IInv
<1>2. QED
  BY <1>1, Invariance, PTL

\* A host no cleanup dropped is never credited with fewer requests than it has, and with just
\* these where nothing was lost.
THEOREM CountsAreKept == Spec => []CountsFollowRequests
<1>1. IInv => CountsFollowRequests
  <2> SUFFICES ASSUME IInv, NEW h \in Host \ wiped
               PROVE  /\ Cardinality(Holders(h)) + decs[h] <= table[h]
                      /\ h \notin lost => Cardinality(Holders(h)) + decs[h] = table[h]
    BY DEF CountsFollowRequests
  <2>1. QED
    BY DEF IInv, HostOK
<1>2. QED
  BY <1>1, Invariance, PTL

\* A host no cleanup dropped never serves more requests than the limit.
THEOREM LimitIsKept == Spec => []LimitUnlessWiped
<1>1. IInv => LimitUnlessWiped
  <2> SUFFICES ASSUME IInv, maxRequestCount > 0, NEW h \in Host \ wiped
               PROVE  Cardinality(AtHost(h)) <= maxRequestCount
    BY DEF LimitUnlessWiped
  <2>1. IsFiniteSet(Admitted(h)) /\ Cardinality(Admitted(h)) \in Nat
    BY FiniteParts DEF IInv
  <2>2. AtHost(h) \subseteq Admitted(h)
    BY DEF AtHost, Admitted
  <2>3. /\ Cardinality(AtHost(h)) <= Cardinality(Admitted(h))
        /\ Cardinality(AtHost(h)) \in Nat
    BY <2>1, <2>2, FS_Subset, FS_CardinalityType
  <2>4. Cardinality(Admitted(h)) <= maxRequestCount /\ maxRequestCount \in Nat
    BY LimitIsNat DEF IInv, HostOK
  <2>5. QED
    BY <2>1, <2>3, <2>4
<1>2. QED
  BY <1>1, Invariance, PTL

-----------------------------------------------------------------------------
(* The ring buffer *)

\* What % does to an index that is at most one turn past the end.
LEMMA Wrap ==
    ASSUME NEW c \in Nat \ {0}, NEW n \in 0 .. 2 * c - 1
    PROVE  n % c = IF n < c THEN n ELSE n - c
  BY SMTT(30)

LEMMA CapPositive == Cap \in Nat \ {0}
  BY CapacityIsInt DEF Cap

\* The slot i steps behind a head h.
Pos(h, i) == (h + i) % Cap

LEMMA PosValue ==
    ASSUME NEW h \in Slots, NEW i \in 0 .. Cap
    PROVE  /\ Pos(h, i) \in Slots
           /\ Pos(h, i) = IF h + i < Cap THEN h + i ELSE h + i - Cap
  <1> DEFINE n == h + i
  <1>1. n \in 0 .. 2 * Cap - 1
    BY CapPositive DEF Slots
  <1> HIDE DEF n
  <1>2. n % Cap = IF n < Cap THEN n ELSE n - Cap
    BY <1>1, CapPositive, Wrap
  <1> QED
    BY <1>1, <1>2, CapPositive DEF Slots, Pos, n

\* Every slot is some number of steps behind the head, and only one number
\* less than the capacity.
LEMMA PosReaches ==
    ASSUME NEW h \in Slots, NEW s \in Slots
    PROVE  \E i \in 0 .. Cap - 1 : s = Pos(h, i)
  <1>1. CASE s >= h
    <2>1. s - h \in 0 .. Cap - 1
      BY <1>1, CapPositive DEF Slots
    <2>2. Pos(h, s - h) = s
      BY <1>1, <2>1, PosValue, CapPositive DEF Slots
    <2> QED
      BY <2>1, <2>2
  <1>2. CASE s < h
    <2>1. s - h + Cap \in 0 .. Cap - 1
      BY <1>2, CapPositive DEF Slots
    <2>2. Pos(h, s - h + Cap) = s
      BY <1>2, <2>1, PosValue, CapPositive DEF Slots
    <2> QED
      BY <2>1, <2>2
  <1> QED
    BY <1>1, <1>2, CapPositive DEF Slots

LEMMA PosDiffer ==
    ASSUME NEW h \in Slots, NEW i \in 0 .. Cap - 1, NEW j \in 0 .. Cap - 1,
           i # j
    PROVE  Pos(h, i) # Pos(h, j)
  <1>1. i \in 0 .. Cap /\ j \in 0 .. Cap
    BY CapPositive
  <1>2. /\ Pos(h, i) = IF h + i < Cap THEN h + i ELSE h + i - Cap
        /\ Pos(h, j) = IF h + j < Cap THEN h + j ELSE h + j - Cap
    BY <1>1, PosValue
  <1> QED
    BY <1>2, CapPositive DEF Slots

LEMMA PosZero ==
    ASSUME NEW h \in Slots
    PROVE  Pos(h, 0) = h
  <1>1. 0 \in 0 .. Cap /\ h + 0 < Cap
    BY CapPositive DEF Slots
  <1> QED
    BY <1>1, PosValue, CapPositive DEF Slots

\* One step further behind a head is one step behind its successor.
LEMMA PosAdvance ==
    ASSUME NEW h \in Slots, NEW i \in 0 .. Cap - 1
    PROVE  /\ Advance(h) \in Slots
           /\ Pos(Advance(h), i) = Pos(h, i + 1)
  <1>1. Advance(h) = Pos(h, 1)
    BY DEF Advance, Pos
  <1>2. /\ Pos(h, 1) \in Slots
        /\ Pos(h, 1) = IF h + 1 < Cap THEN h + 1 ELSE h + 1 - Cap
    BY PosValue, CapPositive, 1 \in 0 .. Cap
  <1>3. /\ Advance(h) \in Slots
        /\ Advance(h) = IF h + 1 < Cap THEN h + 1 ELSE 0
    BY <1>1, <1>2, CapPositive DEF Slots
  <1>4. /\ Pos(h, i + 1) = IF h + (i + 1) < Cap THEN h + (i + 1)
                                               ELSE h + (i + 1) - Cap
        /\ Pos(Advance(h), i) = IF Advance(h) + i < Cap THEN Advance(h) + i
                                                      ELSE Advance(h) + i - Cap
    BY <1>3, PosValue, CapPositive, i \in 0 .. Cap, i + 1 \in 0 .. Cap
  <1> QED
    BY <1>3, <1>4, CapPositive DEF Slots

-----------------------------------------------------------------------------
\* The inductive invariant: the types, and the tail one step behind the newest
\* element.
WindowInv == QueueTypeOK /\ tail = Pos(head, size)

LEMMA WindowInit == QueueInit => WindowInv
  <1>1. 0 \in Slots /\ Pos(0, 0) = 0
    BY CapPositive, PosValue DEF Slots
  <1> QED
    BY <1>1, CapPositive DEF QueueInit, NewFixedQueue, WindowInv, QueueTypeOK

LEMMA WindowEnqueue ==
    ASSUME WindowInv, NEW x \in Item, Enqueue(x)
    PROVE  WindowInv'
  <1> USE CapPositive DEF WindowInv, QueueTypeOK
  <1>1. data' \in [Slots -> Item \cup {Zero}] /\ tail' = Advance(tail)
    BY DEF Enqueue
  <1>2. tail' \in Slots /\ tail' = Pos(tail, 1)
    BY <1>1, PosAdvance, 0 \in 0 .. Cap - 1 DEF Advance, Pos
  <1>3. CASE size < Cap
    <2>1. size' = size + 1 /\ head' = head /\ size \in 0 .. Cap - 1
      BY <1>3 DEF Enqueue
    <2>2. /\ Pos(head, size + 1) = IF head + (size + 1) < Cap
                                   THEN head + (size + 1)
                                   ELSE head + (size + 1) - Cap
          /\ Pos(head, size) = IF head + size < Cap THEN head + size
                                                   ELSE head + size - Cap
          /\ Pos(tail, 1) = IF tail + 1 < Cap THEN tail + 1 ELSE tail + 1 - Cap
      BY <2>1, PosValue, size + 1 \in 0 .. Cap, 1 \in 0 .. Cap
    <2>3. Pos(tail, 1) = Pos(head, size + 1)
      BY <2>1, <2>2 DEF Slots
    <2> QED
      BY <1>1, <1>2, <2>1, <2>3
  <1>4. CASE size = Cap
    <2>1. size' = Cap /\ head' = Advance(head)
      BY <1>4 DEF Enqueue
    <2>2. tail = head
      BY <1>4, PosValue DEF Slots
    <2>3. head' \in Slots /\ tail' = head'
      BY <1>1, <1>2, <2>1, <2>2
    <2>4. Pos(head', Cap) = head'
      BY <2>3, PosValue DEF Slots
    <2> QED
      BY <1>1, <1>2, <2>1, <2>3, <2>4
  <1> QED
    BY <1>3, <1>4

LEMMA WindowDequeue ==
    ASSUME WindowInv, Dequeue
    PROVE  WindowInv'
  <1> USE CapPositive DEF WindowInv, QueueTypeOK
  <1>1. /\ data' \in [Slots -> Item \cup {Zero}] /\ tail' = tail
        /\ head' = Advance(head) /\ size' = size - 1
        /\ size' \in 0 .. Cap - 1
    BY DEF Dequeue
  <1>2. head' \in Slots /\ Pos(head', size') = Pos(head, size' + 1)
    BY <1>1, PosAdvance
  <1> QED
    BY <1>1, <1>2

LEMMA WindowClear ==
    ASSUME WindowInv, Clear
    PROVE  WindowInv'
  <1>1. 0 \in Slots /\ Pos(0, 0) = 0
    BY CapPositive, PosValue DEF Slots
  <1> QED
    BY <1>1, CapPositive DEF WindowInv, QueueTypeOK, Clear

LEMMA WindowStep == WindowInv /\ [QueueNext]_queueVars => WindowInv'
  <1> SUFFICES ASSUME WindowInv, [QueueNext]_queueVars PROVE WindowInv'
    OBVIOUS
  <1>1. ASSUME NEW x \in Item, Enqueue(x) PROVE WindowInv'
    BY <1>1, WindowEnqueue
  <1>2. CASE Dequeue
    BY <1>2, WindowDequeue
  <1>3. CASE Clear
    BY <1>3, WindowClear
  <1>4. CASE UNCHANGED queueVars
    BY <1>4 DEF queueVars, WindowInv, QueueTypeOK, Slots
  <1> QED
    BY <1>1, <1>2, <1>3, <1>4 DEF QueueNext

LEMMA WindowAlways == QueueSpec => []WindowInv
  BY WindowInit, WindowStep, PTL DEF QueueSpec

\* The indices never leave the slice and the size never passes the capacity.
THEOREM TypeCorrect == QueueSpec => []QueueTypeOK
  <1>1. WindowInv => QueueTypeOK
    BY DEF WindowInv
  <1> QED
    BY <1>1, WindowAlways, PTL

\* The next insertion goes right behind the newest element (queue.go:33-64).
THEOREM TailAlwaysFollows == QueueSpec => []TailFollowsContents
  <1>1. WindowInv => TailFollowsContents
    <2> SUFFICES ASSUME WindowInv PROVE TailFollowsContents
      OBVIOUS
    <2>1. (head + size - 1) + 1 = head + size
      BY CapPositive DEF WindowInv, QueueTypeOK, Slots
    <2> QED
      BY <2>1 DEF WindowInv, TailFollowsContents, Advance, Pos
  <1> QED
    BY <1>1, WindowAlways, PTL
-----------------------------------------------------------------------------
LEMMA UsedSlots ==
    ASSUME QueueTypeOK
    PROVE  /\ Used = {Pos(head, i) : i \in 0 .. size - 1}
           /\ Used \subseteq Slots
           /\ size = Cap => Used = Slots
  <1>1. Used = {Pos(head, i) : i \in 0 .. size - 1}
    BY DEF Used, Index, Pos
  <1>2. \A i \in 0 .. size - 1 : Pos(head, i) \in Slots
    BY PosValue, CapPositive DEF QueueTypeOK
  <1>3. ASSUME size = Cap, NEW s \in Slots PROVE s \in Used
    BY <1>1, <1>3, PosReaches DEF QueueTypeOK
  <1> QED
    BY <1>1, <1>2, <1>3

LEMMA CleanEnqueue ==
    ASSUME WindowInv, NoDanglingReference, NEW x \in Item, Enqueue(x)
    PROVE  NoDanglingReference'
  <1> USE CapPositive DEF WindowInv, QueueTypeOK
  <1>1. SUFFICES ASSUME NEW s \in Slots, s \notin Used' PROVE data'[s] = Zero
    BY DEF NoDanglingReference
  <1>2. CASE size < Cap
    <2>1. head' = head /\ size' = size + 1
      BY <1>2 DEF Enqueue
    <2>2. Used' = {Pos(head, i) : i \in 0 .. size}
      BY <2>1 DEF Used, Index, Pos
    <2>3. tail \in Used' /\ Used \subseteq Used'
      BY <2>2, UsedSlots
    <2> QED
      BY <1>1, <2>3 DEF NoDanglingReference, Enqueue
  <1>3. CASE size = Cap
    <2>1. head' \in Slots /\ size' = Cap
      BY <1>3, PosAdvance, 0 \in 0 .. Cap - 1 DEF Enqueue
    <2>2. Used' = {Pos(head', i) : i \in 0 .. size' - 1}
      BY DEF Used, Index, Pos
    <2>3. s \in Used'
      BY <2>1, <2>2, PosReaches
    <2> QED
      BY <1>1, <2>3
  <1> QED
    BY <1>2, <1>3

LEMMA CleanDequeue ==
    ASSUME WindowInv, NoDanglingReference, Dequeue
    PROVE  NoDanglingReference'
  <1> USE CapPositive DEF WindowInv, QueueTypeOK
  <1>1. SUFFICES ASSUME NEW s \in Slots, s \notin Used', s # head
                 PROVE  s \notin Used
    BY DEF NoDanglingReference, Dequeue
  <1>2. SUFFICES ASSUME s \in Used PROVE FALSE
    OBVIOUS
  <1>3. PICK i \in 0 .. size - 1 : s = Pos(head, i)
    BY <1>2, UsedSlots
  <1>4. i # 0
    BY <1>1, <1>3, PosValue DEF Slots
  <1>5. i - 1 \in 0 .. Cap - 1 /\ i - 1 \in 0 .. size' - 1
    BY <1>4 DEF Dequeue
  <1>6. Pos(Advance(head), i - 1) = Pos(head, i)
    BY <1>5, PosAdvance
  <1>7. Used' = {Pos(Advance(head), j) : j \in 0 .. size' - 1}
    BY DEF Dequeue, Used, Index, Pos
  <1> QED
    BY <1>1, <1>3, <1>5, <1>6, <1>7

\* What the window is where head and tail say that it does not, or does, wrap around.
LEMMA WindowShape ==
    ASSUME WindowInv, size # 0
    PROVE  IF head < tail THEN size = tail - head ELSE size = Cap - head + tail
  <1>1. tail = IF head + size < Cap THEN head + size ELSE head + size - Cap
    BY PosValue DEF WindowInv, QueueTypeOK
  <1> QED
    BY <1>1, CapPositive DEF WindowInv, QueueTypeOK, Slots

\* The elements of a concatenation.
LEMMA Joined ==
    ASSUME NEW S, NEW s \in Seq(S), NEW t \in Seq(S)
    PROVE  /\ Len(s \o t) = Len(s) + Len(t)
           /\ \A i \in 1 .. Len(s) + Len(t) :
                 (s \o t)[i] = IF i <= Len(s) THEN s[i] ELSE t[i - Len(s)]
  OBVIOUS

\* ToSlice, with its cases on head, tail and size, returns what ForEach enumerates, and Newest
\* is the last of it, for every capacity (queue.go:117-175).
THEOREM SliceIsContents == QueueSpec => []ToSliceMatchesForEach
  <1>1. WindowInv => ToSlice = Contents
    <2> SUFFICES ASSUME WindowInv PROVE ToSlice = Contents
      OBVIOUS
    <2> USE CapPositive DEF WindowInv, QueueTypeOK, Slots
    <2>1. CASE size = 0
      BY <2>1 DEF ToSlice, Contents
    <2>2. CASE size # 0 /\ head < tail
      <3>1. size = tail - head
        BY <2>2, WindowShape
      <3>2. \A i \in 1 .. size : Index(i - 1) = head + i - 1
        <4> SUFFICES ASSUME NEW i \in 1 .. size PROVE Index(i - 1) = head + i - 1
          OBVIOUS
        <4>1. i - 1 \in 0 .. Cap /\ head + (i - 1) < Cap
          BY <2>2, <3>1
        <4> QED
          BY <4>1, PosValue DEF Index, Pos
      <3>3. /\ Slice(head, tail) \in [1 .. size -> Item \cup {Zero}]
            /\ \A i \in 1 .. size : Slice(head, tail)[i] = data[head + i - 1]
        BY <2>2, <3>1 DEF Slice
      <3>4. Slice(head, tail) \in Seq(Item \cup {Zero}) /\ Len(Slice(head, tail)) = size
        BY <3>3
      <3>5. << >> \o Slice(head, tail) = Slice(head, tail)
        BY <3>4
      <3>6. Copied(<< >>, Slice(head, tail)) = [i \in 1 .. size |-> Slice(head, tail)[i]]
        BY <3>4, <3>5 DEF Copied
      <3> QED
        BY <2>2, <3>2, <3>3, <3>6 DEF ToSlice, Contents
    <2>3. CASE size # 0 /\ ~ head < tail
      <3>1. size = Cap - head + tail
        BY <2>3, WindowShape
      <3> DEFINE first == Slice(head, Cap)
                 second == Slice(0, tail)
      <3>2. /\ first \in Seq(Item \cup {Zero}) /\ Len(first) = Cap - head
            /\ \A i \in 1 .. Cap - head : first[i] = data[head + i - 1]
        BY DEF Slice
      <3>3. /\ second \in Seq(Item \cup {Zero}) /\ Len(second) = tail
            /\ \A i \in 1 .. tail : second[i] = data[i - 1]
        BY DEF Slice
      <3> HIDE DEF first, second
      <3>4. /\ Len(first \o second) = size
            /\ \A i \in 1 .. size : (first \o second)[i] =
                  IF i <= Cap - head THEN data[head + i - 1] ELSE data[i - (Cap - head) - 1]
        <4>1. /\ Len(first \o second) = (Cap - head) + tail
              /\ \A i \in 1 .. (Cap - head) + tail :
                    (first \o second)[i] =
                        IF i <= Cap - head THEN first[i] ELSE second[i - (Cap - head)]
          <5>1. /\ Len(first \o second) = Len(first) + Len(second)
                /\ \A i \in 1 .. Len(first) + Len(second) :
                      (first \o second)[i] =
                          IF i <= Len(first) THEN first[i] ELSE second[i - Len(first)]
            <6> DEFINE S == Item \cup {Zero}
            <6>1. first \in Seq(S) /\ second \in Seq(S)
              BY <3>2, <3>3
            <6> HIDE DEF S
            <6> QED
              BY ONLY <6>1, Joined
          <5>2. Len(first) = Cap - head /\ Len(second) = tail
            BY <3>2, <3>3
          <5> QED
            BY ONLY <5>1, <5>2
        <4>2. \A i \in 1 .. size : i <= Cap - head => i \in 1 .. Cap - head
          OBVIOUS
        <4>3. \A i \in 1 .. size : ~ i <= Cap - head => i - (Cap - head) \in 1 .. tail
          BY <3>1
        <4> QED
          BY <3>1, <3>2, <3>3, <4>1, <4>2, <4>3
      <3>5. \A i \in 1 .. size : Index(i - 1) =
                  IF i <= Cap - head THEN head + i - 1 ELSE i - (Cap - head) - 1
        <4> SUFFICES ASSUME NEW i \in 1 .. size
                     PROVE  Index(i - 1) =
                       IF i <= Cap - head THEN head + i - 1 ELSE i - (Cap - head) - 1
          OBVIOUS
        <4>1. i - 1 \in 0 .. Cap
          OBVIOUS
        <4>2. Pos(head, i - 1) =
                IF head + (i - 1) < Cap THEN head + (i - 1) ELSE head + (i - 1) - Cap
          BY <4>1, PosValue
        <4> QED
          BY <4>2 DEF Index, Pos
      <3>6. Copied(first, second) = [i \in 1 .. size |-> (first \o second)[i]]
        BY <3>4 DEF Copied
      <3>7. \A i \in 1 .. size : (first \o second)[i] = data[Index(i - 1)]
        BY <3>4, <3>5
      <3>8. ToSlice = Copied(first, second)
        BY <2>3 DEF ToSlice, first, second
      <3> QED
        BY <3>6, <3>7, <3>8 DEF Contents
    <2> QED
      BY <2>1, <2>2, <2>3
  <1>2. WindowInv /\ size > 0 => Newest = Contents[size]
    <2> SUFFICES ASSUME WindowInv, size > 0
                 PROVE  (tail - 1 + Cap) % Cap = Index(size - 1)
      BY CapPositive DEF Newest, Contents, WindowInv, QueueTypeOK
    <2> USE CapPositive DEF WindowInv, QueueTypeOK, Slots
    <2>1. /\ tail = IF head + size < Cap THEN head + size ELSE head + size - Cap
          /\ Index(size - 1) = IF head + (size - 1) < Cap THEN head + (size - 1)
                                                       ELSE head + (size - 1) - Cap
      BY PosValue, size - 1 \in 0 .. Cap DEF Index, Pos
    <2> DEFINE n == tail - 1 + Cap
    <2>2. n \in 0 .. 2 * Cap - 1
      OBVIOUS
    <2> HIDE DEF n
    <2>3. n % Cap = IF n < Cap THEN n ELSE n - Cap
      BY <2>2, Wrap
    <2> QED
      BY <2>1, <2>3 DEF n
  <1>3. WindowInv => ToSliceMatchesForEach
    BY <1>1, <1>2 DEF ToSliceMatchesForEach
  <1> QED
    BY <1>3, WindowAlways, PTL

\* A slot outside the window holds the zero value: Dequeue and Clear drop the
\* references they give up (queue.go:55-58, 105-111).
THEOREM ReferencesDropped == QueueSpec => []NoDanglingReference
  <1>1. QueueInit => NoDanglingReference
    BY DEF QueueInit, NewFixedQueue, NoDanglingReference
  <1>2. WindowInv /\ NoDanglingReference /\ [QueueNext]_queueVars => NoDanglingReference'
    <2> SUFFICES ASSUME WindowInv, NoDanglingReference, [QueueNext]_queueVars
                 PROVE  NoDanglingReference'
      OBVIOUS
    <2>1. ASSUME NEW x \in Item, Enqueue(x) PROVE NoDanglingReference'
      BY <2>1, CleanEnqueue
    <2>2. CASE Dequeue
      BY <2>2, CleanDequeue
    <2>3. CASE Clear
      BY <2>3 DEF Clear, NoDanglingReference
    <2>4. CASE UNCHANGED queueVars
      BY <2>4 DEF queueVars, NoDanglingReference, Used, Index
    <2> QED
      BY <2>1, <2>2, <2>3, <2>4 DEF QueueNext
  <1> QED
    BY <1>1, <1>2, WindowAlways, PTL DEF QueueSpec
-----------------------------------------------------------------------------
\* Two sequences built from each other element by element.
LEMMA AppendByElements ==
    ASSUME NEW S, NEW s \in Seq(S), NEW x \in S, NEW t \in Seq(S),
           Len(t) = Len(s) + 1, \A i \in 1 .. Len(s) : t[i] = s[i],
           t[Len(s) + 1] = x
    PROVE  t = Append(s, x)
  <1>1. Append(s, x) \in Seq(S) /\ Len(Append(s, x)) = Len(s) + 1
    OBVIOUS
  <1>2. \A i \in 1 .. Len(s) + 1 : Append(s, x)[i] = t[i]
    OBVIOUS
  <1> QED
    BY <1>1, <1>2, SeqEqual

LEMMA TailByElements ==
    ASSUME NEW S, NEW s \in Seq(S), s # << >>, NEW t \in Seq(S),
           Len(t) = Len(s) - 1, \A i \in 1 .. Len(s) - 1 : t[i] = s[i + 1]
    PROVE  t = Tail(s)
  <1>1. Tail(s) \in Seq(S) /\ Len(Tail(s)) = Len(s) - 1
    OBVIOUS
  <1>2. \A i \in 1 .. Len(s) - 1 : Tail(s)[i] = t[i]
    OBVIOUS
  <1> QED
    BY <1>1, <1>2, SeqEqual

Sample == Item \cup {Zero}

ContentsAre ==
    /\ Contents \in Seq(Sample)
    /\ Len(Contents) = size
    /\ \A i \in 1 .. size : Contents[i] = data[Pos(head, i - 1)]

LEMMA ContentsType == QueueTypeOK => ContentsAre
  <1> SUFFICES ASSUME QueueTypeOK PROVE ContentsAre
    OBVIOUS
  <1>1. \A i \in 1 .. size : Pos(head, i - 1) \in Slots
    BY PosValue, CapPositive DEF QueueTypeOK
  <1>2. Contents = [i \in 1 .. size |-> data[Pos(head, i - 1)]]
    BY DEF Contents, Index, Pos
  <1>3. Contents \in [1 .. size -> Sample]
    BY <1>1, <1>2 DEF QueueTypeOK, Sample
  <1> QED
    BY <1>2, <1>3 DEF QueueTypeOK, ContentsAre

LEMMA EnqueuePushes ==
    ASSUME WindowInv, NEW x \in Item, Enqueue(x)
    PROVE  Remembered!Push(x)
  <1>1. QueueTypeOK /\ WindowInv' /\ QueueTypeOK'
    BY WindowEnqueue DEF WindowInv
  <1>2. ContentsAre
    BY <1>1, ContentsType
  <1>3. ContentsAre'
    BY <1>1, ContentsType, PTL
  <1> USE CapPositive DEF QueueTypeOK
  <1>4. CASE size < Cap
    <2>1. size' = size + 1 /\ head' = head
      BY <1>4 DEF Enqueue
    <2>2. \A i \in 1 .. size : Contents'[i] = Contents[i]
      <3> TAKE i \in 1 .. size
      <3>1. i - 1 \in 0 .. Cap - 1 /\ size \in 0 .. Cap - 1 /\ i - 1 # size
        BY <1>1, <1>4
      <3>2. Pos(head, i - 1) # tail
        BY <1>1, <3>1, PosDiffer DEF WindowInv
      <3>3. Pos(head, i - 1) \in Slots
        BY <1>1, <3>1, PosValue
      <3> QED
        BY <1>1, <1>2, <1>3, <2>1, <3>2, <3>3 DEF ContentsAre, Enqueue
    <2>3. Contents'[size + 1] = x
      <3>1. Pos(head, (size + 1) - 1) = tail
        BY <1>1 DEF WindowInv, Pos
      <3> QED
        BY <1>1, <1>3, <2>1, <3>1 DEF ContentsAre, Enqueue
    <2>4. Contents' = Append(Contents, x)
      BY <1>1, <1>2, <1>3, <2>1, <2>2, <2>3, AppendByElements
         DEF ContentsAre, Sample
    <2> QED
      BY <1>1, <1>2, <1>4, <2>4 DEF Remembered!Push, ContentsAre
  <1>5. CASE size = Cap
    <2>1. size' = size /\ head' = Advance(head)
      BY <1>5 DEF Enqueue
    <2>2. Contents # << >>
      BY <1>2, <1>5 DEF ContentsAre
    <2>3. tail = head
      BY <1>1, <1>5, PosValue DEF WindowInv, Slots
    <2>4. /\ Tail(Contents) \in Seq(Sample)
          /\ Len(Tail(Contents)) = size - 1
          /\ \A i \in 1 .. size - 1 : Tail(Contents)[i] = Contents[i + 1]
      BY <1>2, <1>5, <2>2 DEF ContentsAre
    <2>5. \A i \in 1 .. size - 1 : Contents'[i] = Tail(Contents)[i]
      <3> TAKE i \in 1 .. size - 1
      <3>1. i - 1 \in 0 .. Cap - 1 /\ i \in 0 .. Cap - 1 /\ i # 0
        BY <1>1
      <3>2. Pos(Advance(head), i - 1) = Pos(head, i)
        BY <1>1, <3>1, PosAdvance
      <3>3. Pos(head, 0) = head /\ Pos(head, i) # Pos(head, 0)
        BY <1>1, <3>1, PosZero, PosDiffer, 0 \in 0 .. Cap - 1
      <3>4. Pos(head, i) \in Slots /\ Pos(head, i) # tail
        BY <1>1, <2>3, <3>1, <3>3, PosValue
      <3>5. Contents'[i] = data'[Pos(head, i)]
        BY <1>1, <1>3, <2>1, <3>2 DEF ContentsAre
      <3>6. Tail(Contents)[i] = data[Pos(head, i)]
        BY <1>1, <1>2, <2>4 DEF ContentsAre
      <3> QED
        BY <1>1, <3>4, <3>5, <3>6 DEF Enqueue
    <2>6. Contents'[size] = x
      <3>1. Pos(Advance(head), Cap - 1) = Pos(head, Cap)
        BY <1>1, PosAdvance
      <3>2. Pos(head, Cap) = head
        BY <1>1, PosValue DEF Slots
      <3>3. Contents'[size] = data'[Pos(Advance(head), Cap - 1)]
        BY <1>1, <1>3, <1>5, <2>1 DEF ContentsAre
      <3> QED
        BY <1>1, <2>3, <3>1, <3>2, <3>3 DEF Enqueue
    <2>7. Contents' = Append(Tail(Contents), x)
      BY <1>1, <1>3, <2>1, <2>4, <2>5, <2>6, AppendByElements
         DEF ContentsAre, Sample
    <2> QED
      BY <1>2, <1>5, <2>7 DEF Remembered!Push, ContentsAre
  <1> QED
    BY <1>1, <1>4, <1>5

LEMMA DequeuePops ==
    ASSUME WindowInv, Dequeue
    PROVE  Remembered!Pop
  <1>1. QueueTypeOK /\ QueueTypeOK'
    BY WindowDequeue DEF WindowInv
  <1>2. ContentsAre
    BY <1>1, ContentsType
  <1>3. ContentsAre'
    BY <1>1, ContentsType, PTL
  <1> USE CapPositive DEF QueueTypeOK
  <1>4. size' = size - 1 /\ head' = Advance(head) /\ size # 0
    BY DEF Dequeue
  <1>5. Contents # << >>
    BY <1>1, <1>2, <1>4 DEF ContentsAre
  <1>6. \A i \in 1 .. size - 1 : Contents'[i] = Contents[i + 1]
    <2> TAKE i \in 1 .. size - 1
    <2>1. i - 1 \in 0 .. Cap - 1 /\ i \in 0 .. Cap - 1 /\ i # 0
      BY <1>1
    <2>2. Pos(Advance(head), i - 1) = Pos(head, i)
      BY <1>1, <2>1, PosAdvance
    <2>3. Pos(head, 0) = head /\ Pos(head, i) # Pos(head, 0)
      BY <1>1, <2>1, PosZero, PosDiffer, 0 \in 0 .. Cap - 1
    <2>4. Pos(head, i) \in Slots
      BY <1>1, <2>1, PosValue
    <2>5. Contents'[i] = data'[Pos(head, i)]
      BY <1>1, <1>3, <1>4, <2>2 DEF ContentsAre
    <2>6. Contents[i + 1] = data[Pos(head, i)]
      BY <1>1, <1>2 DEF ContentsAre
    <2> QED
      BY <1>1, <2>3, <2>4, <2>5, <2>6 DEF Dequeue
  <1>7. Contents' = Tail(Contents)
    BY <1>1, <1>2, <1>3, <1>4, <1>5, <1>6, TailByElements DEF ContentsAre
  <1> QED
    BY <1>5, <1>7 DEF Remembered!Pop

LEMMA ClearResets ==
    ASSUME Clear
    PROVE  Remembered!Reset
  BY DEF Clear, Contents, Remembered!Reset

\* For every capacity the ring buffer is a queue of the last Cap samples: what
\* ForEach and ToSlice hand to the latency and rate averages are the most
\* recent samples, oldest first.
THEOREM RingImplementsQueue == QueueSpec => ImplementsBoundedQueue
  <1>1. QueueInit => Remembered!Init
    BY DEF QueueInit, NewFixedQueue, Contents, Remembered!Init
  <1>2. WindowInv /\ [QueueNext]_queueVars => [Remembered!Next]_Contents
    <2> SUFFICES ASSUME WindowInv, [QueueNext]_queueVars
                 PROVE  Remembered!Next \/ UNCHANGED Contents
      OBVIOUS
    <2>1. ASSUME NEW x \in Item, Enqueue(x) PROVE Remembered!Next
      BY <2>1, EnqueuePushes DEF Remembered!Next
    <2>2. CASE Dequeue
      BY <2>2, DequeuePops DEF Remembered!Next
    <2>3. CASE Clear
      BY <2>3, ClearResets DEF Remembered!Next
    <2>4. CASE UNCHANGED queueVars
      BY <2>4 DEF queueVars, Contents, Index
    <2> QED
      BY <2>1, <2>2, <2>3, <2>4 DEF QueueNext
  <1> QED
    BY <1>1, <1>2, WindowAlways, PTL
       DEF QueueSpec, ImplementsBoundedQueue, Remembered!Spec

-----------------------------------------------------------------------------
(* The prefix cache *)

\* Equal beginnings of two conversations are as long, and what they begin with is equal.
LEMMA BeginningsAgree ==
    ASSUME NEW S, NEW p \in Seq(S), NEW q \in Seq(S),
           NEW i \in 1 .. Len(p), NEW j \in 1 .. Len(q), Beginning(p, i) = Beginning(q, j)
    PROVE  i = j /\ \A k \in 1 .. i : Beginning(p, k) = Beginning(q, k)
<1>1. Len(Beginning(p, i)) = i /\ Len(Beginning(q, j)) = j
  BY SubSeqProperties DEF Beginning
<1>2. i = j
  BY <1>1
<1>3. ASSUME NEW k \in 1 .. i PROVE Beginning(p, k) = Beginning(q, k)
  <2>1. Beginning(p, k) = Beginning(Beginning(p, i), k)
    <3>1. SubSeq(SubSeq(p, 1, i), 1, k) = SubSeq(p, 1 + 1 - 1, 1 + k - 1)
      BY SubSeqOfSubSeq, p \in Seq(S), 1 \in 1 .. Len(p), 1 \in 1 .. i - 1 + 1, k \in 1 .. i - 1 + 1
    <3>2. 1 + 1 - 1 = 1 /\ 1 + k - 1 = k
      OBVIOUS
    <3>3. QED
      BY <3>1, <3>2 DEF Beginning
  <2>2. Beginning(q, k) = Beginning(Beginning(q, j), k)
    <3>1. SubSeq(SubSeq(q, 1, j), 1, k) = SubSeq(q, 1 + 1 - 1, 1 + k - 1)
      BY <1>2, SubSeqOfSubSeq, q \in Seq(S), 1 \in 1 .. Len(q), 1 \in 1 .. j - 1 + 1,
         k \in 1 .. j - 1 + 1
    <3>2. 1 + 1 - 1 = 1 /\ 1 + k - 1 = k
      OBVIOUS
    <3>3. QED
      BY <3>1, <3>2 DEF Beginning
  <2>3. QED
    BY <2>1, <2>2
<1>4. QED
  BY <1>2, <1>3

\* Every conversation has turns.
LEMMA PromptIsSequence ==
    ASSUME NEW p \in Prompt
    PROVE  p \in Seq(Turn) /\ Len(p) \in Nat \ {0}
<1>1. p \in Seq(Turn) /\ p # <<>>
  BY PromptAssumption DEF Turn
<1>2. QED
  BY <1>1, EmptySeq, LenProperties

\* The search ends behind the beginnings that lead to a healthy host, at the first that does not.
LEMMA MatchedIsLongest ==
    ASSUME NEW p \in Seq(Turn), NEW healthy
    PROVE  /\ Matched(p, healthy) \in 0 .. Len(p)
           /\ \A i \in 1 .. Matched(p, healthy) : path[Odd(Beginning(p, i))] \in healthy
           /\ Matched(p, healthy) < Len(p) =>
                 path[Odd(Beginning(p, Matched(p, healthy) + 1))] \notin healthy
<1> DEFINE good(i) == path[Odd(Beginning(p, i))] \in healthy
           G == {n \in 1 .. Len(p) : \A i \in 1 .. n : good(i)}
           c == Cardinality(G)
<1>1. Matched(p, healthy) = Max({0} \cup G)
  BY DEF Matched
<1>2. \A n \in 1 .. Len(p) : n \in G <=> \A i \in 1 .. n : good(i)
  OBVIOUS
<1>3. Len(p) \in Nat /\ G \subseteq 1 .. Len(p)
  OBVIOUS
<1>4. \A n \in G : 1 .. n \subseteq G
  <2>1. ASSUME NEW n \in G, NEW m \in 1 .. n PROVE m \in G
    <3>1. m \in 1 .. Len(p) /\ n \in 1 .. Len(p) /\ \A i \in 1 .. m : i \in 1 .. n
      BY <1>3, <2>1
    <3>2. QED
      BY <1>2, <2>1, <3>1
  <2>2. QED
    BY <2>1
<1> HIDE DEF G, good
<1>5. IsFiniteSet(G) /\ c \in Nat /\ c <= Len(p)
  <2>1. /\ IsFiniteSet(1 .. Len(p))
        /\ Cardinality(1 .. Len(p)) = IF 1 > Len(p) THEN 0 ELSE Len(p) - 1 + 1
    BY <1>3, FS_Interval
  <2>2. IsFiniteSet(G) /\ c <= Cardinality(1 .. Len(p))
    BY <1>3, <2>1, FS_Subset
  <2>3. QED
    BY <1>3, <2>1, <2>2, FS_CardinalityType
<1>6. \A n \in G : n <= c
  <2>1. ASSUME NEW n \in G PROVE n <= c
    <3>1. n \in Nat /\ n >= 1
      BY <1>3
    <3>2. Cardinality(1 .. n) = n
      BY <3>1, FS_Interval
    <3>3. Cardinality(1 .. n) <= c
      BY <1>4, <1>5, FS_Subset
    <3>4. QED
      BY <3>2, <3>3
  <2>2. QED
    BY <2>1
<1>7. G = 1 .. c
  <2>1. IsFiniteSet(1 .. c) /\ Cardinality(1 .. c) = c
    BY <1>5, FS_Interval
  <2>2. G \subseteq 1 .. c
    BY <1>3, <1>5, <1>6
  <2>3. QED
    BY <2>1, <2>2, FS_Subset
<1> HIDE DEF c
<1>8. Max({0} \cup G) = c
  <2>1. {0} \cup G = 0 .. c
    BY <1>5, <1>7
  <2>2. Max(0 .. c) = c
    BY <1>5 DEF Max
  <2>3. QED
    BY <2>1, <2>2
<1>9. \A i \in 1 .. c : good(i)
  BY <1>2, <1>3, <1>5, <1>7
<1>10. c < Len(p) => ~good(c + 1)
  <2>1. ASSUME c < Len(p), good(c + 1) PROVE FALSE
    <3>1. c + 1 \in 1 .. Len(p) /\ c + 1 \notin G
      BY <1>3, <1>5, <1>7, <2>1
    <3>2. \A i \in 1 .. c + 1 : i \in 1 .. c \/ i = c + 1
      BY <1>5
    <3>3. QED
      BY <1>2, <1>9, <2>1, <3>1, <3>2
  <2>2. QED
    BY <2>1
<1>11. Matched(p, healthy) = c
  BY <1>1, <1>8
<1>12. c \in 0 .. Len(p)
  BY <1>3, <1>5
<1>13. \A i \in 1 .. c : path[Odd(Beginning(p, i))] \in healthy
  BY ONLY <1>9 DEF good
<1>14. c < Len(p) => path[Odd(Beginning(p, c + 1))] \notin healthy
  BY ONLY <1>10 DEF good
<1> HIDE DEF Matched
<1>15. QED
  BY ONLY <1>11, <1>12, <1>13, <1>14
\* Where the search did not stop at a host that is not healthy, the keys that are written are
\* those of the beginnings behind it.
LEMMA WrittenAreBeginnings ==
    ASSUME NEW p \in Seq(Turn), NEW n \in 0 .. Len(p)
    PROVE  Written(p, n, FALSE) = {Odd(Beginning(p, i)) : i \in n + 1 .. Len(p)}
<1>1. ASSUME NEW i \in n + 1 .. Len(p)
      PROVE  Beginning(p, n) \o SubSeq(p, n + 1, i) = Beginning(p, i)
  <2>1. /\ Len(p) \in Nat /\ 1 \in 1 .. Len(p) + 1 /\ n \in 1 - 1 .. Len(p) /\ i \in n .. Len(p)
    OBVIOUS
  <2>2. QED
    BY <2>1, ConcatAdjacentSubSeq DEF Beginning
<1>2. QED
  BY <1>1 DEF Written

\* The requests whose script is on its way carry a conversation, and healthy hosts.
PrefixTypeOK ==
    /\ clock \in 0 .. MaxTime
    /\ eval \in [Request -> {"none", "sent", "ran", "over"}]
    /\ view \in [Request -> View]
    /\ prompt \in [Request -> Prompt \cup {<<>>}]
    /\ \A r \in Request : eval[r] = "sent" => prompt[r] \in Prompt
    /\ path \in [SUBSET Turn -> Host \cup {None}]
    /\ routed \subseteq [prompt : Prompt, host : Host]

Ambiguous(conversations) == \E x, y \in conversations : Collide(x.prompt, y.prompt)

\* The beginnings of the conversations that came lead to their hosts, and no other key is known.
PathsOK ==
    \/ disturbed
    \/ Ambiguous(routed)
    \/ /\ \A x \in routed : \A i \in DOMAIN x.prompt : path[Odd(Beginning(x.prompt, i))] = x.host
       /\ \A key \in SUBSET Turn : path[key] # None =>
             \E x \in routed : \E i \in DOMAIN x.prompt : key = Odd(Beginning(x.prompt, i))

PrefixInv == PrefixTypeOK /\ PathsOK

LEMMA PrefixInvInit == Init /\ PrefixInit => PrefixInv
<1> SUFFICES ASSUME Init, PrefixInit PROVE PrefixInv
  OBVIOUS
<1>1. PrefixTypeOK
  BY DEF Init, PrefixInit, PrefixTypeOK, View, NoView
<1>2. PathsOK
  BY DEF PrefixInit, PathsOK
<1>3. QED
  BY <1>1, <1>2 DEF PrefixInv

\* What a request finds: the host it is given is that of every beginning it matched, and no key
\* behind them is known.
LEMMA SearchFollowsPaths ==
    ASSUME PrefixTypeOK, PathsOK, NEW p \in Prompt, NEW healthy \in SUBSET Host,
           NEW h \in Host, NEW n, n = Matched(p, healthy),
           n # 0 => h = path[Odd(Beginning(p, n))],
           n < Len(p) => path[Odd(Beginning(p, n + 1))] \in healthy \cup {None},
           ~disturbed, ~Ambiguous(routed \cup {[prompt |-> p, host |-> h]})
    PROVE  /\ n \in 0 .. Len(p)
           /\ \A i \in 1 .. n : path[Odd(Beginning(p, i))] = h
           /\ \A i \in n + 1 .. Len(p) : path[Odd(Beginning(p, i))] = None
<1>1. p \in Seq(Turn) /\ DOMAIN p = 1 .. Len(p) /\ Len(p) \in Nat
  BY PromptIsSequence, LenProperties
<1>2. /\ n \in 0 .. Len(p)
      /\ \A i \in 1 .. n : path[Odd(Beginning(p, i))] \in healthy
      /\ n < Len(p) => path[Odd(Beginning(p, n + 1))] = None
  BY <1>1, MatchedIsLongest
<1>3. ASSUME NEW i \in 1 .. Len(p), path[Odd(Beginning(p, i))] # None
      PROVE  \E x \in routed : /\ \A k \in 1 .. i : path[Odd(Beginning(p, k))] = x.host
                               /\ x.host # None
  <2>1. Odd(Beginning(p, i)) \in SUBSET Turn
    BY DEF Odd
  <2>2. ~Ambiguous(routed)
    BY DEF Ambiguous
  <2>3. PICK x \in routed : \E j \in DOMAIN x.prompt :
            Odd(Beginning(p, i)) = Odd(Beginning(x.prompt, j))
    BY <1>3, <2>1, <2>2 DEF PathsOK
  <2>4. PICK j \in DOMAIN x.prompt : Odd(Beginning(p, i)) = Odd(Beginning(x.prompt, j))
    BY <2>3
  <2>5. x.prompt \in Prompt /\ x.host \in Host
    BY DEF PrefixTypeOK
  <2>6. x.prompt \in Seq(Turn) /\ DOMAIN x.prompt = 1 .. Len(x.prompt) /\ Len(x.prompt) \in Nat
    BY <2>5, PromptIsSequence, LenProperties
  <2>7. Beginning(p, i) = Beginning(x.prompt, j)
    <3>1. ~Collide(p, x.prompt)
      <4> DEFINE all == routed \cup {[prompt |-> p, host |-> h]}
      <4>1. [prompt |-> p, host |-> h] \in all /\ x \in all
        OBVIOUS
      <4> HIDE DEF all
      <4>2. ~Collide([prompt |-> p, host |-> h].prompt, x.prompt)
        BY <4>1, Zenon DEF Ambiguous, all
      <4>3. QED
        BY <4>2
    <3>2. QED
      BY <1>1, <2>4, <3>1 DEF Collide
  <2>8. i = j /\ \A k \in 1 .. i : Beginning(p, k) = Beginning(x.prompt, k)
    BY <1>1, <2>6, <2>7, BeginningsAgree
  <2>9. \A k \in DOMAIN x.prompt : path[Odd(Beginning(x.prompt, k))] = x.host
    BY <2>2 DEF PathsOK
  <2>10. \A k \in 1 .. i : k \in DOMAIN x.prompt
    BY <2>4, <2>6, <2>8
  <2>11. x.host # None
    BY <2>5
  <2>12. \A k \in 1 .. i : path[Odd(Beginning(p, k))] = x.host
    BY <2>8, <2>9, <2>10
  <2>13. QED
    BY <2>11, <2>12
<1>4. ASSUME NEW i \in 1 .. n PROVE path[Odd(Beginning(p, i))] = h
  <2>1. n \in 1 .. Len(p) /\ n # 0 /\ n \in 1 .. n
    BY <1>2
  <2>2. path[Odd(Beginning(p, n))] = h /\ h # None
    BY <2>1
  <2>3. PICK x \in routed : \A k \in 1 .. n : path[Odd(Beginning(p, k))] = x.host
    BY <1>3, <2>1, <2>2
  <2>4. QED
    BY <2>1, <2>2, <2>3
<1>5. ASSUME NEW i \in n + 1 .. Len(p) PROVE path[Odd(Beginning(p, i))] = None
  <2>1. i \in 1 .. Len(p) /\ n + 1 \in 1 .. i /\ n < Len(p)
    BY <1>1, <1>2
  <2>2. SUFFICES ASSUME path[Odd(Beginning(p, i))] # None PROVE FALSE
    OBVIOUS
  <2>3. PICK x \in routed : /\ \A k \in 1 .. i : path[Odd(Beginning(p, k))] = x.host
                            /\ x.host # None
    BY <1>3, <2>1, <2>2
  <2>4. QED
    BY <1>2, <2>1, <2>3
<1>6. QED
  BY <1>2, <1>4, <1>5
LEMMA PrefixBodyKeeps ==
    ASSUME PrefixInv, NEW r \in Request, PrefixRequestBody(r)
    PROVE  PrefixInv'
<1>1. PICK healthy \in (SUBSET Host) \ {{}} : HandleHttpRequestBody(r, healthy, healthy)
  BY Zenon DEF PrefixRequestBody
<1>2. PICK p \in Prompt : prompt' = [prompt EXCEPT ![r] = p]
  BY Zenon DEF PrefixRequestBody
<1>3. UNCHANGED <<path, routed, disturbed>>
  BY DEF PrefixRequestBody
<1>4. eval' = [eval EXCEPT ![r] = "sent"] /\ UNCHANGED clock
  BY <1>1 DEF HandleHttpRequestBody
<1>5. view' \in [Request -> View]
  <2>1. view' = [view EXCEPT ![r] = [all |-> healthy, healthy |-> healthy, time |-> clock]]
    BY <1>1 DEF HandleHttpRequestBody
  <2>2. [all |-> healthy, healthy |-> healthy, time |-> clock] \in View
    BY <1>1 DEF View, PrefixInv, PrefixTypeOK
  <2>3. QED
    BY <2>1, <2>2 DEF PrefixInv, PrefixTypeOK
<1>6. PrefixTypeOK'
  BY <1>2, <1>3, <1>4, <1>5 DEF PrefixInv, PrefixTypeOK, Turn
<1>7. PathsOK'
  BY <1>3 DEF PrefixInv, PathsOK, Ambiguous, Turn
<1>8. QED
  BY <1>6, <1>7 DEF PrefixInv

LEMMA PrefixScriptKeeps ==
    ASSUME PrefixInv, NEW r \in Request, NEW h \in Host, RunPrefixScript(r, h)
    PROVE  PrefixInv'
<1> DEFINE p == prompt[r]
           healthy == view[r].healthy
           n == Matched(p, healthy)
           stale == n < Len(p) /\ path[Odd(Beginning(p, n + 1))] \notin healthy \cup {None}
           new == [prompt |-> p, host |-> h]
<1>1. /\ path' = [key \in SUBSET Turn |-> IF key \in Written(p, n, stale) THEN h ELSE path[key]]
      /\ routed' = routed \cup {new}
      /\ disturbed' = (disturbed \/ stale)
      /\ h \in IF n = 0 THEN FewRequests(healthy) ELSE {path[Odd(Beginning(p, n))]}
      /\ eval[r] = "sent" /\ UNCHANGED <<clock, prompt>>
  BY Zenon DEF RunPrefixScript
<1>2. p \in Prompt /\ healthy \subseteq Host
  BY <1>1 DEF PrefixInv, PrefixTypeOK, View
<1> HIDE DEF p, healthy, n
<1>3. PrefixTypeOK'
  <2>1. eval' \in [Request -> {"none", "sent", "ran", "over"}]
        /\ \A q \in Request : eval'[q] = "sent" => eval[q] = "sent"
    BY DEF RunPrefixScript, PrefixInv, PrefixTypeOK
  <2>2. view' \in [Request -> View]
    <3>1. view' = [view EXCEPT ![r] = NoView]
      BY DEF RunPrefixScript
    <3>2. NoView \in View
      BY DEF NoView, View, PrefixInv, PrefixTypeOK
    <3>3. QED
      BY <3>1, <3>2 DEF PrefixInv, PrefixTypeOK
  <2> HIDE DEF stale
  <2>3. path' \in [SUBSET Turn -> Host \cup {None}]
    BY <1>1 DEF PrefixInv, PrefixTypeOK
  <2>4. routed' \subseteq [prompt : Prompt, host : Host]
    BY <1>1, <1>2 DEF PrefixInv, PrefixTypeOK
  <2>5. QED
    BY <1>1, <2>1, <2>2, <2>3, <2>4 DEF PrefixInv, PrefixTypeOK, Turn
<1>4. ASSUME ~disturbed', ~Ambiguous(routed') PROVE PathsOK'
  <2>1. ~disturbed /\ ~stale /\ ~Ambiguous(routed)
    BY <1>1, <1>4 DEF Ambiguous
  <2>2. stale = FALSE
    BY <2>1
  <2>3. n # 0 => h = path[Odd(Beginning(p, n))]
    BY <1>1
  <2>4. n < Len(p) => path[Odd(Beginning(p, n + 1))] \in healthy \cup {None}
    BY <2>1
  <2> HIDE DEF stale
  <2>5. /\ n \in 0 .. Len(p)
        /\ \A i \in 1 .. n : path[Odd(Beginning(p, i))] = h
        /\ \A i \in n + 1 .. Len(p) : path[Odd(Beginning(p, i))] = None
    <3>1. n = Matched(p, healthy)
      BY DEF n
    <3>2. ~Ambiguous(routed \cup {new})
      BY <1>1, <1>4
    <3>3. QED
      BY <1>2, <2>1, <2>3, <2>4, <3>1, <3>2, SearchFollowsPaths DEF PrefixInv
  <2>6. p \in Seq(Turn) /\ DOMAIN p = 1 .. Len(p) /\ Len(p) \in Nat
    BY <1>2, PromptIsSequence, LenProperties
  <2> DEFINE W == {Odd(Beginning(p, i)) : i \in n + 1 .. Len(p)}
  <2>7. path' = [key \in SUBSET Turn |-> IF key \in W THEN h ELSE path[key]]
    BY <1>1, <2>2, <2>5, <2>6, WrittenAreBeginnings
  <2>8. \A q, i : Odd(Beginning(q, i)) \in SUBSET Turn
    BY DEF Odd
  <2>9. \A key \in W : path[key] = None
    BY <2>5
  <2>10. /\ \A x \in routed : \A i \in DOMAIN x.prompt : path[Odd(Beginning(x.prompt, i))] = x.host
         /\ \A key \in SUBSET Turn : path[key] # None =>
             \E x \in routed : \E i \in DOMAIN x.prompt : key = Odd(Beginning(x.prompt, i))
    BY <2>1 DEF PrefixInv, PathsOK
  <2>11. ASSUME NEW x \in routed', NEW i \in DOMAIN x.prompt
         PROVE  path'[Odd(Beginning(x.prompt, i))] = x.host
    <3>1. CASE x \in routed
      <4>1. path[Odd(Beginning(x.prompt, i))] = x.host /\ x.host # None
        BY <2>10, <2>11, <3>1 DEF PrefixInv, PrefixTypeOK
      <4>2. Odd(Beginning(x.prompt, i)) \notin W
        BY <2>9, <4>1
      <4> HIDE DEF W
      <4>3. QED
        BY <2>7, <2>8, <4>1, <4>2
    <3>2. CASE x = new
      <4>1. x.prompt = p /\ x.host = h /\ i \in 1 .. Len(p)
        BY <2>6, <2>11, <3>2
      <4>2. CASE i \in 1 .. n
        <5>1. path[Odd(Beginning(p, i))] = h
          BY <2>5, <4>2
        <5> HIDE DEF W
        <5>2. QED
          BY <2>7, <2>8, <4>1, <5>1
      <4>3. CASE i \in n + 1 .. Len(p)
        <5>1. Odd(Beginning(p, i)) \in W
          BY <4>3
        <5> HIDE DEF W
        <5>2. QED
          BY <2>7, <2>8, <4>1, <5>1
      <4>4. QED
        BY <2>5, <2>6, <4>1, <4>2, <4>3
    <3>3. QED
      BY <1>1, <2>11, <3>1, <3>2
  <2>12. ASSUME NEW key \in SUBSET Turn, path'[key] # None
         PROVE  \E x \in routed' : \E i \in DOMAIN x.prompt : key = Odd(Beginning(x.prompt, i))
    <3>1. CASE key \in W
      <4>1. PICK i \in n + 1 .. Len(p) : key = Odd(Beginning(p, i))
        BY <3>1
      <4>2. i \in DOMAIN p
        BY <2>5, <2>6
      <4>3. new \in routed' /\ new.prompt = p
        BY <1>1
      <4>4. QED
        BY <4>1, <4>2, <4>3
    <3>2. CASE key \notin W
      <4>1. path[key] # None
        BY <2>7, <2>12, <3>2
      <4>2. QED
        BY <1>1, <2>10, <4>1
    <3>3. QED
      BY <3>1, <3>2
  <2>13. QED
    BY <2>11, <2>12 DEF PathsOK, Turn
<1>5. disturbed' \/ Ambiguous(routed') => PathsOK'
  BY DEF PathsOK, Ambiguous
<1>6. QED
  BY <1>3, <1>4, <1>5 DEF PrefixInv

LEMMA PrefixNextKeeps == PrefixInv /\ [PrefixNext]_<<vars, prefixVars>> => PrefixInv'
<1> SUFFICES ASSUME PrefixInv, [PrefixNext]_<<vars, prefixVars>> PROVE PrefixInv'
  OBVIOUS
<1>1. ASSUME NEW r \in Request, PrefixRequestBody(r) PROVE PrefixInv'
  BY <1>1, PrefixBodyKeeps
<1>2. ASSUME NEW r \in Request, NEW h \in Host, RunPrefixScript(r, h) PROVE PrefixInv'
  BY <1>2, PrefixScriptKeeps
<1>3. ASSUME NEW key \in SUBSET Turn, Expires(key) PROVE PrefixInv'
  <2>1. PathsOK'
    BY <1>3 DEF Expires, PathsOK
  <2>2. path' \in [SUBSET Turn -> Host \cup {None}]
    BY <1>3 DEF Expires, PrefixInv, PrefixTypeOK
  <2>3. UNCHANGED <<clock, eval, view, prompt, routed>>
    BY <1>3 DEF Expires, vars, context
  <2>4. PrefixTypeOK'
    BY <2>2, <2>3 DEF PrefixInv, PrefixTypeOK, Turn
  <2>5. QED
    BY <2>1, <2>4 DEF PrefixInv
<1>4. ASSUME UNCHANGED prefixVars, UNCHANGED <<clock, view>>,
             eval' \in [Request -> {"none", "sent", "ran", "over"}],
             \A r \in Request : eval'[r] = "sent" => eval[r] = "sent"
      PROVE  PrefixInv'
  <2>1. PrefixTypeOK'
    BY <1>4 DEF prefixVars, PrefixInv, PrefixTypeOK, Turn
  <2>2. PathsOK'
    BY <1>4 DEF prefixVars, PrefixInv, PathsOK, Ambiguous, Turn
  <2>3. QED
    BY <2>1, <2>2 DEF PrefixInv
<1>5. eval \in [Request -> {"none", "sent", "ran", "over"}]
  BY DEF PrefixInv, PrefixTypeOK
<1>6. ASSUME NEW r \in Request, UNCHANGED prefixVars,
             NotBalanced(r) \/ PrefixCallback(r) \/ PrefixStreamDone(r)
      PROVE  PrefixInv'
  <2>1. CASE NotBalanced(r)
    BY <1>4, <1>5, <1>6, <2>1 DEF NotBalanced
  <2>2. CASE Selected(r) \/ OverrideFails(r)
    BY <1>4, <1>5, <1>6, <2>2 DEF Selected, OverrideFails, Answered
  <2>3. CASE EvalFails(r)
    BY <1>4, <1>5, <1>6, <2>3 DEF EvalFails, redis
  <2>4. CASE HandleHttpStreamDone(r)
    BY <1>4, <1>5, <1>6, <2>4 DEF HandleHttpStreamDone
  <2>5. QED
    BY <1>6, <2>1, <2>2, <2>3, <2>4 DEF PrefixCallback, PrefixStreamDone
<1>7. ASSUME NEW h \in Host, UNCHANGED prefixVars, ApplyDecrement(h) \/ LoseDecrement(h)
      PROVE  PrefixInv'
  BY <1>4, <1>5, <1>7 DEF ApplyDecrement, LoseDecrement, context
<1>8. CASE UNCHANGED <<vars, prefixVars>>
  BY <1>4, <1>5, <1>8 DEF vars, context
<1>9. QED
  BY <1>1, <1>2, <1>3, <1>6, <1>7, <1>8 DEF PrefixNext

\* A conversation that continues another follows it to its host, until a key expires or leads
\* to a host that is not healthy, and unless two different beginnings share a key
\* (prefix_cache/lb_policy.go:72-153), for any conversations, hosts and requests.
THEOREM PrefixesAlwaysLeadBack == PrefixSpec => []PrefixesLeadBack
<1>1. PrefixInv => PrefixesLeadBack
  <2> SUFFICES ASSUME PrefixInv, NEW one \in routed, NEW other \in routed,
                      ~disturbed, IsPrefix(one.prompt, other.prompt), ~Ambiguous(routed)
               PROVE  one.host = other.host
    BY DEF PrefixesLeadBack, Ambiguous
  <2>1. one.prompt \in Prompt /\ other.prompt \in Prompt
    BY DEF PrefixInv, PrefixTypeOK
  <2> DEFINE l == Len(one.prompt)
  <2>2. /\ DOMAIN one.prompt = 1 .. l /\ DOMAIN other.prompt = 1 .. Len(other.prompt)
        /\ l \in Nat \ {0} /\ Len(other.prompt) \in Nat
    BY <2>1, PromptIsSequence, LenProperties
  <2>3. l <= Len(other.prompt) /\ Beginning(one.prompt, l) = Beginning(other.prompt, l)
    BY DEF IsPrefix, Beginning
  <2>4. l \in DOMAIN one.prompt /\ l \in DOMAIN other.prompt
    BY <2>2, <2>3
  <2>5. \A x \in routed : \A i \in DOMAIN x.prompt : path[Odd(Beginning(x.prompt, i))] = x.host
    BY DEF PrefixInv, PathsOK
  <2>6. QED
    BY <2>3, <2>4, <2>5
<1>2. QED
  BY <1>1, PrefixInvInit, PrefixNextKeeps, PTL DEF PrefixSpec

-----------------------------------------------------------------------------
(* The policies that measure *)

\* A set of numbers has a smallest one; induction follows, with a set for what is to be shown.
LEMMA Smallest == \A T \in SUBSET Nat : T # {} => \E x \in T : \A y \in T : ~ (y < x)
<1> SUFFICES ASSUME NEW T \in SUBSET Nat, T # {} PROVE \E x \in T : \A y \in T : ~ (y < x)
    OBVIOUS
<1> DEFINE R == {ss \in Nat \X Nat : ss[1] < ss[2]}
<1>1. IsWellFoundedOn(R, Nat)
    BY NatLessThanWellFounded DEF OpToRel
<1>2. \A x, y \in Nat : y < x => <<y, x>> \in R
    OBVIOUS
<1> HIDE DEF R
<1>3. PICK x \in T : \A y \in T : ~ (<<y, x>> \in R)
    BY <1>1, WFMin
<1>. QED
    BY <1>2, <1>3

LEMMA ByInduction ==
    ASSUME NEW S, 0 \in S, \A n \in Nat : n \in S => n + 1 \in S
    PROVE  \A n \in Nat : n \in S
<1> SUFFICES ASSUME Nat \ S # {} PROVE FALSE
    OBVIOUS
<1>1. PICK x \in Nat \ S : \A y \in Nat \ S : ~ (y < x)
    BY Smallest
<1>2. x # 0 /\ x - 1 \in Nat /\ x - 1 < x /\ (x - 1) + 1 = x
    OBVIOUS
<1>. QED
    BY <1>1, <1>2

\* A finite set of numbers has a largest one.
LEMMA LargestExists ==
    ASSUME NEW T \in SUBSET Int, IsFiniteSet(T), T # {}
    PROVE  Max(T) \in T
<1> DEFINE Has(U) == \E x \in U : \A y \in U : x >= y
           S == {n \in Nat : \A U \in SUBSET Int : U # {} /\ IsFiniteSet(U) /\ Cardinality(U) = n => Has(U)}
<1>1. 0 \in S
    BY FS_EmptySet
<1>2. ASSUME NEW n \in Nat, n \in S PROVE n + 1 \in S
  <2> SUFFICES ASSUME NEW U \in SUBSET Int, U # {}, IsFiniteSet(U), Cardinality(U) = n + 1 PROVE Has(U)
      OBVIOUS
  <2>1. PICK x \in U : TRUE
      OBVIOUS
  <2> DEFINE V == U \ {x}
  <2>2. IsFiniteSet(V) /\ Cardinality(V) = n
    <3>1. Cardinality(V) = Cardinality(U) - 1 /\ IsFiniteSet(V)
        BY <2>1, FS_RemoveElement
    <3>. QED
        BY <3>1
  <2>3. CASE V = {}
      BY <2>1, <2>3
  <2>4. CASE V # {}
    <3>1. V \in SUBSET Int
        OBVIOUS
    <3>2. Has(V)
        BY <1>2, <2>2, <2>4, <3>1
    <3>3. PICK m \in V : \A y \in V : m >= y
        BY <3>2
    <3>4. m \in Int /\ x \in Int /\ m \in U
        OBVIOUS
    <3>5. CASE m >= x
        BY <3>3, <3>4, <3>5
    <3>6. CASE x >= m
        BY <2>1, <3>3, <3>4, <3>6
    <3>. QED
        BY <3>4, <3>5, <3>6
  <2>. QED
      BY <2>3, <2>4
<1>3. Cardinality(T) \in Nat
    BY FS_CardinalityType
<1> HIDE DEF S
<1>4. Cardinality(T) \in S
    BY <1>1, <1>2, <1>3, ByInduction
<1>5. Has(T)
    BY <1>4 DEF S
<1>. QED
    BY <1>5 DEF Max

\* What is folded: a candidate for a service, or a sum.
Combined(op, x, e) == IF op = "better" THEN Better(x, e) ELSE x + e

\* A fold over a sequence is a function of the sets of its indices; it goes over the first n.
Folding(op, c, s, n, it) ==
    it = [u \in SUBSET (1 .. n) |-> IF u = {} THEN c ELSE Combined(op, it[u \ {Max(u)}], s[Max(u)])]

LEMMA Largest == \A n \in Nat : \A u \in SUBSET (1 .. n + 1) : n + 1 \in u => Max(u) = n + 1
<1> SUFFICES ASSUME NEW n \in Nat, NEW u \in SUBSET (1 .. n + 1), n + 1 \in u PROVE Max(u) = n + 1
    OBVIOUS
<1>1. n + 1 \in u /\ \A y \in u : n + 1 >= y
    OBVIOUS
<1>2. \A x \in u : (\A y \in u : x >= y) => x = n + 1
    BY <1>1
<1>3. Max(u) \in u /\ \A y \in u : Max(u) >= y
    BY <1>1 DEF Max
<1>. QED
    BY <1>2, <1>3

LEMMA Segment ==
    \A n \in Nat : /\ Max(1 .. n + 1) = n + 1
                   /\ (1 .. n + 1) \ {n + 1} = 1 .. n
                   /\ 1 .. n + 1 # {}
<1> SUFFICES ASSUME NEW n \in Nat
             PROVE  /\ Max(1 .. n + 1) = n + 1
                    /\ (1 .. n + 1) \ {n + 1} = 1 .. n
                    /\ 1 .. n + 1 # {}
    OBVIOUS
<1>1. n + 1 \in 1 .. n + 1 /\ 1 .. n + 1 \in SUBSET (1 .. n + 1)
    OBVIOUS
<1>2. Max(1 .. n + 1) = n + 1
    BY <1>1, Largest
<1>3. (1 .. n + 1) \ {n + 1} = 1 .. n
    OBVIOUS
<1>. QED
    BY <1>1, <1>2, <1>3

\* There is such a function, step by step, and the fold is one.
LEMMA FoldingGoesOn ==
    ASSUME NEW op, NEW c, NEW s, NEW n \in Nat, NEW it, Folding(op, c, s, n, it)
    PROVE  \E more : Folding(op, c, s, n + 1, more)
<1> DEFINE more == [u \in SUBSET (1 .. n + 1) |->
                      IF n + 1 \in u THEN Combined(op, it[u \ {n + 1}], s[n + 1]) ELSE it[u]]
<1>1. \A u \in SUBSET (1 .. n + 1) :
        more[u] = IF u = {} THEN c ELSE Combined(op, more[u \ {Max(u)}], s[Max(u)])
  <2> SUFFICES ASSUME NEW u \in SUBSET (1 .. n + 1)
               PROVE more[u] = IF u = {} THEN c ELSE Combined(op, more[u \ {Max(u)}], s[Max(u)])
      OBVIOUS
  <2>1. CASE n + 1 \in u
    <3>1. Max(u) = n + 1 /\ u \ {n + 1} \in SUBSET (1 .. n) /\ u # {}
        BY <2>1, Largest
    <3>2. more[u] = Combined(op, it[u \ {n + 1}], s[n + 1]) /\ more[u \ {n + 1}] = it[u \ {n + 1}]
        BY <2>1
    <3>. QED
        BY <3>1, <3>2
  <2>2. CASE n + 1 \notin u
    <3>1. u \in SUBSET (1 .. n)
        BY <2>2
    <3>2. more[u] = it[u]
        BY <2>2
    <3>3. it[u] = IF u = {} THEN c ELSE Combined(op, it[u \ {Max(u)}], s[Max(u)])
        BY <3>1 DEF Folding
    <3>4. more[u \ {Max(u)}] = it[u \ {Max(u)}]
        BY <2>2
    <3>. QED
        BY <3>2, <3>3, <3>4
  <2>. QED
      BY <2>1, <2>2
<1>2. more = [u \in SUBSET (1 .. n + 1) |-> more[u]]
    OBVIOUS
<1> HIDE DEF more
<1>3. Folding(op, c, s, n + 1, more)
    BY <1>1, <1>2 DEF Folding
<1>. QED
    BY <1>3

LEMMA FoldingExists ==
    ASSUME NEW op, NEW c, NEW s
    PROVE  \A n \in Nat : \E it : Folding(op, c, s, n, it)
<1> DEFINE S == {n \in Nat : \E it : Folding(op, c, s, n, it)}
<1>1. 0 \in S
  <2> DEFINE it == [u \in {{}} |-> c]
  <2>1. SUBSET (1 .. 0) = {{}}
      OBVIOUS
  <2>2. it = [u \in SUBSET (1 .. 0) |-> IF u = {} THEN c ELSE Combined(op, it[u \ {Max(u)}], s[Max(u)])]
      BY <2>1
  <2>. QED
      BY <2>2 DEF Folding
<1>2. \A n \in Nat : n \in S => n + 1 \in S
    BY FoldingGoesOn
<1> HIDE DEF S
<1>3. \A n \in Nat : n \in S
    BY <1>1, <1>2, ByInduction
<1>. QED
    BY <1>3 DEF S

LEMMA BetterIsFolding ==
    ASSUME NEW c, NEW s, NEW n \in Nat, DOMAIN s = 1 .. n
    PROVE  \E it : Folding("better", c, s, n, it) /\ FoldLeft(Better, c, s) = it[1 .. n]
<1> DEFINE it == CHOOSE i : Folding("better", c, s, n, i)
<1>1. Folding("better", c, s, n, it)
    BY FoldingExists
<1>2. FoldLeft(Better, c, s) = it[1 .. n]
    BY DEF FoldLeft, MapThenFoldSet, Folding, Combined
<1>. QED
    BY <1>1, <1>2

LEMMA SumIsFolding ==
    ASSUME NEW s, NEW n \in Nat, DOMAIN s = 1 .. n
    PROVE  \E it : Folding("sum", 0, s, n, it) /\ Sum(s) = it[1 .. n]
<1> DEFINE it == CHOOSE i : Folding("sum", 0, s, n, i)
<1>1. Folding("sum", 0, s, n, it)
    BY FoldingExists
<1>2. Sum(s) = it[1 .. n]
    BY DEF Sum, FoldLeft, MapThenFoldSet, Folding, Combined
<1>. QED
    BY <1>1, <1>2

\* It goes over the sequence one by one.
OneByOne(op, c, s, n, it) ==
    it[1 .. 0] = c /\ \A i \in Nat : i + 1 <= n => it[1 .. i + 1] = Combined(op, it[1 .. i], s[i + 1])

LEMMA FoldingStep ==
    ASSUME NEW op, NEW c, NEW s, NEW n \in Nat, NEW it, Folding(op, c, s, n, it)
    PROVE  OneByOne(op, c, s, n, it)
<1>1. it[1 .. 0] = c
  <2>1. it[{}] = c
      BY DEF Folding
  <2>2. 1 .. 0 = {}
      OBVIOUS
  <2>. QED
      BY <2>1, <2>2
<1>2. ASSUME NEW i \in Nat, i + 1 <= n PROVE it[1 .. i + 1] = Combined(op, it[1 .. i], s[i + 1])
  <2>1. Max(1 .. i + 1) = i + 1 /\ (1 .. i + 1) \ {i + 1} = 1 .. i /\ 1 .. i + 1 # {}
      BY Segment
  <2>2. 1 .. i + 1 \in SUBSET (1 .. n)
      BY <1>2
  <2> DEFINE u == 1 .. i + 1
  <2> HIDE DEF u
  <2>3. it[u] = Combined(op, it[u \ {Max(u)}], s[Max(u)])
      BY <2>1, <2>2 DEF Folding, u
  <2>. QED
      BY <2>1, <2>3 DEF u
<1>. QED
    BY <1>1, <1>2 DEF OneByOne

\* The sum of a sequence of numbers, and so its average, is one.
LEMMA SumIsInt == \A q \in Seq(Int) : Sum(q) \in Int
<1> SUFFICES ASSUME NEW q \in Seq(Int) PROVE Sum(q) \in Int
    OBVIOUS
<1> DEFINE n == Len(q)
<1>1. n \in Nat /\ DOMAIN q = 1 .. n /\ \A i \in 1 .. n : q[i] \in Int
    OBVIOUS
<1> HIDE DEF n
<1>2. PICK it : Folding("sum", 0, q, n, it) /\ Sum(q) = it[1 .. n]
    BY <1>1, SumIsFolding
<1>3. it[1 .. 0] = 0 /\ \A i \in Nat : i + 1 <= n => it[1 .. i + 1] = Combined("sum", it[1 .. i], q[i + 1])
  <2>1. OneByOne("sum", 0, q, n, it)
      BY <1>1, <1>2, FoldingStep
  <2>. QED
      BY <2>1 DEF OneByOne
<1> DEFINE S == {i \in Nat : i <= n => it[1 .. i] \in Int}
<1>4. 0 \in S
    BY <1>3
<1>5. ASSUME NEW i \in Nat, i \in S PROVE i + 1 \in S
  <2> SUFFICES ASSUME i + 1 <= n PROVE it[1 .. i + 1] \in Int
      OBVIOUS
  <2>1. it[1 .. i] \in Int /\ q[i + 1] \in Int
      BY <1>1, <1>5
  <2>2. it[1 .. i + 1] = it[1 .. i] + q[i + 1]
      BY <1>3 DEF Combined
  <2>. QED
      BY <2>1, <2>2
<1> HIDE DEF S
<1>6. n \in S
    BY <1>1, <1>4, <1>5, ByInduction
<1>. QED
    BY <1>1, <1>2, <1>6 DEF S

LEMMA AverageIsFraction ==
    ASSUME NEW q \in Seq(Int)
    PROVE  Average(q)[1] \in Int /\ Average(q)[2] \in Nat \ {0}
<1>1. CASE q = <<>>
    BY <1>1 DEF Average
<1>2. CASE q # <<>>
  <2>1. Len(q) \in Nat \ {0}
      BY <1>2, EmptySeq
  <2>2. Sum(q) \in Int
      BY SumIsInt
  <2>3. Average(q) = <<Sum(q), Len(q)>>
      BY <1>2 DEF Average
  <2>. QED
      BY <2>1, <2>2, <2>3
<1>. QED
    BY <1>1, <1>2

-----------------------------------------------------------------------------
(* The service with the least load within its share *)

\* cluster_metrics, and endpoint_metrics, by themselves.
MetricsSpec == MetricsInit /\ [][ClusterNext \/ EndpointNext]_metricsVars

Serving == {"upstream", "answering"}

ClusterRecord ==
    [ongoing : [Service -> Int], all : [Service -> Int],
     first : [Service -> Seq(Int)], total : [Service -> Seq(Int)]]

VisitRecord ==
    [at : {"new", "over"} \cup Serving, service : Service \cup {Nobody}, failed : BOOLEAN, recorded : BOOLEAN]

MetricsTypeOK ==
    /\ cluster \in ClusterRecord
    /\ visit \in [Visit -> VisitRecord]
    /\ \A v \in Visit : visit[v].at \in Serving => visit[v].service \in Service
    /\ recent \in Seq(Pod)

\* The count of a service is that of the requests it has.
OngoingOK ==
    \A s \in Service : IsFiniteSet(InProgress(s)) /\ cluster.ongoing[s] = Cardinality(InProgress(s))

MetricsInv == MetricsTypeOK /\ OngoingOK

\* A fraction.
Fraction(a) == a[1] \in Int /\ a[2] \in Nat \ {0}

LEMMA Scaled ==
    ASSUME NEW a \in Int, NEW b \in Int, NEW c \in Nat \ {0}
    PROVE  /\ a * c \in Int
           /\ a < b => a * c < b * c
           /\ a <= b => a * c <= b * c
           /\ a * c < b * c => a < b
<1>1. ASSUME NEW x \in Int, NEW y \in Int, x < y PROVE x * c < y * c
  <2>1. y - x \in Nat \ {0} /\ (y - x) * c > 0
      BY <1>1, SMT
  <2>2. (y - x) * c = y * c - x * c
      BY SMT
  <2>3. x * c \in Int /\ y * c \in Int
      OBVIOUS
  <2>. QED
      BY <2>1, <2>2, <2>3
<1>2. a * c \in Int /\ b * c \in Int
    OBVIOUS
<1>3. a < b => a * c < b * c
    BY <1>1
<1>4. b < a => b * c < a * c
    BY <1>1
<1>5. a = b => a * c = b * c
    OBVIOUS
<1>. QED
    BY <1>2, <1>3, <1>4, <1>5

\* What is below a is below whatever is above a.
LEMMA LessIsTransitive ==
    ASSUME NEW a, NEW b, NEW c, Fraction(a), Fraction(b), Fraction(c), Less(a, b), Less(b, c)
    PROVE  Less(a, c)
<1>1. /\ a[1] \in Int /\ b[1] \in Int /\ c[1] \in Int
      /\ a[2] \in Nat \ {0} /\ b[2] \in Nat \ {0} /\ c[2] \in Nat \ {0}
    BY DEF Fraction
<1> DEFINE ab == a[1] * b[2]
           ba == b[1] * a[2]
           bc == b[1] * c[2]
           cb == c[1] * b[2]
           ac == a[1] * c[2]
           ca == c[1] * a[2]
<1>2. ab < ba /\ bc < cb
    BY DEF Less
<1>3. /\ ab \in Int /\ ba \in Int /\ bc \in Int /\ cb \in Int /\ ac \in Int /\ ca \in Int
    BY <1>1
<1>4. ab * c[2] = ac * b[2] /\ ba * c[2] = bc * a[2] /\ cb * a[2] = ca * b[2]
    BY <1>1, SMT
<1> HIDE DEF ab, ba, bc, cb, ac, ca
<1>5. ab * c[2] < ba * c[2]
    BY <1>1, <1>2, <1>3, Scaled
<1>6. bc * a[2] < cb * a[2]
    BY <1>1, <1>2, <1>3, Scaled
<1>7. ac * b[2] < ca * b[2]
  <2>1. /\ ab * c[2] \in Int /\ bc * a[2] \in Int /\ cb * a[2] \in Int
        /\ ac * b[2] \in Int /\ ca * b[2] \in Int /\ ba * c[2] \in Int
      BY <1>1, <1>3
  <2>. QED
      BY <1>4, <1>5, <1>6, <2>1
<1>8. ac < ca
    BY <1>1, <1>3, <1>7, Scaled
<1>. QED
    BY <1>8 DEF Less, ac, ca

LEMMA LessIsIrreflexive == ASSUME NEW a, Fraction(a) PROVE ~ Less(a, a)
<1>1. a[1] * a[2] \in Int
    BY DEF Fraction
<1>. QED
    BY <1>1 DEF Less

LEMMA LoadIsFraction == ASSUME MetricsTypeOK, NEW s \in Service PROVE Fraction(Load(s))
<1>1. cluster.ongoing[s] \in Int /\ cluster.first[s] \in Seq(Int) /\ cluster.total[s] \in Seq(Int)
    BY DEF MetricsTypeOK, ClusterRecord
<1>2. Fraction(Average(cluster.first[s])) /\ Fraction(Average(cluster.total[s]))
    BY <1>1, AverageIsFraction DEF Fraction
<1>3. Fraction(<<cluster.ongoing[s], 1>>)
    BY <1>1 DEF Fraction
<1>. QED
    BY <1>2, <1>3 DEF Load

\* Of those seen, c is the best: nobody is within its share, or c is and has the least load.
Best(c, seen) == \A o \in seen : ~ Crowded(o) => ~ Crowded(c) /\ ~ Less(Load(o), Load(c))

LEMMA BetterIsBest ==
    ASSUME MetricsTypeOK, NEW c \in Service, NEW s \in Service, NEW seen \in SUBSET Service, Best(c, seen),
           NEW d, d = Better(c, s)
    PROVE  d \in Service /\ Best(d, seen \cup {s})
<1>0. Fraction(Load(c)) /\ Fraction(Load(s)) /\ \A o \in seen : Fraction(Load(o))
    BY LoadIsFraction
<1>1. ~ Less(Load(s), Load(s)) /\ ~ Less(Load(c), Load(c))
    BY <1>0, LessIsIrreflexive
<1>2. CASE Crowded(c) /\ c # s
  <2>1. d = s
      BY <1>2 DEF Better
  <2>2. \A o \in seen : Crowded(o)
      BY <1>2 DEF Best
  <2>. QED
      BY <1>1, <2>1, <2>2 DEF Best
<1>3. CASE c # s /\ ~ Crowded(c) /\ Less(Load(s), Load(c)) /\ ~ Crowded(s)
  <2>1. d = s
      BY <1>3 DEF Better
  <2>2. ASSUME NEW o \in seen, ~ Crowded(o), Less(Load(o), Load(s)) PROVE FALSE
    <3>1. Less(Load(o), Load(c))
        BY <1>0, <1>3, <2>2, LessIsTransitive
    <3>. QED
        BY <2>2, <3>1 DEF Best
  <2>. QED
      BY <1>1, <1>3, <2>1, <2>2 DEF Best
<1>4. CASE c # s /\ ~ Crowded(c) /\ ~ (Less(Load(s), Load(c)) /\ ~ Crowded(s))
  <2>1. d = c
      BY <1>4 DEF Better
  <2>. QED
      BY <1>4, <2>1 DEF Best
<1>5. CASE c = s
  <2>1. d = c
      BY <1>5 DEF Better
  <2>. QED
      BY <1>1, <1>5, <2>1 DEF Best
<1>. QED
    BY <1>2, <1>3, <1>4, <1>5

\* Whatever the first candidate and the order, the loop ends with the best of all.
LEMMA LoopFindsBest ==
    ASSUME MetricsTypeOK, NEW first \in Service, NEW order \in SetToSeqs(Service),
           NEW s, s = FoldLeft(Better, first, order)
    PROVE  s \in Service /\ Best(s, Service)
<1> DEFINE n == Cardinality(Service)
<1>1. /\ IsFiniteSet(Service) /\ n \in Nat
      /\ order \in [1 .. n -> Service] /\ \A i, j \in 1 .. n : i # j => order[i] # order[j]
    BY MetricsAssumption, FS_CardinalityType DEF SetToSeqs
<1> HIDE DEF n
<1>2. \A o \in Service : \E i \in 1 .. n : order[i] = o
  <2>1. order \in Injection(1 .. n, Service)
      BY <1>1 DEF Injection, IsInjective
  <2>2. Cardinality(1 .. n) = n
      BY <1>1, FS_Interval
  <2>3. order \in Surjection(1 .. n, Service)
      BY <1>1, <2>1, <2>2, FS_Injection DEF n
  <2>. QED
      BY <2>3 DEF Surjection
<1>3. PICK it : Folding("better", first, order, n, it) /\ s = it[1 .. n]
    BY <1>1, BetterIsFolding
<1>4. it[1 .. 0] = first /\ \A i \in Nat : i + 1 <= n => it[1 .. i + 1] = Combined("better", it[1 .. i], order[i + 1])
  <2>1. OneByOne("better", first, order, n, it)
      BY <1>1, <1>3, FoldingStep
  <2>. QED
      BY <2>1 DEF OneByOne
<1> DEFINE Seen(i) == {order[j] : j \in 1 .. i}
           S == {i \in Nat : i <= n => it[1 .. i] \in Service /\ Best(it[1 .. i], Seen(i))}
<1>5. 0 \in S
    BY <1>4 DEF Best
<1>6. ASSUME NEW i \in Nat, i \in S PROVE i + 1 \in S
  <2> SUFFICES ASSUME i + 1 <= n PROVE it[1 .. i + 1] \in Service /\ Best(it[1 .. i + 1], Seen(i + 1))
      OBVIOUS
  <2>1. it[1 .. i] \in Service /\ Best(it[1 .. i], Seen(i))
      BY <1>1, <1>6
  <2>2. it[1 .. i + 1] = Better(it[1 .. i], order[i + 1])
      BY <1>4 DEF Combined
  <2>3. order[i + 1] \in Service /\ Seen(i) \in SUBSET Service
      BY <1>1
  <2>4. Seen(i + 1) = Seen(i) \cup {order[i + 1]}
    <3>1. 1 .. i + 1 = (1 .. i) \cup {i + 1}
        OBVIOUS
    <3>. QED
        BY <3>1
  <2> HIDE DEF Seen
  <2>. QED
      BY <2>1, <2>2, <2>3, <2>4, BetterIsBest
<1> HIDE DEF S
<1>7. n \in S
    BY <1>1, <1>5, <1>6, ByInduction
<1>8. s \in Service /\ Best(s, Seen(n))
    BY <1>1, <1>3, <1>7 DEF S
<1>9. Service \subseteq Seen(n)
    BY <1>2
<1>. QED
    BY <1>8, <1>9 DEF Best

\* The number that is recorded for a request.
LEMMA PunishedIsInt ==
    ASSUME NEW q \in [Service -> Seq(Int)], NEW duration \in Nat
    PROVE  Punished(duration, q) \in Int
<1> DEFINE g == [s \in Service |-> (2 * Average(q[s])[1]) \div Average(q[s])[2]]
           T == {g[s] : s \in Service}
           U == {2 * duration} \cup T
<1>1. \A s \in Service : g[s] \in Int
  <2> SUFFICES ASSUME NEW s \in Service PROVE g[s] \in Int
      OBVIOUS
  <2> DEFINE a == 2 * Average(q[s])[1]
             b == Average(q[s])[2]
  <2>1. a \in Int /\ b \in Nat \ {0}
      BY AverageIsFraction
  <2>2. g[s] = a \div b
      OBVIOUS
  <2> HIDE DEF a, b, g
  <2>. QED
      BY <2>1, <2>2
<1>2. Punished(duration, q) = Max(U)
    BY DEF Punished
<1>3. g \in Surjection(Service, T)
    BY DEF Surjection
<1> HIDE DEF g
<1>4. IsFiniteSet(T)
    BY <1>3, MetricsAssumption, FS_Surjection
<1>5. T \in SUBSET Int
    BY <1>1
<1> HIDE DEF T
<1>6. IsFiniteSet(U)
  <2>1. IsFiniteSet(T \cup {2 * duration})
      BY <1>4, FS_AddElement
  <2>2. U = T \cup {2 * duration}
      OBVIOUS
  <2>. QED
      BY <2>1, <2>2
<1>7. U \in SUBSET Int /\ U # {}
    BY <1>5
<1> HIDE DEF U
<1>8. Max(U) \in U
    BY <1>6, <1>7, LargestExists
<1>. QED
    BY <1>2, <1>7, <1>8

LEMMA RecordedIsTyped ==
    ASSUME NEW v, visit[v].service \in Service, NEW q \in [Service -> Seq(Int)], NEW duration \in Nat
    PROVE  Recorded(v, duration, q) \in [Service -> Seq(Int)]
<1> DEFINE s == visit[v].service
           x == IF visit[v].failed THEN Punished(duration, q) ELSE duration
           more == Enqueued(q[s], QueueSize, x)
<1>1. x \in Int
    BY PunishedIsInt
<1>2. q[s] \in Seq(Int)
    OBVIOUS
<1>3. Recorded(v, duration, q) = [q EXCEPT ![s] = more]
    BY DEF Recorded
<1> HIDE DEF x, s
<1>4. more \in Seq(Int)
  <2>1. QueueSize \in 1 .. 2
      BY MetricsAssumption
  <2>2. CASE Len(q[s]) = QueueSize
    <3>1. q[s] # <<>>
        BY <1>2, <2>1, <2>2, EmptySeq
    <3>2. Tail(q[s]) \in Seq(Int)
        BY <1>2, <3>1
    <3>. QED
        BY <1>1, <2>2, <3>2 DEF Enqueued
  <2>3. CASE Len(q[s]) # QueueSize
      BY <1>1, <1>2, <2>3 DEF Enqueued
  <2>. QED
      BY <2>2, <2>3
<1> HIDE DEF more
<1>. QED
    BY <1>3, <1>4

LEMMA MetricsStart == MetricsInit => MetricsInv
<1> SUFFICES ASSUME MetricsInit PROVE MetricsInv
    OBVIOUS
<1>1. MetricsTypeOK
    BY DEF MetricsInit, MetricsTypeOK, ClusterRecord, VisitRecord, Serving
<1>2. \A s \in Service : InProgress(s) = {} /\ cluster.ongoing[s] = 0
    BY DEF MetricsInit, InProgress
<1>. QED
    BY <1>1, <1>2, FS_EmptySet DEF MetricsInv, OngoingOK

\* A request that is sent to a service, and one that ends there.
LEMMA Sent ==
    ASSUME OngoingOK, MetricsTypeOK, NEW v \in Visit, visit[v].at \notin Serving, NEW s \in Service,
           \A w \in Visit \ {v} : visit'[w] = visit[w],
           visit'[v].at \in Serving, visit'[v].service = s,
           cluster'.ongoing = [cluster.ongoing EXCEPT ![s] = @ + 1]
    PROVE  OngoingOK'
<1> SUFFICES ASSUME NEW o \in Service
             PROVE  IsFiniteSet(InProgress(o)') /\ cluster'.ongoing[o] = Cardinality(InProgress(o)')
    BY DEF OngoingOK
<1>0. cluster.ongoing \in [Service -> Int]
    BY DEF MetricsTypeOK, ClusterRecord
<1>1. /\ IsFiniteSet(InProgress(o)) /\ cluster.ongoing[o] = Cardinality(InProgress(o))
      /\ v \notin InProgress(o)
    BY DEF OngoingOK, InProgress, Serving
<1>2. CASE o = s
  <2>1. InProgress(o)' = InProgress(o) \cup {v}
      BY <1>2 DEF InProgress, Serving
  <2>2. cluster'.ongoing[o] = cluster.ongoing[o] + 1
      BY <1>0, <1>2
  <2>3. IsFiniteSet(InProgress(o) \cup {v}) /\ Cardinality(InProgress(o) \cup {v}) = Cardinality(InProgress(o)) + 1
      BY <1>1, FS_AddElement
  <2>. QED
      BY <1>1, <2>1, <2>2, <2>3
<1>3. CASE o # s
  <2>1. InProgress(o)' = InProgress(o)
      BY <1>3 DEF InProgress, Serving
  <2>2. cluster'.ongoing[o] = cluster.ongoing[o]
      BY <1>0, <1>3
  <2>. QED
      BY <1>1, <2>1, <2>2
<1>. QED
    BY <1>2, <1>3

LEMMA Over ==
    ASSUME OngoingOK, MetricsTypeOK, NEW v \in Visit, visit[v].at \in Serving, NEW s, s = visit[v].service,
           \A w \in Visit \ {v} : visit'[w] = visit[w],
           visit'[v].at \notin Serving,
           cluster'.ongoing = [cluster.ongoing EXCEPT ![s] = @ - 1]
    PROVE  OngoingOK'
<1> SUFFICES ASSUME NEW o \in Service
             PROVE  IsFiniteSet(InProgress(o)') /\ cluster'.ongoing[o] = Cardinality(InProgress(o)')
    BY DEF OngoingOK
<1>0. cluster.ongoing \in [Service -> Int]
    BY DEF MetricsTypeOK, ClusterRecord
<1>1. IsFiniteSet(InProgress(o)) /\ cluster.ongoing[o] = Cardinality(InProgress(o))
    BY DEF OngoingOK
<1>2. CASE o = s
  <2>1. InProgress(o)' = InProgress(o) \ {v} /\ v \in InProgress(o)
      BY <1>2 DEF InProgress, Serving
  <2>2. cluster'.ongoing[o] = cluster.ongoing[o] - 1
      BY <1>0, <1>2
  <2>3. IsFiniteSet(InProgress(o) \ {v}) /\ Cardinality(InProgress(o) \ {v}) = Cardinality(InProgress(o)) - 1
      BY <1>1, <2>1, FS_RemoveElement
  <2>. QED
      BY <1>1, <2>1, <2>2, <2>3
<1>3. CASE o # s
  <2>1. InProgress(o)' = InProgress(o)
      BY <1>3 DEF InProgress, Serving
  <2>2. cluster'.ongoing[o] = cluster.ongoing[o]
      BY <1>0, <1>3
  <2>. QED
      BY <1>1, <2>1, <2>2
<1>. QED
    BY <1>2, <1>3

\* A request that goes on counts as before.
LEMMA Continues ==
    ASSUME OngoingOK, NEW v \in Visit,
           \A w \in Visit \ {v} : visit'[w] = visit[w],
           visit'[v].service = visit[v].service, visit[v].at \in Serving, visit'[v].at \in Serving,
           cluster'.ongoing = cluster.ongoing
    PROVE  OngoingOK'
<1>1. \A o \in Service : InProgress(o)' = InProgress(o)
    BY DEF InProgress, Serving
<1>. QED
    BY <1>1 DEF OngoingOK

LEMMA VisitFields ==
    ASSUME MetricsTypeOK, NEW v \in Visit
    PROVE  /\ visit[v] \in VisitRecord
           /\ \A x : visit' = [visit EXCEPT ![v] = x] => visit'[v] = x /\ \A w \in Visit \ {v} : visit'[w] = visit[w]
    BY DEF MetricsTypeOK

\* Each request is sent to a service, and never to one that has its share while another has not
\* or that has more to do.
LEMMA RequestKeeps ==
    ASSUME MetricsInv, NEW v \in Visit, ClusterRequest(v)
    PROVE  /\ MetricsInv'
           /\ visit'[v].service \in Service /\ Best(visit'[v].service, Service)
           /\ \A w \in Visit \ {v} : visit'[w] = visit[w]
<1>1. MetricsTypeOK /\ OngoingOK
    BY DEF MetricsInv
<1>2. PICK first \in Service, order \in SetToSeqs(Service) :
        LET s == FoldLeft(Better, first, order)
        IN  /\ visit' = [visit EXCEPT ![v].at = "upstream", ![v].service = s]
            /\ cluster' = [cluster EXCEPT !.ongoing[s] = @ + 1, !.all[s] = @ + 1]
    BY DEF ClusterRequest
<1> DEFINE s == FoldLeft(Better, first, order)
           x == [visit[v] EXCEPT !.at = "upstream", !.service = s]
<1>3. s \in Service /\ Best(s, Service)
    BY <1>1, LoopFindsBest
<1>4. visit' = [visit EXCEPT ![v].at = "upstream", ![v].service = s]
      /\ cluster' = [cluster EXCEPT !.ongoing[s] = @ + 1, !.all[s] = @ + 1]
    BY <1>2
<1> HIDE DEF s
<1>5. visit[v] \in VisitRecord /\ visit[v].at = "new" /\ visit \in [Visit -> VisitRecord] /\ recent' = recent
    BY <1>1 DEF MetricsTypeOK, ClusterRequest
<1>6. visit' = [visit EXCEPT ![v] = x]
    BY <1>4, <1>5
<1>7. x \in VisitRecord /\ x.at = "upstream" /\ x.service = s
    BY <1>3, <1>5 DEF VisitRecord, Serving
<1> HIDE DEF x
<1>8. visit' \in [Visit -> VisitRecord] /\ visit'[v] = x /\ \A w \in Visit \ {v} : visit'[w] = visit[w]
    BY <1>5, <1>6, <1>7
<1>9. cluster' \in ClusterRecord /\ cluster'.ongoing = [cluster.ongoing EXCEPT ![s] = @ + 1]
  <2> DEFINE y == [cluster.ongoing EXCEPT ![s] = @ + 1]
             z == [cluster.all EXCEPT ![s] = @ + 1]
  <2>1. cluster \in ClusterRecord
      BY <1>1 DEF MetricsTypeOK
  <2>2. y \in [Service -> Int] /\ z \in [Service -> Int]
      BY <1>3, <2>1 DEF ClusterRecord
  <2>3. cluster' = [cluster EXCEPT !.ongoing = y, !.all = z]
      BY <1>4
  <2> HIDE DEF y, z
  <2>4. cluster' \in ClusterRecord /\ cluster'.ongoing = y
      BY <2>1, <2>2, <2>3 DEF ClusterRecord
  <2>. QED
      BY <2>4 DEF y
<1>10. OngoingOK'
    BY <1>1, <1>3, <1>5, <1>7, <1>8, <1>9, Sent DEF Serving
<1>11. MetricsTypeOK'
    BY <1>1, <1>3, <1>5, <1>7, <1>8, <1>9 DEF MetricsTypeOK
<1>. QED
    BY <1>3, <1>7, <1>8, <1>10, <1>11 DEF MetricsInv

LEMMA ResponseKeeps ==
    ASSUME MetricsInv, NEW v \in Visit, ClusterResponse(v)
    PROVE  MetricsInv' /\ visit'[v].at # "upstream" /\ \A w \in Visit \ {v} : visit'[w] = visit[w]
<1>1. MetricsTypeOK /\ OngoingOK
    BY DEF MetricsInv
<1>2. PICK failed \in BOOLEAN : visit' = [visit EXCEPT ![v].at = "answering", ![v].failed = failed]
    BY DEF ClusterResponse
<1> DEFINE x == [visit[v] EXCEPT !.at = "answering", !.failed = failed]
<1>3. /\ visit[v] \in VisitRecord /\ visit[v].at = "upstream" /\ visit \in [Visit -> VisitRecord]
      /\ recent' = recent /\ cluster' = cluster
    BY <1>1 DEF MetricsTypeOK, ClusterResponse
<1>4. visit' = [visit EXCEPT ![v] = x]
    BY <1>2, <1>3
<1>5. x \in VisitRecord /\ x.at = "answering" /\ x.service = visit[v].service
    BY <1>3 DEF VisitRecord, Serving
<1> HIDE DEF x
<1>6. visit' \in [Visit -> VisitRecord] /\ visit'[v] = x /\ \A w \in Visit \ {v} : visit'[w] = visit[w]
    BY <1>3, <1>4, <1>5
<1>7. OngoingOK'
    BY <1>1, <1>3, <1>5, <1>6, Continues DEF Serving
<1>8. visit[v].service \in Service
    BY <1>1, <1>3 DEF MetricsTypeOK, Serving
<1>9. MetricsTypeOK'
    BY <1>1, <1>3, <1>5, <1>6, <1>8 DEF MetricsTypeOK
<1>. QED
    BY <1>5, <1>6, <1>7, <1>9 DEF MetricsInv

LEMMA FirstPieceKeeps ==
    ASSUME MetricsInv, NEW v \in Visit, ClusterFirstPiece(v)
    PROVE  MetricsInv' /\ visit'[v].at # "upstream" /\ \A w \in Visit \ {v} : visit'[w] = visit[w]
<1>1. MetricsTypeOK /\ OngoingOK
    BY DEF MetricsInv
<1>2. PICK duration \in Duration : cluster' = [cluster EXCEPT !.first = Recorded(v, duration, @)]
    BY DEF ClusterFirstPiece
<1> DEFINE x == [visit[v] EXCEPT !.recorded = TRUE]
<1>3. /\ visit[v] \in VisitRecord /\ visit[v].at = "answering" /\ visit \in [Visit -> VisitRecord]
      /\ recent' = recent /\ visit' = [visit EXCEPT ![v] = x]
    BY <1>1 DEF MetricsTypeOK, ClusterFirstPiece
<1>4. x \in VisitRecord /\ x.at = "answering" /\ x.service = visit[v].service
    BY <1>3 DEF VisitRecord, Serving
<1> HIDE DEF x
<1>5. visit' \in [Visit -> VisitRecord] /\ visit'[v] = x /\ \A w \in Visit \ {v} : visit'[w] = visit[w]
    BY <1>3, <1>4
<1>6. visit[v].service \in Service
    BY <1>1, <1>3 DEF MetricsTypeOK, Serving
<1>7. cluster' \in ClusterRecord /\ cluster'.ongoing = cluster.ongoing
  <2> DEFINE y == Recorded(v, duration, cluster.first)
  <2>1. cluster \in ClusterRecord
      BY <1>1 DEF MetricsTypeOK
  <2>2. y \in [Service -> Seq(Int)]
    <3>1. cluster.first \in [Service -> Seq(Int)] /\ duration \in Nat
        BY <2>1, MetricsAssumption DEF ClusterRecord
    <3>. QED
        BY <1>6, <3>1, RecordedIsTyped
  <2>3. cluster' = [cluster EXCEPT !.first = y]
      BY <1>2
  <2> HIDE DEF y
  <2>. QED
      BY <2>1, <2>2, <2>3 DEF ClusterRecord
<1>8. OngoingOK'
    BY <1>1, <1>3, <1>4, <1>5, <1>7, Continues DEF Serving
<1>9. MetricsTypeOK'
    BY <1>1, <1>3, <1>4, <1>5, <1>6, <1>7 DEF MetricsTypeOK
<1>. QED
    BY <1>4, <1>5, <1>8, <1>9 DEF MetricsInv

LEMMA DoneKeeps ==
    ASSUME MetricsInv, NEW v \in Visit, ClusterDone(v)
    PROVE  MetricsInv' /\ visit'[v].at # "upstream" /\ \A w \in Visit \ {v} : visit'[w] = visit[w]
<1>1. MetricsTypeOK /\ OngoingOK
    BY DEF MetricsInv
<1> DEFINE s == visit[v].service
           x == [visit[v] EXCEPT !.at = "over"]
<1>2. PICK duration \in Duration :
        cluster' = [cluster EXCEPT !.ongoing[s] = @ - 1,
                                   !.total = IF visit[v].at = "answering" THEN Recorded(v, duration, @) ELSE @]
    BY DEF ClusterDone
<1>3. /\ visit[v] \in VisitRecord /\ visit[v].at \in Serving /\ visit \in [Visit -> VisitRecord]
      /\ recent' = recent /\ visit' = [visit EXCEPT ![v] = x]
    BY <1>1 DEF MetricsTypeOK, ClusterDone, Serving
<1>4. x \in VisitRecord /\ x.at = "over"
    BY <1>3 DEF VisitRecord, Serving
<1> HIDE DEF x
<1>5. visit' \in [Visit -> VisitRecord] /\ visit'[v] = x /\ \A w \in Visit \ {v} : visit'[w] = visit[w]
    BY <1>3, <1>4
<1>6. s \in Service
    BY <1>1, <1>3 DEF MetricsTypeOK
<1>7. cluster' \in ClusterRecord /\ cluster'.ongoing = [cluster.ongoing EXCEPT ![s] = @ - 1]
  <2> DEFINE y == [cluster.ongoing EXCEPT ![s] = @ - 1]
             z == IF visit[v].at = "answering" THEN Recorded(v, duration, cluster.total) ELSE cluster.total
  <2>1. cluster \in ClusterRecord
      BY <1>1 DEF MetricsTypeOK
  <2>2. z \in [Service -> Seq(Int)]
    <3>1. cluster.total \in [Service -> Seq(Int)] /\ duration \in Nat
        BY <2>1, MetricsAssumption DEF ClusterRecord
    <3>2. Recorded(v, duration, cluster.total) \in [Service -> Seq(Int)]
        BY <1>6, <3>1, RecordedIsTyped
    <3>. QED
        BY <3>1, <3>2
  <2>3. y \in [Service -> Int]
      BY <1>6, <2>1 DEF ClusterRecord
  <2>4. cluster' = [cluster EXCEPT !.ongoing = y, !.total = z]
      BY <1>2
  <2> HIDE DEF y, z
  <2>5. cluster' \in ClusterRecord /\ cluster'.ongoing = y
      BY <2>1, <2>2, <2>3, <2>4 DEF ClusterRecord
  <2>. QED
      BY <2>5 DEF y
<1>8. OngoingOK'
  <2>1. visit'[v].at \notin Serving
      BY <1>4, <1>5 DEF Serving
  <2> HIDE DEF s
  <2>2. s = visit[v].service
      BY DEF s
  <2>. QED
      BY <1>1, <1>3, <1>5, <1>7, <2>1, <2>2, Over
<1>9. MetricsTypeOK'
    BY <1>1, <1>3, <1>4, <1>5, <1>7 DEF MetricsTypeOK, Serving
<1>. QED
    BY <1>4, <1>5, <1>8, <1>9 DEF MetricsInv

-----------------------------------------------------------------------------
(* The pod with the adapter, within its share *)

LEMMA FiltersKeepSome ==
    ASSUME NEW found, NEW S
    PROVE  LeastQueuing(found, S) \subseteq S /\ LeastCache(found, S) \subseteq S
    BY DEF LeastQueuing, LeastCache, Lowest

\* What a choice among the pods may be.
LEMMA ScheduledAre ==
    ASSUME NEW found, NEW model, NEW p \in Scheduled(found, model),
           NEW low, low = {q \in DOMAIN found : found[q].waiting < Threshold}
    PROVE  /\ p \in DOMAIN found
           /\ setting.policy = "default" =>
                /\ low # {} => p \in low
                /\ Active(found, low, model) # {} => p \in Active(found, low, model)
                /\ Active(found, low, model) = {} /\ Room(found, low) # {} => p \in Room(found, low)
<1> DEFINE pods == DOMAIN found
<1>1. Active(found, low, model) \subseteq low /\ Room(found, low) \subseteq low /\ low \subseteq pods
    BY DEF Active, Room
<1>2. ShortQueues(found, low, model) \subseteq Unless(Active(found, low, model), Unless(Room(found, low), low))
    BY FiltersKeepSome DEF ShortQueues
<1>3. LongQueues(found, pods, model) \subseteq pods
  <2> DEFINE queued == LeastQueuing(found, pods)
             cheap == Active(found, queued, model) \cup Room(found, queued)
  <2>1. queued \subseteq pods
      BY FiltersKeepSome
  <2>2. Unless(cheap, queued) \subseteq queued
      BY DEF Unless, Active, Room
  <2>3. LongQueues(found, pods, model) = LeastCache(found, Unless(cheap, queued))
      BY DEF LongQueues
  <2> HIDE DEF queued, cheap
  <2>4. LeastCache(found, Unless(cheap, queued)) \subseteq Unless(cheap, queued)
      BY FiltersKeepSome
  <2>. QED
      BY <2>1, <2>2, <2>3, <2>4
<1>4. LeastQueuing(found, pods) \subseteq pods
    BY FiltersKeepSome
<1>5. Highest(pods, LAMBDA q : found[q].waiting) \subseteq pods
    BY DEF Highest, Lowest
<1>6. CASE setting.policy = "least"
  <2>1. p \in LeastQueuing(found, pods)
      BY <1>6 DEF Scheduled
  <2>. QED
      BY <1>4, <1>6, <2>1
<1>7. CASE setting.policy = "most"
  <2>1. p \in Highest(pods, LAMBDA q : found[q].waiting)
      BY <1>7 DEF Scheduled
  <2>. QED
      BY <1>5, <1>7, <2>1
<1>8. CASE setting.policy = "default" /\ low # {}
  <2>1. p \in ShortQueues(found, low, model)
      BY <1>8 DEF Scheduled
  <2>2. p \in Unless(Active(found, low, model), Unless(Room(found, low), low))
      BY <1>2, <2>1
  <2>. QED
      BY <1>1, <1>8, <2>2 DEF Unless
<1>9. CASE setting.policy \notin {"least", "most"} /\ ~ (setting.policy = "default" /\ low # {})
  <2>1. p \in LongQueues(found, pods, model)
      BY <1>9 DEF Scheduled
  <2>. QED
      BY <1>1, <1>3, <1>9, <2>1
<1>. QED
    BY <1>6, <1>7, <1>8, <1>9

\* Two pods cannot both have a share of half or more and be over it.
LEMMA OneHasShare ==
    ASSUME MetricsTypeOK, 2 * RateLimit[1] >= RateLimit[2], NEW p, NEW q, HasShare(p), HasShare(q)
    PROVE  p = q
<1> SUFFICES ASSUME p # q PROVE FALSE
    OBVIOUS
<1> DEFINE n == Len(recent)
           P == {i \in DOMAIN recent : recent[i] = p}
           Q == {i \in DOMAIN recent : recent[i] = q}
           a == Cardinality(P)
           b == Cardinality(Q)
           x == RateLimit[1]
           y == RateLimit[2]
<1>1. n \in Nat /\ DOMAIN recent = 1 .. n /\ recent # <<>>
    BY DEF MetricsTypeOK, HasShare
<1>2. IsFiniteSet(1 .. n) /\ Cardinality(1 .. n) = n
    BY <1>1, FS_Interval
<1>3. P \subseteq 1 .. n /\ Q \subseteq 1 .. n /\ P \cap Q = {}
    BY <1>1
<1>4. x \in Nat \ {0} /\ y \in Nat \ {0} /\ 2 * x >= y
    BY MetricsAssumption
<1>5. a * y > x * n /\ b * y > x * n
    BY DEF HasShare, Share
<1> HIDE DEF n, P, Q, x, y
<1>6. IsFiniteSet(P) /\ IsFiniteSet(Q) /\ a \in Nat /\ b \in Nat
    BY <1>2, <1>3, FS_Subset, FS_CardinalityType
<1>7. a + b <= n
  <2>1. Cardinality(P \cup Q) = a + b - Cardinality(P \cap Q)
      BY <1>6, FS_Union
  <2>2. Cardinality(P \cup Q) <= n
    <3>1. P \cup Q \in SUBSET (1 .. n)
        BY <1>3
    <3>. QED
        BY <1>2, <3>1, FS_Subset
  <2>3. Cardinality(P \cap Q) = 0
      BY <1>3, FS_EmptySet
  <2>. QED
      BY <1>1, <1>6, <2>1, <2>2, <2>3
<1> HIDE DEF a, b
<1>8. (a + b) * y > 2 * x * n
  <2>1. a * y \in Int /\ b * y \in Int /\ x * n \in Int
      BY <1>1, <1>4, <1>6
  <2>2. (a + b) * y = a * y + b * y /\ 2 * x * n = x * n + x * n
      BY <1>1, <1>4, <1>6, SMT
  <2>. QED
      BY <1>5, <2>1, <2>2
<1>9. (a + b) * y <= n * y
    BY <1>1, <1>4, <1>6, <1>7, Scaled
<1>10. n * y <= 2 * x * n
  <2>1. n \in Nat \ {0}
      BY <1>1, EmptySeq DEF MetricsTypeOK, n
  <2>2. y * n <= (2 * x) * n
    <3>1. y \in Int /\ 2 * x \in Int /\ y <= 2 * x
        BY <1>4
    <3>. QED
        BY <2>1, <3>1, Scaled
  <2>3. y * n = n * y /\ (2 * x) * n = 2 * x * n
      BY <1>1, <1>4, SMT
  <2>. QED
      BY <2>2, <2>3
<1>11. (a + b) * y \in Int /\ n * y \in Int /\ 2 * x * n \in Int
    BY <1>1, <1>4, <1>6
<1>. QED
    BY <1>8, <1>9, <1>10, <1>11

\* Each choice of a pod keeps the requests as they are and is one of those scheduled, or another
\* if that has its share.
LEMMA ChoiceIsAffine ==
    ASSUME MetricsInv, NEW pods \in (SUBSET Pod) \ {{}}, NEW model \in Model, NEW found \in [pods -> Metrics],
           EndpointRequest(found, model)
    PROVE  MetricsInv' /\ AffinePod
<1>1. MetricsTypeOK /\ OngoingOK
    BY DEF MetricsInv
<1>2. DOMAIN found = pods /\ UNCHANGED <<setting, cluster, visit>>
    BY DEF EndpointRequest
<1>3. PICK p \in Scheduled(found, model) :
        \E final \in IF HasShare(p) /\ pods \ {p} # {} THEN pods \ {p} ELSE {p} :
            /\ chosen' = [found |-> found, model |-> model, pod |-> final]
            /\ recent' = Enqueued(recent, Remembers, final)
    BY <1>2 DEF EndpointRequest
<1>4. PICK final \in IF HasShare(p) /\ pods \ {p} # {} THEN pods \ {p} ELSE {p} :
            /\ chosen' = [found |-> found, model |-> model, pod |-> final]
            /\ recent' = Enqueued(recent, Remembers, final)
    BY <1>3
<1> DEFINE low == {q \in DOMAIN found : found[q].waiting < Threshold}
<1>5. /\ p \in pods
      /\ setting.policy = "default" =>
           /\ low # {} => p \in low
           /\ Active(found, low, model) # {} => p \in Active(found, low, model)
           /\ Active(found, low, model) = {} /\ Room(found, low) # {} => p \in Room(found, low)
    BY <1>2, <1>3, ScheduledAre
<1>6. final \in pods /\ chosen'.found = found /\ chosen'.model = model /\ chosen'.pod = final
    BY <1>4, <1>5
<1>7. ~ HasShare(p) => final = p
    BY <1>4
<1>8. ASSUME 2 * RateLimit[1] >= RateLimit[2], HasShare(final) PROVE pods = {final}
  <2>1. HasShare(p)
      BY <1>7, <1>8
  <2>2. final = p
      BY <1>1, <1>8, <2>1, OneHasShare
  <2>3. pods \ {p} = {}
      BY <1>4, <2>1, <2>2
  <2>. QED
      BY <1>5, <2>2, <2>3
<1> HIDE DEF low
<1>9. AffinePod
  <2>1. setting.policy = "default" /\ (\A q \in pods : ~ HasShare(q)) =>
          /\ low # {} => final \in low
          /\ Active(found, low, model) # {} => final \in Active(found, low, model)
          /\ Active(found, low, model) = {} /\ Room(found, low) # {} => final \in Room(found, low)
      BY <1>5, <1>7
  <2>2. low = {q \in DOMAIN found : found[q].waiting < Threshold}
      BY DEF low
  <2>. QED
      BY <1>2, <1>6, <1>8, <2>1, <2>2 DEF AffinePod
<1>10. recent' \in Seq(Pod)
  <2>1. recent \in Seq(Pod) /\ final \in Pod /\ Remembers \in Nat \ {0}
      BY <1>1, <1>6, MetricsAssumption DEF MetricsTypeOK
  <2>2. CASE Len(recent) = Remembers
    <3>1. recent # <<>>
        BY <2>1, <2>2, EmptySeq
    <3>2. Tail(recent) \in Seq(Pod)
        BY <2>1, <3>1
    <3>. QED
        BY <1>4, <2>1, <2>2, <3>2 DEF Enqueued
  <2>3. CASE Len(recent) # Remembers
      BY <1>4, <2>1, <2>3 DEF Enqueued
  <2>. QED
      BY <2>2, <2>3
<1>11. OngoingOK'
    BY <1>1, <1>2 DEF OngoingOK, InProgress
<1>12. MetricsTypeOK'
    BY <1>1, <1>2, <1>10 DEF MetricsTypeOK
<1>. QED
    BY <1>9, <1>11, <1>12 DEF MetricsInv

\* A step of a request is about one request, and sends it nowhere or to the best service.
LEMMA ClusterKeeps ==
    ASSUME MetricsInv, ClusterNext
    PROVE  MetricsInv' /\ LeastLoadedService /\ AffinePod
<1>1. PICK v \in Visit : ClusterRequest(v) \/ ClusterResponse(v) \/ ClusterFirstPiece(v) \/ ClusterDone(v)
    BY DEF ClusterNext
<1>2. AffinePod
  <2>1. chosen' = chosen
      BY <1>1 DEF ClusterRequest, ClusterResponse, ClusterFirstPiece, ClusterDone
  <2>. QED
      BY <2>1 DEF AffinePod
<1>3. CASE ClusterRequest(v)
  <2> DEFINE s == visit'[v].service
  <2>1. MetricsInv' /\ s \in Service /\ Best(s, Service) /\ \A w \in Visit \ {v} : visit'[w] = visit[w]
      BY <1>3, RequestKeeps
  <2>2. ASSUME NEW o \in Service, ~ Crowded(o)
        PROVE  ~ Crowded(s) /\ ~ Less(Load(o), Load(s))
      BY <2>1, <2>2 DEF Best
  <2> HIDE DEF s
  <2>3. {o \in Service : ~ Crowded(o)} # {} =>
          /\ s \in {o \in Service : ~ Crowded(o)}
          /\ \A o \in {i \in Service : ~ Crowded(i)} : ~ Less(Load(o), Load(s))
      BY <2>1, <2>2
  <2>4. ASSUME NEW w \in Visit, visit[w].at = "new", visit'[w].at = "upstream"
        PROVE  w = v
      BY <2>1, <2>4
  <2>5. s = visit'[v].service
      BY DEF s
  <2>6. LeastLoadedService
      BY <2>3, <2>4, <2>5 DEF LeastLoadedService
  <2>. QED
      BY <1>2, <2>1, <2>6
<1>4. CASE ClusterResponse(v) \/ ClusterFirstPiece(v) \/ ClusterDone(v)
  <2>1. MetricsInv' /\ visit'[v].at # "upstream" /\ \A w \in Visit \ {v} : visit'[w] = visit[w]
      BY <1>4, ResponseKeeps, FirstPieceKeeps, DoneKeeps
  <2>2. \A w \in Visit : ~ (visit[w].at = "new" /\ visit'[w].at = "upstream")
      BY <2>1
  <2>3. LeastLoadedService
      BY <2>2 DEF LeastLoadedService
  <2>. QED
      BY <1>2, <2>1, <2>3
<1>. QED
    BY <1>1, <1>3, <1>4

LEMMA MetricsKeep ==
    ASSUME MetricsInv, [ClusterNext \/ EndpointNext]_metricsVars
    PROVE  MetricsInv' /\ (metricsVars' = metricsVars \/ (LeastLoadedService /\ AffinePod))
<1>1. CASE ClusterNext
    BY <1>1, ClusterKeeps
<1>2. CASE EndpointNext
  <2>1. PICK pods \in (SUBSET Pod) \ {{}}, model \in Model : \E found \in [pods -> Metrics] : EndpointRequest(found, model)
      BY <1>2 DEF EndpointNext
  <2>2. PICK found \in [pods -> Metrics] : EndpointRequest(found, model)
      BY <2>1
  <2>3. MetricsInv' /\ AffinePod
      BY <2>1, <2>2, ChoiceIsAffine
  <2>4. visit' = visit
      BY <2>2 DEF EndpointRequest
  <2>5. LeastLoadedService
      BY <2>4 DEF LeastLoadedService
  <2>. QED
      BY <2>3, <2>5
<1>3. CASE UNCHANGED metricsVars
  <2>1. UNCHANGED <<cluster, visit, recent>>
      BY <1>3 DEF metricsVars
  <2>2. MetricsTypeOK'
      BY <2>1 DEF MetricsInv, MetricsTypeOK
  <2>3. \A o \in Service : InProgress(o)' = InProgress(o)
      BY <2>1 DEF InProgress
  <2>4. OngoingOK'
      BY <2>1, <2>3 DEF MetricsInv, OngoingOK
  <2>. QED
      BY <1>3, <2>2, <2>4 DEF MetricsInv
<1>. QED
    BY <1>1, <1>2, <1>3

\* Whichever policy is configured, these two do what they do by themselves, or nothing.
LEMMA BalancersDoMetrics == BalancersSpec => MetricsSpec
<1>1. BalancersInit => MetricsInit
    BY DEF BalancersInit
<1>2. [BalancersNext]_balancerVars => [ClusterNext \/ EndpointNext]_metricsVars
    BY DEF BalancersNext, balancerVars
<1>. QED
    BY <1>1, <1>2, PTL DEF BalancersSpec, MetricsSpec

\* Whichever candidate was drawn first and in whatever order a map was walked, cluster_metrics
\* sends a request to the service with the least load within its share, whose count is the number
\* of its requests, and endpoint_metrics chooses a pod that serves the adapter, within its share
\* (cluster_metrics/lb_policy.go:103-153, endpoint_metrics/lb_policy.go), for any services, pods,
\* requests, metrics and limits.
THEOREM LeastIsAlwaysChosen == BalancersSpec => LeastIsChosen
<1>1. MetricsInit => MetricsInv
    BY MetricsStart
<1>2. MetricsInv /\ [ClusterNext \/ EndpointNext]_metricsVars => MetricsInv'
    BY MetricsKeep
<1>3. MetricsInv /\ [ClusterNext \/ EndpointNext]_metricsVars => [LeastLoadedService /\ AffinePod]_metricsVars
    BY MetricsKeep
<1>4. MetricsInv => \A s \in Service : cluster.ongoing[s] = Cardinality(InProgress(s))
    BY DEF MetricsInv, OngoingOK
<1>5. MetricsSpec => LeastIsChosen
    BY <1>1, <1>2, <1>3, <1>4, PTL DEF MetricsSpec, LeastIsChosen
<1>. QED
    BY <1>5, BalancersDoMetrics
=============================================================================
