------------------------- MODULE ServiceCacheProofs -------------------------
(***************************************************************************)
(* Proofs about the service cache, for every set of services, proxies and  *)
(* contents.  The lemmas on the single methods are used again where the    *)
(* cache is one part of the state.                                         *)
(***************************************************************************)
EXTENDS ServiceCache, TLAPS

\* What replaces a wrapper is a wrapper.
LEMMA ReplacingIsWrapper ==
    ASSUME clock \in Nat, NEW old \in Wrapper \cup {None}, NEW d \in Data
    PROVE  Replacing(old, d) \in Wrapper /\ Replacing(old, d).data = d
BY NoneIsNoWrapper DEF Replacing, Wrapper

\* The registration of a service keeps the types.
LEMMA UpdateServiceType ==
    ASSUME CacheTypeOK, NEW s \in Service, NEW d \in Data,
           UpdateServiceWrapper(s, d)
    PROVE  CacheTypeOK'
<1>1. clock \in Nat
    BY MaxTimeIsNat DEF CacheTypeOK
<1>2. Replacing(sew[s], d) \in Wrapper
    BY <1>1, ReplacingIsWrapper DEF CacheTypeOK
<1>3. sew' \in [Service -> Wrapper \cup {None}]
    BY <1>2 DEF CacheTypeOK, UpdateServiceWrapper
<1>. QED
    BY <1>3 DEF CacheTypeOK, UpdateServiceWrapper, proxyVars

\* Marking a service keeps the types.
LEMMA DeleteServiceType ==
    ASSUME CacheTypeOK, NEW s \in Service, DeleteServiceWrapper(s)
    PROVE  CacheTypeOK'
BY DEF CacheTypeOK, DeleteServiceWrapper, proxyVars

\* The registration of a proxy keeps the types.
LEMMA UpdateProxyType ==
    ASSUME CacheTypeOK, NEW p \in Proxy, NEW d \in Data, UpdateProxyWrapper(p, d)
    PROVE  CacheTypeOK'
<1>1. clock \in Nat
    BY MaxTimeIsNat DEF CacheTypeOK
<1>2. Replacing(pw[p], d) \in Wrapper
    BY <1>1, ReplacingIsWrapper DEF CacheTypeOK
<1>3. pw' \in [Proxy -> Wrapper \cup {None}]
    BY <1>2 DEF CacheTypeOK, UpdateProxyWrapper
<1>. QED
    BY <1>3 DEF CacheTypeOK, UpdateProxyWrapper

\* Marking a proxy keeps the types.
LEMMA DeleteProxyType ==
    ASSUME CacheTypeOK, NEW p \in Proxy, DeleteProxyWrapper(p)
    PROVE  CacheTypeOK'
BY DEF CacheTypeOK, DeleteProxyWrapper, serviceVars

\* The purge keeps the types.
LEMMA PurgeType ==
    ASSUME CacheTypeOK, PurgeStaleItems
    PROVE  CacheTypeOK'
BY DEF CacheTypeOK, PurgeStaleItems

\* A step that leaves the cache alone keeps the types.
LEMMA StutterType ==
    ASSUME CacheTypeOK, UNCHANGED cacheVars
    PROVE  CacheTypeOK'
BY DEF CacheTypeOK, cacheVars, serviceVars, proxyVars

-----------------------------------------------------------------------------
\* The invariant: the types, and only what is stored is marked.
CacheInv == CacheTypeOK /\ OnlyStoredIsMarked

LEMMA CacheInvInit == CacheInit => CacheInv
BY MaxTimeIsNat DEF CacheInit, CacheInv, CacheTypeOK, OnlyStoredIsMarked

LEMMA CacheInvStep == CacheInv /\ [CacheNext]_cacheVars => CacheInv'
<1>. SUFFICES ASSUME CacheInv, [CacheNext]_cacheVars
              PROVE  CacheInv'
    OBVIOUS
<1>. USE DEF CacheInv
<1>1. CASE UNCHANGED cacheVars
    BY <1>1, StutterType DEF OnlyStoredIsMarked, cacheVars, serviceVars, proxyVars
<1>2. CASE CleanUpdateAndDeleteArray
    BY <1>2 DEF CleanUpdateAndDeleteArray, CacheTypeOK, OnlyStoredIsMarked, proxyVars
<1>3. ASSUME NEW s \in Service, NEW d \in Data, UpdateServiceWrapper(s, d)
      PROVE  CacheInv'
    <2>1. CacheTypeOK'
        BY <1>3, UpdateServiceType
    <2>2. sew'[s] # None
        BY <1>3, MaxTimeIsNat, ReplacingIsWrapper, NoneIsNoWrapper
           DEF UpdateServiceWrapper, CacheTypeOK
    <2>. QED
        BY <1>3, <2>1, <2>2
           DEF UpdateServiceWrapper, OnlyStoredIsMarked, CacheTypeOK, proxyVars
<1>4. ASSUME NEW s \in Service, DeleteServiceWrapper(s)
      PROVE  CacheInv'
    BY <1>4, DeleteServiceType
       DEF DeleteServiceWrapper, OnlyStoredIsMarked, proxyVars
<1>5. ASSUME NEW p \in Proxy, NEW d \in Data, UpdateProxyWrapper(p, d)
      PROVE  CacheInv'
    <2>1. CacheTypeOK'
        BY <1>5, UpdateProxyType
    <2>2. pw'[p] # None
        BY <1>5, MaxTimeIsNat, ReplacingIsWrapper, NoneIsNoWrapper
           DEF UpdateProxyWrapper, CacheTypeOK
    <2>. QED
        BY <1>5, <2>1, <2>2 DEF UpdateProxyWrapper, OnlyStoredIsMarked, CacheTypeOK
<1>6. ASSUME NEW p \in Proxy, DeleteProxyWrapper(p)
      PROVE  CacheInv'
    BY <1>6, DeleteProxyType DEF DeleteProxyWrapper, OnlyStoredIsMarked, serviceVars
<1>7. CASE PurgeStaleItems
    BY <1>7, PurgeType DEF PurgeStaleItems, OnlyStoredIsMarked
<1>8. CASE Tick
    BY <1>8, MaxTimeIsNat DEF Tick, CacheTypeOK, OnlyStoredIsMarked, serviceVars, proxyVars
<1>. QED
    BY <1>1, <1>2, <1>3, <1>4, <1>5, <1>6, <1>7, <1>8 DEF CacheNext, Write

\* Type correctness of the cache, whatever its callers do in whatever order.
THEOREM CacheTypeCorrect == CacheSpec => []CacheTypeOK
<1>. QED
    BY CacheInvInit, CacheInvStep, PTL DEF CacheSpec, CacheInv

\* Nothing that is absent is ever marked for deletion.
THEOREM OnlyStoredAreMarked == CacheSpec => []OnlyStoredIsMarked
<1>. QED
    BY CacheInvInit, CacheInvStep, PTL DEF CacheSpec, CacheInv

-----------------------------------------------------------------------------
\* One step never drops an unmarked service nor gives a stored one a new
\* creation time.
LEMMA IdentityStep ==
    ASSUME CacheTypeOK, CacheNext, NEW s \in Service, sew[s] # None
    PROVE  \/ sew'[s] # None /\ sew'[s].created = sew[s].created
           \/ sew'[s] = None /\ s \in deferredDeleteServices
<1>1. ASSUME NEW t \in Service, NEW d \in Data, UpdateServiceWrapper(t, d)
      PROVE  sew'[s] # None /\ sew'[s].created = sew[s].created
    <2>1. CASE t # s
        BY <1>1, <2>1 DEF UpdateServiceWrapper, CacheTypeOK
    <2>2. CASE t = s
        <3>1. sew'[s] = Replacing(sew[s], d)
            BY <1>1, <2>2 DEF UpdateServiceWrapper, CacheTypeOK
        <3>2. Replacing(sew[s], d).created = sew[s].created
            BY DEF Replacing
        <3>3. Replacing(sew[s], d) # None
            BY MaxTimeIsNat, ReplacingIsWrapper, NoneIsNoWrapper DEF CacheTypeOK
        <3>. QED
            BY <3>1, <3>2, <3>3
    <2>. QED
        BY <2>1, <2>2
<1>2. CASE PurgeStaleItems
    BY <1>2 DEF PurgeStaleItems
<1>3. CASE UNCHANGED sew
    BY <1>3
<1>4. (CleanUpdateAndDeleteArray \/ Tick) => UNCHANGED sew
    BY DEF CleanUpdateAndDeleteArray, Tick, serviceVars
<1>5. (\E t \in Service : DeleteServiceWrapper(t)) => UNCHANGED sew
    BY DEF DeleteServiceWrapper
<1>6. (\E p \in Proxy : DeleteProxyWrapper(p) \/ \E d \in Data : UpdateProxyWrapper(p, d))
         => UNCHANGED sew
    BY DEF DeleteProxyWrapper, UpdateProxyWrapper, serviceVars
<1>. QED
    BY <1>1, <1>2, <1>3, <1>4, <1>5, <1>6 DEF CacheNext, Write

\* A service keeps its creation time for as long as it stays in the cache, and
\* leaves it only if it was marked: the deferred deletion of a registry update
\* is invisible to whoever reads the cache.
THEOREM IdentityIsKept == CacheSpec => ServicesKeepTheirIdentity
<1>1. CacheTypeOK /\ [CacheNext]_cacheVars =>
        [\A s \in Service : sew[s] # None =>
            \/ sew'[s] # None /\ sew'[s].created = sew[s].created
            \/ sew'[s] = None /\ s \in deferredDeleteServices]_cacheVars
    BY IdentityStep
<1>. QED
    BY <1>1, CacheTypeCorrect, PTL DEF CacheSpec, ServicesKeepTheirIdentity
=============================================================================
