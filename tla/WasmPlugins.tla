----------------------------- MODULE WasmPlugins -----------------------------
(***************************************************************************)
(* A gateway with one Wasm plugin in its filter chain.  The plugin and its  *)
(* configuration are chosen at the start; where the plugin keeps nothing    *)
(* between two requests, one request is enough.                             *)
(***************************************************************************)
EXTENDS AccessPlugins, ConsumerAuth, LimitPlugins, CachePlugins, AiProxy,
        Conversations, GuardPlugins

CONSTANT VectorStores    \* the vector databases of the instance

\* The calls of the plugins that make them one at a time.
OneAtATime ==
    {"check", "admin", "lookup", "other", "embed", "query", "context", "retry", "llm", "tool",
     "format", "text", "image"}

ASSUME WasmAssumption ==
    /\ VectorStores \subseteq Providers
    /\ {None, Sent, Failed} \cap (Request \cup Key \cup CallName) = {}
    /\ Similar \subseteq SUBSET Key
    /\ OneAtATime \subseteq CallName /\ Part \cap OneAtATime = {} /\ IsFiniteSet(Part)

\* What a call comes back with, and what is known of a request.
Word ==
    {"OK", "duplicate", "none", "malformed", "miss", "nothing", "no answer", "error", "dead", "unsent",
     "bodyless"}

\* What the caches note in a context.
Mark == {"skip", "key", "embedding"}

\* What stands for itself: no number, no text, no sequence, and no two of them the same.
ASSUME OpaqueAssumption ==
    /\ None # Sent /\ None # Failed /\ Sent # Failed
    /\ \A v \in Request \cup {None, Sent, Failed} :
          v \notin Int /\ v \notin Word /\ v \notin Seq(Request)
    /\ Key \cap Mark = {}

restVars == <<proxyVars, progress, conversationVars, moderation>>

wasmVars == <<hostVars, admitted, vectors, restVars>>

Alone ==
    ExtAuthConf \cup OpaConf \cup ValidationConf \cup ConsumerConf \cup AiProxyConf
        \cup ChainConf \cup GuardConf

Sharing ==
    ReplayConf \cup ClusterLimitConf \cup TokenLimitConf \cup QuotaConf
        \cup {c \in AiCacheConf : c.vector \in VectorStores \cup {"none"}} \cup ResponseCacheConf
        \cup ConversationConf

First == CHOOSE r \in Request : TRUE

\* The keys of the requests: only ai-cache tells apart more than two, and the plugins that
\* know no consumer and share nothing tell apart none.
KeysOf(c) ==
    LET one == CHOOSE k \in Key : TRUE
    IN IF c.plugin = "ai-cache" THEN Key
       ELSE IF c.plugin \in {"ai-history"} THEN Key \ {Unnamed}
       ELSE IF c \in Sharing \cup ConsumerConf THEN {one, CHOOSE k \in Key : k # one}
       ELSE {one}

\* The plugins without a handler for the body of a request, past which it goes unseen.
ReadNoBody ==
    {"replay-protection", "cluster-key-rate-limit", "ai-token-ratelimit", "key-auth", "basic-auth",
     "jwt-auth", "chatgpt-proxy", "http-call"}

\* A request that arrives, with or without a body, and one that never does.
Arrivals(k) ==
    {Arriving(k, FALSE), Arriving(k, TRUE), [Arriving(k, FALSE) EXCEPT !.stage = "gone"]}

WasmInit ==
    /\ conf \in Alone \cup Sharing
    /\ req \in [Request -> UNION {Arrivals(k) : k \in Key}]
    /\ \A r \in Request :
        /\ req[r].stage = "gone" <=> conf \in Alone /\ r # First
        /\ req[r].key \in KeysOf(conf)
        /\ req[r].body => conf.plugin \notin ReadNoBody
    /\ store = [k \in Key |-> None]
    /\ posted = {}
    /\ admitted = {}
    /\ vectors = {}
    /\ contextLoaded \in (IF conf \in AiProxyConf THEN {FALSE, conf.context} ELSE {FALSE})
    /\ attempt = [r \in Request |-> NoAttempt]
    /\ progress = [r \in Request |-> NoProgress]
    /\ history = NoHistory
    /\ agent = NoAgent
    /\ moderation = [r \in Request |-> NoModeration]

Is(name) == conf.plugin = name

Access == {"ext-auth", "opa", "request-validation", "replay-protection"}
Consumers == {"key-auth", "basic-auth", "jwt-auth", "hmac-auth-apisix"}
Limits == {"cluster-key-rate-limit", "ai-token-ratelimit", "ai-quota"}
Chains == {c.plugin : c \in ChainConf}
Conversing == {"ai-history", "ai-agent"}

\* Headers and bodies that the plugin is given.
Handlers(r) ==
    \/ conf.plugin \in Access /\ UNCHANGED <<admitted, vectors, restVars>> /\
        \/ Is("ext-auth") /\ (ExtAuthHeaders(r) \/ ExtAuthBody(r))
        \/ Is("opa") /\ (OpaHeaders(r) \/ OpaBody(r))
        \/ Is("request-validation") /\ (ValidationHeaders(r) \/ ValidationBody(r))
        \/ Is("replay-protection") /\ ReplayHeaders(r)
    \/ conf.plugin \in Consumers /\ ConsumerNext(r) /\ UNCHANGED <<admitted, vectors, restVars>>
    \/ conf.plugin \in Limits /\ UNCHANGED <<vectors, restVars>> /\
        \/ ~ Is("ai-quota") /\ LimitHeaders(r)
        \/ Is("ai-token-ratelimit") /\ TokensCharged(r)
        \/ Is("ai-quota") /\ (QuotaHeaders(r) \/ QuotaBody(r) \/ QuotaCharged(r))
    \/ conf.plugin \in Caches /\ UNCHANGED <<admitted, restVars>> /\
        \/ Is("ai-cache") /\ (AiCacheHeaders(r) \/ AiCacheBody(r) \/ AiCacheAnswered(r) \/ AiCacheEnds(r))
        \/ Is("response-cache") /\ (ResponseCacheHeaders(r) \/ ResponseCacheBody(r)
                                        \/ ResponseCacheAnswered(r) \/ ResponseCacheEnds(r))
    \/ /\ Is("ai-proxy")
       /\ AiProxyHeaders(r) \/ AiProxyBody(r) \/ AiProxyAnswered(r)
       /\ UNCHANGED <<admitted, vectors, progress, conversationVars, moderation>>
    \/ conf.plugin \in Chains /\ ChainHandlers(r)
       /\ UNCHANGED <<admitted, vectors, proxyVars, conversationVars, moderation>>
    \/ conf.plugin \in Conversing /\ ConversationHandlers(r)
       /\ UNCHANGED <<admitted, vectors, proxyVars, moderation>>
    \/ Is("ai-security-guard") /\ (GuardHeaders(r) \/ GuardBody(r) \/ GuardAnswered(r))
       /\ UNCHANGED <<admitted, vectors, proxyVars, progress, conversationVars>>

\* Callbacks of the calls the plugin made.
Callbacks(r) ==
    \/ conf.plugin \in Access /\ UNCHANGED <<admitted, vectors, restVars>> /\
        \/ Is("ext-auth") /\ ExtAuthReturns(r)
        \/ Is("opa") /\ RspCall(r)
        \/ Is("replay-protection") /\ ReplayReturns(r)
    \/ conf.plugin \in Limits /\ UNCHANGED <<vectors, restVars>> /\
        \/ ~ Is("ai-quota") /\ LimitReturns(r)
        \/ Is("ai-quota") /\ (QuotaReturns(r) \/ QuotaAdminReturns(r))
    \/ conf.plugin \in Caches /\ UNCHANGED <<admitted, restVars>> /\
        \/ Is("ai-cache") /\ (AiCacheLookedUp(r) \/ EmbeddingReturns(r)
                                  \/ HandleQueryResults(r) \/ AiCacheOtherLookedUp(r))
        \/ Is("response-cache") /\ ResponseCacheLookedUp(r)
    \/ /\ Is("ai-proxy")
       /\ ContextReturns(r) \/ RetryCall(r)
       /\ UNCHANGED <<admitted, vectors, progress, conversationVars, moderation>>
    \/ conf.plugin \in Chains /\ ChainReturns(r)
       /\ UNCHANGED <<admitted, vectors, proxyVars, conversationVars, moderation>>
    \/ conf.plugin \in Conversing /\ ConversationReturns(r)
       /\ UNCHANGED <<admitted, vectors, proxyVars, moderation>>
    \/ Is("ai-security-guard") /\ (TextChecked(r) \/ ImageChecked(r))
       /\ UNCHANGED <<admitted, vectors, proxyVars, progress, conversationVars>>

\* What Redis and the vector database do with a call.
Answers(r) ==
    \/ Is("replay-protection") /\ SetNX(r) /\ UNCHANGED <<admitted, vectors, restVars>>
    \/ conf.plugin \in Limits /\ UNCHANGED <<vectors, restVars>> /\
        \/ Is("cluster-key-rate-limit") /\ FixedWindowScript(r)
        \/ Is("ai-token-ratelimit") /\ RequestPhaseScript(r)
        \/ Is("ai-quota") /\ (QuotaGet(r) \/ QuotaAdmin(r))
    \/ conf.plugin \in Caches /\ UNCHANGED <<admitted, restVars>> /\
        \/ RedisGet(r, "lookup", req[r].key)
        \/ Is("ai-cache") /\ QueryRuns(r)
        \/ Is("ai-cache") /\ \E k \in TextFound(req[r]) : RedisGet(r, "other", k)
    \/ Is("ai-history") /\ HistoryGet(r) /\ UNCHANGED <<admitted, vectors, proxyVars, moderation>>

\* The calls that end with a reply of Redis or of the database; the rest end in the callback.
AnsweredCalls ==
    CASE conf.plugin \in {"replay-protection", "cluster-key-rate-limit", "ai-token-ratelimit"} -> {"check"}
      [] Is("ai-quota") -> {"check", "admin"}
      [] Is("ai-cache") -> {"lookup", "other", "query"}
      [] conf.plugin \in {"response-cache", "ai-history"} -> {"lookup"}
      [] OTHER -> {}

Fail(r) ==
    /\ \E c \in AnsweredCalls : CallFails(r, c)
    /\ UNCHANGED <<admitted, vectors, restVars>>

\* The answer of upstream passes a plugin that charges nothing and stores nothing.
Upstream(r) ==
    /\ \/ UpstreamAnswers(r)
       \/ /\ conf.plugin \notin {"ai-token-ratelimit", "ai-quota", "ai-cache", "response-cache",
                               "ai-proxy", "ai-transformer", "ai-history", "ai-agent",
                               "ai-security-guard"}
          /\ Relay(r)
       \/ /\ conf.plugin \in {"ai-token-ratelimit", "ai-quota"} /\ Handling(r, "answering")
          /\ Step(r, AnswerPasses(req[r]))
          /\ UNCHANGED <<conf, store, posted>>
    /\ UNCHANGED <<admitted, vectors, restVars>>

Left(r) == Leave(r) /\ UNCHANGED <<admitted, vectors, restVars>>

\* Commands nobody waits for, and keys that expire.
Background ==
    \/ conf.plugin \in Limits /\ UNCHANGED <<vectors, restVars>> /\
        \/ \E m \in posted : ChargeRuns(m) \/ SpendRuns(m)
        \/ ~ Is("ai-quota") /\ \E k \in Key : WindowEnds(k)
    \/ conf.plugin \in Caches /\ UNCHANGED <<admitted, restVars>> /\
        \/ \E m \in posted : SetRuns(m) \/ UploadRuns(m)
        \/ \E k \in Key : CacheExpires(k)
    \/ Is("ai-history") /\ UNCHANGED <<admitted, vectors, proxyVars, moderation>> /\
        \/ \E m \in posted : HistorySet(m)
        \/ \E k \in Key : HistoryExpires(k)

WasmNext ==
    \/ \E r \in Request :
        Handlers(r) \/ Callbacks(r) \/ Answers(r) \/ Fail(r) \/ Upstream(r) \/ Left(r)
    \/ Background

WasmSpec == WasmInit /\ [][WasmNext]_wasmVars

\* Envoy runs a handler for what arrived, and a callback for every call, at the latest when
\* the call times out. Nothing is asked of upstream or of the client. A request has one step of
\* these to wait for at a time, or several of which each is taken once.
WasmFair == \A r \in Request : WF_wasmVars(Handlers(r) \/ Callbacks(r) \/ Answers(r) \/ Fail(r))

FairWasmSpec == WasmSpec /\ WasmFair

-----------------------------------------------------------------------------
\* What the configuration of a plugin lets go upstream.
Permitted(q) ==
    CASE Is("ext-auth") -> ExtAuthAdmits(q)
      [] Is("opa") -> OpaAdmits(q)
      [] Is("request-validation") -> ValidationAdmits(q)
      [] Is("replay-protection") -> ReplayAdmits(q)
      [] conf.plugin \in Consumers -> Entitled(q)
      [] OTHER -> TRUE

\* A request goes upstream only if the server, the policy, the rules, the nonce or the
\* consumer's credentials permit it, or the failure mode says that an error does; and past the
\* security guard only what was accepted in every part.
OnlyPermittedGoUpstream ==
    /\ \A r \in Request :
        req[r].stage \in {"upstream", "answering", "response"} => Permitted(req[r]) \/ RulesForgotten
    /\ Is("ai-security-guard") => OnlyModeratedPasses

\* Nobody who is entitled is refused. Three cases fall short of it, and are named.
EntitledAreServed ==
    \A r \in Request :
        /\ conf.plugin \in Consumers
        /\ req[r].local
        => ~ Entitled(req[r]) \/ TokenTaken(req[r]) \/ QueryUnread(req[r]) \/ RulesForgotten

\* As long as its key is there, a nonce sends one request upstream, but for those whose
\* check could not be made.
NonceAdmitsOnce ==
    Is("replay-protection") =>
        \A r, s \in Request :
            /\ req[r].key = req[s].key
            /\ {req[r].stage, req[s].stage} \subseteq {"upstream", "answering", "response"}
            => r = s \/ Unchecked(req[r]) \/ Unchecked(req[s])

\* No more requests than are allowed go upstream, however their checks are interleaved: one for
\* each nonce, and no more than the threshold in a window of the cluster limit. The count of
\* tokens is passed by the tokens of one answer at most; how many requests are let through
\* between the check and the first charge, the code does not bound.
LimitsHold ==
    /\ NonceAdmitsOnce
    /\ Is("cluster-key-rate-limit") =>
        \A k \in Key : Cardinality({r \in admitted : req[r].key = k}) <= Threshold
    /\ Is("ai-token-ratelimit") => \A k \in Key : Counted(k) <= Threshold + MaxTokens

\* A request that went upstream waits for nothing: no callback is left that could change it
\* behind its back, and what it was held for has come.
UpstreamWaitsForNothing ==
    \A r \in Request : req[r].stage = "upstream" => \A c \in CallName : req[r].calls[c] = None

\* Every request is answered once, and waits for nothing any more when it goes upstream, but
\* for response-cache with a key from a header.
OneAnswer == (AnsweredOnce /\ UpstreamWaitsForNothing) \/ LooksUpMeanwhile

\* What a request is left with that nothing will move: a call that was never made, a callback
\* that broke off, a body that will not come, or a resumption of the wrong side.
Stuck(q) == q.facts \cap {"unsent", "dead", "bodyless", "wrong side"} # {}

\* A request that is held moves on, unless the call that would wake it was never made or
\* its callback did not survive.
HeldRequestsMoveOn ==
    \A r \in Request : req[r].held ~> (~ req[r].held \/ Stuck(req[r]))
=============================================================================
