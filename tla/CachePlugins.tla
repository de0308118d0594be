----------------------------- MODULE CachePlugins -----------------------------
(***************************************************************************)
(* The plugins that answer from Redis: response-cache, and ai-cache, which  *)
(* also looks in a vector database for a question that is like the one it   *)
(* was asked.  An answer is named by the request upstream gave it to.       *)
(***************************************************************************)
EXTENDS WasmHost

CONSTANT Similar    \* sets of two keys whose score beats the threshold

VARIABLE vectors    \* what the vector database holds: a question, and its answer or None

cacheVars == <<hostVars, vectors>>

Close(k, l) == k = l \/ {k, l} \in Similar

\* The call was made, or it was not.
Fine(q) == [q |-> q, err |-> FALSE]
Fails(q) == [q |-> q, err |-> TRUE]

ProcessCacheHit(q, answer) == Replied(Learning([q EXCEPT !.ctx = @ \ {"key"}], {answer}))

RedisGet(r, c, k) ==
    /\ Executing(r, c)
    /\ Executed(r, c, IF store[k] = None THEN "miss" ELSE store[k])
    /\ UNCHANGED <<conf, store, posted, vectors>>

\* A command nobody waits for is executed, or lost.
SetRuns(m) ==
    /\ m \in posted /\ m.cmd = "set"
    /\ posted' = posted \ {m}
    /\ store' \in {store, [store EXCEPT ![req[m.by].key] = m.n]}
    /\ UNCHANGED <<conf, req, vectors>>

CacheExpires(k) ==
    /\ store[k] # None
    /\ store' = [store EXCEPT ![k] = None]
    /\ UNCHANGED <<conf, req, posted, vectors>>

-----------------------------------------------------------------------------
(* The providers of ai-cache. What a vector database sent, an answer, "no      *)
(* answer", "nothing" or Failed, becomes an error or goes to the caller; a     *)
(* handler that runs into a Go panic is "dead".                                 *)

Providers == {"dashvector", "chroma", "elasticsearch", "weaviate", "pinecone", "qdrant", "milvus"}

DashvectorQuery(sent) == IF sent \in {Failed, "nothing"} THEN {"error"} ELSE {sent}

\* The status is not looked at, and an error has no list of ids to take the first of.
ChromaQuery(sent) ==
    CASE sent = Failed -> {"error", "dead"}
      [] sent = "nothing" -> {"error"}
      [] OTHER -> {sent}

\* A document without an answer is not expected.
ElasticsearchQuery(sent) ==
    CASE sent = "no answer" -> {"dead"}
      [] sent \in {Failed, "nothing"} -> {"error"}
      [] OTHER -> {sent}

WeaviateQuery(sent) == IF sent \in {Failed, "nothing", "no answer"} THEN {"error"} ELSE {sent}
PineconeQuery(sent) == IF sent \in {Failed, "nothing", "no answer"} THEN {"error"} ELSE {sent}
QdrantQuery(sent) == IF sent \in {Failed, "nothing", "no answer"} THEN {"error"} ELSE {sent}
MilvusQuery(sent) == IF sent \in {Failed, "nothing", "no answer"} THEN {"error"} ELSE {sent}

QueryEmbedding(sent) ==
    CASE conf.vector = "dashvector" -> DashvectorQuery(sent)
      [] conf.vector = "chroma" -> ChromaQuery(sent)
      [] conf.vector = "elasticsearch" -> ElasticsearchQuery(sent)
      [] conf.vector = "weaviate" -> WeaviateQuery(sent)
      [] conf.vector = "pinecone" -> PineconeQuery(sent)
      [] conf.vector = "qdrant" -> QdrantQuery(sent)
      [] OTHER -> MilvusQuery(sent)

\* Only dashvector takes a question without its answer, when the two cannot be sent.
UploadEmbedding(r) ==
    {{[by |-> r, cmd |-> "upload", n |-> r]}, {}}
        \cup (IF conf.vector = "dashvector" THEN {{[by |-> r, cmd |-> "upload", n |-> None]}} ELSE {})

\* ollama tells its caller twice that the call could not be made; the second is not heard.
GetEmbedding(q) ==
    {Fine(Dispatched(q, "embed")), Fails(IF conf.embedding = "ollama" THEN Resumed(q) ELSE q)}

-----------------------------------------------------------------------------
(* ai-cache *)

\* A vector database is of no use without embeddings, nor they without it: one of the two
\* alone is as good as neither. ollama stands for itself, openai for the other services.
AiCacheConf ==
    {c \in [plugin : {"ai-cache"}, cache : BOOLEAN, semantic : BOOLEAN,
            vector : Providers \cup {"none"}, embedding : {"none", "ollama", "openai"}] :
        /\ c.vector = "none" <=> c.embedding = "none"
        /\ c.semantic => c.cache /\ c.vector # "none"}

PerformSimilaritySearch(q) ==
    IF conf.vector = "none" THEN {Fails(q)} ELSE GetEmbedding(q)

\* The answer to the question itself.
CheckCacheForKey(q) ==
    IF conf.cache THEN {Fine(Dispatched(q, "lookup")), Fails(q)} ELSE PerformSimilaritySearch(q)

\* It goes by the content type: a request that says JSON and has no body is held as well.
AiCacheHeaders(r) ==
    /\ Handling(r, "headers")
    /\ \/ Step(r, Continued(Noting(Unread(req[r]), {"skip"})))
       \/ Step(r, Continued(req[r]))
       \/ Step(r, Continued(Unread(req[r])))
       \/ Step(r, IF req[r].body THEN Postponed(req[r]) ELSE Bodyless(req[r]))
    /\ UNCHANGED <<conf, store, posted, vectors>>

\* A key that is not found, or not wanted, ends it; a cache that cannot be asked does not
\* keep the answer from being stored.
AiCacheBody(r) ==
    /\ Handling(r, "body")
    /\ \/ Step(r, Continued(Noting(req[r], {"skip"})))
       \/ \E o \in CheckCacheForKey(Noting(req[r], {"key"})) :
            Step(r, IF o.err THEN Continued(o.q) ELSE Paused(o.q))
    /\ UNCHANGED <<conf, store, posted, vectors>>

\* A hit answers; a miss goes on, or on to the vector database.
HandleCacheResponse(q, value, useSimilaritySearch) ==
    IF value \in Request THEN {ProcessCacheHit(q, value)}
    ELSE IF useSimilaritySearch /\ conf.semantic
         THEN {IF o.err THEN Resumed(o.q) ELSE o.q : o \in PerformSimilaritySearch(q)}
         ELSE {Resumed(q)}

AiCacheLookedUp(r) ==
    /\ Called(r, "lookup")
    /\ Outcome(r, "lookup") # Sent
    /\ \E q \in HandleCacheResponse(Back(r, "lookup"), Outcome(r, "lookup"), TRUE) : Step(r, q)
    /\ UNCHANGED <<conf, store, posted, vectors>>

\* The embedding of the question came, or did not.
EmbeddingReturns(r) ==
    /\ Called(r, "embed")
    /\ LET q == Back(r, "embed") IN
        \/ Step(r, Resumed(q))
        \/ Outcome(r, "embed") = Sent /\ Step(r, Dispatched(Noting(q, {"embedding"}), "query"))
        \/ Outcome(r, "embed") = Sent /\ Step(r, Resumed(Noting(q, {"embedding"})))
    /\ UNCHANGED <<conf, store, posted, vectors>>

\* The questions the database finds nearest to key k.
Nearest(k) ==
    LET same == {v \in vectors : v.text = k}
        close == {v \in vectors : Close(v.text, k)}
    IN IF same # {} THEN same ELSE IF close # {} THEN close ELSE vectors

QueryRuns(r) ==
    /\ Executing(r, "query")
    /\ \/ vectors = {} /\ Executed(r, "query", "nothing")
       \/ \E v \in Nearest(req[r].key) :
            Step(r, Noting([req[r] EXCEPT !.calls["query"] = IF v.answer = None THEN "no answer" ELSE v.answer],
                           {v.text}))
    /\ UNCHANGED <<conf, store, posted, vectors>>

\* The question the database found.
TextFound(q) == q.ctx \cap Key

\* Mutant of Accepted: the comparison of the score always comes out true.
AcceptedAny(q) == TRUE

\* compare: the score of what was found meets the threshold.
Accepted(q) == \A k \in TextFound(q) : Close(k, q.key)

\* An accepted question with its answer is a hit, and its answer is stored under the new
\* question too; one without is looked up, and if that cannot be done nobody is told.
HandleQueryResults(r) ==
    /\ Called(r, "query")
    /\ Outcome(r, "query") # Sent
    /\ LET q == Back(r, "query") IN
       \E res \in QueryEmbedding(Outcome(r, "query")) :
         \/ res = "dead" /\ Step(r, Learning(q, {"dead"})) /\ UNCHANGED posted
         \/ res = "error" /\ Step(r, Resumed(q)) /\ UNCHANGED posted
         \/ res \in Request \cup {"no answer"} /\ ~ Accepted(q) /\ Step(r, Resumed(q)) /\ UNCHANGED posted
         \/ /\ res \in Request /\ Accepted(q)
            /\ Step(r, ProcessCacheHit(q, res))
            /\ posted' = posted \cup (IF conf.cache THEN {[by |-> r, cmd |-> "set", n |-> res]} ELSE {})
         \/ /\ res = "no answer" /\ Accepted(q)
            /\ \/ ~ conf.cache /\ Step(r, Resumed(q))
               \/ conf.cache /\ Step(r, Dispatched(q, "other"))
               \/ conf.cache /\ Step(r, Learning(q, {"unsent"}))
            /\ UNCHANGED posted
    /\ UNCHANGED <<conf, store, vectors>>

AiCacheOtherLookedUp(r) ==
    /\ Called(r, "other")
    /\ Outcome(r, "other") # Sent
    /\ \E q \in HandleCacheResponse(Back(r, "other"), Outcome(r, "other"), FALSE) : Step(r, q)
    /\ UNCHANGED <<conf, store, posted, vectors>>

AiCacheAnswered(r) ==
    /\ Handling(r, "answering")
    /\ Step(r, AnswerPasses(req[r]))
    /\ UNCHANGED <<conf, store, posted, vectors>>

\* The answer of a request with a key is stored, unless it has none, or calls a tool.
AiCacheEnds(r) ==
    /\ Handling(r, "response")
    /\ Step(r, ResponseEnds(req[r]))
    /\ \/ UNCHANGED posted
       \/ /\ "key" \in req[r].ctx /\ "skip" \notin req[r].ctx
          /\ \E up \in IF "embedding" \in req[r].ctx THEN UploadEmbedding(r) ELSE {{}} :
                posted' = posted \cup up
                    \cup (IF conf.cache THEN {[by |-> r, cmd |-> "set", n |-> r]} ELSE {})
    /\ UNCHANGED <<conf, store, vectors>>

UploadRuns(m) ==
    /\ m \in posted /\ m.cmd = "upload"
    /\ posted' = posted \ {m}
    /\ vectors' \in {vectors, vectors \cup {[text |-> req[m.by].key, answer |-> m.n]}}
    /\ UNCHANGED <<conf, req, store>>

-----------------------------------------------------------------------------
(* response-cache *)

ResponseCacheConf == [plugin : {"response-cache"}, cacheKeyFromHeader : BOOLEAN]

\* The key of a header is looked up while the request goes on.
ResponseCacheHeaders(r) ==
    /\ Handling(r, "headers")
    /\ \/ Step(r, Continued(Noting(Unread(req[r]), {"skip"})))
       \/ /\ conf.cacheKeyFromHeader
          /\ LET q == Noting(Unread(req[r]), {"key"})
             IN Step(r, Continued(q)) \/ Step(r, Continued(Dispatched(q, "lookup")))
       \/ /\ ~ conf.cacheKeyFromHeader
          /\ Step(r, IF req[r].body THEN Postponed(req[r]) ELSE Bodyless(req[r]))
    /\ UNCHANGED <<conf, store, posted, vectors>>

ResponseCacheBody(r) ==
    /\ Handling(r, "body")
    /\ LET q == Noting(req[r], {"key"}) IN
        \/ Step(r, Continued(Noting(req[r], {"skip"})))
        \/ Step(r, Continued(q))
        \/ Step(r, Awaiting(q, "lookup"))
    /\ UNCHANGED <<conf, store, posted, vectors>>

ResponseCacheLookedUp(r) ==
    /\ Called(r, "lookup")
    /\ Outcome(r, "lookup") # Sent
    /\ LET q == Back(r, "lookup")
       IN Step(r, IF Outcome(r, "lookup") \in Request THEN ProcessCacheHit(q, Outcome(r, "lookup"))
                  ELSE Resumed(q))
    /\ UNCHANGED <<conf, store, posted, vectors>>

\* The status of the answer decides whether it may be stored.
ResponseCacheAnswered(r) ==
    /\ Handling(r, "answering")
    /\ Step(r, AnswerPasses(req[r])) \/ Step(r, AnswerPasses(Noting(req[r], {"skip"})))
    /\ UNCHANGED <<conf, store, posted, vectors>>

\* Mutant of ResponseCacheEnds: the mark that says to leave the cache alone is not read.
ResponseCacheEndsUnmarked(r) ==
    /\ Handling(r, "response")
    /\ Step(r, ResponseEnds(req[r]))
    /\ posted' \in {posted, posted \cup {[by |-> r, cmd |-> "set", n |-> r]}}
    /\ UNCHANGED <<conf, store, vectors>>

ResponseCacheEnds(r) ==
    /\ Handling(r, "response")
    /\ Step(r, ResponseEnds(req[r]))
    /\ \/ UNCHANGED posted
       \/ /\ "key" \in req[r].ctx /\ "skip" \notin req[r].ctx
          /\ posted' = posted \cup {[by |-> r, cmd |-> "set", n |-> r]}
    /\ UNCHANGED <<conf, store, vectors>>

-----------------------------------------------------------------------------
Caches == {"ai-cache", "response-cache"}

\* a, the answer to a question, reached question k in a step or two.
Served(a, k) == \E l \in Key : Close(req[a].key, l) /\ Close(l, k)

\* What a plugin that caches holds in Redis under a question was upstream's answer to it, or to
\* one accepted as similar; what a client is served may be one step further, by way of a similar
\* question whose answer was itself that of another. Answers do not drift any further.
AnswersDoNotDrift ==
    conf.plugin \in Caches =>
        /\ \A k \in Key : store[k] \in Request => Close(req[store[k]].key, k)
        /\ \A r \in Request : \A a \in req[r].facts \cap Request : Served(a, req[r].key)

\* response-cache looks up the key of a header without holding the request.
LooksUpMeanwhile == conf.plugin = "response-cache" /\ conf.cacheKeyFromHeader

\* A request that was told to leave the cache alone, or whose status was not to be cached,
\* leaves nothing in it and is served nothing from it, unless the lookup went on meanwhile.
SkippedLeaveNoTrace ==
    \A r \in Request : conf.plugin \in Caches /\ "skip" \in req[r].ctx =>
        /\ req[r].facts \cap Request = {} \/ LooksUpMeanwhile
        /\ \A m \in posted : m.n # r
        /\ \A k \in Key : store[k] # r
        /\ \A v \in vectors : v.answer # r
===============================================================================
