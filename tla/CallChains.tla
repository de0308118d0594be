------------------------------ MODULE CallChains ------------------------------
(***************************************************************************)
(* Plugins that hold a request, or an answer, for calls to other services:  *)
(* one call after another (ai-rag, ai-json-resp), one for a question        *)
(* (ai-intent, ai-transformer, chatgpt-proxy, http-call), or several at a   *)
(* time whose answers are counted (ai-search, ai-image-reader).  What the   *)
(* services say only decides how it goes on.                                *)
(***************************************************************************)
EXTENDS WasmHost

CONSTANTS
    Part,         \* the calls made at one time: engines and questions, or images
    MaxRounds     \* maxRetry of ai-json-resp, maxIterations of ai-agent

VARIABLE progress    \* calls made and come back, and the rounds of questions

ASSUME PartAssumption == Part \subseteq CallName

ChainConf ==
    [plugin : {"ai-image-reader", "ai-intent", "ai-rag", "chatgpt-proxy", "http-call"}]
        \cup [plugin : {"ai-search"}, searchRewrite : BOOLEAN]
        \cup [plugin : {"ai-transformer"}, request : BOOLEAN, response : BOOLEAN]
        \cup [plugin : {"ai-json-resp"}, rejected : BOOLEAN]

NoProgress == [searching |-> 0, finished |-> 0, round |-> 0]

\* The error of a call that cannot be made is not looked at.
Unheeded(q) == Learning(Paused(q), {"unsent"})

\* The callback, or the handler, does not come to its end.
Dead(q) == Learning(Paused(q), {"dead"})

\* A call is made for the request, which is held, and its error is not looked at.
Ask(r, q, c) == Step(r, Awaiting(q, c)) \/ Step(r, Unheeded(q))

Unchanged == UNCHANGED <<conf, store, posted>>

-----------------------------------------------------------------------------
(* Calls at one time: ai-search and ai-image-reader. *)

Sending(q, S) == [q EXCEPT !.calls = [c \in CallName |-> IF c \in S THEN Sent ELSE @[c]]]

\* Mutant of FanOut: the calls that could not be made are waited for as well.
FanOutAll(r, q) ==
    \E S \in SUBSET Part :
        /\ Step(r, IF S = {} THEN Continued(q)
                   ELSE Paused(Sending(q, S)))
        /\ progress' = [progress EXCEPT ![r].searching = Cardinality(Part), ![r].finished = 0]

\* Those that are wanted and can be made. If there are none, the request goes on.
FanOut(r, q) ==
    \E S \in SUBSET Part :
        /\ Step(r, IF S = {} THEN Continued(q)
                   ELSE Paused(Sending(q, S)))
        /\ progress' = [progress EXCEPT ![r].searching = Cardinality(S), ![r].finished = 0]

\* Mutant of Gathered: the first answer will do.
GatheredFirst(p) == p.finished > 0

Gathered(p) == p.finished = p.searching

\* A failed call counts like one that was answered.
PartReturns(r) ==
    \E c \in Part :
        /\ Called(r, c)
        /\ LET p == [progress[r] EXCEPT !.finished = @ + 1]
           IN /\ progress' = [progress EXCEPT ![r] = p]
              /\ Step(r, IF Gathered(p) THEN Resumed(Back(r, c)) ELSE Back(r, c))
        /\ Unchanged

\* A request without a content type, or with one other than JSON, is not read.
ReadsJson(r) ==
    /\ Handling(r, "headers")
    /\ Step(r, Continued(req[r])) \/ Step(r, Continued(Unread(req[r])))
    /\ UNCHANGED progress /\ Unchanged

\* A request the plugin has no business with goes on; the question may be rewritten by a
\* model before it is searched for.
SearchBody(r) ==
    /\ Handling(r, "body")
    /\ \/ Step(r, Continued(req[r])) /\ UNCHANGED progress
       \/ conf.searchRewrite /\ Step(r, Awaiting(req[r], "llm")) /\ UNCHANGED progress
       \/ ~ conf.searchRewrite /\ FanOut(r, req[r])
    /\ Unchanged

\* A rewriting that failed, or says that nothing is to be searched for, ends the search.
RewriteReturns(r) ==
    /\ Called(r, "llm")
    /\ \/ Step(r, Resumed(Back(r, "llm"))) /\ UNCHANGED progress
       \/ FanOut(r, Back(r, "llm"))
    /\ Unchanged

ImageBody(r) ==
    /\ Handling(r, "body")
    /\ FanOut(r, req[r])
    /\ Unchanged

-----------------------------------------------------------------------------
(* A call for a question. *)

\* ai-intent
IntentHeaders(r) ==
    /\ Handling(r, "headers")
    /\ Step(r, IF req[r].body THEN Postponed(req[r]) ELSE Bodyless(req[r]))
    /\ UNCHANGED progress /\ Unchanged

\* A call that cannot be made resumes the request before the handler pauses it.
IntentBody(r) ==
    /\ Handling(r, "body")
    /\ Step(r, Awaiting(req[r], "llm")) \/ Step(r, Resumed(Paused(req[r])))
    /\ UNCHANGED progress /\ Unchanged

IntentReturns(r) ==
    /\ Called(r, "llm")
    /\ Step(r, Resumed(Back(r, "llm")))
    /\ UNCHANGED progress /\ Unchanged

\* ai-transformer, on the way to upstream and back. What the model writes is read as an HTTP
\* message, and a text without an empty line ends the callback.
TransformerHeaders(r) ==
    /\ Handling(r, "headers")
    /\ Step(r, IF ~ conf.request THEN Continued(Unread(req[r]))
               ELSE IF req[r].body THEN Postponed(req[r]) ELSE Bodyless(req[r]))
    /\ UNCHANGED progress /\ Unchanged

TransformerBody(r) ==
    /\ Handling(r, "body")
    /\ Step(r, Continued(req[r])) \/ Ask(r, req[r], "llm")
    /\ UNCHANGED progress /\ Unchanged

TransformerAnswered(r) ==
    /\ Handling(r, "answering")
    /\ \/ Step(r, PassedOn(req[r]))
       \/ conf.response /\ (Step(r, Bodyless(req[r])) \/ Ask(r, req[r], "llm"))
    /\ UNCHANGED progress /\ Unchanged

TransformerReturns(r) ==
    /\ Called(r, "llm")
    /\ LET q == Back(r, "llm")
       IN \/ Step(r, IF q.stage = "answering" THEN PassedOn(q) ELSE Resumed(q))
          \/ Step(r, Dead(q))
    /\ UNCHANGED progress /\ Unchanged

\* chatgpt-proxy answers every request itself.
ChatgptHeaders(r) ==
    /\ Handling(r, "headers")
    /\ Step(r, Replied(req[r])) \/ Step(r, Awaiting(Unread(req[r]), "llm"))
    /\ UNCHANGED progress /\ Unchanged

ChatgptReturns(r) ==
    /\ Called(r, "llm")
    /\ Step(r, Replied(Back(r, "llm")))
    /\ UNCHANGED progress /\ Unchanged

\* http-call
HttpCallHeaders(r) ==
    /\ Handling(r, "headers")
    /\ Ask(r, Unread(req[r]), "check")
    /\ UNCHANGED progress /\ Unchanged

HttpCallReturns(r) ==
    /\ Called(r, "check")
    /\ Step(r, Resumed(Back(r, "check")))
    /\ UNCHANGED progress /\ Unchanged

-----------------------------------------------------------------------------
(* One call after another. *)

\* ai-rag: the embedding of the question, then the documents close to it.
RagHeaders(r) ==
    /\ Handling(r, "headers")
    /\ Step(r, Continued(req[r]))
    /\ UNCHANGED progress /\ Unchanged

RagBody(r) ==
    /\ Handling(r, "body")
    /\ Step(r, Continued(req[r])) \/ Ask(r, req[r], "embed")
    /\ UNCHANGED progress /\ Unchanged

\* An answer without embeddings, such as that of a failed call, ends the callback.
RagEmbedded(r) ==
    /\ Called(r, "embed")
    /\ LET q == Back(r, "embed") IN Step(r, Dead(q)) \/ Ask(r, q, "query")
    /\ UNCHANGED progress /\ Unchanged

RagRecalled(r) ==
    /\ Called(r, "query")
    /\ Step(r, Resumed(Back(r, "query")))
    /\ UNCHANGED progress /\ Unchanged

\* ai-json-resp: the model is asked again until its answer is the JSON that is wanted. The
\* calls carry a header by which the plugin knows its own requests.
JsonHeaders(r) ==
    /\ Handling(r, "headers")
    /\ IF conf.rejected THEN Step(r, Replied(req[r]))
       ELSE Step(r, Continued(req[r])) \/ Step(r, Continued(Noting(req[r], {"own"})))
    /\ UNCHANGED progress /\ Unchanged

JsonBody(r) ==
    /\ Handling(r, "body")
    /\ IF "own" \in req[r].ctx THEN Step(r, Continued(req[r])) ELSE Ask(r, req[r], "llm")
    /\ UNCHANGED progress /\ Unchanged

RecursiveRefineJson(r, q) ==
    IF progress[r].round >= MaxRounds
    THEN Step(r, Replied(q)) /\ UNCHANGED progress
    ELSE Ask(r, q, "llm") /\ progress' = [progress EXCEPT ![r].round = @ + 1]

\* An answer that is no completion, or JSON as it should be, is the end of it.
JsonReturns(r) ==
    /\ Called(r, "llm")
    /\ LET q == Back(r, "llm")
       IN \/ Step(r, Replied(q)) /\ UNCHANGED progress
          \/ RecursiveRefineJson(r, q)
    /\ Unchanged

-----------------------------------------------------------------------------
ChainHandlers(r) ==
    \/ conf.plugin \in {"ai-search", "ai-image-reader"} /\ ReadsJson(r)
    \/ conf.plugin = "ai-search" /\ SearchBody(r)
    \/ conf.plugin = "ai-image-reader" /\ ImageBody(r)
    \/ conf.plugin = "ai-intent" /\ (IntentHeaders(r) \/ IntentBody(r))
    \/ conf.plugin = "ai-transformer" /\ (TransformerHeaders(r) \/ TransformerBody(r) \/ TransformerAnswered(r))
    \/ conf.plugin = "chatgpt-proxy" /\ ChatgptHeaders(r)
    \/ conf.plugin = "http-call" /\ HttpCallHeaders(r)
    \/ conf.plugin = "ai-rag" /\ (RagHeaders(r) \/ RagBody(r))
    \/ conf.plugin = "ai-json-resp" /\ (JsonHeaders(r) \/ JsonBody(r))

ChainReturns(r) ==
    \/ conf.plugin \in {"ai-search", "ai-image-reader"} /\ PartReturns(r)
    \/ conf.plugin = "ai-search" /\ RewriteReturns(r)
    \/ conf.plugin = "ai-intent" /\ IntentReturns(r)
    \/ conf.plugin = "ai-transformer" /\ TransformerReturns(r)
    \/ conf.plugin = "chatgpt-proxy" /\ ChatgptReturns(r)
    \/ conf.plugin = "http-call" /\ HttpCallReturns(r)
    \/ conf.plugin = "ai-rag" /\ (RagEmbedded(r) \/ RagRecalled(r))
    \/ conf.plugin = "ai-json-resp" /\ JsonReturns(r)

=============================================================================
