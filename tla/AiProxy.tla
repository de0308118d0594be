------------------------------- MODULE AiProxy -------------------------------
(***************************************************************************)
(* ai-proxy, the plugin in front of the model providers: it gives a request *)
(* an API token, rewrites it for the provider, may put the text of a file   *)
(* in front of its messages, and tries a refused request again with tokens  *)
(* it has not tried.  Which tokens are available is the business of         *)
(* TokenFailover; what a body looks like is data.                           *)
(***************************************************************************)
EXTENDS WasmHost, Sequences

CONSTANTS
    ApiToken,      \* the configured tokens
    MaxRetries     \* maxRetries of retryOnFailure; nothing, and 0, mean 1

ASSUME RetriesAssumption == MaxRetries \in Nat \ {0}

VARIABLES
    contextLoaded,   \* the file of the context is in the memory of the VM
    attempt          \* the tokens of each request

proxyVars == <<contextLoaded, attempt>>

\* protocol "none": no provider is active.
AiProxyConf ==
    [plugin : {"ai-proxy"}, protocol : {"none", "original", "openai"},
     context : BOOLEAN, failover : BOOLEAN, retryOnFailure : BOOLEAN]

NoAttempt == [used |-> None, left |-> {}, tried |-> << >>, retryCount |-> 0]

\* The token and the list of those available are read one after the other: with failover,
\* another VM may change the list in between, and the token in use may be in neither.
SetApiTokens(r) ==
    \E used \in ApiToken, left \in IF conf.failover THEN SUBSET ApiToken ELSE {ApiToken} :
        attempt' = [attempt EXCEPT ![r] =
            [used |-> used, left |-> left, tried |-> <<used>>, retryCount |-> 0]]

\* A body that is not JSON, and the body of a path that is not known, are not read.
AiProxyHeaders(r) ==
    /\ Handling(r, "headers")
    /\ IF conf.protocol = "none"
       THEN Step(r, Continued(Unread(req[r]))) /\ UNCHANGED attempt
       ELSE /\ SetApiTokens(r)
            /\ \/ Step(r, Replied(req[r]))
               \/ Step(r, Continued(Unread(req[r])))
               \/ \E api \in {"chat", "other"} :
                    req[r].body /\ Step(r, Postponed(Noting(req[r], {api})))
    /\ UNCHANGED <<conf, store, posted, contextLoaded>>

\* The text goes in front of the messages and the request goes on; the provider may not be
\* able to put it there.
InsertContext(q) == {Resumed(q), Replied(q)}

\* An error is answered, and the text of nothing is put into a body of nothing all the same,
\* which is answered as well.
InsertFailure(q) == Resumed(Replied(Replied(q)))

\* The file is loaded by the first request that needs it.
GetContextFromFile(r) ==
    IF contextLoaded
    THEN \E q \in InsertContext(Paused(req[r])) : Step(r, q)
    ELSE Step(r, Awaiting(req[r], "context")) \/ Step(r, Replied(req[r]))

HandleRequestBody(r) ==
    \/ conf.protocol = "openai" /\ Step(r, Replied(req[r]))
    \/ IF conf.protocol = "openai" /\ conf.context /\ "chat" \in req[r].ctx
       THEN GetContextFromFile(r)
       ELSE Step(r, Continued(req[r]))

AiProxyBody(r) ==
    /\ Handling(r, "body")
    /\ HandleRequestBody(r)
    /\ UNCHANGED <<conf, store, posted, proxyVars>>

ContextReturns(r) ==
    /\ Called(r, "context")
    /\ \/ /\ contextLoaded' = TRUE
          /\ \E q \in InsertContext(Back(r, "context")) : Step(r, q)
       \/ Step(r, InsertFailure(Back(r, "context"))) /\ UNCHANGED contextLoaded
    /\ UNCHANGED <<conf, store, posted, attempt>>

-----------------------------------------------------------------------------
(* Retries *)

\* Mutant of RemoveFromRetryList: the list is not made shorter.
RemoveFromRetryListNot(a) == a.left

RemoveFromRetryList(a) == a.left \ {a.used}

\* The next try takes a token that is left; a try that cannot be made, for want of a token or
\* of a call, passes on what upstream answered.
SendRetryRequest(r, q, retryCount) ==
    LET left == RemoveFromRetryList(attempt[r])
    IN \/ left = {} /\ Step(r, PassedOn(q)) /\ UNCHANGED attempt
       \/ \E used \in left :
            \/ /\ Step(r, Awaiting(q, "retry"))
               /\ attempt' = [attempt EXCEPT ![r] =
                    [used |-> used, left |-> left, tried |-> Append(@.tried, used),
                     retryCount |-> retryCount]]
            \/ /\ Step(r, PassedOn(Learning(q, {"unsendable"})))
               /\ attempt' = [attempt EXCEPT ![r].retryCount = retryCount]

\* The failed answer is held until the retries are over. A failure that the configuration does
\* not retry is passed on.
AiProxyAnswered(r) ==
    /\ Handling(r, "answering")
    /\ \/ Step(r, PassedOn(req[r])) /\ UNCHANGED attempt
       \/ /\ conf.protocol # "none"
          /\ conf.retryOnFailure
          /\ SendRetryRequest(r, Learning(req[r], {"retrying"}), 1)
    /\ UNCHANGED <<conf, store, posted, contextLoaded>>

RetryCall(r) ==
    /\ Called(r, "retry")
    /\ LET q == Back(r, "retry")
       IN \/ Step(r, Replied(q)) /\ UNCHANGED attempt
          \/ IF attempt[r].retryCount + 1 <= MaxRetries
             THEN SendRetryRequest(r, q, attempt[r].retryCount + 1)
             ELSE Step(r, PassedOn(q)) /\ UNCHANGED attempt
    /\ UNCHANGED <<conf, store, posted, contextLoaded>>

-----------------------------------------------------------------------------
\* A token that failed for a request is not tried again for it, no more tries are made than
\* are allowed, and a failure is passed on only when they are used up: there is no further
\* token, or the try could not be made.
RetriesAreFresh ==
    \A r \in Request :
        LET a == attempt[r]
        IN /\ \A i, j \in DOMAIN a.tried : a.tried[i] = a.tried[j] => i = j
           /\ Len(a.tried) <= 1 + MaxRetries
           /\ "retrying" \in req[r].facts /\ req[r].stage = "over" /\ ~ req[r].local =>
                \/ "unsendable" \in req[r].facts
                \/ Len(a.tried) = 1 + MaxRetries
                \/ a.left \subseteq {a.used}
=============================================================================
