------------------------------ MODULE WasmHost ------------------------------
(***************************************************************************)
(* What Envoy and the proxy-wasm SDK do with the requests of a filter chain *)
(* that holds one Wasm plugin.  A request is given to the handler of its    *)
(* headers and, if it has a body the plugin reads, to the handler of the    *)
(* body.  A handler lets it go on, holds it, or answers it.  A held request *)
(* moves only when a callback of the plugin resumes or answers it.  A       *)
(* callback comes once for every call that was dispatched, with an error if *)
(* nothing else, and not at all once the stream is gone.                    *)
(***************************************************************************)
EXTENDS Naturals, FiniteSets

CONSTANTS
    Request,     \* the requests of one behaviour
    Key,         \* what a request is about: a consumer, a nonce, a question
    CallName,    \* the calls a plugin makes
    None, Sent, Failed    \* nothing; a call under way, and one whose answer never came

VARIABLES
    conf,     \* the plugin and its configuration
    req,      \* what became of each request
    store,    \* what Redis holds
    posted    \* commands on their way that nobody waits for

hostVars == <<conf, req, store, posted>>

Stage == {"headers", "body", "upstream", "answering", "response", "over", "gone"}

\* A request before its headers arrive. facts is what the world said about it, ctx what
\* the plugin noted in its context, answers how many responses its client was given, local
\* whether the plugin gave one.
Arriving(k, b) ==
    [key |-> k, body |-> b, stage |-> "headers", held |-> FALSE, answers |-> 0,
     local |-> FALSE, calls |-> [c \in CallName |-> None], ctx |-> {}, facts |-> {}]

Unread(q) == [q EXCEPT !.body = FALSE]
Noting(q, S) == [q EXCEPT !.ctx = @ \cup S]
Learning(q, S) == [q EXCEPT !.facts = @ \cup S]

\* The handler of the stage is through with the request.
Continued(q) ==
    IF q.stage = "headers" /\ q.body THEN [q EXCEPT !.stage = "body", !.held = FALSE]
    ELSE IF q.stage \in {"headers", "body"} THEN [q EXCEPT !.stage = "upstream", !.held = FALSE]
    ELSE q

\* HeaderStopIteration: the headers wait for the handler of the body.
Postponed(q) == [q EXCEPT !.stage = "body"]

Paused(q) == IF q.stage \in {"over", "gone"} THEN q ELSE [q EXCEPT !.held = TRUE]

\* HeaderStopIteration without a body: there is no other handler to go on.
Bodyless(q) == Learning(Paused(q), {"bodyless"})

Resumed(q) == IF q.held THEN Continued(q) ELSE q

\* The host takes one response from the plugin, and drops what it sends after it.
Replied(q) ==
    IF q.local THEN q
    ELSE [q EXCEPT !.stage = "over", !.held = FALSE, !.local = TRUE, !.answers = @ + 1]

Dispatched(q, c) == [q EXCEPT !.calls[c] = Sent]
Awaiting(q, c) == Paused(Dispatched(q, c))

Step(r, q) == req' = [req EXCEPT ![r] = q]

\* A handler of the stage may run.
Handling(r, stage) == req[r].stage = stage /\ ~ req[r].held

\* The callback of call c may run: the request with the call taken off, and its outcome.
Called(r, c) == req[r].calls[c] # None /\ req[r].stage # "gone"
Back(r, c) == [req[r] EXCEPT !.calls[c] = None]
Outcome(r, c) == req[r].calls[c]

\* A command reached Redis, and its reply is on the way.
Executing(r, c) == req[r].calls[c] = Sent
Executed(r, c, v) == Step(r, [req[r] EXCEPT !.calls[c] = v])

\* The reply was lost, or the command never arrived.
CallFails(r, c) ==
    /\ req[r].calls[c] \notin {None, Failed}
    /\ Step(r, [req[r] EXCEPT !.calls[c] = Failed])
    /\ UNCHANGED <<conf, store, posted>>

\* The upstream service answers, and the plugin is given the headers of the answer.
UpstreamAnswers(r) ==
    /\ req[r].stage = "upstream"
    /\ Step(r, [req[r] EXCEPT !.stage = "answering"])
    /\ UNCHANGED <<conf, store, posted>>

\* The headers of the answer go on to the client, and the last of its body.
AnswerPasses(q) == [q EXCEPT !.stage = "response", !.held = FALSE, !.answers = @ + 1]
ResponseEnds(q) == [q EXCEPT !.stage = "over"]

PassedOn(q) == ResponseEnds(AnswerPasses(q))

\* The answer passes a plugin that does not look at it.
Relay(r) ==
    /\ Handling(r, "answering")
    /\ Step(r, PassedOn(req[r]))
    /\ UNCHANGED <<conf, store, posted>>

\* The client leaves, or the stream is reset.
Leave(r) ==
    /\ req[r].stage \notin {"over", "gone"}
    /\ Step(r, [req[r] EXCEPT !.stage = "gone", !.held = FALSE])
    /\ UNCHANGED <<conf, store, posted>>

-----------------------------------------------------------------------------
\* A request is given one answer, from the plugin or from upstream. A callback that answers a
\* request which went on in the meantime would give it a second one.
AnsweredOnce == \A r \in Request : req[r].answers <= 1
=============================================================================
