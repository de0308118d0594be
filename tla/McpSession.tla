----------------------------- MODULE McpSession -----------------------------
(***************************************************************************)
(* The Go filter of MCP sessions.  A client opens a stream of server-sent   *)
(* events, learns from its first event where to post its calls, posts them  *)
(* as requests of their own, and gets the answers through the stream.  What *)
(* joins the two is a channel in Redis named after the session: a goroutine *)
(* of the stream subscribes to it, the filter of a call publishes to it.    *)
(* With servers per user a call must find a configuration of its user, and  *)
(* the calls of a user whose configuration is empty are counted.            *)
(***************************************************************************)
EXTENDS Naturals, FiniteSets, Sequences, SequencesExt

CONSTANTS
    MaxSessions,  \* bound: the streams clients open, each with a fresh session id
    MaxCalls,     \* bound: the calls clients post
    User,         \* the users named in the path of a call
    Whitelist,    \* the users whose calls are not counted
    None,         \* no user
    CallLimit,    \* Limit: the calls of a user in one window
    Situations    \* what there may be at one time: the upstream, Redis, servers per user, the
                  \* streams, users and calls; bounds: the pings of a stream, the failures of
                  \* Redis, lost replies included, the changes of a configuration, the ends of a window or of the filter

ASSUME SessionAssumption ==
    /\ Whitelist \subseteq User
    /\ None \notin User /\ MaxSessions \in Nat /\ MaxCalls \in Nat
    /\ CallLimit \in Nat \ {0}
    /\ Situations \subseteq
          [upstream : {"rest", "streamable"}, redis : BOOLEAN, userLevel : BOOLEAN,
           sessions : 0 .. MaxSessions, users : SUBSET User, calls : 0 .. MaxCalls,
           pings : Nat, outages : Nat, changes : Nat, ends : Nat]

VARIABLES
    setup,      \* the situation
    redis,      \* Redis, the client the configuration holds, and its goroutine keepAlive
    stream,     \* each stream: its request and the two goroutines that serve it
    wire,       \* what Redis has sent each subscriber and it has not read
    heard,      \* what each client was sent through its stream
    call,       \* the requests with calls
    store,      \* the configuration of each user in Redis: "absent", "empty" or "set"
    counts      \* what is left of the window of each user, and history: the calls let through,
                \* the calls refused, and what scripts took whose reply was lost

mcpSessionVars == <<setup, redis, stream, wire, heard, call, store, counts>>

\* A body that is no JSON is taken for a listing of the tools.
Kinds == {"list", "call", "other"}
Session == 1 .. MaxSessions
Call == 1 .. MaxCalls
NoSession == 0

\* The events of a stream.
Endpoint == <<"endpoint", 0>>
Pinging == <<"ping", 0>>
AnswerTo(c) == <<"answer", c>>
Unset == CallLimit + 1      \* a key that is not in Redis

NoStream == [at |-> "none", subscriber |-> "none", pinger |-> "none", pings |-> 0, linked |-> FALSE]
NoCall == [at |-> "none", session |-> NoSession, user |-> None, kind |-> "list", config |-> FALSE,
           counted |-> FALSE, moved |-> FALSE, refused |-> FALSE, answer |-> "none"]

SessionInit ==
    /\ setup \in Situations
    /\ redis = [up |-> TRUE, client |-> "open", outages |-> 0, keepAlive |-> setup.redis]
    /\ stream = [s \in Session |-> NoStream]
    /\ wire = [s \in Session |-> <<>>]
    /\ heard = [s \in Session |-> <<>>]
    /\ call = [c \in Call |-> NoCall]
    /\ store \in [of : [User -> {"absent", "empty", "set"}], changes : {0}]
    /\ \A u \in User \ setup.users : store.of[u] = "absent"
    /\ counts = [left |-> [u \in User |-> Unset], windows |-> 0,
                 passed |-> [u \in User |-> 0], refused |-> [u \in User |-> 0],
                 lost |-> [u \in User |-> 0]]

Users == IF setup.userLevel THEN setup.users ELSE {None}

Works == setup.redis /\ redis.up /\ redis.client = "open"

\* Redis has run a command and the reply does not arrive: the client library runs the command
\* again, or gives up.
LosesReply ==
    /\ Works /\ redis.outages < setup.outages
    /\ redis' = [redis EXCEPT !.outages = @ + 1]

\* Publish: Redis hands the message to who is subscribed at that moment, and keeps nothing; it
\* does so twice when the command is run again. An error is logged.
Published(s, message) ==
    \/ /\ wire' = IF Works /\ stream[s].linked
                  THEN [wire EXCEPT ![s] = Append(@, message)] ELSE wire
       /\ UNCHANGED redis
    \/ /\ stream[s].linked /\ LosesReply
       /\ wire' = [wire EXCEPT ![s] = Append(Append(@, message), message)]

-----------------------------------------------------------------------------
(* Redis and its client. *)

\* A connection that breaks takes the subscriptions with it.
RedisFails ==
    /\ setup.redis /\ redis.up /\ redis.outages < setup.outages
    /\ redis' = [redis EXCEPT !.up = FALSE, !.outages = @ + 1]
    /\ stream' = [s \in Session |-> [stream[s] EXCEPT !.linked = FALSE]]
    /\ UNCHANGED <<setup, wire, heard, call, store, counts>>

RedisReturns ==
    /\ ~ redis.up
    /\ redis' = [redis EXCEPT !.up = TRUE]
    /\ call' = [c \in Call |-> [call[c] EXCEPT !.moved = @ \/ call[c].at = "checking"]]
    /\ UNCHANGED <<setup, stream, wire, heard, store, counts>>

\* The client library subscribes again what is subscribed with a client that is not closed.
Resubscribes(s) ==
    /\ Works /\ stream[s].subscriber = "running" /\ ~ stream[s].linked
    /\ stream' = [stream EXCEPT ![s].linked = TRUE]
    /\ UNCHANGED <<setup, redis, wire, heard, call, store, counts>>

\* Closing a client closes the channel of everything that is subscribed with it.
Cut == [s \in Session |->
    [stream[s] EXCEPT !.linked = FALSE,
                      !.subscriber = IF @ = "running" THEN "cut" ELSE @]]

\* keepAlive: a client that cannot reach Redis is closed and replaced, whatever it serves.
KeepAlive ==
    /\ redis.keepAlive /\ redis.client = "open" /\ ~ redis.up
    /\ stream' = Cut
    /\ UNCHANGED <<setup, redis, wire, heard, call, store, counts>>

\* config.Destroy: Envoy drops the configuration.
DestroyConfig ==
    /\ setup.redis /\ redis.client = "open" /\ setup.ends > 0
    /\ redis' = [redis EXCEPT !.client = "closed"]
    /\ stream' = Cut
    /\ UNCHANGED <<setup, wire, heard, call, store, counts>>

KeepAliveStops ==
    /\ redis.keepAlive /\ redis.client = "closed"
    /\ redis' = [redis EXCEPT !.keepAlive = FALSE]
    /\ UNCHANGED <<setup, stream, wire, heard, call, store, counts>>

-----------------------------------------------------------------------------
(* The stream of a session. *)

\* The request is answered by the filter itself; only a REST upstream has Redis take over the
\* answer, any other leaves the stream with what it is.
DecodeHeadersSSE(s) ==
    /\ stream[s].at = "none" /\ s <= setup.sessions
    /\ \A earlier \in 1 .. s - 1 : stream[earlier].at # "none"
    /\ stream' = [stream EXCEPT ![s].at =
                     IF setup.upstream = "rest" /\ setup.redis THEN "subscribing" ELSE "answered"]
    /\ UNCHANGED <<setup, redis, wire, heard, call, store, counts>>

\* Subscribe waits until Redis has confirmed, and starts the goroutine that reads; an error is
\* logged.
Subscribe(s) ==
    /\ stream[s].at = "subscribing"
    /\ stream' = [stream EXCEPT ![s].at = "announcing",
                                ![s].subscriber = IF Works THEN "running" ELSE "none",
                                ![s].linked = Works]
    /\ UNCHANGED <<setup, redis, wire, heard, call, store, counts>>

\* Mutant of Announce: the endpoint is announced while nobody is subscribed.
AnnounceEarly(s) ==
    /\ stream[s].at = "announcing"
    /\ stream' = [stream EXCEPT ![s].at = "open", ![s].pinger = "running"]
    /\ UNCHANGED <<setup, redis, wire, heard, call, store, counts>>

Announce(s) ==
    /\ stream[s].at = "announcing"
    /\ Published(s, Endpoint)
    /\ stream' = [stream EXCEPT ![s].at = "open", ![s].pinger = "running"]
    /\ UNCHANGED <<setup, heard, call, store, counts>>

\* The callback of the subscription; a select draws at random, so it may come behind the stop.
SubscriberReads(s) ==
    /\ stream[s].subscriber \in {"running", "cut"} /\ wire[s] # <<>>
    /\ wire' = [wire EXCEPT ![s] = Tail(@)]
    /\ heard' = IF stream[s].at = "closed" THEN heard
                ELSE [heard EXCEPT ![s] = Append(@, Head(wire[s]))]
    /\ UNCHANGED <<setup, redis, stream, call, store, counts>>

SubscriberEnds(s) ==
    /\ \/ stream[s].subscriber = "cut" /\ wire[s] = <<>>
       \/ stream[s].subscriber \in {"running", "cut"} /\ stream[s].at = "closed"
    /\ stream' = [stream EXCEPT ![s].subscriber = "ended", ![s].linked = FALSE]
    /\ wire' = [wire EXCEPT ![s] = <<>>]
    /\ UNCHANGED <<setup, redis, heard, call, store, counts>>

Ping(s) ==
    /\ stream[s].pinger = "running" /\ stream[s].pings < setup.pings
    /\ Published(s, Pinging)
    /\ stream' = [stream EXCEPT ![s].pings = @ + 1]
    /\ UNCHANGED <<setup, heard, call, store, counts>>

\* Mutant of PingerEnds: the loop is left when a ping cannot be sent.
PingerEndsUnheard(s) ==
    /\ stream[s].pinger = "running" /\ ~ Works
    /\ stream' = [stream EXCEPT ![s].pinger = "ended"]
    /\ UNCHANGED <<setup, redis, wire, heard, call, store, counts>>

PingerEnds(s) ==
    /\ stream[s].pinger = "running" /\ stream[s].at = "closed"
    /\ stream' = [stream EXCEPT ![s].pinger = "ended"]
    /\ UNCHANGED <<setup, redis, wire, heard, call, store, counts>>

OnDestroy(s) ==
    /\ stream[s].at \in {"open", "answered"}
    /\ stream' = [stream EXCEPT ![s].at = "closed"]
    /\ UNCHANGED <<setup, redis, wire, heard, call, store, counts>>

-----------------------------------------------------------------------------
(* The configurations of users. *)

\* GetConfig: a key that is absent and a Redis that does not answer are both errors.
Stored(u) == IF Works THEN store.of[u] ELSE "absent"
SetConfig(u) == Stored(u) = "set"

\* The calls under way whose user it concerns see the store change.
Noticed(u) == [c \in Call |->
    [call[c] EXCEPT !.moved = @ \/ (call[c].at = "checking" /\ call[c].user = u)]]

\* HandleConfigRequest: a request from inside the network stores a configuration.
StoreConfig(u) ==
    /\ setup.userLevel /\ Works /\ store.changes < setup.changes
    /\ \E held \in {"empty", "set"} :
        /\ store.of[u] # held
        /\ store' = [of |-> [store.of EXCEPT ![u] = held], changes |-> store.changes + 1]
    /\ call' = Noticed(u)
    /\ UNCHANGED <<setup, redis, stream, wire, heard, counts>>

ConfigExpires(u) ==
    /\ store.of[u] # "absent" /\ store.changes < setup.changes
    /\ store' = [of |-> [store.of EXCEPT ![u] = "absent"], changes |-> store.changes + 1]
    /\ call' = Noticed(u)
    /\ UNCHANGED <<setup, redis, stream, wire, heard, counts>>

-----------------------------------------------------------------------------
(* The requests with calls. *)

At(c, at) == [call EXCEPT ![c].at = at]
Refused(c, answer) ==
    [call EXCEPT ![c].at = "encoding", ![c].answer = answer, ![c].refused = TRUE]

\* A client posts where the endpoint event told it to, or without a session.
Knows(s) == s \in Session => Contains(heard[s], Endpoint)

\* DecodeHeaders: a configuration of the user goes along as a header; an error is ignored. Parse
\* lets servers per user go without Redis, and then the handler panics: the host answers.
DecodeHeadersCall(c) ==
    /\ call[c].at = "none" /\ c <= setup.calls
    /\ \A earlier \in 1 .. c - 1 : call[earlier].at # "none"
    /\ \E s \in Session \cup {NoSession}, kind \in IF setup.userLevel THEN Kinds ELSE {"call"}, u \in Users :
        /\ Knows(s)
        /\ LET posted == [NoCall EXCEPT !.session = s, !.kind = kind, !.user = u] IN
           call' = [call EXCEPT ![c] =
               CASE ~ setup.userLevel -> [posted EXCEPT !.at = "upstream"]
                 [] setup.userLevel /\ setup.redis ->
                        [posted EXCEPT !.at = "checking", !.config = SetConfig(u)]
                 [] OTHER ->
                        [posted EXCEPT !.at = "encoding", !.answer = "body", !.refused = TRUE]]
    /\ UNCHANGED <<setup, redis, stream, wire, heard, store, counts>>

\* Mutant of DecodeData: without a configuration a call passes like one with an empty one.
DecodeDataLax(c) ==
    /\ call[c].at = "checking"
    /\ call' = IF call[c].kind = "call" /\ Stored(call[c].user) = "empty"
               THEN At(c, "counting") ELSE At(c, "upstream")
    /\ UNCHANGED <<setup, redis, stream, wire, heard, store, counts>>

\* DecodeData: the configuration is read once more.
DecodeData(c) ==
    /\ call[c].at = "checking"
    /\ call' = CASE call[c].kind = "list" -> At(c, "upstream")
                 [] call[c].kind # "list" /\ Stored(call[c].user) = "absent" ->
                        Refused(c, "empty")
                 [] call[c].kind = "call" /\ Stored(call[c].user) = "empty" -> At(c, "counting")
                 [] OTHER -> At(c, "upstream")
    /\ UNCHANGED <<setup, redis, stream, wire, heard, store, counts>>

\* Mutant of LimitScript: the call that finds nothing left is let through.
LimitScriptLax(u) ==
    IF counts.left[u] = Unset THEN [ok |-> TRUE, left |-> CallLimit - 1]
    ELSE [ok |-> TRUE, left |-> IF counts.left[u] > 0 THEN counts.left[u] - 1 ELSE 0]

\* LimitScript: what is left of the user's window after this call; all that is less than nothing
\* is one value.
LimitScript(u) ==
    IF counts.left[u] = Unset THEN [ok |-> TRUE, left |-> CallLimit - 1]
    ELSE IF counts.left[u] > 0 THEN [ok |-> TRUE, left |-> counts.left[u] - 1]
    ELSE [ok |-> FALSE, left |-> 0]

\* HandleRatelimit: an error refuses the call without a body, a window used up with one. A
\* script whose reply is lost has taken from the window all the same.
HandleRatelimit(c) ==
    LET u == call[c].user
        result == LimitScript(u)
    IN
    /\ call[c].at = "counting"
    /\ \/ /\ u \in Whitelist
          /\ call' = At(c, "upstream")
          /\ UNCHANGED <<redis, counts>>
       \/ /\ u \notin Whitelist /\ ~ Works
          /\ call' = Refused(c, "empty")
          /\ UNCHANGED <<redis, counts>>
       \/ /\ u \notin Whitelist /\ Works
          /\ call' = IF result.ok THEN [At(c, "upstream") EXCEPT ![c].counted = TRUE]
                     ELSE Refused(c, "body")
          /\ counts' = [counts EXCEPT
                 !.left[u] = result.left,
                 !.passed[u] = IF result.ok THEN @ + 1 ELSE @,
                 !.refused[u] = IF result.ok THEN @ ELSE @ + 1]
          /\ UNCHANGED redis
       \/ /\ u \notin Whitelist /\ LosesReply
          /\ call' \in {call, Refused(c, "empty")}
          /\ counts' = [counts EXCEPT !.left[u] = result.left,
                                      !.lost[u] = IF result.ok THEN @ + 1 ELSE @]
    /\ UNCHANGED <<setup, stream, wire, heard, store>>

WindowEnds(u) ==
    /\ counts.left[u] # Unset /\ counts.windows < setup.ends
    /\ counts' = [counts EXCEPT !.left[u] = Unset, !.windows = @ + 1,
                                !.passed[u] = 0, !.refused[u] = 0, !.lost[u] = 0]
    /\ UNCHANGED <<setup, redis, stream, wire, heard, call, store>>

\* The upstream, or the MCP server in the same gateway; a notification has no body in its answer.
UpstreamAnswers(c) ==
    /\ call[c].at = "upstream"
    /\ \E answer \in {"body", "empty"} :
        call' = [call EXCEPT ![c].at = "encoding", ![c].answer = answer]
    /\ UNCHANGED <<setup, redis, stream, wire, heard, store, counts>>

Relays(c) == setup.upstream = "rest" /\ setup.redis /\ call[c].session # NoSession

\* Mutant of EncodeData: only what upstream answered goes to the session.
EncodeDataUpstream(c) ==
    /\ call[c].at = "encoding"
    /\ IF call[c].answer = "body" /\ Relays(c) /\ ~ call[c].refused
       THEN Published(call[c].session, AnswerTo(c)) ELSE UNCHANGED <<redis, wire>>
    /\ call' = At(c, "done")
    /\ UNCHANGED <<setup, stream, heard, store, counts>>

\* EncodeData: an answer with a body is published to the channel of the session, whoever gave it.
EncodeData(c) ==
    /\ call[c].at = "encoding"
    /\ IF call[c].answer = "body" /\ Relays(c)
       THEN Published(call[c].session, AnswerTo(c)) ELSE UNCHANGED <<redis, wire>>
    /\ call' = At(c, "done")
    /\ UNCHANGED <<setup, stream, heard, store, counts>>

-----------------------------------------------------------------------------
SessionNext ==
    \/ RedisFails \/ RedisReturns \/ KeepAlive \/ DestroyConfig \/ KeepAliveStops
    \/ \E s \in Session :
        \/ Resubscribes(s) \/ DecodeHeadersSSE(s) \/ Subscribe(s) \/ Announce(s) \/ SubscriberReads(s)
        \/ SubscriberEnds(s) \/ Ping(s) \/ PingerEnds(s) \/ OnDestroy(s)
    \/ \E u \in User : StoreConfig(u) \/ ConfigExpires(u) \/ WindowEnds(u)
    \/ \E c \in Call :
        \/ DecodeHeadersCall(c) \/ DecodeData(c) \/ HandleRatelimit(c) \/ UpstreamAnswers(c)
        \/ EncodeData(c)

\* The goroutines of a stream and of the client run; nothing is asked of Redis or of clients.
SessionFair ==
    /\ WF_mcpSessionVars(KeepAliveStops)
    /\ \A s \in Session : WF_mcpSessionVars(SubscriberEnds(s)) /\ WF_mcpSessionVars(PingerEnds(s))

SessionSpec == SessionInit /\ [][SessionNext]_mcpSessionVars /\ SessionFair

-----------------------------------------------------------------------------
\* As long as Redis does not fail, loses no reply, and the configuration is not dropped, the
\* first event of a stream says where to post, and the answer to every call of the session, also
\* one the filter gave, is on its way to the stream once. Whatever fails, no stream ever gets
\* the answer to a call of another.
SessionsAreAnswered ==
    \A s \in Session :
        LET sent == heard[s] \o wire[s]
            Answers(c) == {n \in DOMAIN sent : sent[n] = AnswerTo(c)}
            undisturbed == redis.outages = 0 /\ redis.client = "open"
        IN /\ undisturbed /\ heard[s] # <<>> => Head(heard[s]) = Endpoint
           /\ \A c \in Call :
                 /\ undisturbed => Cardinality(Answers(c)) <= 1
                 /\ Answers(c) # {} => call[c].session = s
                 /\ (/\ undisturbed /\ stream[s].at = "open"
                     /\ call[c].session = s /\ call[c].at = "done" /\ call[c].answer = "body")
                    => Answers(c) # {}

\* A tool call that is on its way to a server of its user carries the user's configuration, is
\* counted, or is one of a user who may call without limit: unless the configuration changed,
\* or Redis came back, between the two times the filter read it. The calls let through stay
\* within the limit, with those a script counted whose reply was lost; and none is refused
\* before the two together have reached it.
CallsAreAccounted ==
    /\ \A c \in Call :
        call[c].at = "upstream" /\ call[c].kind = "call" /\ setup.userLevel =>
            call[c].config \/ call[c].counted \/ call[c].user \in Whitelist \/ call[c].moved
    /\ \A u \in User :
        /\ counts.passed[u] + counts.lost[u] <= CallLimit
        /\ counts.refused[u] > 0 => counts.passed[u] + counts.lost[u] = CallLimit

\* When the request of a stream is over, the two goroutines that serve it end, and keepAlive
\* ends with the configuration.
SessionsEnd ==
    /\ \A s \in Session :
        stream[s].at = "closed" ~>
            stream[s].subscriber \in {"none", "ended"} /\ stream[s].pinger \in {"none", "ended"}
    /\ redis.client = "closed" ~> ~ redis.keepAlive
=============================================================================
