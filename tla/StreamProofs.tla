---------------------------- MODULE StreamProofs ----------------------------
(***************************************************************************)
(* The event streams of the gateway.  The calls of an MCP session are       *)
(* accounted for and answered, for any streams, users, calls, limit and     *)
(* situation; of an answer that ai-security-guard checks while it streams   *)
(* the client sees what passed, in order, for any pieces and batch; and the *)
(* Claude stream that ai-proxy makes is well formed, for any tool calls.    *)
(***************************************************************************)
EXTENDS McpSession, ResponseStreams, FiniteSetTheorems, SequenceTheorems, WellFoundedInduction, TLAPS

StreamRecord ==
    [at : {"none", "subscribing", "announcing", "open", "answered", "closed"},
     subscriber : {"none", "running", "cut", "ended"},
     pinger : {"none", "running", "ended"}, pings : Nat, linked : BOOLEAN]

CallRecord ==
    [at : {"none", "checking", "counting", "upstream", "encoding", "done"},
     session : Session \cup {NoSession}, user : User \cup {None}, kind : Kinds,
     config : BOOLEAN, counted : BOOLEAN, moved : BOOLEAN, refused : BOOLEAN,
     answer : {"none", "body", "empty"}]

StreamEvent == {Endpoint, Pinging} \cup {AnswerTo(c) : c \in Call}

RedisRecord == [up : BOOLEAN, client : {"open", "closed"}, outages : Nat, keepAlive : BOOLEAN]

RedisOK == redis \in RedisRecord
CallsOK ==
    /\ call \in [Call -> CallRecord]
    /\ \A c \in Call : call[c].at \in {"checking", "counting"} => call[c].user \in User
StreamsOK == stream \in [Session -> StreamRecord]
EventsOK == wire \in [Session -> Seq(StreamEvent)] /\ heard \in [Session -> Seq(StreamEvent)]
StoreOK == store \in [of : [User -> {"absent", "empty", "set"}], changes : Nat]
CountsRecord == [left : [User -> 0 .. Unset], windows : Nat,
                 passed : [User -> Nat], refused : [User -> Nat], lost : [User -> Nat]]

CountsOK == counts \in CountsRecord

SessionTypeOK ==
    /\ setup \in Situations
    /\ RedisOK /\ CallsOK /\ StreamsOK /\ EventsOK /\ StoreOK /\ CountsOK

LEMMA SetupFields ==
    ASSUME SessionTypeOK
    PROVE  /\ setup.upstream \in {"rest", "streamable"}
           /\ setup.redis \in BOOLEAN /\ setup.userLevel \in BOOLEAN
           /\ setup.users \subseteq User /\ setup.calls \in 0 .. MaxCalls
           /\ setup.sessions \in 0 .. MaxSessions
BY SessionAssumption DEF SessionTypeOK

\* The records of streams and calls, field by field.
LEMMA StreamUpdates ==
    ASSUME NEW r \in StreamRecord, NEW b \in BOOLEAN
    PROVE  /\ [r EXCEPT !.linked = b] \in StreamRecord
           /\ \A at \in {"none", "subscribing", "announcing", "open", "answered", "closed"} :
                 [r EXCEPT !.at = at] \in StreamRecord
           /\ [r EXCEPT !.subscriber = "ended", !.linked = FALSE] \in StreamRecord
           /\ \A sub \in {"running", "none"} :
                 [r EXCEPT !.at = "announcing", !.subscriber = sub, !.linked = b] \in StreamRecord
           /\ [r EXCEPT !.linked = FALSE, !.subscriber = IF @ = "running" THEN "cut" ELSE @]
                 \in StreamRecord
           /\ [r EXCEPT !.at = "open", !.pinger = "running"] \in StreamRecord
           /\ [r EXCEPT !.pings = @ + 1] \in StreamRecord
           /\ [r EXCEPT !.pinger = "ended"] \in StreamRecord
<1>. USE DEF StreamRecord
<1>1. [r EXCEPT !.linked = b] \in StreamRecord
    OBVIOUS
<1>2. ASSUME NEW at \in {"none", "subscribing", "announcing", "open", "answered", "closed"}
      PROVE  [r EXCEPT !.at = at] \in StreamRecord
    OBVIOUS
<1>3. [r EXCEPT !.subscriber = "ended", !.linked = FALSE] \in StreamRecord
    OBVIOUS
<1>4. ASSUME NEW sub \in {"running", "none"}
      PROVE  [r EXCEPT !.at = "announcing", !.subscriber = sub, !.linked = b] \in StreamRecord
    OBVIOUS
<1>5. [r EXCEPT !.linked = FALSE, !.subscriber = IF @ = "running" THEN "cut" ELSE @] \in StreamRecord
    OBVIOUS
<1>6. [r EXCEPT !.at = "open", !.pinger = "running"] \in StreamRecord
    OBVIOUS
<1>7. [r EXCEPT !.pings = @ + 1] \in StreamRecord
    OBVIOUS
<1>8. [r EXCEPT !.pinger = "ended"] \in StreamRecord
    OBVIOUS
<1>. QED
    BY <1>1, <1>2, <1>3, <1>4, <1>5, <1>6, <1>7, <1>8

LEMMA CallUpdates ==
    ASSUME NEW r \in CallRecord
    PROVE  /\ \A b \in BOOLEAN : [r EXCEPT !.moved = b] \in CallRecord
           /\ \A at \in {"none", "checking", "counting", "upstream", "encoding", "done"} :
                 /\ [r EXCEPT !.at = at] \in CallRecord
                 /\ [r EXCEPT !.at = at].at = at /\ [r EXCEPT !.at = at].user = r.user
           /\ [r EXCEPT !.at = "upstream", !.counted = TRUE] \in CallRecord
           /\ \A reply \in {"body", "empty"} :
                 /\ [r EXCEPT !.at = "encoding", !.answer = reply] \in CallRecord
                 /\ [r EXCEPT !.at = "encoding", !.answer = reply, !.refused = TRUE]
                        \in CallRecord
           /\ \A b \in BOOLEAN : [r EXCEPT !.at = "checking", !.config = b] \in CallRecord
BY DEF CallRecord

LEMMA InitTypes == SessionInit => SessionTypeOK
<1>. SUFFICES ASSUME SessionInit
              PROVE  SessionTypeOK
    OBVIOUS
<1>. USE DEF SessionInit
<1>1. NoCall \in CallRecord /\ NoStream \in StreamRecord
    BY DEF NoCall, NoStream, CallRecord, StreamRecord, Kinds
<1>2. RedisOK
    <2>1. setup.redis \in BOOLEAN
        BY SessionAssumption
    <2>. QED
        BY <2>1 DEF RedisOK, RedisRecord
<1>3. CallsOK /\ StreamsOK
    BY <1>1 DEF CallsOK, StreamsOK, NoCall
<1>4. EventsOK /\ StoreOK
    BY DEF EventsOK, StoreOK
<1>5. CountsOK
    <2>1. Unset \in 0 .. Unset
        BY SessionAssumption DEF Unset
    <2>. QED
        BY <2>1 DEF CountsOK, CountsRecord
<1>. QED
    BY <1>2, <1>3, <1>4, <1>5 DEF SessionTypeOK

LEMMA EventsAreEvents ==
    /\ Endpoint \in StreamEvent /\ Pinging \in StreamEvent
    /\ \A c \in Call : AnswerTo(c) \in StreamEvent
BY DEF StreamEvent

\* A reply that is lost is a failure and leaves Redis as it is.
LEMMA LostReply ==
    ASSUME RedisOK, LosesReply
    PROVE  /\ RedisOK' /\ redis'.up = redis.up
           /\ UNCHANGED setup => (Works <=> Works')
           /\ redis'.client = redis.client /\ redis'.outages = redis.outages + 1
           /\ redis.outages \in Nat
<1>1. redis \in RedisRecord /\ redis.outages \in Nat
    BY DEF RedisOK, RedisRecord
<1>. DEFINE r == [redis EXCEPT !.outages = @ + 1]
<1>2. redis' = r
    BY DEF LosesReply
<1>. QED
    BY <1>1, <1>2 DEF RedisOK, RedisRecord, Works

LEMMA PublishedType ==
    ASSUME SessionTypeOK, NEW s \in Session, NEW m \in StreamEvent, Published(s, m)
    PROVE  wire' \in [Session -> Seq(StreamEvent)] /\ RedisOK'
<1>1. wire \in [Session -> Seq(StreamEvent)] /\ RedisOK
    BY DEF SessionTypeOK, EventsOK
<1>2. RedisOK'
    BY <1>1, LostReply DEF Published, RedisOK
<1>3. \A q \in Seq(StreamEvent) : Append(q, m) \in Seq(StreamEvent)
    OBVIOUS
<1>4. \/ wire' = wire
      \/ wire' = [wire EXCEPT ![s] = Append(wire[s], m)]
      \/ wire' = [wire EXCEPT ![s] = Append(Append(wire[s], m), m)]
    BY <1>1 DEF Published
<1>5. wire' \in [Session -> Seq(StreamEvent)]
    BY <1>1, <1>3, <1>4
<1>. QED
    BY <1>2, <1>5

\* What each step of a stream makes of its record; Linking needs what Works says.
LEMMA StreamStepTypes ==
    ASSUME SessionTypeOK, NEW s \in Session,
           \/ Resubscribes(s) \/ DecodeHeadersSSE(s) \/ Subscribe(s) \/ Announce(s)
           \/ SubscriberReads(s) \/ SubscriberEnds(s) \/ Ping(s) \/ PingerEnds(s) \/ OnDestroy(s)
    PROVE  SessionTypeOK'
<1>0. stream[s] \in StreamRecord /\ Works \in BOOLEAN
    BY SetupFields DEF SessionTypeOK, StreamsOK, Works
<1>. DEFINE Becomes(r) == r \in StreamRecord /\ stream' = [stream EXCEPT ![s] = r]
<1>01. ASSUME NEW r, Becomes(r)
      PROVE  StreamsOK'
    BY <1>01 DEF SessionTypeOK, StreamsOK
<1>1. CASE Resubscribes(s)
    <2>1. Becomes([stream[s] EXCEPT !.linked = TRUE])
        BY <1>0, <1>1, StreamUpdates DEF Resubscribes
    <2>. QED
        BY <1>1, <1>01, <2>1 DEF SessionTypeOK, RedisOK, CallsOK, EventsOK, StoreOK, CountsOK,
                                 Resubscribes
<1>11. CASE DecodeHeadersSSE(s)
    <2>1. PICK at \in {"subscribing", "answered"} : stream' = [stream EXCEPT ![s].at = at]
        BY <1>11 DEF DecodeHeadersSSE
    <2>2. Becomes([stream[s] EXCEPT !.at = at])
        BY <1>0, <2>1, StreamUpdates
    <2>. QED
        BY <1>11, <1>01, <2>2 DEF SessionTypeOK, RedisOK, CallsOK, EventsOK, StoreOK, CountsOK,
                                  DecodeHeadersSSE
<1>2. CASE Subscribe(s)
    <2>. DEFINE sub == IF Works THEN "running" ELSE "none"
    <2>1. Becomes([stream[s] EXCEPT !.at = "announcing", !.subscriber = sub, !.linked = Works])
        BY <1>0, <1>2, StreamUpdates DEF Subscribe
    <2>. QED
        BY <1>2, <1>01, <2>1 DEF SessionTypeOK, RedisOK, CallsOK, EventsOK, StoreOK, CountsOK,
                                 Subscribe
<1>3. CASE Announce(s) \/ Ping(s)
    <2>1. StreamsOK'
        <3>1. CASE Announce(s)
            <4>1. Becomes([stream[s] EXCEPT !.at = "open", !.pinger = "running"])
                BY <1>0, <3>1, StreamUpdates DEF Announce
            <4>. QED
                BY <1>01, <4>1
        <3>2. CASE Ping(s)
            <4>1. Becomes([stream[s] EXCEPT !.pings = @ + 1])
                BY <1>0, <3>2, StreamUpdates DEF Ping
            <4>. QED
                BY <1>01, <4>1
        <3>. QED
            BY <1>3, <3>1, <3>2
    <2>2. EventsOK' /\ RedisOK'
        BY <1>3, PublishedType, EventsAreEvents DEF Announce, Ping, EventsOK, SessionTypeOK
    <2>. QED
        BY <1>3, <2>1, <2>2 DEF SessionTypeOK, CallsOK, StoreOK, CountsOK, Announce, Ping
<1>4. CASE SubscriberReads(s)
    <2>1. wire[s] \in Seq(StreamEvent) /\ heard[s] \in Seq(StreamEvent)
        BY DEF SessionTypeOK, EventsOK
    <2>2. Tail(wire[s]) \in Seq(StreamEvent) /\ Append(heard[s], Head(wire[s])) \in Seq(StreamEvent)
        BY <1>4, <2>1 DEF SubscriberReads
    <2>3. EventsOK'
        BY <1>4, <2>2 DEF SubscriberReads, EventsOK, SessionTypeOK
    <2>. QED
        BY <1>4, <2>3 DEF SessionTypeOK, RedisOK, CallsOK, StreamsOK, StoreOK, CountsOK,
                          SubscriberReads
<1>5. CASE SubscriberEnds(s)
    <2>1. StreamsOK'
        <3>1. Becomes([stream[s] EXCEPT !.subscriber = "ended", !.linked = FALSE])
            BY <1>0, <1>5, StreamUpdates DEF SubscriberEnds
        <3>. QED
            BY <1>01, <3>1
    <2>2. EventsOK'
        BY <1>5 DEF SubscriberEnds, EventsOK, SessionTypeOK
    <2>. QED
        BY <1>5, <2>1, <2>2 DEF SessionTypeOK, RedisOK, CallsOK, StoreOK, CountsOK, SubscriberEnds
<1>6. CASE PingerEnds(s) \/ OnDestroy(s)
    <2>1. StreamsOK'
        <3>1. PingerEnds(s) => Becomes([stream[s] EXCEPT !.pinger = "ended"])
            BY <1>0, StreamUpdates DEF PingerEnds
        <3>2. OnDestroy(s) => Becomes([stream[s] EXCEPT !.at = "closed"])
            BY <1>0, StreamUpdates DEF OnDestroy
        <3>. QED
            BY <1>01, <1>6, <3>1, <3>2
    <2>. QED
        BY <1>6, <2>1 DEF SessionTypeOK, RedisOK, CallsOK, EventsOK, StoreOK, CountsOK,
                          PingerEnds, OnDestroy
<1>. QED
    BY <1>1, <1>11, <1>2, <1>3, <1>4, <1>5, <1>6

\* Marking calls as moved leaves them as they are otherwise.
LEMMA MovedTypes ==
    ASSUME CallsOK, NEW seen \in [Call -> BOOLEAN],
           call' = [c \in Call |-> [call[c] EXCEPT !.moved = @ \/ seen[c]]]
    PROVE  /\ CallsOK'
           /\ \A c \in Call :
                 /\ call'[c].at = call[c].at /\ call'[c].session = call[c].session
                 /\ call'[c].user = call[c].user /\ call'[c].kind = call[c].kind
                 /\ call'[c].config = call[c].config /\ call'[c].counted = call[c].counted
                 /\ call'[c].answer = call[c].answer
                 /\ call[c].moved \/ seen[c] => call'[c].moved
<1>1. ASSUME NEW c \in Call
      PROVE  /\ call'[c] \in CallRecord
             /\ call'[c].at = call[c].at /\ call'[c].session = call[c].session
             /\ call'[c].user = call[c].user /\ call'[c].kind = call[c].kind
             /\ call'[c].config = call[c].config /\ call'[c].counted = call[c].counted
             /\ call'[c].answer = call[c].answer
             /\ call[c].moved \/ seen[c] => call'[c].moved
    <2>. DEFINE b == call[c].moved \/ seen[c]
    <2>1. call[c] \in CallRecord /\ b \in BOOLEAN
        BY DEF CallsOK, CallRecord
    <2>2. call'[c] = [call[c] EXCEPT !.moved = b]
        OBVIOUS
    <2>3. call'[c] \in CallRecord
        BY <2>1, <2>2, CallUpdates
    <2>4. /\ call'[c].at = call[c].at /\ call'[c].session = call[c].session
          /\ call'[c].user = call[c].user /\ call'[c].kind = call[c].kind
          /\ call'[c].config = call[c].config /\ call'[c].counted = call[c].counted
          /\ call'[c].answer = call[c].answer
          /\ call'[c].moved = b
        BY <2>1, <2>2 DEF CallRecord
    <2>. QED
        BY <2>3, <2>4
<1>2. DOMAIN call' = Call /\ call' = [c \in Call |-> call'[c]]
    OBVIOUS
<1>. QED
    BY <1>1, <1>2 DEF CallsOK

LEMMA OneMoreOutage ==
    ASSUME NEW r \in RedisRecord
    PROVE  [r EXCEPT !.up = FALSE, !.outages = @ + 1] \in RedisRecord
<1>1. r.outages + 1 \in Nat
    BY DEF RedisRecord
<1>. QED
    BY <1>1 DEF RedisRecord

LEMMA RedisStepTypes ==
    ASSUME SessionTypeOK,
           RedisFails \/ RedisReturns \/ KeepAlive \/ DestroyConfig \/ KeepAliveStops
    PROVE  SessionTypeOK'
<1>. USE DEF RedisFails, RedisReturns, KeepAlive, DestroyConfig, KeepAliveStops
<1>1. RedisOK'
    <2>1. redis \in RedisRecord
        BY DEF SessionTypeOK, RedisOK
    <2>2. [redis EXCEPT !.up = FALSE, !.outages = @ + 1] \in RedisRecord
        BY <2>1, OneMoreOutage
    <2>3. /\ [redis EXCEPT !.up = TRUE] \in RedisRecord
          /\ [redis EXCEPT !.client = "closed"] \in RedisRecord
        BY <2>1 DEF RedisRecord
    <2>4. [redis EXCEPT !.keepAlive = FALSE] \in RedisRecord
        BY <2>1 DEF RedisRecord
    <2>. QED
        BY <2>1, <2>2, <2>3, <2>4 DEF RedisOK
<1>2. Cut \in [Session -> StreamRecord]
      /\ [s \in Session |-> [stream[s] EXCEPT !.linked = FALSE]] \in [Session -> StreamRecord]
    BY StreamUpdates DEF SessionTypeOK, StreamsOK, Cut
<1>3. StreamsOK'
    BY <1>2 DEF SessionTypeOK, StreamsOK
<1>4. CallsOK'
    <2>. DEFINE seen == [c \in Call |-> call[c].at = "checking"]
    <2>1. CASE RedisReturns
        <3>1. seen \in [Call -> BOOLEAN]
            OBVIOUS
        <3>2. call' = [c \in Call |-> [call[c] EXCEPT !.moved = @ \/ seen[c]]]
            BY <2>1
        <3>. QED
            BY <3>1, <3>2, MovedTypes DEF SessionTypeOK
    <2>2. CASE call' = call
        BY <2>2 DEF SessionTypeOK, CallsOK
    <2>. QED
        BY <2>1, <2>2
<1>. QED
    BY <1>1, <1>3, <1>4 DEF SessionTypeOK, EventsOK, StoreOK, CountsOK

LEMMA NoticedTypes ==
    ASSUME SessionTypeOK, NEW u \in User, call' = Noticed(u)
    PROVE  CallsOK'
<1>. DEFINE seen == [c \in Call |-> call[c].at = "checking" /\ call[c].user = u]
<1>1. seen \in [Call -> BOOLEAN]
    OBVIOUS
<1>2. call' = [c \in Call |-> [call[c] EXCEPT !.moved = @ \/ seen[c]]]
    BY DEF Noticed
<1>. QED
    BY <1>1, <1>2, MovedTypes DEF SessionTypeOK

LEMMA UserStepTypes ==
    ASSUME SessionTypeOK, NEW u \in User, StoreConfig(u) \/ ConfigExpires(u) \/ WindowEnds(u)
    PROVE  SessionTypeOK'
<1>1. StoreOK'
    BY DEF StoreConfig, ConfigExpires, WindowEnds, SessionTypeOK, StoreOK
<1>2. CallsOK'
    BY NoticedTypes DEF StoreConfig, ConfigExpires, WindowEnds, SessionTypeOK, CallsOK
<1>3. CountsOK'
    <2>1. CASE WindowEnds(u)
        <3>1. counts' = [counts EXCEPT !.left[u] = Unset, !.windows = @ + 1,
                                       !.passed[u] = 0, !.refused[u] = 0, !.lost[u] = 0]
            BY <2>1 DEF WindowEnds
        <3>2. Unset \in 0 .. Unset
            BY SessionAssumption DEF Unset
        <3>3. counts \in CountsRecord
            BY DEF SessionTypeOK, CountsOK
        <3>4. counts' = [left |-> [counts.left EXCEPT ![u] = Unset],
                         windows |-> counts.windows + 1,
                         passed |-> [counts.passed EXCEPT ![u] = 0],
                         refused |-> [counts.refused EXCEPT ![u] = 0],
                         lost |-> [counts.lost EXCEPT ![u] = 0]]
            BY <3>1, <3>3 DEF CountsRecord
        <3>5. counts' \in CountsRecord
            <4>1. /\ counts.left \in [User -> 0 .. Unset] /\ counts.windows \in Nat
                  /\ counts.passed \in [User -> Nat] /\ counts.refused \in [User -> Nat]
                  /\ counts.lost \in [User -> Nat]
                BY <3>3 DEF CountsRecord
            <4>2. /\ [counts.left EXCEPT ![u] = Unset] \in [User -> 0 .. Unset]
                  /\ [counts.passed EXCEPT ![u] = 0] \in [User -> Nat]
                  /\ [counts.refused EXCEPT ![u] = 0] \in [User -> Nat]
                  /\ [counts.lost EXCEPT ![u] = 0] \in [User -> Nat]
                BY <3>2, <4>1
            <4>. QED
                BY <3>4, <4>1, <4>2 DEF CountsRecord
        <3>. QED
            BY <3>5 DEF CountsOK
    <2>2. CASE counts' = counts
        BY <2>2 DEF SessionTypeOK, CountsOK
    <2>. QED
        BY <2>1, <2>2 DEF StoreConfig, ConfigExpires
<1>. QED
    BY <1>1, <1>2, <1>3 DEF StoreConfig, ConfigExpires, WindowEnds, SessionTypeOK, RedisOK,
                            StreamsOK, EventsOK

\* The users of the calls are users of the situation.
LEMMA UsersAreUsers ==
    ASSUME SessionTypeOK
    PROVE  Users \subseteq User \cup {None} /\ (setup.userLevel => Users \subseteq User)
BY SetupFields DEF Users

\* The record of a call that is posted.
LEMMA PostedCall ==
    ASSUME SessionTypeOK, NEW c \in Call, DecodeHeadersCall(c)
    PROVE  \E r \in CallRecord :
              /\ call' = [call EXCEPT ![c] = r]
              /\ Knows(r.session)
              /\ \/ r.at = "upstream" /\ ~ setup.userLevel
                 \/ r.at = "checking" /\ r.user \in User /\ r.config = SetConfig(r.user)
                 \/ r.at = "encoding"
<1>1. PICK s \in Session \cup {NoSession},
           kind \in IF setup.userLevel THEN Kinds ELSE {"call"}, u \in Users :
        /\ Knows(s)
        /\ LET posted == [NoCall EXCEPT !.session = s, !.kind = kind, !.user = u] IN
           call' = [call EXCEPT ![c] =
               CASE ~ setup.userLevel -> [posted EXCEPT !.at = "upstream"]
                 [] setup.userLevel /\ setup.redis ->
                        [posted EXCEPT !.at = "checking", !.config = SetConfig(u)]
                 [] OTHER ->
                        [posted EXCEPT !.at = "encoding", !.answer = "body", !.refused = TRUE]]
    BY Zenon DEF DecodeHeadersCall
<1>2. kind \in Kinds
    BY DEF Kinds
<1>. DEFINE posted == [NoCall EXCEPT !.session = s, !.kind = kind, !.user = u]
<1>3. posted \in CallRecord /\ posted.user = u /\ posted.session = s
    BY <1>2, UsersAreUsers DEF CallRecord, NoCall
<1>4. SetConfig(u) \in BOOLEAN
    BY DEF SetConfig
<1>. HIDE DEF posted
<1>5. CASE ~ setup.userLevel
    <2>. DEFINE r == [posted EXCEPT !.at = "upstream"]
    <2>1. r \in CallRecord /\ r.at = "upstream" /\ r.session = s
        BY <1>3 DEF CallRecord
    <2>2. call' = [call EXCEPT ![c] = r]
        BY <1>1, <1>5 DEF posted
    <2>. QED
        BY <1>1, <1>5, <2>1, <2>2
<1>6. CASE setup.userLevel /\ setup.redis
    <2>. DEFINE r == [posted EXCEPT !.at = "checking", !.config = SetConfig(u)]
    <2>1. r \in CallRecord /\ r.at = "checking" /\ r.user = u /\ r.session = s
          /\ r.config = SetConfig(u)
        BY <1>3, <1>4 DEF CallRecord
    <2>2. u \in User
        BY <1>6, UsersAreUsers
    <2>3. call' = [call EXCEPT ![c] = r]
        BY <1>1, <1>6 DEF posted
    <2>. HIDE DEF r
    <2>. QED
        BY <1>1, <2>1, <2>2, <2>3
<1>7. CASE setup.userLevel /\ ~ setup.redis
    <2>. DEFINE r == [posted EXCEPT !.at = "encoding", !.answer = "body", !.refused = TRUE]
    <2>1. r \in CallRecord /\ r.at = "encoding" /\ r.session = s
        BY <1>3 DEF CallRecord
    <2>2. call' = [call EXCEPT ![c] = r]
        BY <1>1, <1>7 DEF posted
    <2>. QED
        BY <1>1, <2>1, <2>2
<1>. QED
    BY <1>5, <1>6, <1>7, SetupFields

LEMMA PostTypes ==
    ASSUME SessionTypeOK, NEW c \in Call, DecodeHeadersCall(c)
    PROVE  SessionTypeOK'
<1>1. CallsOK'
    BY PostedCall DEF SessionTypeOK, CallsOK
<1>. QED
    BY <1>1 DEF DecodeHeadersCall, SessionTypeOK, RedisOK, StreamsOK, EventsOK, StoreOK, CountsOK

\* What the filter of a call makes of its record.
LEMMA DecodedCall ==
    ASSUME SessionTypeOK, NEW c \in Call, DecodeData(c)
    PROVE  \/ call' = At(c, "upstream")
              /\ (call[c].kind = "call" => SetConfig(call[c].user))
           \/ call' = At(c, "counting")
           \/ call' = Refused(c, "empty")
<1>1. Stored(call[c].user) \in {"absent", "empty", "set"} /\ call[c].kind \in Kinds
    BY DEF DecodeData, SessionTypeOK, CallsOK, CallRecord, StoreOK, Stored
<1>. QED
    BY <1>1 DEF DecodeData, SetConfig, Kinds

\* The fields of the record of a call after a step of its filter.
LEMMA CallFields ==
    ASSUME SessionTypeOK, NEW c \in Call
    PROVE  /\ \A at : call' = At(c, at) => call'[c] = [call[c] EXCEPT !.at = at]
           /\ \A reply : call' = Refused(c, reply) => call'[c].at = "encoding"
           /\ call' = [At(c, "upstream") EXCEPT ![c].counted = TRUE] =>
                 call'[c] = [call[c] EXCEPT !.at = "upstream", !.counted = TRUE]
<1>1. call[c] \in CallRecord
    BY DEF SessionTypeOK, CallsOK
<1>2. ASSUME NEW reply, call' = Refused(c, reply)
      PROVE  call'[c].at = "encoding"
    <2>. DEFINE r == [call[c] EXCEPT !.at = "encoding", !.answer = reply, !.refused = TRUE]
    <2>1. r.at = "encoding"
        BY <1>1 DEF CallRecord
    <2>2. call' = [call EXCEPT ![c] = r]
        BY <1>2 DEF Refused
    <2>. QED
        BY <2>1, <2>2 DEF SessionTypeOK, CallsOK
<1>3. \A at : call' = At(c, at) => call'[c] = [call[c] EXCEPT !.at = at]
    BY DEF At, SessionTypeOK, CallsOK
<1>4. call' = [At(c, "upstream") EXCEPT ![c].counted = TRUE] =>
          call'[c] = [call[c] EXCEPT !.at = "upstream", !.counted = TRUE]
    BY DEF At, SessionTypeOK, CallsOK
<1>. QED
    BY <1>2, <1>3, <1>4

LEMMA CallBecomes ==
    ASSUME SessionTypeOK, NEW c \in Call
    PROVE  /\ \A at \in {"upstream", "encoding", "done"} : call' = At(c, at) => CallsOK'
           /\ call[c].at = "checking" /\ call' = At(c, "counting") => CallsOK'
           /\ \A reply \in {"body", "empty"} : call' = Refused(c, reply) => CallsOK'
           /\ call' = [At(c, "upstream") EXCEPT ![c].counted = TRUE] => CallsOK'
<1>1. call[c] \in CallRecord
    BY DEF SessionTypeOK, CallsOK
<1>2. ASSUME NEW r \in CallRecord, r.user = call[c].user,
             r.at \in {"checking", "counting"} => call[c].at \in {"checking", "counting"},
             call' = [call EXCEPT ![c] = r]
      PROVE  CallsOK'
    BY <1>2 DEF SessionTypeOK, CallsOK
<1>3. ASSUME NEW at \in {"upstream", "encoding", "done"}, call' = At(c, at)
      PROVE  CallsOK'
    <2>. DEFINE r == [call[c] EXCEPT !.at = at]
    <2>0. at \in {"none", "checking", "counting", "upstream", "encoding", "done"}
        BY <1>3
    <2>1. r \in CallRecord /\ r.user = call[c].user /\ r.at = at
        BY <1>1, <2>0, CallUpdates, Zenon
    <2>2. call' = [call EXCEPT ![c] = r]
        BY <1>3 DEF At
    <2>. QED
        BY <1>2, <1>3, <2>1, <2>2
<1>4. ASSUME call[c].at = "checking", call' = At(c, "counting")
      PROVE  CallsOK'
    <2>. DEFINE r == [call[c] EXCEPT !.at = "counting"]
    <2>1. call' = [call EXCEPT ![c] = r] /\ r \in CallRecord /\ r.user = call[c].user
        BY <1>1, <1>4, CallUpdates DEF At
    <2>. QED
        BY <1>2, <1>4, <2>1
<1>5. ASSUME NEW reply \in {"body", "empty"}, call' = Refused(c, reply)
      PROVE  CallsOK'
    <2>. DEFINE r == [call[c] EXCEPT !.at = "encoding", !.answer = reply, !.refused = TRUE]
    <2>1. r \in CallRecord
        BY <1>1, CallUpdates
    <2>2. r.user = call[c].user /\ r.at = "encoding"
        BY <1>1 DEF CallRecord
    <2>3. call' = [call EXCEPT ![c] = r]
        BY <1>5 DEF Refused
    <2>. QED
        BY <1>2, <2>1, <2>2, <2>3
<1>6. ASSUME call' = [At(c, "upstream") EXCEPT ![c].counted = TRUE]
      PROVE  CallsOK'
    <2>. DEFINE r == [call[c] EXCEPT !.at = "upstream", !.counted = TRUE]
    <2>1. r \in CallRecord
        BY <1>1, CallUpdates
    <2>2. r.user = call[c].user /\ r.at = "upstream"
        BY <1>1 DEF CallRecord
    <2>3. call' = [call EXCEPT ![c] = r]
        BY <1>6 DEF At, SessionTypeOK, CallsOK
    <2>. QED
        BY <1>2, <2>1, <2>2, <2>3
<1>. QED
    BY <1>3, <1>4, <1>5, <1>6

\* What the limit makes of a call: it goes on, is refused, or waits for the script to run again.
LEMMA RatelimitedCall ==
    ASSUME NEW c \in Call, HandleRatelimit(c)
    PROVE  \/ call' = At(c, "upstream") /\ call[c].user \in Whitelist
           \/ call' = [At(c, "upstream") EXCEPT ![c].counted = TRUE]
           \/ \E reply \in {"empty", "body"} : call' = Refused(c, reply)
           \/ call' = call
BY DEF HandleRatelimit

LEMMA CallStepTypes ==
    ASSUME SessionTypeOK, NEW c \in Call,
           DecodeData(c) \/ HandleRatelimit(c) \/ UpstreamAnswers(c) \/ EncodeData(c)
    PROVE  SessionTypeOK'
<1>1. CASE DecodeData(c)
    <2>2. CallsOK'
        BY <1>1, DecodedCall, CallBecomes DEF DecodeData
    <2>. QED
        BY <1>1, <2>2 DEF DecodeData, SessionTypeOK, RedisOK, StreamsOK, EventsOK, StoreOK, CountsOK
<1>2. CASE HandleRatelimit(c)
    <2>. DEFINE u == call[c].user
                result == LimitScript(u)
    <2>0. u \in User /\ counts \in CountsRecord
        BY <1>2 DEF HandleRatelimit, SessionTypeOK, CallsOK, CountsOK
    <2>1. CallsOK' /\ RedisOK'
        <3>1. CallsOK'
            BY <1>2, RatelimitedCall, CallBecomes DEF SessionTypeOK, CallsOK
        <3>2. RedisOK'
            BY <1>2, LostReply DEF HandleRatelimit, SessionTypeOK, RedisOK
        <3>. QED
            BY <3>1, <3>2
    <2>2. result.left \in 0 .. Unset
        BY <2>0, SessionAssumption DEF LimitScript, CountsRecord, Unset
    <2>. HIDE DEF result
    <2>3. CountsOK'
        <3>1. CASE UNCHANGED counts
            BY <2>0, <3>1 DEF CountsOK
        <3>2. CASE counts' = [counts EXCEPT
                     !.left[u] = result.left,
                     !.passed[u] = IF result.ok THEN @ + 1 ELSE @,
                     !.refused[u] = IF result.ok THEN @ ELSE @ + 1]
            <4>1. counts' = [left |-> [counts.left EXCEPT ![u] = result.left],
                             windows |-> counts.windows,
                             passed |-> [counts.passed EXCEPT ![u] = IF result.ok THEN @ + 1 ELSE @],
                             refused |-> [counts.refused EXCEPT ![u] = IF result.ok THEN @ ELSE @ + 1],
                             lost |-> counts.lost]
                BY <2>0, <3>2 DEF CountsRecord
            <4>2. /\ [counts.left EXCEPT ![u] = result.left] \in [User -> 0 .. Unset]
                  /\ [counts.passed EXCEPT ![u] = IF result.ok THEN @ + 1 ELSE @] \in [User -> Nat]
                  /\ [counts.refused EXCEPT ![u] = IF result.ok THEN @ ELSE @ + 1] \in [User -> Nat]
                  /\ counts.windows \in Nat /\ counts.lost \in [User -> Nat]
                BY <2>0, <2>2 DEF CountsRecord
            <4>. QED
                BY <4>1, <4>2 DEF CountsOK, CountsRecord
        <3>3. CASE counts' = [counts EXCEPT !.left[u] = result.left,
                                            !.lost[u] = IF result.ok THEN @ + 1 ELSE @]
            <4>1. counts' = [left |-> [counts.left EXCEPT ![u] = result.left],
                             windows |-> counts.windows,
                             passed |-> counts.passed,
                             refused |-> counts.refused,
                             lost |-> [counts.lost EXCEPT ![u] = IF result.ok THEN @ + 1 ELSE @]]
                BY <2>0, <3>3 DEF CountsRecord
            <4>2. /\ [counts.left EXCEPT ![u] = result.left] \in [User -> 0 .. Unset]
                  /\ [counts.lost EXCEPT ![u] = IF result.ok THEN @ + 1 ELSE @] \in [User -> Nat]
                  /\ counts.windows \in Nat /\ counts.passed \in [User -> Nat]
                  /\ counts.refused \in [User -> Nat]
                BY <2>0, <2>2 DEF CountsRecord
            <4>. QED
                BY <4>1, <4>2 DEF CountsOK, CountsRecord
        <3>. QED
            BY <1>2, <3>1, <3>2, <3>3 DEF HandleRatelimit, result
    <2>. QED
        BY <1>2, <2>1, <2>3 DEF HandleRatelimit, SessionTypeOK, StreamsOK, EventsOK, StoreOK
<1>3. CASE UpstreamAnswers(c)
    <2>1. CallsOK'
        BY <1>3 DEF UpstreamAnswers, SessionTypeOK, CallsOK, CallRecord
    <2>. QED
        BY <1>3, <2>1 DEF UpstreamAnswers, SessionTypeOK, RedisOK, StreamsOK, EventsOK, StoreOK, CountsOK
<1>4. CASE EncodeData(c)
    <2>1. CallsOK'
        BY <1>4 DEF EncodeData, SessionTypeOK, CallsOK, CallRecord, At
    <2>2. EventsOK' /\ RedisOK'
        <3>1. CASE call[c].answer = "body" /\ Relays(c)
            <4>1. call[c].session \in Session /\ Published(call[c].session, AnswerTo(c))
                BY <1>4, <3>1 DEF EncodeData, Relays, SessionTypeOK, CallsOK, CallRecord
            <4>. QED
                BY <1>4, <4>1, PublishedType, EventsAreEvents DEF EncodeData, EventsOK, SessionTypeOK
        <3>2. CASE ~ (call[c].answer = "body" /\ Relays(c))
            BY <1>4, <3>2 DEF EncodeData, EventsOK, RedisOK, SessionTypeOK
        <3>. QED
            BY <3>1, <3>2
    <2>. QED
        BY <1>4, <2>1, <2>2 DEF EncodeData, SessionTypeOK, StreamsOK, StoreOK, CountsOK
<1>. QED
    BY <1>1, <1>2, <1>3, <1>4

LEMMA TypesStep == SessionTypeOK /\ [SessionNext]_mcpSessionVars => SessionTypeOK'
<1>1. SessionTypeOK /\ UNCHANGED mcpSessionVars => SessionTypeOK'
    BY DEF mcpSessionVars, SessionTypeOK, RedisOK, CallsOK, StreamsOK, EventsOK, StoreOK, CountsOK
<1>. QED
    BY <1>1, RedisStepTypes, StreamStepTypes, UserStepTypes, PostTypes, CallStepTypes DEF SessionNext

\* Type correctness of the filter, its streams, the calls and Redis.
THEOREM SessionTypeCorrect == SessionSpec => []SessionTypeOK
<1>. QED
    BY InitTypes, TypesStep, PTL DEF SessionSpec
-----------------------------------------------------------------------------
(* The accounting of the calls. *)

\* A call the filter has yet to look at again took the configuration along if there is one now
\* and nothing changed in between.
CheckedOK ==
    \A c \in Call :
        call[c].at = "checking" /\ ~ call[c].moved /\ SetConfig(call[c].user) => call[c].config

PassedOK ==
    \A c \in Call :
        call[c].at = "upstream" /\ call[c].kind = "call" /\ setup.userLevel =>
            call[c].config \/ call[c].counted \/ call[c].user \in Whitelist \/ call[c].moved

\* What is left of a window, what was let through and what was lost make up the limit.
WindowsOK ==
    \A u \in User :
        IF counts.left[u] = Unset
        THEN counts.passed[u] = 0 /\ counts.refused[u] = 0 /\ counts.lost[u] = 0
        ELSE /\ counts.left[u] + counts.passed[u] + counts.lost[u] = CallLimit
             /\ counts.refused[u] > 0 => counts.left[u] = 0

AccountedInv == CheckedOK /\ PassedOK /\ WindowsOK

LEMMA InitAccounted == SessionInit => AccountedInv
BY DEF SessionInit, AccountedInv, CheckedOK, PassedOK, WindowsOK, NoCall

\* What leaves the calls, their users and the store alone.
LEMMA AccountedFrame ==
    ASSUME AccountedInv, UNCHANGED <<setup, call, counts>>,
           \A u \in User \cup {None} : SetConfig(u)' => SetConfig(u), CallsOK
    PROVE  AccountedInv'
BY DEF AccountedInv, CheckedOK, PassedOK, WindowsOK, CallsOK, CallRecord

LEMMA RedisAccounted ==
    ASSUME SessionTypeOK, AccountedInv,
           RedisFails \/ RedisReturns \/ KeepAlive \/ DestroyConfig \/ KeepAliveStops
    PROVE  AccountedInv'
<1>0. redis \in RedisRecord
    BY DEF SessionTypeOK, RedisOK
<1>1. CASE RedisFails \/ KeepAlive \/ DestroyConfig \/ KeepAliveStops
    <2>1. Works' => Works
        BY <1>0, <1>1 DEF RedisFails, KeepAlive, DestroyConfig, KeepAliveStops, Works, RedisRecord
    <2>2. UNCHANGED <<setup, call, counts, store>>
        BY <1>1 DEF RedisFails, KeepAlive, DestroyConfig, KeepAliveStops
    <2>3. \A u \in User \cup {None} : SetConfig(u)' => SetConfig(u)
        BY <2>1, <2>2 DEF SetConfig, Stored
    <2>. QED
        BY <2>2, <2>3, AccountedFrame DEF SessionTypeOK
<1>2. CASE RedisReturns
    <2>. DEFINE seen == [c \in Call |-> call[c].at = "checking"]
    <2>1. seen \in [Call -> BOOLEAN]
          /\ call' = [c \in Call |-> [call[c] EXCEPT !.moved = @ \/ seen[c]]]
        BY <1>2 DEF RedisReturns
    <2>2. \A c \in Call :
              /\ call'[c].at = call[c].at /\ call'[c].kind = call[c].kind
              /\ call'[c].config = call[c].config /\ call'[c].counted = call[c].counted
              /\ call'[c].user = call[c].user
              /\ call[c].moved \/ call[c].at = "checking" => call'[c].moved
        BY <2>1, MovedTypes DEF SessionTypeOK
    <2>3. CheckedOK'
        BY <2>2 DEF CheckedOK
    <2>4. UNCHANGED <<setup, counts>>
        BY <1>2 DEF RedisReturns
    <2>5. PassedOK'
        BY <2>2, <2>4 DEF AccountedInv, PassedOK
    <2>. QED
        BY <2>3, <2>4, <2>5 DEF AccountedInv, WindowsOK
<1>. QED
    BY <1>1, <1>2

LEMMA StreamsAccounted ==
    ASSUME SessionTypeOK, AccountedInv, NEW s \in Session,
           \/ Resubscribes(s) \/ DecodeHeadersSSE(s) \/ Subscribe(s) \/ Announce(s)
           \/ SubscriberReads(s) \/ SubscriberEnds(s) \/ Ping(s) \/ PingerEnds(s) \/ OnDestroy(s)
    PROVE  AccountedInv'
<1>1. UNCHANGED <<setup, call, store, counts>>
    BY DEF Resubscribes, DecodeHeadersSSE, Subscribe, Announce, SubscriberReads, SubscriberEnds,
           Ping, PingerEnds, OnDestroy
<1>2. UNCHANGED redis \/ LosesReply
    BY DEF Resubscribes, DecodeHeadersSSE, Subscribe, Announce, SubscriberReads, SubscriberEnds,
           Ping, PingerEnds, OnDestroy, Published
<1>3. Works <=> Works'
    <2>1. UNCHANGED redis => (Works <=> Works')
        BY <1>1 DEF Works
    <2>. QED
        BY <1>1, <1>2, <2>1, LostReply DEF SessionTypeOK
<1>. QED
    BY <1>1, <1>3, AccountedFrame DEF SetConfig, Stored, SessionTypeOK

LEMMA UsersAccounted ==
    ASSUME SessionTypeOK, AccountedInv, NEW u \in User,
           StoreConfig(u) \/ ConfigExpires(u) \/ WindowEnds(u)
    PROVE  AccountedInv'
<1>1. CASE StoreConfig(u) \/ ConfigExpires(u)
    <2>. DEFINE seen == [c \in Call |-> call[c].at = "checking" /\ call[c].user = u]
    <2>1. seen \in [Call -> BOOLEAN]
          /\ call' = [c \in Call |-> [call[c] EXCEPT !.moved = @ \/ seen[c]]]
        BY <1>1 DEF StoreConfig, ConfigExpires, Noticed
    <2>3. \A c \in Call :
              /\ call'[c].at = call[c].at /\ call'[c].kind = call[c].kind
              /\ call'[c].config = call[c].config /\ call'[c].counted = call[c].counted
              /\ call'[c].user = call[c].user
              /\ call[c].moved \/ (call[c].at = "checking" /\ call[c].user = u) => call'[c].moved
        BY <2>1, MovedTypes DEF SessionTypeOK
    <2>4. \A w \in User : w # u => store'.of[w] = store.of[w]
        BY <1>1 DEF StoreConfig, ConfigExpires, SessionTypeOK, StoreOK
    <2>5. \A c \in Call : call[c].at = "checking" => call[c].user \in User
        BY DEF SessionTypeOK, CallsOK
    <2>6. UNCHANGED <<setup, redis, counts>>
        BY <1>1 DEF StoreConfig, ConfigExpires
    <2>7. CheckedOK'
        BY <2>3, <2>4, <2>5, <2>6 DEF AccountedInv, CheckedOK, SetConfig, Stored, Works
    <2>. QED
        BY <2>3, <2>6, <2>7 DEF AccountedInv, PassedOK, WindowsOK
<1>2. CASE WindowEnds(u)
    <2>1. UNCHANGED <<setup, redis, store, call>>
        BY <1>2 DEF WindowEnds
    <2>2. /\ counts'.left = [counts.left EXCEPT ![u] = Unset]
          /\ counts'.passed = [counts.passed EXCEPT ![u] = 0]
          /\ counts'.refused = [counts.refused EXCEPT ![u] = 0]
          /\ counts'.lost = [counts.lost EXCEPT ![u] = 0]
        BY <1>2 DEF WindowEnds, SessionTypeOK, CountsOK, CountsRecord
    <2>3. WindowsOK'
        BY <2>2 DEF AccountedInv, WindowsOK, SessionTypeOK, CountsOK, CountsRecord
    <2>. QED
        BY <2>1, <2>3 DEF AccountedInv, CheckedOK, PassedOK, SetConfig, Stored, Works
<1>. QED
    BY <1>1, <1>2
\* A call that is posted takes the configuration along that there is.
LEMMA PostAccounted ==
    ASSUME SessionTypeOK, AccountedInv, NEW c \in Call, DecodeHeadersCall(c)
    PROVE  AccountedInv'
<1>1. /\ \A d \in Call \ {c} : call'[d] = call[d]
      /\ \/ call'[c].at = "upstream" /\ ~ setup.userLevel
         \/ call'[c].at = "checking" /\ call'[c].config = SetConfig(call'[c].user)
         \/ call'[c].at = "encoding"
    BY PostedCall DEF SessionTypeOK, CallsOK
<1>2. UNCHANGED <<setup, redis, store, counts>>
    BY DEF DecodeHeadersCall
<1>3. CheckedOK'
    BY <1>1, <1>2 DEF AccountedInv, CheckedOK, SetConfig, Stored, Works
<1>4. PassedOK'
    BY <1>1, <1>2 DEF AccountedInv, PassedOK
<1>. QED
    BY <1>2, <1>3, <1>4 DEF AccountedInv, WindowsOK

LEMMA DecodeAccounted ==
    ASSUME SessionTypeOK, AccountedInv, NEW c \in Call, DecodeData(c)
    PROVE  AccountedInv'
<1>0. call[c] \in CallRecord /\ UNCHANGED <<setup, redis, store, counts>>
    BY DEF DecodeData, SessionTypeOK, CallsOK
<1>1. /\ \A d \in Call \ {c} : call'[d] = call[d]
      /\ \/ call'[c] = [call[c] EXCEPT !.at = "upstream"]
            /\ (call[c].kind = "call" => SetConfig(call[c].user))
         \/ call'[c] = [call[c] EXCEPT !.at = "counting"]
         \/ call'[c].at = "encoding"
    <2>0. call' = At(c, "upstream") \/ call' = At(c, "counting") \/ call' = Refused(c, "empty")
        BY DecodedCall
    <2>1. \A d \in Call \ {c} : call'[d] = call[d]
        BY <2>0 DEF At, Refused, SessionTypeOK, CallsOK
    <2>2. call' = Refused(c, "empty") => call'[c].at = "encoding"
        BY CallFields
    <2>. QED
        BY <2>1, <2>2, DecodedCall, CallFields
<1>2. CheckedOK'
    BY <1>0, <1>1 DEF AccountedInv, CheckedOK, SetConfig, Stored, Works, CallRecord
<1>3. PassedOK'
    BY <1>0, <1>1 DEF AccountedInv, CheckedOK, PassedOK, DecodeData, CallRecord
<1>. QED
    BY <1>0, <1>2, <1>3 DEF AccountedInv, WindowsOK

LEMMA RatelimitAccounted ==
    ASSUME SessionTypeOK, AccountedInv, NEW c \in Call, HandleRatelimit(c)
    PROVE  AccountedInv'
<1>. DEFINE u == call[c].user
<1>0. /\ call[c] \in CallRecord /\ u \in User /\ counts \in CountsRecord
      /\ call[c].at = "counting" /\ UNCHANGED <<setup, store>>
    BY DEF HandleRatelimit, SessionTypeOK, CallsOK, CountsOK
<1>01. Works <=> Works'
    <2>1. UNCHANGED redis \/ LosesReply
        BY DEF HandleRatelimit
    <2>2. UNCHANGED redis => (Works <=> Works')
        BY <1>0 DEF Works
    <2>. QED
        BY <1>0, <2>1, <2>2, LostReply DEF SessionTypeOK
<1>1. /\ \A d \in Call \ {c} : call'[d] = call[d]
      /\ \/ /\ call'[c] = [call[c] EXCEPT !.at = "upstream"]
            /\ u \in Whitelist
         \/ call'[c] = [call[c] EXCEPT !.at = "upstream", !.counted = TRUE]
         \/ call'[c].at = "encoding"
         \/ call'[c] = call[c]
    <2>1. \A d \in Call \ {c} : call'[d] = call[d]
        BY RatelimitedCall DEF At, Refused, SessionTypeOK, CallsOK
    <2>2. \/ call' = At(c, "upstream") /\ u \in Whitelist
          \/ call' = [At(c, "upstream") EXCEPT ![c].counted = TRUE]
          \/ \E reply \in {"empty", "body"} : call' = Refused(c, reply)
          \/ call' = call
        BY RatelimitedCall
    <2>3. \A reply : call' = Refused(c, reply) => call'[c].at = "encoding"
        BY CallFields
    <2>. QED
        BY <2>1, <2>2, <2>3, CallFields
<1>2. CheckedOK'
    BY <1>0, <1>01, <1>1 DEF AccountedInv, CheckedOK, SetConfig, Stored, CallRecord
<1>3. PassedOK'
    <2>1. \/ call'[c].user \in Whitelist
          \/ call'[c].counted
          \/ call'[c].at \in {"counting", "encoding"}
        BY <1>0, <1>1 DEF CallRecord
    <2>. QED
        BY <1>0, <1>1, <2>1 DEF AccountedInv, PassedOK
<1>4. WindowsOK'
    <2>1. CASE UNCHANGED counts
        BY <2>1 DEF AccountedInv, WindowsOK
    <2>2. CASE counts.left[u] = 0
               /\ counts' = [counts EXCEPT !.left[u] = 0, !.passed[u] = @, !.refused[u] = @ + 1]
        <3>1. /\ counts'.left = [counts.left EXCEPT ![u] = 0]
              /\ counts'.passed = counts.passed /\ counts'.lost = counts.lost
              /\ counts'.refused = [counts.refused EXCEPT ![u] = @ + 1]
            BY <1>0, <2>2 DEF CountsRecord
        <3>. SUFFICES ASSUME NEW w \in User
                      PROVE  IF counts'.left[w] = Unset
                             THEN counts'.passed[w] = 0 /\ counts'.refused[w] = 0
                                  /\ counts'.lost[w] = 0
                             ELSE /\ counts'.left[w] + counts'.passed[w] + counts'.lost[w]
                                         = CallLimit
                                  /\ counts'.refused[w] > 0 => counts'.left[w] = 0
            BY DEF WindowsOK, Unset
        <3>2. CASE w = u
            <4>1. 0 # Unset
                BY SessionAssumption DEF Unset
            <4>. QED
                BY <1>0, <2>2, <3>1, <3>2, <4>1 DEF AccountedInv, WindowsOK, CountsRecord
        <3>3. CASE w # u
            BY <1>0, <3>1, <3>3 DEF AccountedInv, WindowsOK, CountsRecord
        <3>. QED
            BY <3>2, <3>3
    <2>10. ASSUME NEW left,
                  \/ counts.left[u] = Unset /\ left = CallLimit - 1
                  \/ counts.left[u] # Unset /\ counts.left[u] > 0 /\ left = counts.left[u] - 1,
                  counts'.left = [counts.left EXCEPT ![u] = left],
                  counts'.refused = counts.refused,
                  \/ /\ counts'.passed = [counts.passed EXCEPT ![u] = @ + 1]
                     /\ counts'.lost = counts.lost
                  \/ /\ counts'.lost = [counts.lost EXCEPT ![u] = @ + 1]
                     /\ counts'.passed = counts.passed
           PROVE  WindowsOK'
        <3>. SUFFICES ASSUME NEW w \in User
                      PROVE  IF counts'.left[w] = Unset
                             THEN counts'.passed[w] = 0 /\ counts'.refused[w] = 0
                                  /\ counts'.lost[w] = 0
                             ELSE /\ counts'.left[w] + counts'.passed[w] + counts'.lost[w]
                                         = CallLimit
                                  /\ counts'.refused[w] > 0 => counts'.left[w] = 0
            BY DEF WindowsOK, Unset
        <3>0. /\ counts.left \in [User -> 0 .. Unset] /\ counts.passed \in [User -> Nat]
              /\ counts.refused \in [User -> Nat] /\ counts.lost \in [User -> Nat]
            BY <1>0 DEF CountsRecord
        <3>1. CASE w = u
            <4>1. /\ counts'.left[u] = left /\ counts'.refused[u] = counts.refused[u]
                  /\ \/ /\ counts'.passed[u] = counts.passed[u] + 1
                        /\ counts'.lost[u] = counts.lost[u]
                     \/ /\ counts'.lost[u] = counts.lost[u] + 1
                        /\ counts'.passed[u] = counts.passed[u]
                BY <1>0, <2>10, <3>0
            <4>2. /\ counts.left[u] \in 0 .. Unset /\ counts.passed[u] \in Nat
                  /\ counts.refused[u] \in Nat /\ counts.lost[u] \in Nat
                BY <1>0, <3>0
            <4>3. IF counts.left[u] = Unset
                  THEN counts.passed[u] = 0 /\ counts.refused[u] = 0 /\ counts.lost[u] = 0
                  ELSE /\ counts.left[u] + counts.passed[u] + counts.lost[u] = CallLimit
                       /\ counts.refused[u] > 0 => counts.left[u] = 0
                BY <1>0 DEF AccountedInv, WindowsOK
            <4>. QED
                BY <2>10, <3>1, <4>1, <4>2, <4>3, SessionAssumption DEF Unset
        <3>2. CASE w # u
            BY <1>0, <2>10, <3>0, <3>2 DEF AccountedInv, WindowsOK
        <3>. QED
            BY <3>1, <3>2
    <2>3. ASSUME NEW left, counts' = [counts EXCEPT !.left[u] = left, !.passed[u] = @ + 1, !.refused[u] = @],
                 \/ counts.left[u] = Unset /\ left = CallLimit - 1
                 \/ counts.left[u] # Unset /\ counts.left[u] > 0 /\ left = counts.left[u] - 1
          PROVE  WindowsOK'
        <3>1. /\ counts'.left = [counts.left EXCEPT ![u] = left]
              /\ counts'.passed = [counts.passed EXCEPT ![u] = @ + 1]
              /\ counts'.refused = counts.refused /\ counts'.lost = counts.lost
            BY <1>0, <2>3 DEF CountsRecord
        <3>. QED
            BY <2>3, <2>10, <3>1
    <2>7. ASSUME NEW left, counts' = [counts EXCEPT !.left[u] = left, !.lost[u] = @ + 1],
                 \/ counts.left[u] = Unset /\ left = CallLimit - 1
                 \/ counts.left[u] # Unset /\ counts.left[u] > 0 /\ left = counts.left[u] - 1
          PROVE  WindowsOK'
        <3>1. /\ counts'.left = [counts.left EXCEPT ![u] = left]
              /\ counts'.lost = [counts.lost EXCEPT ![u] = @ + 1]
              /\ counts'.refused = counts.refused /\ counts'.passed = counts.passed
            BY <1>0, <2>7 DEF CountsRecord
        <3>. QED
            BY <2>7, <2>10, <3>1
    <2>8. ASSUME counts.left[u] = 0, counts' = [counts EXCEPT !.left[u] = 0, !.lost[u] = @]
          PROVE  WindowsOK'
        <3>1. /\ counts'.left = counts.left /\ counts'.lost = counts.lost
              /\ counts'.refused = counts.refused /\ counts'.passed = counts.passed
            BY <1>0, <2>8 DEF CountsRecord
        <3>. QED
            BY <3>1 DEF AccountedInv, WindowsOK
    <2>. DEFINE result == LimitScript(u)
    <2>4. \/ UNCHANGED counts
          \/ counts' = [counts EXCEPT !.left[u] = result.left,
                                      !.passed[u] = IF result.ok THEN @ + 1 ELSE @,
                                      !.refused[u] = IF result.ok THEN @ ELSE @ + 1]
          \/ counts' = [counts EXCEPT !.left[u] = result.left,
                                      !.lost[u] = IF result.ok THEN @ + 1 ELSE @]
        BY DEF HandleRatelimit
    <2>5. \/ ~ result.ok /\ result.left = 0 /\ counts.left[u] = 0
          \/ result.ok /\ counts.left[u] = Unset /\ result.left = CallLimit - 1
          \/ /\ result.ok /\ counts.left[u] # Unset
             /\ counts.left[u] > 0 /\ result.left = counts.left[u] - 1
        BY <1>0 DEF LimitScript, CountsRecord
    <2>. HIDE DEF result
    <2>6. CASE counts' = [counts EXCEPT !.left[u] = result.left,
                                        !.passed[u] = IF result.ok THEN @ + 1 ELSE @,
                                        !.refused[u] = IF result.ok THEN @ ELSE @ + 1]
        <3>1. CASE result.ok
            <4>1. counts' = [counts EXCEPT !.left[u] = result.left, !.passed[u] = @ + 1,
                                           !.refused[u] = @]
                BY <2>6, <3>1
            <4>. QED
                BY <2>3, <2>5, <3>1, <4>1
        <3>2. CASE ~ result.ok
            <4>1. counts' = [counts EXCEPT !.left[u] = 0, !.passed[u] = @, !.refused[u] = @ + 1]
                BY <2>5, <2>6, <3>2
            <4>. QED
                BY <2>2, <2>5, <3>2, <4>1
        <3>. QED
            BY <3>1, <3>2
    <2>9. CASE counts' = [counts EXCEPT !.left[u] = result.left,
                                        !.lost[u] = IF result.ok THEN @ + 1 ELSE @]
        <3>1. CASE result.ok
            <4>1. counts' = [counts EXCEPT !.left[u] = result.left, !.lost[u] = @ + 1]
                BY <2>9, <3>1
            <4>. QED
                BY <2>5, <2>7, <3>1, <4>1
        <3>2. CASE ~ result.ok
            <4>1. counts' = [counts EXCEPT !.left[u] = 0, !.lost[u] = @]
                BY <2>5, <2>9, <3>2
            <4>. QED
                BY <2>5, <2>8, <3>2, <4>1
        <3>. QED
            BY <3>1, <3>2
    <2>. QED
        BY <2>1, <2>4, <2>6, <2>9
<1>. QED
    BY <1>2, <1>3, <1>4 DEF AccountedInv

LEMMA AnswersAccounted ==
    ASSUME SessionTypeOK, AccountedInv, NEW c \in Call, UpstreamAnswers(c) \/ EncodeData(c)
    PROVE  AccountedInv'
<1>1. /\ \A d \in Call \ {c} : call'[d] = call[d]
      /\ call'[c].at \in {"encoding", "done"}
    BY DEF UpstreamAnswers, EncodeData, At, SessionTypeOK, CallsOK, CallRecord
<1>2. UNCHANGED <<setup, store, counts>> /\ (UNCHANGED redis \/ LosesReply)
    BY DEF UpstreamAnswers, EncodeData, Published
<1>3. Works <=> Works'
    <2>1. UNCHANGED redis => (Works <=> Works')
        BY <1>2 DEF Works
    <2>. QED
        BY <1>2, <2>1, LostReply DEF SessionTypeOK
<1>4. CheckedOK'
    BY <1>1, <1>2, <1>3 DEF AccountedInv, CheckedOK, SetConfig, Stored
<1>. QED
    BY <1>1, <1>2, <1>4 DEF AccountedInv, PassedOK, WindowsOK
LEMMA AccountedStep == SessionTypeOK /\ AccountedInv /\ [SessionNext]_mcpSessionVars => AccountedInv'
<1>1. SessionTypeOK /\ AccountedInv /\ UNCHANGED mcpSessionVars => AccountedInv'
    BY AccountedFrame DEF mcpSessionVars, SetConfig, Stored, Works, SessionTypeOK
<1>. QED
    BY <1>1, RedisAccounted, StreamsAccounted, UsersAccounted, PostAccounted, DecodeAccounted,
       RatelimitAccounted, AnswersAccounted DEF SessionNext

\* No interleaving of the two looks at a user's configuration with its changes, the failures of
\* Redis, lost replies included, and the calls of others lets a tool call through that nobody
\* answers for. The calls let through in a window never pass the limit, and none is refused before
\* they and what scripts took whose reply was lost have reached it; for any users and calls.
THEOREM CallsAreAlwaysAccounted == SessionSpec => []CallsAreAccounted
<1>1. SessionTypeOK /\ AccountedInv => CallsAreAccounted
    <2>. SUFFICES ASSUME SessionTypeOK, AccountedInv
                  PROVE  CallsAreAccounted
        OBVIOUS
    <2>1. ASSUME NEW u \in User
          PROVE  /\ counts.passed[u] + counts.lost[u] <= CallLimit
                 /\ counts.refused[u] > 0 => counts.passed[u] + counts.lost[u] = CallLimit
        <3>1. /\ counts.left[u] \in 0 .. Unset /\ counts.passed[u] \in Nat
              /\ counts.lost[u] \in Nat /\ counts.refused[u] \in Nat /\ CallLimit \in Nat
            BY SessionAssumption DEF SessionTypeOK, CountsOK, CountsRecord
        <3>. QED
            BY <3>1, SessionAssumption DEF AccountedInv, WindowsOK, Unset
    <2>. QED
        BY <2>1 DEF AccountedInv, PassedOK, CallsAreAccounted
<1>. QED
    BY <1>1, InitTypes, TypesStep, InitAccounted, AccountedStep, PTL DEF SessionSpec
-----------------------------------------------------------------------------
(* The answers in the streams. *)

\* What Append and Tail do to the events that a sequence holds.
OnceIn(q, m) == \A i, j \in 1 .. Len(q) : q[i] = m /\ q[j] = m => i = j

LEMMA AppendHolds ==
    ASSUME NEW q \in Seq(StreamEvent), NEW x \in StreamEvent, NEW m \in StreamEvent
    PROVE  /\ Contains(Append(q, x), m) <=> Contains(q, m) \/ x = m
           /\ OnceIn(q, m) /\ ~ (x = m /\ Contains(q, m)) => OnceIn(Append(q, x), m)
           /\ Append(q, x) # <<>> /\ Append(q, x) \in Seq(StreamEvent)
           /\ Head(Append(q, x)) = IF q = <<>> THEN x ELSE Head(q)
<1>1. /\ Len(Append(q, x)) = Len(q) + 1 /\ Append(q, x) \in Seq(StreamEvent)
      /\ \A i \in 1 .. Len(q) : Append(q, x)[i] = q[i]
      /\ Append(q, x)[Len(q) + 1] = x
      /\ Len(q) \in Nat
    OBVIOUS
<1>2. Contains(Append(q, x), m) <=> Contains(q, m) \/ x = m
    BY <1>1 DEF Contains
<1>3. OnceIn(q, m) /\ ~ (x = m /\ Contains(q, m)) => OnceIn(Append(q, x), m)
    BY <1>1 DEF Contains, OnceIn
<1>4. Append(q, x) # <<>> /\ Head(Append(q, x)) = Append(q, x)[1]
    BY <1>1
<1>5. Head(Append(q, x)) = IF q = <<>> THEN x ELSE Head(q)
    <2>1. CASE q = <<>>
        BY <1>1, <1>4, <2>1
    <2>2. CASE q # <<>>
        <3>1. 1 \in 1 .. Len(q) /\ Head(q) = q[1]
            BY <1>1, <2>2
        <3>. QED
            BY <1>1, <1>4, <2>2, <3>1
    <2>. QED
        BY <2>1, <2>2
<1>. QED
    BY <1>1, <1>2, <1>3, <1>4, <1>5

LEMMA TailHolds ==
    ASSUME NEW q \in Seq(StreamEvent), q # <<>>, NEW m \in StreamEvent
    PROVE  /\ Contains(q, m) <=> Head(q) = m \/ Contains(Tail(q), m)
           /\ OnceIn(q, m) => OnceIn(Tail(q), m) /\ ~ (Head(q) = m /\ Contains(Tail(q), m))
           /\ Head(q) \in StreamEvent
<1>1. /\ Len(q) \in Nat /\ Len(q) > 0 /\ Len(Tail(q)) = Len(q) - 1 /\ Head(q) = q[1]
      /\ \A i \in 1 .. Len(q) - 1 : Tail(q)[i] = q[i + 1]
    OBVIOUS
<1>2. \A i \in 1 .. Len(q) : i = 1 \/ (i - 1 \in 1 .. Len(q) - 1 /\ q[i] = Tail(q)[i - 1])
    BY <1>1
<1>3. Contains(q, m) <=> Head(q) = m \/ Contains(Tail(q), m)
  <2>1. Contains(q, m) => Head(q) = m \/ Contains(Tail(q), m)
    <3> SUFFICES ASSUME NEW i \in 1 .. Len(q), q[i] = m, Head(q) # m PROVE Contains(Tail(q), m)
        BY DEF Contains
    <3>1. i - 1 \in 1 .. Len(Tail(q)) /\ Tail(q)[i - 1] = m
        BY <1>1, <1>2
    <3> QED BY <3>1 DEF Contains
  <2>2. Head(q) = m => Contains(q, m)
    <3>1. 1 \in 1 .. Len(q)
        BY <1>1
    <3> QED BY <1>1, <3>1 DEF Contains
  <2>3. Contains(Tail(q), m) => Contains(q, m)
    <3> SUFFICES ASSUME NEW i \in 1 .. Len(Tail(q)), Tail(q)[i] = m PROVE Contains(q, m)
        BY DEF Contains
    <3>1. i + 1 \in 1 .. Len(q) /\ q[i + 1] = m
        BY <1>1
    <3> QED BY <3>1 DEF Contains
  <2> QED BY <2>1, <2>2, <2>3
<1>4. OnceIn(q, m) => OnceIn(Tail(q), m) /\ ~ (Head(q) = m /\ Contains(Tail(q), m))
    BY <1>1 DEF Contains, OnceIn
<1>. QED
    BY <1>1, <1>3, <1>4

LEMMA EmptyHolds == \A m : ~ Contains(<<>>, m) /\ OnceIn(<<>>, m)
BY DEF Contains, OnceIn

LEMMA EventsDiffer ==
    \A c \in Call : /\ AnswerTo(c) # Endpoint /\ AnswerTo(c) # Pinging
                    /\ \A d \in Call : AnswerTo(c) = AnswerTo(d) => c = d
BY DEF AnswerTo, Endpoint, Pinging

Undisturbed == redis.outages = 0 /\ redis.client = "open"

\* A stream has a reader from before its endpoint is announced, and nothing before it.
LinksOK ==
    \A s \in Session :
        /\ stream[s].at \in {"none", "subscribing", "announcing", "answered"} =>
              heard[s] = <<>> /\ wire[s] = <<>> /\ stream[s].pinger # "running"
        /\ stream[s].at \in {"none", "subscribing", "answered"} =>
              ~ stream[s].linked /\ stream[s].subscriber = "none"
        /\ stream[s].at \in {"subscribing", "announcing", "open"} =>
              setup.upstream = "rest" /\ setup.redis
        /\ Undisturbed => /\ stream[s].subscriber # "cut"
                          /\ stream[s].at \in {"announcing", "open"} => stream[s].linked

UpOK == Undisturbed => redis.up

\* The endpoint is the first thing a client hears.
OrderOK ==
    Undisturbed => \A s \in Session :
        /\ heard[s] # <<>> => Head(heard[s]) = Endpoint
        /\ stream[s].at = "open" /\ heard[s] = <<>> => wire[s] # <<>> /\ Head(wire[s]) = Endpoint

\* Whoever posts in a session has heard of it.
PostedOK == \A c \in Call : call[c].session \in Session => heard[call[c].session] # <<>>

OnceOK ==
    \A s \in Session, c \in Call :
        /\ Contains(heard[s], AnswerTo(c)) \/ Contains(wire[s], AnswerTo(c)) =>
              call[c].session = s /\ call[c].at = "done"
        /\ Undisturbed =>
              /\ OnceIn(heard[s], AnswerTo(c)) /\ OnceIn(wire[s], AnswerTo(c))
              /\ ~ (Contains(heard[s], AnswerTo(c)) /\ Contains(wire[s], AnswerTo(c)))

AnsweredOK ==
    Undisturbed => \A s \in Session, c \in Call :
        /\ stream[s].at = "open"
        /\ call[c].session = s /\ call[c].at = "done" /\ call[c].answer = "body"
        => Contains(heard[s], AnswerTo(c)) \/ Contains(wire[s], AnswerTo(c))

AnsweredInv == LinksOK /\ UpOK /\ OrderOK /\ PostedOK /\ OnceOK /\ AnsweredOK

LEMMA InitAnswered == SessionInit => AnsweredInv
<1>. SUFFICES ASSUME SessionInit
              PROVE  AnsweredInv
    OBVIOUS
<1>1. LinksOK /\ UpOK
    BY DEF SessionInit, LinksOK, UpOK, Undisturbed, NoStream
<1>2. OrderOK /\ PostedOK /\ AnsweredOK
    BY DEF SessionInit, OrderOK, PostedOK, AnsweredOK, NoStream, NoCall, NoSession, Session
<1>3. OnceOK
    BY EmptyHolds DEF SessionInit, OnceOK
<1>. QED
    BY <1>1, <1>2, <1>3 DEF AnsweredInv

\* A failure breaks links and nothing else.
LEMMA DisturbanceStep ==
    ASSUME AnsweredInv, ~ Undisturbed', UNCHANGED <<setup, wire, heard>>,
           \A s \in Session :
              /\ stream'[s].at = stream[s].at /\ stream'[s].pinger = stream[s].pinger
              /\ stream'[s].linked => stream[s].linked
              /\ stream[s].subscriber = "none" => stream'[s].subscriber = "none",
           \A c \in Call : call'[c].at = call[c].at /\ call'[c].session = call[c].session
    PROVE  AnsweredInv'
<1>1. LinksOK' /\ UpOK' /\ OrderOK' /\ AnsweredOK'
    BY DEF AnsweredInv, LinksOK, UpOK, OrderOK, AnsweredOK
<1>2. PostedOK' /\ OnceOK'
    BY DEF AnsweredInv, PostedOK, OnceOK
<1>. QED
    BY <1>1, <1>2 DEF AnsweredInv

\* A message that is sent once more because the reply was lost disturbs no order: from here on
\* none is promised.
LEMMA DisturbedPublish ==
    ASSUME AnsweredInv, ~ Undisturbed', UNCHANGED <<setup, heard>>, NEW s \in Session,
           stream'[s].at \notin {"none", "subscribing", "announcing", "answered"},
           stream'[s].at = "open" => stream[s].at \in {"announcing", "open"},
           \A t \in Session : t # s => stream'[t] = stream[t] /\ wire'[t] = wire[t],
           \A c \in Call : /\ call'[c].session = call[c].session
                           /\ call[c].at = "done" => call'[c].at = "done",
           \A c \in Call : Contains(wire'[s], AnswerTo(c)) =>
                             \/ Contains(wire[s], AnswerTo(c))
                             \/ call'[c].session = s /\ call'[c].at = "done"
    PROVE  AnsweredInv'
<1>1. LinksOK'
    BY DEF AnsweredInv, LinksOK
<1>2. UpOK' /\ OrderOK' /\ AnsweredOK'
    BY DEF UpOK, OrderOK, AnsweredOK
<1>3. PostedOK'
    BY DEF AnsweredInv, PostedOK
<1>4. OnceOK'
    BY DEF AnsweredInv, OnceOK
<1>. QED
    BY <1>1, <1>2, <1>3, <1>4 DEF AnsweredInv

LEMMA RedisAnswered ==
    ASSUME SessionTypeOK, AnsweredInv,
           RedisFails \/ RedisReturns \/ KeepAlive \/ DestroyConfig \/ KeepAliveStops
    PROVE  AnsweredInv'
<1>0. redis \in RedisRecord /\ \A s \in Session : stream[s] \in StreamRecord
    BY DEF SessionTypeOK, RedisOK, StreamsOK
<1>1. CASE RedisFails
    <2>1. ~ Undisturbed' /\ UNCHANGED <<setup, wire, heard, call>>
        BY <1>0, <1>1 DEF RedisFails, Undisturbed, RedisRecord
    <2>2. \A s \in Session : stream'[s] = [stream[s] EXCEPT !.linked = FALSE]
        BY <1>1 DEF RedisFails
    <2>. QED
        BY <1>0, <2>1, <2>2, DisturbanceStep DEF StreamRecord
<1>2. CASE RedisReturns
    <2>. DEFINE seen == [c \in Call |-> call[c].at = "checking"]
    <2>1. seen \in [Call -> BOOLEAN]
          /\ call' = [c \in Call |-> [call[c] EXCEPT !.moved = @ \/ seen[c]]]
        BY <1>2 DEF RedisReturns
    <2>2. \A c \in Call : call'[c].at = call[c].at /\ call'[c].session = call[c].session
        BY <2>1, MovedTypes DEF SessionTypeOK
    <2>3. ~ Undisturbed' /\ UNCHANGED <<setup, wire, heard, stream>>
        BY <1>0, <1>2 DEF RedisReturns, AnsweredInv, UpOK, Undisturbed, RedisRecord
    <2>. QED
        BY <2>2, <2>3, DisturbanceStep
<1>3. CASE KeepAlive \/ DestroyConfig
    <2>1. ~ Undisturbed' /\ UNCHANGED <<setup, wire, heard, call>>
        BY <1>0, <1>3 DEF KeepAlive, DestroyConfig, AnsweredInv, UpOK, Undisturbed, RedisRecord
    <2>2. \A s \in Session :
              stream'[s] = [stream[s] EXCEPT !.linked = FALSE,
                                             !.subscriber = IF @ = "running" THEN "cut" ELSE @]
        BY <1>3 DEF KeepAlive, DestroyConfig, Cut
    <2>3. \A s \in Session :
              /\ stream'[s].at = stream[s].at /\ stream'[s].pinger = stream[s].pinger
              /\ stream'[s].linked => stream[s].linked
              /\ stream[s].subscriber = "none" => stream'[s].subscriber = "none"
        BY <1>0, <2>2 DEF StreamRecord
    <2>. QED
        BY <2>1, <2>3, DisturbanceStep
<1>4. CASE KeepAliveStops
    <2>1. UNCHANGED <<setup, wire, heard, stream, call>> /\ redis'.up = redis.up
          /\ (Undisturbed <=> Undisturbed')
        BY <1>0, <1>4 DEF KeepAliveStops, Undisturbed, RedisRecord
    <2>. QED
        BY <2>1 DEF AnsweredInv, LinksOK, UpOK, OrderOK, PostedOK, OnceOK, AnsweredOK
<1>. QED
    BY <1>1, <1>2, <1>3, <1>4
\* Steps that change the record of a stream and neither what Redis sent nor what was heard.
LEMMA RecordStep ==
    ASSUME SessionTypeOK, AnsweredInv, NEW s \in Session, NEW r,
           stream' = [stream EXCEPT ![s] = r],
           UNCHANGED <<setup, redis, wire, heard, call>>,
           r.at \in {"none", "subscribing", "announcing", "answered"} =>
              heard[s] = <<>> /\ wire[s] = <<>> /\ r.pinger # "running",
           r.at \in {"none", "subscribing", "answered"} => ~ r.linked /\ r.subscriber = "none",
           r.at \in {"subscribing", "announcing", "open"} => setup.upstream = "rest" /\ setup.redis,
           Undisturbed => r.subscriber # "cut" /\ (r.at \in {"announcing", "open"} => r.linked),
           r.at = "open" => stream[s].at = "open"
    PROVE  AnsweredInv'
<1>1. stream'[s] = r /\ \A t \in Session : t # s => stream'[t] = stream[t]
    BY DEF SessionTypeOK, StreamsOK
<1>2. Undisturbed' = Undisturbed
    BY DEF Undisturbed
<1>3. LinksOK'
    BY <1>1, <1>2 DEF AnsweredInv, LinksOK
<1>4. UpOK' /\ PostedOK' /\ OnceOK'
    BY <1>2 DEF AnsweredInv, UpOK, PostedOK, OnceOK
<1>5. OrderOK' /\ AnsweredOK'
    BY <1>1, <1>2 DEF AnsweredInv, OrderOK, AnsweredOK
<1>. QED
    BY <1>3, <1>4, <1>5 DEF AnsweredInv

LEMMA RecordsAnswered ==
    ASSUME SessionTypeOK, AnsweredInv, NEW s \in Session,
           \/ Resubscribes(s) \/ DecodeHeadersSSE(s) \/ Subscribe(s) \/ PingerEnds(s)
           \/ OnDestroy(s)
    PROVE  AnsweredInv'
<1>0. stream[s] \in StreamRecord
    BY DEF SessionTypeOK, StreamsOK
<1>01. /\ stream[s].at \in {"none", "subscribing", "announcing", "answered"} =>
              heard[s] = <<>> /\ wire[s] = <<>> /\ stream[s].pinger # "running"
       /\ stream[s].at \in {"none", "subscribing", "answered"} =>
              ~ stream[s].linked /\ stream[s].subscriber = "none"
       /\ stream[s].at \in {"subscribing", "announcing", "open"} =>
              setup.upstream = "rest" /\ setup.redis
       /\ Undisturbed => /\ stream[s].subscriber # "cut"
                         /\ stream[s].at \in {"announcing", "open"} => stream[s].linked
       /\ Undisturbed => redis.up
    BY DEF AnsweredInv, LinksOK, UpOK
<1>1. CASE Resubscribes(s)
    <2>. DEFINE r == [stream[s] EXCEPT !.linked = TRUE]
    <2>1. stream' = [stream EXCEPT ![s] = r] /\ UNCHANGED <<setup, redis, wire, heard, call>>
          /\ stream[s].subscriber = "running"
        BY <1>1 DEF Resubscribes
    <2>2. /\ r.at = stream[s].at /\ r.linked /\ r.pinger = stream[s].pinger
          /\ r.subscriber = stream[s].subscriber
        BY <1>0 DEF StreamRecord
    <2>. HIDE DEF r
    <2>. QED
        BY <1>01, <2>1, <2>2, RecordStep
<1>2. CASE DecodeHeadersSSE(s)
    <2>. DEFINE at == IF setup.upstream = "rest" /\ setup.redis THEN "subscribing" ELSE "answered"
                r == [stream[s] EXCEPT !.at = at]
    <2>1. stream' = [stream EXCEPT ![s] = r] /\ UNCHANGED <<setup, redis, wire, heard, call>>
          /\ stream[s].at = "none"
        BY <1>2 DEF DecodeHeadersSSE
    <2>2. /\ r.at = at /\ r.linked = stream[s].linked /\ r.pinger = stream[s].pinger
          /\ r.subscriber = stream[s].subscriber
        BY <1>0 DEF StreamRecord
    <2>3. /\ at \in {"subscribing", "answered"}
          /\ at = "subscribing" => setup.upstream = "rest" /\ setup.redis
        OBVIOUS
    <2>. HIDE DEF r, at
    <2>. QED
        BY <1>01, <2>1, <2>2, <2>3, RecordStep
<1>3. CASE Subscribe(s)
    <2>. DEFINE r == [stream[s] EXCEPT !.at = "announcing",
                                       !.subscriber = IF Works THEN "running" ELSE "none",
                                       !.linked = Works]
    <2>1. stream' = [stream EXCEPT ![s] = r] /\ UNCHANGED <<setup, redis, wire, heard, call>>
          /\ stream[s].at = "subscribing"
        BY <1>3 DEF Subscribe
    <2>2. /\ r.at = "announcing" /\ r.linked = Works /\ r.pinger = stream[s].pinger
          /\ r.subscriber # "cut"
        BY <1>0 DEF StreamRecord
    <2>3. Undisturbed => Works
        BY <1>01, <2>1 DEF Undisturbed, Works
    <2>. HIDE DEF r
    <2>. QED
        BY <1>01, <2>1, <2>2, <2>3, RecordStep
<1>4. CASE PingerEnds(s)
    <2>. DEFINE r == [stream[s] EXCEPT !.pinger = "ended"]
    <2>1. stream' = [stream EXCEPT ![s] = r] /\ UNCHANGED <<setup, redis, wire, heard, call>>
          /\ stream[s].at = "closed"
        BY <1>4 DEF PingerEnds
    <2>2. r.at = stream[s].at /\ r.linked = stream[s].linked /\ r.subscriber = stream[s].subscriber
        BY <1>0 DEF StreamRecord
    <2>. HIDE DEF r
    <2>. QED
        BY <1>01, <2>1, <2>2, RecordStep
<1>5. CASE OnDestroy(s)
    <2>. DEFINE r == [stream[s] EXCEPT !.at = "closed"]
    <2>1. stream' = [stream EXCEPT ![s] = r] /\ UNCHANGED <<setup, redis, wire, heard, call>>
        BY <1>5 DEF OnDestroy
    <2>2. r.at = "closed" /\ r.linked = stream[s].linked /\ r.subscriber = stream[s].subscriber
        BY <1>0 DEF StreamRecord
    <2>. HIDE DEF r
    <2>. QED
        BY <1>01, <2>1, <2>2, RecordStep
<1>. QED
    BY <1>1, <1>2, <1>3, <1>4, <1>5

LEMMA EndAnswered ==
    ASSUME SessionTypeOK, AnsweredInv, NEW s \in Session, SubscriberEnds(s)
    PROVE  AnsweredInv'
<1>0. stream[s] \in StreamRecord /\ wire' = [wire EXCEPT ![s] = <<>>]
      /\ UNCHANGED <<setup, redis, heard, call>> /\ wire \in [Session -> Seq(StreamEvent)]
    BY DEF SessionTypeOK, StreamsOK, EventsOK, SubscriberEnds
<1>1. /\ stream'[s].at = stream[s].at /\ ~ stream'[s].linked /\ stream'[s].subscriber = "ended"
      /\ stream'[s].pinger = stream[s].pinger
      /\ \A t \in Session : t # s => stream'[t] = stream[t] /\ wire'[t] = wire[t]
      /\ wire'[s] = <<>>
    BY <1>0 DEF SubscriberEnds, StreamRecord, SessionTypeOK, StreamsOK
<1>2. /\ stream[s].subscriber \in {"running", "cut"}
      /\ stream[s].at # "closed" => stream[s].subscriber = "cut"
    BY DEF SubscriberEnds
<1>3. Undisturbed' = Undisturbed /\ (Undisturbed => stream[s].at = "closed")
    BY <1>0, <1>2 DEF Undisturbed, AnsweredInv, LinksOK
<1>4. stream[s].at \notin {"none", "subscribing", "answered"}
    BY <1>2 DEF AnsweredInv, LinksOK
<1>5. LinksOK'
    BY <1>0, <1>1, <1>3, <1>4 DEF AnsweredInv, LinksOK
<1>6. UpOK' /\ PostedOK' /\ OrderOK'
    BY <1>0, <1>1, <1>3 DEF AnsweredInv, UpOK, PostedOK, OrderOK
<1>7. OnceOK'
    BY <1>0, <1>1, <1>3, EmptyHolds DEF AnsweredInv, OnceOK
<1>8. AnsweredOK'
    BY <1>0, <1>1, <1>3 DEF AnsweredInv, AnsweredOK
<1>. QED
    BY <1>5, <1>6, <1>7, <1>8 DEF AnsweredInv
\* An event that is read moves from what was sent to what was heard, or is dropped.
LEMMA ReadAnswered ==
    ASSUME SessionTypeOK, AnsweredInv, NEW s \in Session, SubscriberReads(s)
    PROVE  AnsweredInv'
<1>. DEFINE x == Head(wire[s])
<1>0. /\ wire[s] \in Seq(StreamEvent) /\ wire[s] # <<>> /\ heard[s] \in Seq(StreamEvent)
      /\ UNCHANGED <<setup, redis, stream, call>> /\ Undisturbed' = Undisturbed
    BY DEF SessionTypeOK, EventsOK, SubscriberReads, Undisturbed
<1>1. /\ wire'[s] = Tail(wire[s])
      /\ \A t \in Session : t # s => wire'[t] = wire[t] /\ heard'[t] = heard[t]
      /\ IF stream[s].at = "closed" THEN heard'[s] = heard[s]
         ELSE heard'[s] = Append(heard[s], x)
    BY DEF SessionTypeOK, EventsOK, SubscriberReads
<1>2. /\ x \in StreamEvent
      /\ \A m \in StreamEvent :
            /\ Contains(wire[s], m) <=> x = m \/ Contains(Tail(wire[s]), m)
            /\ OnceIn(wire[s], m) => OnceIn(Tail(wire[s]), m)
                                     /\ ~ (x = m /\ Contains(Tail(wire[s]), m))
    BY <1>0, TailHolds, EventsAreEvents
<1>. HIDE DEF x
<1>3. /\ \A m \in StreamEvent :
            /\ Contains(Append(heard[s], x), m) <=> Contains(heard[s], m) \/ x = m
            /\ OnceIn(heard[s], m) /\ ~ (x = m /\ Contains(heard[s], m)) => OnceIn(Append(heard[s], x), m)
      /\ Append(heard[s], x) # <<>>
      /\ Head(Append(heard[s], x)) = IF heard[s] = <<>> THEN x ELSE Head(heard[s])
    BY <1>0, <1>2, AppendHolds
<1>4. stream[s].at \in {"open", "closed"}
    BY <1>0 DEF AnsweredInv, LinksOK, SessionTypeOK, StreamsOK, StreamRecord
<1>5. LinksOK' /\ UpOK'
    BY <1>0, <1>1, <1>4 DEF AnsweredInv, LinksOK, UpOK
<1>6. OrderOK'
    BY <1>0, <1>1, <1>3, <1>4 DEF AnsweredInv, OrderOK, x
<1>7. PostedOK'
    BY <1>0, <1>1, <1>3 DEF AnsweredInv, PostedOK
<1>8. OnceOK'
    <2>. SUFFICES ASSUME NEW c \in Call
                  PROVE  LET m == AnswerTo(c) IN
                         /\ Contains(heard'[s], m) \/ Contains(wire'[s], m) =>
                               call[c].session = s /\ call[c].at = "done"
                         /\ Undisturbed =>
                               /\ OnceIn(heard'[s], m) /\ OnceIn(wire'[s], m)
                               /\ ~ (Contains(heard'[s], m) /\ Contains(wire'[s], m))
        BY <1>0, <1>1 DEF AnsweredInv, OnceOK
    <2>. DEFINE m == AnswerTo(c)
    <2>1. /\ m \in StreamEvent
          /\ Contains(heard[s], m) \/ Contains(wire[s], m) =>
                call[c].session = s /\ call[c].at = "done"
          /\ Undisturbed =>
                /\ OnceIn(heard[s], m) /\ OnceIn(wire[s], m)
                /\ ~ (Contains(heard[s], m) /\ Contains(wire[s], m))
        BY EventsAreEvents DEF AnsweredInv, OnceOK
    <2>. HIDE DEF m
    <2>2. CASE stream[s].at = "closed"
        BY <1>1, <1>2, <2>1, <2>2 DEF m
    <2>3. CASE stream[s].at # "closed"
        BY <1>1, <1>2, <1>3, <2>1, <2>3 DEF m
    <2>. QED
        BY <2>2, <2>3
<1>9. AnsweredOK'
    <2>. SUFFICES ASSUME Undisturbed, NEW c \in Call, stream[s].at = "open",
                         call[c].session = s, call[c].at = "done", call[c].answer = "body"
                  PROVE  Contains(heard'[s], AnswerTo(c)) \/ Contains(wire'[s], AnswerTo(c))
        BY <1>0, <1>1 DEF AnsweredInv, AnsweredOK
    <2>1. AnswerTo(c) \in StreamEvent
          /\ (Contains(heard[s], AnswerTo(c)) \/ Contains(wire[s], AnswerTo(c)))
        BY EventsAreEvents DEF AnsweredInv, AnsweredOK
    <2>. QED
        BY <1>1, <1>2, <1>3, <2>1
<1>. QED
    BY <1>5, <1>6, <1>7, <1>8, <1>9 DEF AnsweredInv

\* What a message does to what Redis has sent a stream.
LEMMA PublishedEffect ==
    ASSUME SessionTypeOK, NEW s \in Session, NEW m \in StreamEvent, Published(s, m)
    PROVE  /\ \A t \in Session : t # s => wire'[t] = wire[t]
           /\ wire[s] \in Seq(StreamEvent)
           /\ UNCHANGED redis =>
                 IF Works /\ stream[s].linked
                 THEN /\ wire'[s] = Append(wire[s], m) /\ wire'[s] # <<>>
                      /\ Head(wire'[s]) = IF wire[s] = <<>> THEN m ELSE Head(wire[s])
                 ELSE wire'[s] = wire[s]
           /\ UNCHANGED redis \/ ~ Undisturbed'
           /\ \A x \in StreamEvent :
                 Contains(wire'[s], x) => Contains(wire[s], x) \/ x = m
<1>1. wire[s] \in Seq(StreamEvent)
    BY DEF SessionTypeOK, EventsOK
<1>2. Append(wire[s], m) # <<>> /\ Head(Append(wire[s], m)) = IF wire[s] = <<>> THEN m ELSE Head(wire[s])
    BY <1>1, AppendHolds
<1>. DEFINE q == Append(wire[s], m)
<1>3. ASSUME NEW x \in StreamEvent
      PROVE  /\ Contains(q, x) => Contains(wire[s], x) \/ x = m
             /\ Contains(Append(q, m), x) => Contains(q, x) \/ x = m
    <2>1. q \in Seq(StreamEvent)
        BY <1>1
    <2>2. Contains(q, x) => Contains(wire[s], x) \/ x = m
        BY <1>1, AppendHolds
    <2>. HIDE DEF q
    <2>. QED
        BY <2>1, <2>2, AppendHolds
<1>4. \/ /\ UNCHANGED redis
         /\ wire' = IF Works /\ stream[s].linked THEN [wire EXCEPT ![s] = q] ELSE wire
      \/ LosesReply /\ wire' = [wire EXCEPT ![s] = Append(q, m)]
    BY DEF Published
<1>5. wire \in [Session -> Seq(StreamEvent)]
    BY DEF SessionTypeOK, EventsOK
<1>6. CASE LosesReply /\ wire' = [wire EXCEPT ![s] = Append(q, m)]
    <2>1. ~ Undisturbed' /\ redis' # redis
        BY <1>6, LostReply DEF SessionTypeOK, Undisturbed
    <2>. HIDE DEF q
    <2>. QED
        BY <1>1, <1>3, <1>5, <1>6, <2>1
<1>7. CASE /\ UNCHANGED redis
           /\ wire' = IF Works /\ stream[s].linked THEN [wire EXCEPT ![s] = q] ELSE wire
    BY <1>1, <1>2, <1>3, <1>5, <1>7
<1>. QED
    BY <1>4, <1>6, <1>7

\* An event that answers no call disturbs no answer.
LEMMA OtherEvents ==
    ASSUME SessionTypeOK, AnsweredInv, NEW s \in Session, NEW m \in {Endpoint, Pinging},
           Published(s, m), UNCHANGED <<redis, heard, call>>
    PROVE  /\ OnceOK'
           /\ \A t \in Session, c \in Call :
                 Contains(wire'[t], AnswerTo(c)) <=> Contains(wire[t], AnswerTo(c))
<1>1. m \in StreamEvent /\ \A c \in Call : m # AnswerTo(c)
    BY EventsAreEvents, EventsDiffer
<1>2. /\ \A t \in Session : t # s => wire'[t] = wire[t]
      /\ wire[s] \in Seq(StreamEvent)
      /\ wire'[s] = Append(wire[s], m) \/ wire'[s] = wire[s]
    BY <1>1, PublishedEffect
<1>3. ASSUME NEW c \in Call
      PROVE  /\ Contains(wire'[s], AnswerTo(c)) <=> Contains(wire[s], AnswerTo(c))
             /\ OnceIn(wire[s], AnswerTo(c)) => OnceIn(wire'[s], AnswerTo(c))
    <2>1. AnswerTo(c) \in StreamEvent /\ m # AnswerTo(c)
        BY <1>1, EventsAreEvents
    <2>2. CASE wire'[s] = Append(wire[s], m)
        BY <1>1, <1>2, <2>1, <2>2, AppendHolds
    <2>3. CASE wire'[s] = wire[s]
        BY <2>3
    <2>. QED
        BY <1>2, <2>2, <2>3
<1>. QED
    BY <1>2, <1>3 DEF AnsweredInv, OnceOK, Undisturbed

LEMMA AnnounceAnsweredOnce ==
    ASSUME SessionTypeOK, AnsweredInv, NEW s \in Session, Announce(s), UNCHANGED redis
    PROVE  AnsweredInv'
<1>0. /\ stream[s].at = "announcing" /\ Published(s, Endpoint)
      /\ UNCHANGED <<setup, redis, heard, call>> /\ (Undisturbed <=> Undisturbed')
      /\ stream[s] \in StreamRecord
    BY DEF Announce, Undisturbed, SessionTypeOK, StreamsOK
<1>1. /\ stream'[s].at = "open" /\ stream'[s].linked = stream[s].linked
      /\ stream'[s].subscriber = stream[s].subscriber
      /\ \A t \in Session : t # s => stream'[t] = stream[t]
    BY <1>0 DEF Announce, SessionTypeOK, StreamsOK, StreamRecord
<1>2. heard[s] = <<>> /\ wire[s] = <<>> /\ setup.upstream = "rest" /\ setup.redis
    BY <1>0 DEF AnsweredInv, LinksOK
<1>3. Undisturbed => Works /\ stream[s].linked
    BY <1>0, <1>2 DEF Undisturbed, Works, AnsweredInv, LinksOK, UpOK
<1>4. Endpoint \in StreamEvent /\ Endpoint \in {Endpoint, Pinging}
    BY EventsAreEvents
<1>5. /\ \A t \in Session : t # s => wire'[t] = wire[t]
      /\ Undisturbed => wire'[s] # <<>> /\ Head(wire'[s]) = Endpoint
    BY <1>0, <1>2, <1>3, <1>4, PublishedEffect
<1>6. LinksOK' /\ UpOK'
    BY <1>0, <1>1, <1>2, <1>3, <1>5 DEF AnsweredInv, LinksOK, UpOK
<1>7. OrderOK' /\ PostedOK'
    BY <1>0, <1>1, <1>2, <1>5 DEF AnsweredInv, OrderOK, PostedOK
<1>8. OnceOK'
    BY <1>0, <1>4, OtherEvents
<1>9. AnsweredOK'
    <2>1. \A c \in Call : call[c].session # s
        BY <1>2 DEF AnsweredInv, PostedOK
    <2>. QED
        BY <1>0, <1>1, <1>5, <2>1 DEF AnsweredInv, AnsweredOK
<1>. QED
    BY <1>6, <1>7, <1>8, <1>9 DEF AnsweredInv

LEMMA PingAnsweredOnce ==
    ASSUME SessionTypeOK, AnsweredInv, NEW s \in Session, Ping(s), UNCHANGED redis
    PROVE  AnsweredInv'
<1>0. /\ stream[s].pinger = "running" /\ Published(s, Pinging)
      /\ UNCHANGED <<setup, redis, heard, call>> /\ (Undisturbed <=> Undisturbed')
      /\ stream[s] \in StreamRecord
    BY DEF Ping, Undisturbed, SessionTypeOK, StreamsOK
<1>1. /\ stream'[s].at = stream[s].at /\ stream'[s].linked = stream[s].linked
      /\ stream'[s].subscriber = stream[s].subscriber /\ stream'[s].pinger = stream[s].pinger
      /\ \A t \in Session : t # s => stream'[t] = stream[t]
    BY <1>0 DEF Ping, SessionTypeOK, StreamsOK, StreamRecord
<1>2. Pinging \in StreamEvent /\ Pinging \in {Endpoint, Pinging}
    BY EventsAreEvents
<1>3. /\ \A t \in Session : t # s => wire'[t] = wire[t]
      /\ wire[s] # <<>> => wire'[s] # <<>> /\ Head(wire'[s]) = Head(wire[s])
    BY <1>0, <1>2, PublishedEffect
<1>4. stream[s].at \notin {"none", "subscribing", "announcing", "answered"}
    BY <1>0 DEF AnsweredInv, LinksOK
<1>5. LinksOK' /\ UpOK'
    BY <1>0, <1>1, <1>3, <1>4 DEF AnsweredInv, LinksOK, UpOK
<1>6. OrderOK' /\ PostedOK'
    BY <1>0, <1>1, <1>3 DEF AnsweredInv, OrderOK, PostedOK
<1>7. OnceOK' /\ \A t \in Session, c \in Call :
                    Contains(wire'[t], AnswerTo(c)) <=> Contains(wire[t], AnswerTo(c))
    BY <1>0, <1>2, OtherEvents
<1>8. AnsweredOK'
    BY <1>0, <1>1, <1>7 DEF AnsweredInv, AnsweredOK
<1>. QED
    BY <1>5, <1>6, <1>7, <1>8 DEF AnsweredInv

\* The events that answer no call, with the reply of their command lost or not.
LEMMA EventsAnswered ==
    ASSUME SessionTypeOK, AnsweredInv, NEW s \in Session, Announce(s) \/ Ping(s)
    PROVE  AnsweredInv'
<1>1. PICK m \in {Endpoint, Pinging} : Published(s, m)
    BY DEF Announce, Ping
<1>2. m \in StreamEvent /\ \A c \in Call : AnswerTo(c) \in StreamEvent /\ m # AnswerTo(c)
    BY EventsAreEvents, EventsDiffer
<1>3. CASE UNCHANGED redis
    BY <1>3, AnnounceAnsweredOnce, PingAnsweredOnce
<1>4. CASE redis' # redis
    <2>1. /\ ~ Undisturbed'
          /\ \A t \in Session : t # s => wire'[t] = wire[t]
          /\ \A c \in Call : Contains(wire'[s], AnswerTo(c)) => Contains(wire[s], AnswerTo(c))
        BY <1>1, <1>2, <1>4, PublishedEffect
    <2>2. UNCHANGED <<setup, heard, call>> /\ stream[s] \in StreamRecord
        BY DEF Announce, Ping, SessionTypeOK, StreamsOK
    <2>3. /\ stream'[s].at \notin {"none", "subscribing", "announcing", "answered"}
          /\ stream'[s].at = "open" => stream[s].at \in {"announcing", "open"}
          /\ \A t \in Session : t # s => stream'[t] = stream[t]
        <3>1. CASE Announce(s)
            BY <2>2, <3>1 DEF Announce, SessionTypeOK, StreamsOK, StreamRecord
        <3>2. CASE Ping(s)
            <4>1. stream'[s].at = stream[s].at /\ \A t \in Session : t # s => stream'[t] = stream[t]
                BY <2>2, <3>2 DEF Ping, SessionTypeOK, StreamsOK, StreamRecord
            <4>. QED
                BY <3>2, <4>1 DEF Ping, AnsweredInv, LinksOK
        <3>. QED
            BY <3>1, <3>2
    <2>. QED
        BY <2>1, <2>2, <2>3, DisturbedPublish
<1>. QED
    BY <1>3, <1>4

\* Steps of a call that has not been answered and is not answered by them.
LEMMA UnansweredStep ==
    ASSUME AnsweredInv, UNCHANGED <<setup, stream, wire, heard>>, redis'.up = redis.up,
           Undisturbed' => Undisturbed,
           \A c \in Call :
              \/ call'[c] = call[c]
              \/ /\ call'[c].at = call[c].at /\ call'[c].session = call[c].session
                 /\ call'[c].answer = call[c].answer
              \/ /\ call[c].at # "done" /\ call'[c].at # "done"
                 /\ call'[c].session \in Session => heard[call'[c].session] # <<>>
    PROVE  AnsweredInv'
<1>1. LinksOK' /\ UpOK' /\ OrderOK'
    BY DEF AnsweredInv, LinksOK, UpOK, OrderOK
<1>2. PostedOK'
    BY DEF AnsweredInv, PostedOK
<1>3. OnceOK'
    BY DEF AnsweredInv, OnceOK
<1>4. AnsweredOK'
    BY DEF AnsweredInv, AnsweredOK
<1>. QED
    BY <1>1, <1>2, <1>3, <1>4 DEF AnsweredInv

LEMMA UsersAnswered ==
    ASSUME SessionTypeOK, AnsweredInv, NEW u \in User,
           StoreConfig(u) \/ ConfigExpires(u) \/ WindowEnds(u)
    PROVE  AnsweredInv'
<1>1. UNCHANGED <<setup, redis, stream, wire, heard>> /\ (Undisturbed <=> Undisturbed')
    BY DEF StoreConfig, ConfigExpires, WindowEnds, Undisturbed
<1>2. \A c \in Call : call'[c].at = call[c].at /\ call'[c].session = call[c].session
                      /\ call'[c].answer = call[c].answer
    <2>. DEFINE seen == [c \in Call |-> call[c].at = "checking" /\ call[c].user = u]
    <2>1. CASE call' = Noticed(u)
        <3>1. seen \in [Call -> BOOLEAN]
              /\ call' = [c \in Call |-> [call[c] EXCEPT !.moved = @ \/ seen[c]]]
            BY <2>1 DEF Noticed
        <3>. QED
            BY <3>1, MovedTypes DEF SessionTypeOK
    <2>. QED
        BY <2>1 DEF StoreConfig, ConfigExpires, WindowEnds
<1>. QED
    BY <1>1, <1>2, UnansweredStep

LEMMA CallsAnswered ==
    ASSUME SessionTypeOK, AnsweredInv, NEW c \in Call,
           \/ DecodeHeadersCall(c) \/ DecodeData(c) \/ HandleRatelimit(c) \/ UpstreamAnswers(c)
    PROVE  AnsweredInv'
<1>0. call[c] \in CallRecord /\ UNCHANGED <<setup, stream, wire, heard>>
    BY DEF DecodeHeadersCall, DecodeData, HandleRatelimit, UpstreamAnswers, SessionTypeOK, CallsOK
<1>01. redis'.up = redis.up /\ (Undisturbed' => Undisturbed)
    <2>1. UNCHANGED redis \/ LosesReply
        BY DEF DecodeHeadersCall, DecodeData, HandleRatelimit, UpstreamAnswers
    <2>2. CASE UNCHANGED redis
        BY <2>2 DEF Undisturbed
    <2>3. CASE LosesReply
        BY <2>3, LostReply DEF SessionTypeOK, Undisturbed
    <2>. QED
        BY <2>1, <2>2, <2>3
<1>1. /\ \A d \in Call \ {c} : call'[d] = call[d]
      /\ call[c].at # "done" /\ call'[c].at # "done"
      /\ call'[c].session \in Session => heard[call'[c].session] # <<>>
    <2>1. CASE DecodeHeadersCall(c)
        <3>1. PICK r \in CallRecord : /\ call' = [call EXCEPT ![c] = r] /\ Knows(r.session)
                                      /\ r.at \in {"upstream", "checking", "encoding"}
            BY <2>1, PostedCall
        <3>2. call'[c] = r /\ \A d \in Call \ {c} : call'[d] = call[d]
            BY <3>1 DEF SessionTypeOK, CallsOK
        <3>3. r.session \in Session => heard[r.session] # <<>>
            BY <3>1, EmptyHolds DEF Knows
        <3>. QED
            BY <2>1, <3>1, <3>2, <3>3 DEF DecodeHeadersCall
    <2>2. CASE DecodeData(c) \/ HandleRatelimit(c) \/ UpstreamAnswers(c)
        <3>1. /\ \A d \in Call \ {c} : call'[d] = call[d]
              /\ call[c].at # "done"
            <4>1. CASE DecodeData(c) \/ UpstreamAnswers(c)
                BY <4>1 DEF DecodeData, UpstreamAnswers, At, Refused, SessionTypeOK, CallsOK
            <4>2. CASE HandleRatelimit(c)
                <5>1. call[c].at = "counting"
                    BY <4>2 DEF HandleRatelimit
                <5>. QED
                    BY <4>2, <5>1, RatelimitedCall DEF At, Refused, SessionTypeOK, CallsOK
            <4>. QED
                BY <2>2, <4>1, <4>2
        <3>2. \/ \E at \in {"upstream", "counting"} : call' = At(c, at)
              \/ call' = [At(c, "upstream") EXCEPT ![c].counted = TRUE]
              \/ \E reply \in {"empty", "body"} :
                    call' = Refused(c, reply)
                    \/ call' = [call EXCEPT ![c].at = "encoding", ![c].answer = reply]
              \/ call' = call /\ call[c].at = "counting"
            <4>1. DecodeData(c) => \/ \E at \in {"upstream", "counting"} : call' = At(c, at)
                                   \/ \E reply \in {"empty", "body"} : call' = Refused(c, reply)
                BY DecodedCall
            <4>2. HandleRatelimit(c) => call[c].at = "counting"
                BY DEF HandleRatelimit
            <4>3. UpstreamAnswers(c) =>
                      \E reply \in {"empty", "body"} :
                          call' = [call EXCEPT ![c].at = "encoding", ![c].answer = reply]
                BY DEF UpstreamAnswers
            <4>. QED
                BY <2>2, <4>1, <4>2, <4>3, RatelimitedCall
        <3>3. \E r : /\ call'[c] = r /\ r.session = call[c].session
                     /\ r.at \in {"upstream", "counting", "encoding"}
            <4>1. ASSUME NEW at \in {"upstream", "counting"}, call' = At(c, at)
                  PROVE  /\ call'[c].session = call[c].session
                         /\ call'[c].at \in {"upstream", "counting", "encoding"}
                <5>. DEFINE r == [call[c] EXCEPT !.at = at]
                <5>1. r.session = call[c].session /\ r.at = at
                    BY <1>0 DEF CallRecord
                <5>2. call'[c] = r
                    BY <4>1, CallFields
                <5>. QED
                    BY <4>1, <5>1, <5>2
            <4>2. ASSUME call' = [At(c, "upstream") EXCEPT ![c].counted = TRUE]
                  PROVE  /\ call'[c].session = call[c].session
                         /\ call'[c].at \in {"upstream", "counting", "encoding"}
                <5>. DEFINE r == [call[c] EXCEPT !.at = "upstream", !.counted = TRUE]
                <5>1. r.session = call[c].session /\ r.at = "upstream"
                    BY <1>0 DEF CallRecord
                <5>2. call'[c] = r
                    BY <4>2, CallFields
                <5>. QED
                    BY <5>1, <5>2
            <4>3. ASSUME NEW reply, call' = Refused(c, reply)
                  PROVE  /\ call'[c].session = call[c].session
                         /\ call'[c].at \in {"upstream", "counting", "encoding"}
                <5>. DEFINE r == [call[c] EXCEPT !.at = "encoding", !.answer = reply, !.refused = TRUE]
                <5>1. r.session = call[c].session /\ r.at = "encoding"
                    BY <1>0 DEF CallRecord
                <5>2. call' = [call EXCEPT ![c] = r]
                    BY <4>3 DEF Refused
                <5>. QED
                    BY <5>1, <5>2 DEF SessionTypeOK, CallsOK
            <4>4. ASSUME NEW reply, call' = [call EXCEPT ![c].at = "encoding", ![c].answer = reply]
                  PROVE  /\ call'[c].session = call[c].session
                         /\ call'[c].at \in {"upstream", "counting", "encoding"}
                <5>. DEFINE r == [call[c] EXCEPT !.at = "encoding", !.answer = reply]
                <5>1. r.session = call[c].session /\ r.at = "encoding"
                    BY <1>0 DEF CallRecord
                <5>2. call' = [call EXCEPT ![c] = r]
                    BY <4>4
                <5>. QED
                    BY <5>1, <5>2 DEF SessionTypeOK, CallsOK
            <4>. QED
                BY <3>2, <4>1, <4>2, <4>3, <4>4
        <3>. QED
            BY <3>1, <3>3 DEF AnsweredInv, PostedOK
    <2>. QED
        BY <2>1, <2>2
<1>. QED
    BY <1>0, <1>01, <1>1, UnansweredStep

LEMMA EncodeAnsweredOnce ==
    ASSUME SessionTypeOK, AnsweredInv, NEW c \in Call, EncodeData(c), UNCHANGED redis
    PROVE  AnsweredInv'
<1>. DEFINE s == call[c].session
            m == AnswerTo(c)
<1>0. /\ call[c].at = "encoding" /\ call[c] \in CallRecord /\ m \in StreamEvent
      /\ UNCHANGED <<setup, redis, stream, heard>> /\ (Undisturbed <=> Undisturbed')
    BY EventsAreEvents DEF EncodeData, Undisturbed, SessionTypeOK, CallsOK
<1>1. /\ call'[c].at = "done" /\ call'[c].session = s /\ call'[c].answer = call[c].answer
      /\ \A d \in Call \ {c} : call'[d] = call[d]
    BY <1>0 DEF EncodeData, At, SessionTypeOK, CallsOK, CallRecord
<1>2. \A t \in Session : ~ Contains(heard[t], m) /\ ~ Contains(wire[t], m)
    BY <1>0 DEF AnsweredInv, OnceOK
<1>3. CASE call[c].answer = "body" /\ Relays(c)
    <2>1. s \in Session /\ Published(s, m)
        BY <1>0, <1>3 DEF EncodeData, Relays, CallRecord
    <2>2. /\ \A t \in Session : t # s => wire'[t] = wire[t]
          /\ wire[s] \in Seq(StreamEvent)
          /\ IF Works /\ stream[s].linked
             THEN /\ wire'[s] = Append(wire[s], m) /\ wire'[s] # <<>>
                  /\ Head(wire'[s]) = IF wire[s] = <<>> THEN m ELSE Head(wire[s])
             ELSE wire'[s] = wire[s]
        BY <1>0, <2>1, PublishedEffect
    <2>. HIDE DEF s, m
    <2>3. heard[s] # <<>>
        BY <2>1 DEF AnsweredInv, PostedOK, s
    <2>4. LinksOK' /\ UpOK'
        BY <1>0, <2>2, <2>3 DEF AnsweredInv, LinksOK, UpOK
    <2>5. OrderOK' /\ PostedOK'
        BY <1>0, <1>1, <2>2, <2>3 DEF AnsweredInv, OrderOK, PostedOK, s
    <2>6. ASSUME NEW d \in Call
          PROVE  /\ Contains(wire'[s], AnswerTo(d)) <=>
                       Contains(wire[s], AnswerTo(d)) \/ (d = c /\ Works /\ stream[s].linked)
                 /\ Undisturbed => OnceIn(wire'[s], AnswerTo(d))
        <3>1. AnswerTo(d) \in StreamEvent /\ (AnswerTo(d) = m <=> d = c)
            BY EventsAreEvents, EventsDiffer DEF m
        <3>2. Undisturbed => OnceIn(wire[s], AnswerTo(d))
            BY <2>1 DEF AnsweredInv, OnceOK
        <3>3. CASE Works /\ stream[s].linked
            <4>1. /\ wire'[s] = Append(wire[s], m)
                  /\ ~ (m = AnswerTo(d) /\ Contains(wire[s], AnswerTo(d)))
                BY <1>2, <2>1, <2>2, <3>3
            <4>. QED
                BY <1>0, <2>2, <3>1, <3>2, <3>3, <4>1, AppendHolds
        <3>4. CASE ~ (Works /\ stream[s].linked)
            BY <2>2, <3>2, <3>4
        <3>. QED
            BY <3>3, <3>4
    <2>7. OnceOK'
        <3>. SUFFICES ASSUME NEW t \in Session, NEW d \in Call
                      PROVE  /\ Contains(heard[t], AnswerTo(d)) \/ Contains(wire'[t], AnswerTo(d)) =>
                                    call'[d].session = t /\ call'[d].at = "done"
                             /\ Undisturbed =>
                                   /\ OnceIn(heard[t], AnswerTo(d)) /\ OnceIn(wire'[t], AnswerTo(d))
                                   /\ ~ (/\ Contains(heard[t], AnswerTo(d))
                                         /\ Contains(wire'[t], AnswerTo(d)))
            BY <1>0 DEF OnceOK
        <3>1. /\ Contains(heard[t], AnswerTo(d)) \/ Contains(wire[t], AnswerTo(d)) =>
                    call[d].session = t /\ call[d].at = "done"
              /\ Undisturbed =>
                    /\ OnceIn(heard[t], AnswerTo(d)) /\ OnceIn(wire[t], AnswerTo(d))
                    /\ ~ (Contains(heard[t], AnswerTo(d)) /\ Contains(wire[t], AnswerTo(d)))
            BY DEF AnsweredInv, OnceOK
        <3>2. d = c => ~ Contains(heard[t], AnswerTo(d)) /\ ~ Contains(wire[t], AnswerTo(d))
            BY <1>2 DEF m
        <3>3. CASE t = s
            BY <1>0, <1>1, <2>6, <3>1, <3>2, <3>3
        <3>4. CASE t # s
            BY <1>0, <1>1, <2>2, <3>1, <3>2, <3>4
        <3>. QED
            BY <3>3, <3>4
    <2>8. AnsweredOK'
        <3>1. Undisturbed /\ stream[s].at = "open" => Works /\ stream[s].linked
            BY <2>1 DEF AnsweredInv, LinksOK, UpOK, Undisturbed, Works
        <3>. QED
            BY <1>0, <1>1, <2>1, <2>2, <2>6, <3>1 DEF AnsweredInv, AnsweredOK
    <2>. QED
        BY <2>4, <2>5, <2>7, <2>8 DEF AnsweredInv
<1>4. CASE ~ (call[c].answer = "body" /\ Relays(c))
    <2>1. wire' = wire
        BY <1>4 DEF EncodeData
    <2>2. LinksOK' /\ UpOK' /\ OrderOK'
        BY <1>0, <2>1 DEF AnsweredInv, LinksOK, UpOK, OrderOK
    <2>3. PostedOK'
        BY <1>0, <1>1 DEF AnsweredInv, PostedOK
    <2>4. OnceOK'
        BY <1>0, <1>1, <1>2, <2>1 DEF AnsweredInv, OnceOK
    <2>5. AnsweredOK'
        <3>1. s \in Session /\ stream[s].at = "open" => Relays(c)
            BY DEF AnsweredInv, LinksOK, Relays, Session, NoSession
        <3>. QED
            BY <1>0, <1>1, <1>4, <2>1, <3>1 DEF AnsweredInv, AnsweredOK
    <2>. QED
        BY <2>2, <2>3, <2>4, <2>5 DEF AnsweredInv
<1>. QED
    BY <1>3, <1>4

LEMMA EncodeAnswered ==
    ASSUME SessionTypeOK, AnsweredInv, NEW c \in Call, EncodeData(c)
    PROVE  AnsweredInv'
<1>1. CASE UNCHANGED redis
    BY <1>1, EncodeAnsweredOnce
<1>2. CASE redis' # redis
    <2>. DEFINE s == call[c].session
                m == AnswerTo(c)
    <2>1. /\ call[c].at = "encoding" /\ call[c] \in CallRecord /\ m \in StreamEvent
          /\ UNCHANGED <<setup, stream, heard>>
        BY EventsAreEvents DEF EncodeData, SessionTypeOK, CallsOK
    <2>2. /\ call'[c].at = "done" /\ call'[c].session = s
          /\ \A d \in Call \ {c} : call'[d] = call[d]
        BY <2>1 DEF EncodeData, At, SessionTypeOK, CallsOK, CallRecord
    <2>3. s \in Session /\ Published(s, m)
        BY <1>2, <2>1 DEF EncodeData, Relays, CallRecord
    <2>. HIDE DEF s, m
    <2>4. /\ ~ Undisturbed'
          /\ \A t \in Session : t # s => wire'[t] = wire[t]
          /\ \A x \in StreamEvent : Contains(wire'[s], x) => Contains(wire[s], x) \/ x = m
        BY <1>2, <2>1, <2>3, PublishedEffect
    <2>5. \A d \in Call : Contains(wire'[s], AnswerTo(d)) =>
                             \/ Contains(wire[s], AnswerTo(d))
                             \/ call'[d].session = s /\ call'[d].at = "done"
        BY <2>2, <2>4, EventsAreEvents, EventsDiffer DEF m
    <2>6. stream'[s].at \notin {"none", "subscribing", "announcing", "answered"}
        <3>1. heard[s] # <<>>
            BY <2>3 DEF AnsweredInv, PostedOK, s
        <3>. QED
            BY <2>1, <2>3, <3>1 DEF AnsweredInv, LinksOK
    <2>7. \A d \in Call : /\ call'[d].session = call[d].session
                          /\ call[d].at = "done" => call'[d].at = "done"
        BY <2>2 DEF s
    <2>. QED
        BY <2>1, <2>3, <2>4, <2>5, <2>6, <2>7, DisturbedPublish
<1>. QED
    BY <1>1, <1>2

LEMMA AnsweredStep == SessionTypeOK /\ AnsweredInv /\ [SessionNext]_mcpSessionVars => AnsweredInv'
<1>1. SessionTypeOK /\ AnsweredInv /\ UNCHANGED mcpSessionVars => AnsweredInv'
    BY UnansweredStep DEF mcpSessionVars, Undisturbed
<1>. QED
    BY <1>1, RedisAnswered, RecordsAnswered, EndAnswered, ReadAnswered, EventsAnswered,
       UsersAnswered, CallsAnswered, EncodeAnswered DEF SessionNext

\* In what Redis sent and the client heard, put together, an event that is in one of the two
\* once and not in the other is once.
LEMMA OnceTogether ==
    ASSUME NEW p \in Seq(StreamEvent), NEW q \in Seq(StreamEvent), NEW m \in StreamEvent
    PROVE  LET places == {n \in DOMAIN (p \o q) : (p \o q)[n] = m} IN
           /\ places # {} <=> Contains(p, m) \/ Contains(q, m)
           /\ OnceIn(p, m) /\ OnceIn(q, m) /\ ~ (Contains(p, m) /\ Contains(q, m)) =>
                 Cardinality(places) <= 1
<1>. DEFINE places == {n \in DOMAIN (p \o q) : (p \o q)[n] = m}
<1>1. /\ Len(p) \in Nat /\ Len(q) \in Nat /\ DOMAIN (p \o q) = 1 .. Len(p) + Len(q)
      /\ \A n \in 1 .. Len(p) : (p \o q)[n] = p[n]
      /\ \A n \in 1 .. Len(q) : (p \o q)[Len(p) + n] = q[n]
      /\ \A n \in Len(p) + 1 .. Len(p) + Len(q) : (p \o q)[n] = q[n - Len(p)]
    OBVIOUS
<1>2. places # {} <=> Contains(p, m) \/ Contains(q, m)
    <2>1. ASSUME NEW n \in places
          PROVE  Contains(p, m) \/ Contains(q, m)
        <3>1. CASE n \in 1 .. Len(p)
            BY <1>1, <3>1 DEF Contains
        <3>2. CASE n \notin 1 .. Len(p)
            <4>1. n - Len(p) \in 1 .. Len(q) /\ q[n - Len(p)] = m
                BY <1>1, <3>2
            <4>. QED
                BY <4>1 DEF Contains
        <3>. QED
            BY <3>1, <3>2
    <2>2. ASSUME NEW n \in 1 .. Len(p), p[n] = m
          PROVE  n \in places
        BY <1>1, <2>2
    <2>3. ASSUME NEW n \in 1 .. Len(q), q[n] = m
          PROVE  Len(p) + n \in places
        BY <1>1, <2>3
    <2>. QED
        BY <2>1, <2>2, <2>3 DEF Contains
<1>3. ASSUME OnceIn(p, m), OnceIn(q, m), ~ (Contains(p, m) /\ Contains(q, m))
      PROVE  Cardinality(places) <= 1
    <2>1. ASSUME NEW i \in places, NEW j \in places
          PROVE  i = j
        <3>1. \A n \in places : \/ n \in 1 .. Len(p) /\ p[n] = m
                                \/ n - Len(p) \in 1 .. Len(q) /\ q[n - Len(p)] = m /\ n \in Nat
            BY <1>1
        <3>2. CASE i \in 1 .. Len(p) /\ j \in 1 .. Len(p)
            BY <1>1, <1>3, <3>2 DEF OnceIn
        <3>3. CASE i \notin 1 .. Len(p) /\ j \notin 1 .. Len(p)
            <4>1. i - Len(p) = j - Len(p)
                BY <1>3, <3>1, <3>3 DEF OnceIn
            <4>. QED
                BY <1>1, <3>1, <3>3, <4>1
        <3>4. CASE (i \in 1 .. Len(p)) # (j \in 1 .. Len(p))
            BY <1>3, <3>1, <3>4 DEF Contains
        <3>. QED
            BY <3>2, <3>3, <3>4
    <2>2. places = {} \/ \E n : places = {n}
        BY <2>1
    <2>. HIDE DEF places
    <2>3. CASE places = {}
        <3>1. Cardinality(places) = 0
            BY <2>3, FS_EmptySet
        <3>. QED
            BY <3>1
    <2>4. ASSUME NEW n, places = {n}
          PROVE  Cardinality(places) <= 1
        <3>1. Cardinality(places) = 1
            BY <2>4, FS_Singleton
        <3>. QED
            BY <3>1
    <2>. QED
        BY <2>2, <2>3, <2>4
<1>. QED
    BY <1>2, <1>3

\* However many streams, calls and pings are interleaved, and wherever Redis fails or loses a
\* reply or the configuration is dropped, no stream hears the answer to a call of another; while
\* none of this happens, it hears the endpoint first and each answer once, and nothing is lost.
THEOREM SessionsAreAlwaysAnswered == SessionSpec => []SessionsAreAnswered
<1>1. SessionTypeOK /\ AnsweredInv => SessionsAreAnswered
    <2>. SUFFICES ASSUME SessionTypeOK, AnsweredInv, NEW s \in Session
                  PROVE  LET sent == heard[s] \o wire[s]
                             Answers(c) == {n \in DOMAIN sent : sent[n] = AnswerTo(c)}
                             undisturbed == redis.outages = 0 /\ redis.client = "open"
                         IN /\ undisturbed /\ heard[s] # <<>> => Head(heard[s]) = Endpoint
                            /\ \A c \in Call :
                                  /\ undisturbed => Cardinality(Answers(c)) <= 1
                                  /\ Answers(c) # {} => call[c].session = s
                                  /\ (/\ undisturbed /\ stream[s].at = "open"
                                      /\ call[c].session = s /\ call[c].at = "done"
                                      /\ call[c].answer = "body")
                                     => Answers(c) # {}
        BY DEF SessionsAreAnswered
    <2>. DEFINE sent == heard[s] \o wire[s]
                Answers(c) == {n \in DOMAIN sent : sent[n] = AnswerTo(c)}
    <2>1. heard[s] \in Seq(StreamEvent) /\ wire[s] \in Seq(StreamEvent)
        BY DEF SessionTypeOK, EventsOK
    <2>2. ASSUME NEW c \in Call
          PROVE  /\ Undisturbed => Cardinality(Answers(c)) <= 1
                 /\ Answers(c) # {} <=>
                       Contains(heard[s], AnswerTo(c)) \/ Contains(wire[s], AnswerTo(c))
        BY <2>1, OnceTogether, EventsAreEvents DEF AnsweredInv, OnceOK
    <2>. HIDE DEF Answers
    <2>3. /\ Undisturbed /\ heard[s] # <<>> => Head(heard[s]) = Endpoint
          /\ \A c \in Call :
                /\ Answers(c) # {} => call[c].session = s
                /\ (/\ Undisturbed /\ stream[s].at = "open"
                    /\ call[c].session = s /\ call[c].at = "done" /\ call[c].answer = "body")
                   => Answers(c) # {}
        BY <2>2 DEF AnsweredInv, OrderOK, OnceOK, AnsweredOK
    <2>. QED
        BY <2>2, <2>3 DEF Undisturbed, Answers
<1>. QED
    BY <1>1, InitTypes, TypesStep, InitAnswered, AnsweredStep, PTL DEF SessionSpec

-----------------------------------------------------------------------------
(* The streamed answers of ai-security-guard. *)

\* The pieces of s that are not of X rise.
RisingBut(s, X) ==
    \A i, j \in DOMAIN s : i < j /\ s[i] \notin X /\ s[j] \notin X => s[i] < s[j]

\* No piece comes twice; the refusal may.
NoTwice(s) == \A i, j \in DOMAIN s : i < j /\ s[i] # Refusal => s[i] # s[j]

\* The pieces that wait, and those the moderation service is asked about.
Held(g) == ToSet(g.asked) \cup ToSet(g.bufferQueue)

GuardRecord ==
    [bufferQueue : Seq(Nat), endOfStreamReceived : BOOLEAN, duringCall : BOOLEAN,
     calling : BOOLEAN, asked : Seq(Nat),
     passed : SUBSET Nat, refused : SUBSET Nat, unjudged : SUBSET Nat, unsent : BOOLEAN,
     dead : BOOLEAN, got : Seq(Nat), closed : BOOLEAN, late : BOOLEAN]

AnswerRecord == [sent : Nat, ended : BOOLEAN, plain : SUBSET Nat]

\* Every piece that was sent is held, shown, refused, or without a verdict.
Whereabouts(g, a) ==
    /\ Held(g) \subseteq 1 .. a.sent
    /\ ToSet(g.got) \subseteq 0 .. a.sent
    /\ 1 .. a.sent \subseteq ToSet(g.got) \cup g.refused \cup g.unjudged \cup Held(g)
    /\ a.plain \subseteq ToSet(g.got) /\ a.plain \cap Held(g) = {} /\ 0 \notin a.plain

\* What is held comes after what was shown, and what waits after what was asked about.
Orderly(g, a) ==
    /\ RisingBut(g.asked, {}) /\ RisingBut(g.bufferQueue, {})
    /\ \A p \in ToSet(g.asked), q \in ToSet(g.bufferQueue) : p < q
    /\ RisingBut(g.got, a.plain \cup {Refusal})
    /\ NoTwice(g.got)
    /\ \A p \in ToSet(g.got) \ a.plain, q \in Held(g) : p < q

Seen(g) == ToSet(g.got) \ {Refusal}

\* A text that is closed to the client is not asked about any more, and either it was told
\* why or it has all of it.
TextGuard(g, a) ==
    /\ a.plain = {}
    /\ g.endOfStreamReceived = a.ended
    /\ ~ g.late
    /\ Seen(g) \subseteq g.passed
    /\ g.calling /\ g.asked = <<>> => g.bufferQueue = <<>> /\ a.ended
    /\ g.refused # {} => Refusal \in ToSet(g.got) \/ (g.duringCall /\ ~ g.calling)
    /\ g.closed => /\ ~ g.calling
                   /\ a.ended \/ (g.duringCall /\ (Refusal \in ToSet(g.got) \/ g.unsent))
                   /\ Seen(g) = 1 .. a.sent \/ Refusal \in ToSet(g.got) \/ g.unjudged # {} \/ g.unsent

McpGuard(g) == ~ g.endOfStreamReceived /\ Seen(g) \subseteq g.passed \cup g.unjudged

Kept(g, a) ==
    /\ g \in GuardRecord
    /\ Whereabouts(g, a) /\ Orderly(g, a)
    /\ g.calling => g.duringCall
    /\ ~ g.calling => g.asked = <<>>

GuardOK ==
    /\ answer \in AnswerRecord
    /\ Kept(guard, answer)
    /\ api \in {"text", "mcp"}
    /\ IF api = "text" THEN TextGuard(guard, answer) ELSE McpGuard(guard)

\* What a sequence holds.
LEMMA SetOf ==
    ASSUME NEW S, NEW s \in Seq(S)
    PROVE  /\ ToSet(s) \subseteq S
           /\ \A x : x \in ToSet(s) <=> \E i \in 1 .. Len(s) : x = s[i]
           /\ DOMAIN s = 1 .. Len(s) /\ Len(s) \in Nat
BY DEF ToSet

\* The empty sequence holds nothing, and rises.
LEMMA EmptySet == ToSet(<<>>) = {} /\ \A X : RisingBut(<<>>, X)
BY DEF ToSet, RisingBut

\* A sequence that holds nothing is empty.
LEMMA NothingIn ==
    ASSUME NEW s \in Seq(Nat), ToSet(s) = {}
    PROVE  s = <<>>
<1>1. CASE Len(s) = 0
    BY <1>1
<1>2. CASE Len(s) # 0
  <2>1. 1 \in 1 .. Len(s)
      BY <1>2
  <2> QED BY <2>1, SetOf
<1> QED BY <1>1, <1>2

\* Two sequences in a row hold what either holds.
LEMMA SetOfBoth ==
    ASSUME NEW S, NEW s \in Seq(S), NEW t \in Seq(S)
    PROVE  ToSet(s \o t) = ToSet(s) \cup ToSet(t)
<1> DEFINE u == s \o t
<1>1. /\ u \in Seq(S) /\ Len(u) = Len(s) + Len(t)
      /\ \A i \in 1 .. Len(s) + Len(t) : u[i] = IF i <= Len(s) THEN s[i] ELSE t[i - Len(s)]
      /\ Len(s) \in Nat /\ Len(t) \in Nat
    BY ConcatProperties
<1> HIDE DEF u
<1>2. \A x \in ToSet(u) : x \in ToSet(s) \cup ToSet(t)
  <2> SUFFICES ASSUME NEW x \in ToSet(u) PROVE x \in ToSet(s) \cup ToSet(t)
      OBVIOUS
  <2>1. PICK i \in 1 .. Len(u) : x = u[i]
      BY <1>1, SetOf
  <2>2. CASE i <= Len(s)
      BY <1>1, <2>1, <2>2, SetOf
  <2>3. CASE i > Len(s)
    <3>1. i - Len(s) \in 1 .. Len(t) /\ x = t[i - Len(s)]
        BY <1>1, <2>1, <2>3
    <3> QED BY <3>1, SetOf
  <2> QED BY <2>2, <2>3, <1>1
<1>3. \A x \in ToSet(s) : x \in ToSet(u)
  <2> SUFFICES ASSUME NEW x \in ToSet(s) PROVE x \in ToSet(u)
      OBVIOUS
  <2>1. PICK i \in 1 .. Len(s) : x = s[i]
      BY SetOf
  <2>2. i \in 1 .. Len(u) /\ x = u[i]
      BY <1>1, <2>1
  <2> QED BY <1>1, <2>2, SetOf
<1>4. \A x \in ToSet(t) : x \in ToSet(u)
  <2> SUFFICES ASSUME NEW x \in ToSet(t) PROVE x \in ToSet(u)
      OBVIOUS
  <2>1. PICK i \in 1 .. Len(t) : x = t[i]
      BY SetOf
  <2>2. i + Len(s) \in 1 .. Len(u) /\ (i + Len(s)) - Len(s) = i /\ ~ (i + Len(s) <= Len(s))
      BY <1>1
  <2>3. x = u[i + Len(s)]
      BY <1>1, <2>1, <2>2
  <2> QED BY <1>1, <2>2, <2>3, SetOf
<1> QED BY <1>2, <1>3, <1>4 DEF u

\* Two sequences that rise, the second above the first, rise in a row.
LEMMA RisingInARow ==
    ASSUME NEW s \in Seq(Nat), NEW t \in Seq(Nat), NEW X, RisingBut(s, X), RisingBut(t, X),
           \A p \in ToSet(s) \ X, q \in ToSet(t) \ X : p < q
    PROVE  RisingBut(s \o t, X)
<1> DEFINE u == s \o t
<1>1. /\ u \in Seq(Nat) /\ Len(u) = Len(s) + Len(t)
      /\ \A i \in 1 .. Len(s) + Len(t) : u[i] = IF i <= Len(s) THEN s[i] ELSE t[i - Len(s)]
      /\ Len(s) \in Nat /\ Len(t) \in Nat
    BY ConcatProperties
<1> HIDE DEF u
<1> SUFFICES ASSUME NEW i \in 1 .. Len(u), NEW j \in 1 .. Len(u), i < j, u[i] \notin X, u[j] \notin X
             PROVE  u[i] < u[j]
    BY <1>1 DEF RisingBut, u
<1>2. CASE j <= Len(s)
  <2>1. i \in 1 .. Len(s) /\ j \in 1 .. Len(s)
      BY <1>1, <1>2
  <2>2. u[i] = s[i] /\ u[j] = s[j] /\ DOMAIN s = 1 .. Len(s)
      BY <1>1, <2>1
  <2> QED BY <2>1, <2>2 DEF RisingBut
<1>3. CASE i > Len(s)
  <2>1. i - Len(s) \in 1 .. Len(t) /\ j - Len(s) \in 1 .. Len(t) /\ i - Len(s) < j - Len(s)
      BY <1>1, <1>3
  <2>2. u[i] = t[i - Len(s)] /\ u[j] = t[j - Len(s)] /\ DOMAIN t = 1 .. Len(t)
      BY <1>1, <1>3
  <2> QED BY <2>1, <2>2 DEF RisingBut
<1>4. CASE i <= Len(s) /\ j > Len(s)
  <2>1. i \in 1 .. Len(s) /\ j - Len(s) \in 1 .. Len(t)
      BY <1>1, <1>4
  <2>3. u[i] = s[i]
      BY <1>1, <1>4
  <2>4. u[j] = t[j - Len(s)]
      BY <1>1, <1>4
  <2>2. u[i] \in ToSet(s) \ X /\ u[j] \in ToSet(t) \ X
      BY <2>1, <2>3, <2>4, SetOf
  <2> QED BY <2>2
<1> QED BY <1>1, <1>2, <1>3, <1>4

\* Two sequences without repetition that have no piece in common have none in a row.
LEMMA NoTwiceInARow ==
    ASSUME NEW s \in Seq(Nat), NEW t \in Seq(Nat), NoTwice(s), NoTwice(t),
           \A p \in ToSet(s) \ {Refusal} : p \notin ToSet(t)
    PROVE  NoTwice(s \o t)
<1> DEFINE u == s \o t
<1>1. /\ u \in Seq(Nat) /\ Len(u) = Len(s) + Len(t)
      /\ \A i \in 1 .. Len(s) + Len(t) : u[i] = IF i <= Len(s) THEN s[i] ELSE t[i - Len(s)]
      /\ Len(s) \in Nat /\ Len(t) \in Nat
    BY ConcatProperties
<1> HIDE DEF u
<1> SUFFICES ASSUME NEW i \in 1 .. Len(u), NEW j \in 1 .. Len(u), i < j, u[i] # Refusal
             PROVE  u[i] # u[j]
  <2>1. u = s \o t /\ DOMAIN u = 1 .. Len(u)
      BY <1>1 DEF u
  <2> QED BY <2>1 DEF NoTwice
<1>2. CASE j <= Len(s)
  <2>1. i \in 1 .. Len(s) /\ j \in 1 .. Len(s)
      BY <1>1, <1>2
  <2>2. u[i] = s[i]
      BY <1>1, <2>1
  <2>3. u[j] = s[j]
      BY <1>1, <2>1
  <2>4. DOMAIN s = 1 .. Len(s)
      OBVIOUS
  <2> QED BY <2>1, <2>2, <2>3, <2>4 DEF NoTwice
<1>3. CASE i > Len(s)
  <2>1. i - Len(s) \in 1 .. Len(t) /\ j - Len(s) \in 1 .. Len(t) /\ i - Len(s) < j - Len(s)
      BY <1>1, <1>3
  <2>2. u[i] = t[i - Len(s)]
      BY <1>1, <1>3
  <2>3. u[j] = t[j - Len(s)]
      BY <1>1, <1>3
  <2>4. DOMAIN t = 1 .. Len(t)
      OBVIOUS
  <2> QED BY <2>1, <2>2, <2>3, <2>4 DEF NoTwice
<1>4. CASE i <= Len(s) /\ j > Len(s)
  <2>1. i \in 1 .. Len(s) /\ j - Len(s) \in 1 .. Len(t)
      BY <1>1, <1>4
  <2>3. u[i] = s[i]
      BY <1>1, <1>4
  <2>4. u[j] = t[j - Len(s)]
      BY <1>1, <1>4
  <2>2. u[i] \in ToSet(s) \ {Refusal} /\ u[j] \in ToSet(t)
      BY <2>1, <2>3, <2>4, SetOf
  <2> QED BY <2>2
<1>5. i > Len(s) \/ j <= Len(s) \/ (i <= Len(s) /\ j > Len(s))
    BY <1>1
<1> QED BY <1>2, <1>3, <1>4, <1>5

\* What rises does not repeat itself.
LEMMA RisingOnce ==
    ASSUME NEW s \in Seq(Nat), RisingBut(s, {})
    PROVE  NoTwice(s) /\ \A X : RisingBut(s, X)
<1>1. ASSUME NEW i \in DOMAIN s, NEW j \in DOMAIN s, i < j
      PROVE  s[i] < s[j] /\ s[i] # s[j]
    BY <1>1 DEF RisingBut
<1> QED BY <1>1 DEF RisingBut, NoTwice

\* A queue falls into what is taken from its front and what stays, all of which comes later.
LEMMA FrontAndRest ==
    ASSUME NEW q \in Seq(Nat), RisingBut(q, {}), NEW n \in 0 .. Len(q)
    PROVE  LET front == SubSeq(q, 1, n)
               rest == SubSeq(q, n + 1, Len(q))
           IN  /\ front \in Seq(Nat) /\ rest \in Seq(Nat)
               /\ RisingBut(front, {}) /\ RisingBut(rest, {})
               /\ ToSet(front) \cup ToSet(rest) = ToSet(q)
               /\ \A p \in ToSet(front), r \in ToSet(rest) : p < r
               /\ n # 0 => front # <<>>
               /\ n = 1 => front = <<q[1]>>
               /\ Len(q) = 0 => rest = <<>>
<1> DEFINE front == SubSeq(q, 1, n)
           rest == SubSeq(q, n + 1, Len(q))
<1>0. n \in Nat /\ Len(q) \in Nat /\ n <= Len(q) /\ \A i \in 1 .. Len(q) : q[i] \in Nat
    OBVIOUS
<1>1. front \in Seq(Nat) /\ Len(front) = n /\ \A i \in 1 .. n : front[i] = q[i]
  <2>1. \A i \in 1 .. n : q[i] \in Nat
      BY <1>0
  <2>2. /\ SubSeq(q, 1, n) \in Seq(Nat) /\ Len(SubSeq(q, 1, n)) = IF 1 <= n THEN n - 1 + 1 ELSE 0
        /\ \A i \in 1 .. n - 1 + 1 : SubSeq(q, 1, n)[i] = q[1 + i - 1]
      BY <1>0, <2>1, SubSeqProperties
  <2> QED BY <1>0, <2>2
<1>2. rest \in Seq(Nat) /\ Len(rest) = Len(q) - n /\ \A i \in 1 .. Len(q) - n : rest[i] = q[n + i]
  <2>1. \A i \in n + 1 .. Len(q) : q[i] \in Nat
      BY <1>0
  <2>2. /\ SubSeq(q, n + 1, Len(q)) \in Seq(Nat)
        /\ Len(SubSeq(q, n + 1, Len(q))) = IF n + 1 <= Len(q) THEN Len(q) - (n + 1) + 1 ELSE 0
        /\ \A i \in 1 .. Len(q) - (n + 1) + 1 : SubSeq(q, n + 1, Len(q))[i] = q[(n + 1) + i - 1]
      BY <1>0, <2>1, SubSeqProperties
  <2> QED BY <1>0, <2>2
<1> HIDE DEF front, rest
<1>a. DOMAIN front = 1 .. n /\ DOMAIN rest = 1 .. Len(q) - n /\ DOMAIN q = 1 .. Len(q)
  <2>1. DOMAIN front = 1 .. Len(front) /\ DOMAIN rest = 1 .. Len(rest) /\ DOMAIN q = 1 .. Len(q)
      BY <1>1, <1>2
  <2> QED BY <1>1, <1>2, <2>1
<1>b. /\ \A x : x \in ToSet(front) <=> \E i \in 1 .. n : x = q[i]
      /\ \A x : x \in ToSet(rest) <=> \E i \in 1 .. Len(q) - n : x = q[n + i]
      /\ \A x : x \in ToSet(q) <=> \E i \in 1 .. Len(q) : x = q[i]
  <2>1. ToSet(front) = {front[i] : i \in 1 .. n}
      BY <1>a DEF ToSet
  <2>2. ToSet(rest) = {rest[i] : i \in 1 .. Len(q) - n}
      BY <1>a DEF ToSet
  <2>3. ToSet(q) = {q[i] : i \in 1 .. Len(q)}
      BY <1>a DEF ToSet
  <2>4. \A x : x \in ToSet(front) <=> \E i \in 1 .. n : x = q[i]
      BY <1>1, <2>1
  <2>5. \A x : x \in ToSet(rest) <=> \E i \in 1 .. Len(q) - n : x = q[n + i]
      BY <1>2, <2>2
  <2>6. \A x : x \in ToSet(q) <=> \E i \in 1 .. Len(q) : x = q[i]
      BY <2>3
  <2> QED BY <2>4, <2>5, <2>6
<1>c. \A i, j \in 1 .. Len(q) : i < j => q[i] < q[j]
    BY <1>a DEF RisingBut
<1>d. \A i \in 1 .. Len(q) - n : n + i \in 1 .. Len(q) /\ n + i > n
    BY <1>0
<1>e. \A i \in 1 .. n : i \in 1 .. Len(q)
    BY <1>0
<1>3. RisingBut(front, {})
  <2>1. \A i, j \in 1 .. n : i < j => front[i] < front[j]
      BY <1>1, <1>c, <1>e
  <2> QED BY <1>a, <2>1 DEF RisingBut
<1>4. RisingBut(rest, {})
  <2>1. \A i, j \in 1 .. Len(q) - n : i < j => n + i < n + j
      BY <1>0
  <2>2. \A i, j \in 1 .. Len(q) - n : i < j => rest[i] < rest[j]
      BY <1>2, <1>c, <1>d, <2>1
  <2> QED BY <1>a, <2>2 DEF RisingBut
<1>5. ToSet(front) \subseteq ToSet(q) /\ ToSet(rest) \subseteq ToSet(q)
    BY <1>b, <1>d, <1>e
<1>6. ASSUME NEW x \in ToSet(q) PROVE x \in ToSet(front) \cup ToSet(rest)
  <2>1. PICK i \in 1 .. Len(q) : x = q[i]
      BY <1>6, <1>b
  <2>2. CASE i <= n
    <3>1. i \in 1 .. n
        BY <1>0, <2>2
    <3> QED BY <2>1, <3>1, <1>b
  <2>3. CASE i > n
    <3>1. i - n \in 1 .. Len(q) - n /\ n + (i - n) = i
        BY <1>0, <2>3
    <3> QED BY <2>1, <3>1, <1>b
  <2> QED BY <2>2, <2>3, <1>0
<1>7. ASSUME NEW p \in ToSet(front), NEW r \in ToSet(rest) PROVE p < r
  <2>1. PICK i \in 1 .. n : p = q[i]
      BY <1>7, <1>b
  <2>2. PICK j \in 1 .. Len(q) - n : r = q[n + j]
      BY <1>7, <1>b
  <2>3. i \in 1 .. Len(q) /\ n + j \in 1 .. Len(q) /\ i < n + j
      BY <1>0, <1>d, <1>e
  <2> QED BY <1>c, <2>1, <2>2, <2>3
<1>8. n # 0 => front # <<>>
    BY <1>0, <1>1
<1>9. n = 1 => front = <<q[1]>>
  <2> SUFFICES ASSUME n = 1 PROVE front = <<q[1]>>
      OBVIOUS
  <2>1. Len(front) = 1 /\ front[1] = q[1]
      BY <1>1
  <2> QED BY <2>1, <1>1
<1>10. ToSet(front) \cup ToSet(rest) = ToSet(q)
    BY <1>5, <1>6
<1>11. Len(q) = 0 => rest = <<>>
    BY <1>0, <1>2
<1> QED BY <1>1, <1>2, <1>3, <1>4, <1>7, <1>8, <1>9, <1>10, <1>11 DEF front, rest

\* What the operators of the queue make of each field.
LEMMA AskingFields ==
    ASSUME NEW g \in GuardRecord, NEW n \in 0 .. Len(g.bufferQueue), RisingBut(g.bufferQueue, {})
    PROVE  LET h == Asking(g, n) IN
           /\ h \in GuardRecord
           /\ h.bufferQueue = SubSeq(g.bufferQueue, n + 1, Len(g.bufferQueue))
           /\ h.asked = SubSeq(g.bufferQueue, 1, n)
           /\ h.calling /\ h.duringCall
           /\ h.endOfStreamReceived = g.endOfStreamReceived
           /\ h.passed = g.passed /\ h.refused = g.refused /\ h.unjudged = g.unjudged
           /\ h.unsent = g.unsent /\ h.got = g.got /\ h.closed = g.closed /\ h.late = g.late
<1>1. g.bufferQueue \in Seq(Nat)
    BY DEF GuardRecord
<1>2. SubSeq(g.bufferQueue, n + 1, Len(g.bufferQueue)) \in Seq(Nat) /\ SubSeq(g.bufferQueue, 1, n) \in Seq(Nat)
    BY <1>1, FrontAndRest
<1> QED BY <1>2 DEF Asking, GuardRecord

\* The callback is over, and the queue is as it was.
Settled(g, h) ==
    /\ h \in GuardRecord
    /\ h.bufferQueue = g.bufferQueue /\ h.asked = <<>> /\ ~ h.calling
    /\ h.duringCall = g.duringCall /\ h.endOfStreamReceived = g.endOfStreamReceived
    /\ h.got = g.got /\ h.closed = g.closed /\ h.late = g.late

\* A callback leaves the queue alone, and notes what it was asked about as passed, refused or
\* unjudged.
LEMMA AnsweredFields ==
    ASSUME NEW g \in GuardRecord
    PROVE  /\ Settled(g, Passing(g)) /\ Settled(g, Denying(g))
           /\ Settled(g, Unjudged(g)) /\ Settled(g, Unsent(g))
           /\ Passing(g).passed = g.passed \cup ToSet(g.asked)
           /\ Passing(g).refused = g.refused /\ Passing(g).unjudged = g.unjudged
           /\ Passing(g).unsent = g.unsent
           /\ Denying(g).passed = g.passed
           /\ Denying(g).refused = g.refused \cup ToSet(g.asked) /\ Denying(g).unjudged = g.unjudged
           /\ Denying(g).unsent = g.unsent
           /\ Unjudged(g).passed = g.passed
           /\ Unjudged(g).refused = g.refused /\ Unjudged(g).unjudged = g.unjudged \cup ToSet(g.asked)
           /\ Unjudged(g).unsent = g.unsent
           /\ Unsent(g).passed = g.passed
           /\ Unsent(g).refused = g.refused /\ Unsent(g).unjudged = g.unjudged \cup ToSet(g.asked)
           /\ Unsent(g).unsent
<1> DEFINE A == ToSet(g.asked)
           b == Answered(g)
<1>1. A \subseteq Nat /\ <<>> \in Seq(Nat)
    BY SetOf DEF GuardRecord
<1> HIDE DEF A
<1>2. /\ b \in GuardRecord /\ b.bufferQueue = g.bufferQueue /\ b.asked = <<>> /\ ~ b.calling
      /\ b.duringCall = g.duringCall /\ b.endOfStreamReceived = g.endOfStreamReceived
      /\ b.got = g.got /\ b.closed = g.closed /\ b.late = g.late
      /\ b.passed = g.passed /\ b.refused = g.refused /\ b.unjudged = g.unjudged /\ b.unsent = g.unsent
    BY <1>1 DEF Answered, GuardRecord
<1> HIDE DEF b
<1>3. Passing(g) = [b EXCEPT !.passed = @ \cup A]
    BY DEF Passing, A, b
<1>4. Denying(g) = [b EXCEPT !.refused = @ \cup A]
    BY DEF Denying, A, b
<1>5. Unjudged(g) = [b EXCEPT !.unjudged = @ \cup A]
    BY DEF Unjudged, A, b
<1>6. Unsent(g) = [Unjudged(g) EXCEPT !.unsent = TRUE]
    BY DEF Unsent
<1>7. /\ Settled(g, Passing(g)) /\ Passing(g).passed = g.passed \cup A
      /\ Passing(g).refused = g.refused /\ Passing(g).unjudged = g.unjudged
      /\ Passing(g).unsent = g.unsent
  <2>1. Settled(g, Passing(g))
    BY <1>1, <1>2, <1>3 DEF Settled, GuardRecord
  <2>2. /\ Passing(g).passed = g.passed \cup A
        /\ Passing(g).refused = g.refused /\ Passing(g).unjudged = g.unjudged
        /\ Passing(g).unsent = g.unsent
    BY <1>2, <1>3 DEF GuardRecord
  <2>3. QED
    BY <2>1, <2>2
<1>8. /\ Settled(g, Denying(g)) /\ Denying(g).passed = g.passed
      /\ Denying(g).refused = g.refused \cup A /\ Denying(g).unjudged = g.unjudged
      /\ Denying(g).unsent = g.unsent
  <2>1. Settled(g, Denying(g))
    BY <1>1, <1>2, <1>4 DEF Settled, GuardRecord
  <2>2. /\ Denying(g).passed = g.passed
        /\ Denying(g).refused = g.refused \cup A /\ Denying(g).unjudged = g.unjudged
        /\ Denying(g).unsent = g.unsent
    BY <1>2, <1>4 DEF GuardRecord
  <2>3. QED
    BY <2>1, <2>2
<1>9. /\ Settled(g, Unjudged(g)) /\ Unjudged(g).passed = g.passed
      /\ Unjudged(g).refused = g.refused /\ Unjudged(g).unjudged = g.unjudged \cup A
      /\ Unjudged(g).unsent = g.unsent
  <2>1. Settled(g, Unjudged(g))
    BY <1>1, <1>2, <1>5 DEF Settled, GuardRecord
  <2>2. /\ Unjudged(g).passed = g.passed
        /\ Unjudged(g).refused = g.refused /\ Unjudged(g).unjudged = g.unjudged \cup A
        /\ Unjudged(g).unsent = g.unsent
    BY <1>2, <1>5 DEF GuardRecord
  <2>3. QED
    BY <2>1, <2>2
<1>10. /\ Settled(g, Unsent(g)) /\ Unsent(g).passed = g.passed
       /\ Unsent(g).refused = g.refused /\ Unsent(g).unjudged = g.unjudged \cup A
       /\ Unsent(g).unsent
    BY <1>6, <1>9 DEF Settled, GuardRecord
<1> QED BY <1>7, <1>8, <1>9, <1>10 DEF A

\* What is injected is added to what the client got, and whether the stream ends with it, and
\* whether it had ended before, is noted.
LEMMA InjectedFields ==
    ASSUME NEW g \in GuardRecord, NEW pieces \in Seq(Nat), NEW end \in BOOLEAN
    PROVE  LET h == Injected(g, pieces, end) IN
           /\ h \in GuardRecord
           /\ h.bufferQueue = g.bufferQueue /\ h.asked = g.asked /\ h.calling = g.calling
           /\ h.duringCall = g.duringCall /\ h.endOfStreamReceived = g.endOfStreamReceived
           /\ h.passed = g.passed /\ h.refused = g.refused /\ h.unjudged = g.unjudged
           /\ h.unsent = g.unsent
           /\ h.got = g.got \o pieces
           /\ (h.closed <=> g.closed \/ end) /\ (h.late <=> g.late \/ g.closed)
<1>1. g.got \o pieces \in Seq(Nat)
    BY ConcatProperties DEF GuardRecord
<1> QED BY <1>1 DEF Injected, GuardRecord

\* To free the plugin for another call changes nothing else.
LEMMA FreedFields ==
    ASSUME NEW g \in GuardRecord
    PROVE  LET h == [g EXCEPT !.duringCall = FALSE] IN
           /\ h \in GuardRecord
           /\ h.bufferQueue = g.bufferQueue /\ h.asked = g.asked /\ h.calling = g.calling
           /\ ~ h.duringCall /\ h.endOfStreamReceived = g.endOfStreamReceived
           /\ h.passed = g.passed /\ h.refused = g.refused /\ h.unjudged = g.unjudged
           /\ h.unsent = g.unsent /\ h.got = g.got /\ h.closed = g.closed /\ h.late = g.late
BY DEF GuardRecord

\* To let the end of the stream go closes it, and changes nothing else.
LEMMA ResumedFields ==
    ASSUME NEW g \in GuardRecord
    PROVE  LET h == ResumedAtEnd(g) IN
           /\ h \in GuardRecord
           /\ h.bufferQueue = g.bufferQueue /\ h.asked = g.asked /\ h.calling = g.calling
           /\ h.duringCall = g.duringCall /\ h.endOfStreamReceived = g.endOfStreamReceived
           /\ h.passed = g.passed /\ h.refused = g.refused /\ h.unjudged = g.unjudged
           /\ h.unsent = g.unsent /\ h.got = g.got /\ h.late = g.late
           /\ (h.closed <=> g.closed \/ g.endOfStreamReceived)
BY DEF ResumedAtEnd, GuardRecord

-----------------------------------------------------------------------------
(* What keeps the pieces where they are, and in order. *)

\* A batch that is taken from the front of the queue.
LEMMA AskingKeeps ==
    ASSUME NEW g, NEW a \in AnswerRecord, Kept(g, a), g.asked = <<>>, NEW n \in 0 .. Len(g.bufferQueue)
    PROVE  Kept(Asking(g, n), a)
<1> DEFINE h == Asking(g, n)
<1>1. g \in GuardRecord /\ RisingBut(g.bufferQueue, {}) /\ g.bufferQueue \in Seq(Nat)
    BY DEF Kept, Orderly, GuardRecord
<1>2. /\ h \in GuardRecord
      /\ h.bufferQueue = SubSeq(g.bufferQueue, n + 1, Len(g.bufferQueue))
      /\ h.asked = SubSeq(g.bufferQueue, 1, n)
      /\ h.calling /\ h.duringCall
      /\ h.refused = g.refused /\ h.unjudged = g.unjudged /\ h.got = g.got
    BY <1>1, AskingFields
<1> HIDE DEF h
<1>3. /\ RisingBut(h.asked, {}) /\ RisingBut(h.bufferQueue, {})
      /\ ToSet(h.asked) \cup ToSet(h.bufferQueue) = ToSet(g.bufferQueue)
      /\ \A p \in ToSet(h.asked), r \in ToSet(h.bufferQueue) : p < r
    BY <1>1, <1>2, FrontAndRest
<1>4. Held(h) = Held(g)
    BY <1>3, EmptySet DEF Held
<1> QED BY <1>2, <1>3, <1>4 DEF Kept, Whereabouts, Orderly, h

\* A batch about which the answer is no, or nothing.
LEMMA SettledKeeps ==
    ASSUME NEW g, NEW a \in AnswerRecord, Kept(g, a),
           NEW h \in GuardRecord, h.bufferQueue = g.bufferQueue, h.asked = <<>>, h.got = g.got, ~ h.calling,
           g.refused \subseteq h.refused, g.unjudged \subseteq h.unjudged,
           ToSet(g.asked) \subseteq h.refused \cup h.unjudged
    PROVE  Kept(h, a)
<1>1. Held(h) = ToSet(g.bufferQueue) /\ Held(h) \cup ToSet(g.asked) = Held(g)
    BY EmptySet DEF Held
<1>2. Whereabouts(h, a)
    BY <1>1 DEF Kept, Whereabouts
<1>3. Orderly(h, a)
    BY <1>1, EmptySet DEF Kept, Orderly
<1> QED BY <1>2, <1>3 DEF Kept

\* A batch that the client is shown.
LEMMA ShownKeeps ==
    ASSUME NEW g, NEW a \in AnswerRecord, Kept(g, a),
           NEW h \in GuardRecord, h.bufferQueue = g.bufferQueue, h.asked = <<>>, h.got = g.got \o g.asked,
           ~ h.calling, g.refused \subseteq h.refused, g.unjudged \subseteq h.unjudged
    PROVE  /\ Kept(h, a)
           /\ ToSet(h.got) = ToSet(g.got) \cup ToSet(g.asked) /\ Refusal \notin ToSet(g.asked)
<1>1. /\ g \in GuardRecord /\ g.got \in Seq(Nat) /\ g.asked \in Seq(Nat)
      /\ Whereabouts(g, a) /\ Orderly(g, a)
    BY DEF Kept, GuardRecord
<1>2. ToSet(h.got) = ToSet(g.got) \cup ToSet(g.asked)
    BY <1>1, SetOfBoth
<1>3. Held(h) = ToSet(g.bufferQueue) /\ Held(h) \cup ToSet(g.asked) = Held(g)
    BY EmptySet DEF Held
<1>4. a.sent \in Nat /\ ToSet(g.asked) \subseteq 1 .. a.sent
    BY <1>1, <1>3 DEF Whereabouts, AnswerRecord
<1>5. Refusal \notin ToSet(g.asked)
    BY <1>4 DEF Refusal
<1>6. Whereabouts(h, a)
    BY <1>1, <1>2, <1>3, <1>4 DEF Whereabouts
<1>7. RisingBut(g.asked, a.plain \cup {Refusal}) /\ NoTwice(g.asked)
    BY <1>1, RisingOnce DEF Orderly
<1>8. RisingBut(h.got, a.plain \cup {Refusal})
  <2>1. \A p \in ToSet(g.got) \ (a.plain \cup {Refusal}), q \in ToSet(g.asked) \ (a.plain \cup {Refusal}) : p < q
      BY <1>1, <1>3 DEF Orderly
  <2> QED BY <1>1, <1>7, <2>1, RisingInARow DEF Orderly
<1>9. NoTwice(h.got)
  <2>1. ASSUME NEW p \in ToSet(g.got) \ {Refusal}, p \in ToSet(g.asked) PROVE FALSE
    <3>1. p \notin a.plain
        BY <1>1, <1>3, <2>1 DEF Whereabouts
    <3>2. p < p
        BY <1>1, <1>3, <2>1, <3>1 DEF Orderly
    <3>3. p \in Nat
        BY <1>4, <2>1
    <3> QED BY <3>2, <3>3
  <2> QED BY <1>1, <1>7, <2>1, NoTwiceInARow DEF Orderly
<1>10. \A p \in ToSet(h.got) \ a.plain, q \in Held(h) : p < q
    BY <1>1, <1>2, <1>3 DEF Orderly
<1>11. Orderly(h, a)
    BY <1>1, <1>3, <1>8, <1>9, <1>10, EmptySet DEF Orderly
<1> QED BY <1>2, <1>5, <1>6, <1>11 DEF Kept

\* The refusal is always in order.
LEMMA RefusalKeeps ==
    ASSUME NEW g, NEW a \in AnswerRecord, Kept(g, a),
           NEW h \in GuardRecord, h.bufferQueue = g.bufferQueue, h.asked = g.asked, h.got = g.got \o <<Refusal>>,
           h.calling = g.calling, h.duringCall = g.duringCall, h.refused = g.refused, h.unjudged = g.unjudged
    PROVE  Kept(h, a) /\ ToSet(h.got) = ToSet(g.got) \cup {Refusal}
<1> DEFINE z == <<Refusal>>
<1>1. /\ g \in GuardRecord /\ g.got \in Seq(Nat) /\ z \in Seq(Nat)
      /\ Whereabouts(g, a) /\ Orderly(g, a)
    BY DEF Kept, GuardRecord, Refusal
<1>2. ToSet(z) = {Refusal} /\ NoTwice(z)
    BY DEF ToSet, NoTwice
<1>3. RisingBut(z, a.plain \cup {Refusal})
    BY DEF RisingBut
<1> HIDE DEF z
<1>4. ToSet(h.got) = ToSet(g.got) \cup {Refusal}
  <2>1. h.got = g.got \o z
      BY DEF z
  <2>2. ToSet(g.got \o z) = ToSet(g.got) \cup ToSet(z)
      BY <1>1, SetOfBoth
  <2> QED BY <1>2, <2>1, <2>2
<1>5. Held(h) = Held(g)
    BY DEF Held
<1>6. a.sent \in Nat /\ Held(g) \subseteq 1 .. a.sent
    BY <1>1 DEF Whereabouts, AnswerRecord
<1>7. Whereabouts(h, a)
    BY <1>1, <1>4, <1>5, <1>6 DEF Whereabouts, Refusal
<1>8. RisingBut(h.got, a.plain \cup {Refusal})
  <2>1. \A p \in ToSet(g.got) \ (a.plain \cup {Refusal}), q \in ToSet(z) \ (a.plain \cup {Refusal}) : p < q
      BY <1>2
  <2>2. h.got = g.got \o z
      BY DEF z
  <2> QED BY <1>1, <1>3, <2>1, <2>2, RisingInARow DEF Orderly
<1>9. NoTwice(h.got)
  <2>1. h.got = g.got \o z
      BY DEF z
  <2> QED BY <1>1, <1>2, <2>1, NoTwiceInARow DEF Orderly
<1>10. \A p \in ToSet(h.got) \ a.plain, q \in Held(h) : p < q
    BY <1>1, <1>4, <1>5, <1>6 DEF Orderly, Refusal
<1>11. Orderly(h, a)
    BY <1>1, <1>5, <1>8, <1>9, <1>10 DEF Orderly
<1> QED BY <1>4, <1>7, <1>11 DEF Kept

\* The n pieces after number s.
Numbered(pieces, s, n) == pieces = [i \in 1 .. n |-> s + i]

\* The pieces of a chunk: they rise, and come after what was sent before.
LEMMA ChunkOfPieces ==
    ASSUME NEW s \in Nat, NEW n \in Nat, NEW pieces, Numbered(pieces, s, n)
    PROVE  /\ pieces \in Seq(Nat) /\ RisingBut(pieces, {}) /\ ToSet(pieces) = s + 1 .. s + n
           /\ n = 0 => pieces = <<>>
<1>1. pieces \in Seq(Nat) /\ Len(pieces) = n /\ DOMAIN pieces = 1 .. n
  <2>1. pieces \in [1 .. n -> Nat]
      BY DEF Numbered
  <2>2. DOMAIN pieces = 1 .. n
      BY DEF Numbered
  <2> QED BY <2>1, <2>2
<1>2. RisingBut(pieces, {})
    BY <1>1 DEF RisingBut, Numbered
<1>3. \A x \in ToSet(pieces) : x \in s + 1 .. s + n
    BY <1>1 DEF ToSet, Numbered
<1>4. \A x \in s + 1 .. s + n : x \in ToSet(pieces)
  <2> SUFFICES ASSUME NEW x \in s + 1 .. s + n PROVE x \in ToSet(pieces)
      OBVIOUS
  <2>1. x - s \in 1 .. n /\ x = s + (x - s)
      OBVIOUS
  <2>2. x = pieces[x - s]
      BY <2>1 DEF Numbered
  <2> QED BY <1>1, <2>1, <2>2 DEF ToSet
<1>5. ToSet(pieces) = s + 1 .. s + n
    BY <1>3, <1>4
<1> QED BY <1>1, <1>2, <1>5

\* A chunk that is put into the queue.
LEMMA EnqueueKeeps ==
    ASSUME NEW g, NEW a \in AnswerRecord, Kept(g, a), NEW b \in AnswerRecord, NEW n \in Nat,
           b.sent = a.sent + n, b.plain = a.plain, NEW pieces, Numbered(pieces, a.sent, n),
           NEW h \in GuardRecord, h.bufferQueue = g.bufferQueue \o pieces, h.asked = g.asked, h.got = g.got,
           h.calling = g.calling, h.duringCall = g.duringCall, h.refused = g.refused, h.unjudged = g.unjudged
    PROVE  Kept(h, b)
<1>1. /\ g \in GuardRecord /\ g.bufferQueue \in Seq(Nat) /\ g.got \in Seq(Nat)
      /\ Whereabouts(g, a) /\ Orderly(g, a) /\ a.sent \in Nat
    BY DEF Kept, GuardRecord, AnswerRecord
<1> DEFINE P == ToSet(pieces)
<1>2. pieces \in Seq(Nat) /\ RisingBut(pieces, {}) /\ P = a.sent + 1 .. a.sent + n
    BY <1>1, ChunkOfPieces
<1>3. ToSet(h.bufferQueue) = ToSet(g.bufferQueue) \cup P
  <2>1. ToSet(g.bufferQueue \o pieces) = ToSet(g.bufferQueue) \cup ToSet(pieces)
      BY <1>1, <1>2, SetOfBoth
  <2> QED BY <2>1
<1> HIDE DEF P
<1>4. Held(h) = Held(g) \cup P
    BY <1>3 DEF Held
<1>5. /\ \A x \in P : x \in 1 .. b.sent /\ x > a.sent
      /\ \A x \in Held(g) \cup ToSet(g.got) : x \in 0 .. a.sent
      /\ \A x \in Held(g) \cup ToSet(g.got), y \in P : x < y
      /\ \A x \in 1 .. b.sent : x \in 1 .. a.sent \/ x \in P
      /\ \A x \in 1 .. a.sent : x \in 1 .. b.sent
      /\ \A x \in 0 .. a.sent : x \in 0 .. b.sent
    BY <1>1, <1>2 DEF Whereabouts
<1>6. Whereabouts(h, b)
    BY <1>1, <1>4, <1>5 DEF Whereabouts
<1>7. RisingBut(h.bufferQueue, {})
  <2>1. \A p \in ToSet(g.bufferQueue) \ {}, q \in ToSet(pieces) \ {} : p < q
      BY <1>1, <1>5 DEF Held, P
  <2> QED BY <1>1, <1>2, <2>1, RisingInARow DEF Orderly
<1>8. \A p \in ToSet(h.asked), q \in ToSet(h.bufferQueue) : p < q
    BY <1>1, <1>3, <1>5 DEF Orderly, Held
<1>9. \A p \in ToSet(h.got) \ b.plain, q \in Held(h) : p < q
    BY <1>1, <1>4, <1>5 DEF Orderly
<1>10. Orderly(h, b)
    BY <1>1, <1>7, <1>8, <1>9 DEF Orderly
<1> QED BY <1>6, <1>10 DEF Kept

\* The pieces of b that are not checked are those of a, and these.
Plainer(b, a, pieces) == b.plain = a.plain \cup ToSet(pieces)

\* A chunk that is not checked, and that the client is shown before what waits.
LEMMA PlainKeeps ==
    ASSUME NEW g, NEW a \in AnswerRecord, Kept(g, a), NEW b \in AnswerRecord, NEW n \in Nat,
           NEW pieces, Numbered(pieces, a.sent, n),
           b.sent = a.sent + n, Plainer(b, a, pieces),
           NEW h \in GuardRecord, h.bufferQueue = g.bufferQueue, h.asked = g.asked, h.got = g.got \o pieces,
           h.calling = g.calling, h.duringCall = g.duringCall, h.refused = g.refused,
           g.unjudged \subseteq h.unjudged
    PROVE  Kept(h, b)
<1>1. /\ g \in GuardRecord /\ g.got \in Seq(Nat)
      /\ Whereabouts(g, a) /\ Orderly(g, a) /\ a.sent \in Nat
    BY DEF Kept, GuardRecord, AnswerRecord
<1> DEFINE P == ToSet(pieces)
<1>2. pieces \in Seq(Nat) /\ RisingBut(pieces, {}) /\ P = a.sent + 1 .. a.sent + n
    BY <1>1, ChunkOfPieces
<1>3. ToSet(h.got) = ToSet(g.got) \cup P
  <2>1. ToSet(g.got \o pieces) = ToSet(g.got) \cup ToSet(pieces)
      BY <1>1, <1>2, SetOfBoth
  <2> QED BY <2>1
<1>4. NoTwice(pieces)
    BY <1>2, RisingOnce
<1> HIDE DEF P
<1>5. Held(h) = Held(g)
    BY DEF Held
<1>6. /\ \A x \in P : x \in 1 .. b.sent /\ x > a.sent
      /\ \A x \in Held(g) \cup ToSet(g.got) : x \in 0 .. a.sent
      /\ \A x \in Held(g) \cup ToSet(g.got), y \in P : x < y
      /\ \A x \in 1 .. b.sent : x \in 1 .. a.sent \/ x \in P
      /\ \A x \in 1 .. a.sent : x \in 1 .. b.sent
      /\ \A x \in 0 .. a.sent : x \in 0 .. b.sent
    BY <1>1, <1>2 DEF Whereabouts
<1>7. \A x \in P : x \notin Held(g) /\ x \notin ToSet(g.got) /\ x # 0 /\ x \in 0 .. b.sent
    BY <1>1, <1>6
<1>8. Whereabouts(h, b)
  <2>1. b.plain = a.plain \cup P
      BY DEF P, Plainer
  <2> QED BY <1>1, <1>3, <1>5, <1>6, <1>7, <2>1 DEF Whereabouts
<1>9. RisingBut(h.got, b.plain \cup {Refusal})
  <2>0. b.plain = a.plain \cup ToSet(pieces)
      BY DEF Plainer
  <2>1. RisingBut(pieces, b.plain \cup {Refusal})
      BY <1>2, RisingOnce
  <2>2. RisingBut(g.got, b.plain \cup {Refusal})
      BY <1>1, <2>0 DEF Orderly, RisingBut
  <2>3. \A p \in ToSet(g.got) \ (b.plain \cup {Refusal}), q \in ToSet(pieces) \ (b.plain \cup {Refusal}) : p < q
      BY <2>0
  <2> QED BY <1>1, <1>2, <2>1, <2>2, <2>3, RisingInARow
<1>10. NoTwice(h.got)
  <2>1. \A p \in ToSet(g.got) \ {Refusal} : p \notin ToSet(pieces)
      BY <1>7 DEF P
  <2> QED BY <1>1, <1>2, <1>4, <2>1, NoTwiceInARow DEF Orderly
<1>11. \A p \in ToSet(h.got) \ b.plain, q \in Held(h) : p < q
  <2>1. ToSet(h.got) \ b.plain \subseteq ToSet(g.got) \ a.plain
      BY <1>3 DEF P, Plainer
  <2> QED BY <1>1, <1>5, <2>1 DEF Orderly
<1>12. Orderly(h, b)
    BY <1>1, <1>9, <1>10, <1>11 DEF Orderly
<1> QED BY <1>8, <1>12 DEF Kept

-----------------------------------------------------------------------------
(* Text. *)

TextKept(g, a) == Kept(g, a) /\ TextGuard(g, a)

\* A text of which nothing is held, refused or unjudged has been shown to its end.
LEMMA AllSeen ==
    ASSUME NEW g, NEW a \in AnswerRecord, Kept(g, a), g.asked = <<>>, g.bufferQueue = <<>>,
           g.refused = {}, g.unjudged = {}
    PROVE  Seen(g) = 1 .. a.sent
<1>1. Held(g) = {}
    BY EmptySet DEF Held
<1>2. Whereabouts(g, a) /\ a.sent \in Nat
    BY DEF Kept, AnswerRecord
<1>3. \A x \in Seen(g) : x \in 1 .. a.sent
    BY <1>2 DEF Whereabouts, Seen, Refusal
<1>4. \A x \in 1 .. a.sent : x \in Seen(g)
    BY <1>1, <1>2 DEF Whereabouts, Seen, Refusal
<1> QED BY <1>3, <1>4

\* Who takes the next batch of text, or fails to, keeps what is known of the answer.
LEMMA SingleCallKeeps ==
    ASSUME NEW g, NEW a \in AnswerRecord, TextKept(g, a), ~ g.calling, ~ g.duringCall => ~ g.closed,
           NEW h \in SingleCall(g)
    PROVE  TextKept(h, a)
<1>1. /\ g \in GuardRecord /\ Kept(g, a) /\ TextGuard(g, a) /\ g.asked = <<>>
      /\ g.bufferQueue \in Seq(Nat) /\ RisingBut(g.bufferQueue, {}) /\ Len(g.bufferQueue) \in Nat
    BY DEF TextKept, Kept, Orderly, GuardRecord
<1>2. CASE h = g
    BY <1>2
<1>3. CASE h # g
  <2>1. /\ ~ g.duringCall
        /\ Len(g.bufferQueue) >= BufferLimit \/ g.endOfStreamReceived
      BY <1>3 DEF SingleCall
  <2>2. PICK n \in IF g.bufferQueue = <<>> THEN {0} ELSE 1 .. Len(g.bufferQueue) :
               h \in {Asking(g, n), ResumedAtEnd(Unsent(Asking(g, n)))}
      BY <1>3, <2>1 DEF SingleCall
  <2> DEFINE b == Asking(g, n)
             c == Unsent(b)
             d == ResumedAtEnd(c)
  <2>3. n \in 0 .. Len(g.bufferQueue)
      BY <1>1, <2>2
  <2>4. n = 0 => g.bufferQueue = <<>>
      BY <1>1, <2>2
  <2>5. Kept(b, a)
      BY <1>1, <2>3, AskingKeeps
  <2>6. /\ b \in GuardRecord
        /\ b.bufferQueue = SubSeq(g.bufferQueue, n + 1, Len(g.bufferQueue))
        /\ b.asked = SubSeq(g.bufferQueue, 1, n)
        /\ b.calling /\ b.duringCall
        /\ b.endOfStreamReceived = g.endOfStreamReceived
        /\ b.passed = g.passed /\ b.refused = g.refused /\ b.unjudged = g.unjudged
        /\ b.unsent = g.unsent /\ b.got = g.got /\ b.closed = g.closed /\ b.late = g.late
      BY <1>1, <2>3, AskingFields
  <2>7. n # 0 => b.asked # <<>>
    <3>1. n # 0 => SubSeq(g.bufferQueue, 1, n) # <<>>
        BY <1>1, <2>3, FrontAndRest
    <3> QED BY <2>6, <3>1
  <2>8. n = 0 => b.bufferQueue = <<>> /\ a.ended
    <3> SUFFICES ASSUME n = 0 PROVE b.bufferQueue = <<>> /\ a.ended
        OBVIOUS
    <3>1. g.bufferQueue = <<>> /\ Len(g.bufferQueue) = 0
        BY <2>4
    <3>2. b.bufferQueue = <<>>
        BY <1>1, <2>3, <2>6, <3>1, FrontAndRest
    <3>3. ~ (Len(g.bufferQueue) >= BufferLimit)
        BY <3>1, GuardAssumption
    <3> QED BY <1>1, <2>1, <3>2, <3>3 DEF TextGuard
  <2> HIDE DEF b
  <2>9. Seen(b) = Seen(g)
      BY <2>6 DEF Seen
  <2>10. TextGuard(b, a)
      BY <1>1, <2>1, <2>6, <2>7, <2>8, <2>9 DEF TextGuard
  <2>11. /\ Settled(b, c) /\ c.passed = b.passed /\ c.refused = b.refused
         /\ c.unjudged = b.unjudged \cup ToSet(b.asked) /\ c.unsent
      BY <2>6, AnsweredFields
  <2> HIDE DEF c
  <2>12. Kept(c, a)
      BY <2>5, <2>11, SettledKeeps DEF Settled
  <2>13. /\ d \in GuardRecord
         /\ d.bufferQueue = c.bufferQueue /\ d.asked = c.asked /\ d.calling = c.calling
         /\ d.duringCall = c.duringCall /\ d.endOfStreamReceived = c.endOfStreamReceived
         /\ d.passed = c.passed /\ d.refused = c.refused /\ d.unjudged = c.unjudged
         /\ d.unsent = c.unsent /\ d.got = c.got /\ d.late = c.late
         /\ (d.closed <=> c.closed \/ c.endOfStreamReceived)
      BY <2>11, ResumedFields DEF Settled
  <2> HIDE DEF d
  <2>14. Held(d) = Held(c) /\ Seen(d) = Seen(b)
      BY <2>11, <2>13 DEF Held, Seen, Settled
  <2>15. Kept(d, a)
      BY <2>11, <2>12, <2>13, <2>14 DEF Kept, Whereabouts, Orderly, Settled
  <2>16. TextGuard(d, a)
      BY <1>1, <2>6, <2>9, <2>11, <2>13, <2>14 DEF TextGuard, Settled
  <2> QED BY <2>2, <2>5, <2>10, <2>15, <2>16 DEF b, c, d, TextKept
<1> QED BY <1>2, <1>3

\* A batch about which nothing can be said is dropped.
LEMMA TextUnjudgedKeeps ==
    ASSUME NEW g, NEW a \in AnswerRecord, TextKept(g, a), g.calling, NEW h \in TextUnjudged(g)
    PROVE  TextKept(h, a)
<1> DEFINE b == Unjudged(g)
           c == [b EXCEPT !.duringCall = FALSE]
           d == ResumedAtEnd(c)
<1>1. g \in GuardRecord /\ Kept(g, a) /\ TextGuard(g, a) /\ g.asked \in Seq(Nat)
    BY DEF TextKept, Kept, GuardRecord
<1>2. /\ Settled(g, b) /\ b.passed = g.passed /\ b.refused = g.refused
      /\ b.unjudged = g.unjudged \cup ToSet(g.asked) /\ b.unsent = g.unsent
    BY <1>1, AnsweredFields
<1> HIDE DEF b
<1>3. Kept(b, a)
    BY <1>1, <1>2, SettledKeeps DEF Settled
<1>4. /\ c \in GuardRecord
      /\ c.bufferQueue = b.bufferQueue /\ c.asked = b.asked /\ c.calling = b.calling
      /\ ~ c.duringCall /\ c.endOfStreamReceived = b.endOfStreamReceived
      /\ c.passed = b.passed /\ c.refused = b.refused /\ c.unjudged = b.unjudged
      /\ c.unsent = b.unsent /\ c.got = b.got /\ c.closed = b.closed /\ c.late = b.late
    BY <1>2, FreedFields DEF Settled
<1> HIDE DEF c
<1>5. /\ d \in GuardRecord
      /\ d.bufferQueue = c.bufferQueue /\ d.asked = c.asked /\ d.calling = c.calling
      /\ d.duringCall = c.duringCall /\ d.endOfStreamReceived = c.endOfStreamReceived
      /\ d.passed = c.passed /\ d.refused = c.refused /\ d.unjudged = c.unjudged
      /\ d.unsent = c.unsent /\ d.got = c.got /\ d.late = c.late
      /\ (d.closed <=> c.closed \/ c.endOfStreamReceived)
    BY <1>4, ResumedFields
<1> HIDE DEF d
<1>6. Held(d) = Held(b) /\ Seen(d) = Seen(g)
    BY <1>2, <1>4, <1>5 DEF Held, Seen, Settled
<1>7. Kept(d, a)
    BY <1>2, <1>3, <1>4, <1>5, <1>6 DEF Kept, Whereabouts, Orderly, Settled
<1>8. Seen(d) = 1 .. a.sent \/ Refusal \in ToSet(d.got) \/ d.unjudged # {}
  <2> SUFFICES ASSUME Refusal \notin ToSet(d.got), d.unjudged = {} PROVE Seen(d) = 1 .. a.sent
      OBVIOUS
  <2>1. g.refused = {} /\ g.unjudged = {} /\ ToSet(g.asked) = {}
      BY <1>1, <1>2, <1>4, <1>5 DEF TextGuard, Settled
  <2>2. g.asked = <<>>
      BY <1>1, <2>1, NothingIn
  <2>3. g.bufferQueue = <<>>
      BY <1>1, <2>2 DEF TextGuard
  <2> QED BY <1>1, <1>6, <2>1, <2>2, <2>3, AllSeen
<1>9. TextGuard(d, a)
    BY <1>1, <1>2, <1>4, <1>5, <1>6, <1>8 DEF TextGuard, Settled
<1> QED BY <1>7, <1>9 DEF TextUnjudged, TextKept, b, c, d

\* A callback that breaks off is noted, and changes nothing else.
LEMMA DeadFields ==
    ASSUME NEW g \in GuardRecord
    PROVE  LET h == [g EXCEPT !.dead = TRUE] IN
           /\ h \in GuardRecord
           /\ h.bufferQueue = g.bufferQueue /\ h.asked = g.asked /\ h.calling = g.calling
           /\ h.duringCall = g.duringCall /\ h.endOfStreamReceived = g.endOfStreamReceived
           /\ h.passed = g.passed /\ h.refused = g.refused /\ h.unjudged = g.unjudged
           /\ h.unsent = g.unsent /\ h.got = g.got /\ h.closed = g.closed /\ h.late = g.late
BY DEF GuardRecord

\* A batch that is refused ends the stream with the refusal, or leaves the plugin calling.
LEMMA TextDeniedKeeps ==
    ASSUME NEW g, NEW a \in AnswerRecord, TextKept(g, a), g.calling, NEW h \in TextDenied(g)
    PROVE  TextKept(h, a)
<1> DEFINE b == Denying(g)
           d == Injected(b, <<Refusal>>, TRUE)
<1>1. g \in GuardRecord /\ Kept(g, a) /\ TextGuard(g, a) /\ g.asked \in Seq(Nat) /\ g.duringCall
    BY DEF TextKept, Kept, GuardRecord
<1>2. /\ Settled(g, b) /\ b.passed = g.passed /\ b.refused = g.refused \cup ToSet(g.asked)
      /\ b.unjudged = g.unjudged /\ b.unsent = g.unsent
    BY <1>1, AnsweredFields
<1> HIDE DEF b
<1>3. Kept(b, a)
    BY <1>1, <1>2, SettledKeeps DEF Settled
<1>4. <<Refusal>> \in Seq(Nat)
    BY DEF Refusal
<1>5. /\ d \in GuardRecord
      /\ d.bufferQueue = b.bufferQueue /\ d.asked = b.asked /\ d.calling = b.calling
      /\ d.duringCall = b.duringCall /\ d.endOfStreamReceived = b.endOfStreamReceived
      /\ d.passed = b.passed /\ d.refused = b.refused /\ d.unjudged = b.unjudged
      /\ d.unsent = b.unsent
      /\ d.got = b.got \o <<Refusal>>
      /\ (d.closed <=> b.closed \/ TRUE) /\ (d.late <=> b.late \/ b.closed)
    BY <1>2, <1>4, InjectedFields DEF Settled
<1> HIDE DEF d
<1>6. Kept(d, a) /\ ToSet(d.got) = ToSet(b.got) \cup {Refusal}
    BY <1>3, <1>5, RefusalKeeps
<1>7. Seen(d) = Seen(g) /\ Refusal \in ToSet(d.got)
    BY <1>2, <1>6 DEF Seen, Settled
<1>8. TextGuard(d, a)
    BY <1>1, <1>2, <1>5, <1>7 DEF TextGuard, Settled
<1> DEFINE e == [b EXCEPT !.dead = TRUE]
<1>9. /\ e \in GuardRecord
      /\ e.bufferQueue = b.bufferQueue /\ e.asked = b.asked /\ e.calling = b.calling
      /\ e.duringCall = b.duringCall /\ e.endOfStreamReceived = b.endOfStreamReceived
      /\ e.passed = b.passed /\ e.refused = b.refused /\ e.unjudged = b.unjudged
      /\ e.unsent = b.unsent /\ e.got = b.got /\ e.closed = b.closed /\ e.late = b.late
    BY <1>2, DeadFields DEF Settled
<1> HIDE DEF e
<1>10. Kept(e, a)
    BY <1>3, <1>9 DEF Kept, Whereabouts, Orderly, Held
<1>11. Seen(e) = Seen(g) /\ ToSet(e.got) = ToSet(g.got)
    BY <1>2, <1>9 DEF Seen, Settled
<1>12. TextGuard(e, a)
    BY <1>1, <1>2, <1>9, <1>11 DEF TextGuard, Settled
<1> QED BY <1>6, <1>8, <1>10, <1>12 DEF TextDenied, BrokenOff, TextKept, b, d, e

\* A batch that passed is shown, and the next one is taken unless it was the last.
LEMMA TextPassedKeeps ==
    ASSUME NEW g, NEW a \in AnswerRecord, TextKept(g, a), g.calling, NEW h \in TextPassed(g)
    PROVE  TextKept(h, a)
<1> DEFINE end == g.endOfStreamReceived /\ g.bufferQueue = <<>>
<1>0. end \in BOOLEAN
    OBVIOUS
<1> HIDE DEF end
<1> DEFINE b == Passing(g)
           c == Injected(b, g.asked, end)
           d == [c EXCEPT !.duringCall = FALSE]
<1>1. /\ g \in GuardRecord /\ Kept(g, a) /\ TextGuard(g, a) /\ g.asked \in Seq(Nat) /\ g.duringCall
      /\ ~ g.closed
    BY DEF TextKept, Kept, GuardRecord, TextGuard
<1>2. /\ Settled(g, b) /\ b.passed = g.passed \cup ToSet(g.asked) /\ b.refused = g.refused
      /\ b.unjudged = g.unjudged /\ b.unsent = g.unsent
    BY <1>1, AnsweredFields
<1> HIDE DEF b
<1>3. /\ c \in GuardRecord
      /\ c.bufferQueue = b.bufferQueue /\ c.asked = b.asked /\ c.calling = b.calling
      /\ c.duringCall = b.duringCall /\ c.endOfStreamReceived = b.endOfStreamReceived
      /\ c.passed = b.passed /\ c.refused = b.refused /\ c.unjudged = b.unjudged
      /\ c.unsent = b.unsent
      /\ c.got = b.got \o g.asked
      /\ (c.closed <=> b.closed \/ end) /\ (c.late <=> b.late \/ b.closed)
  <2>1. b.got \o g.asked \in Seq(Nat) /\ b \in GuardRecord
      BY <1>1, <1>2, ConcatProperties DEF GuardRecord, Settled
  <2> QED BY <1>0, <2>1 DEF Injected, GuardRecord
<1> HIDE DEF c
<1>4. /\ Kept(c, a)
      /\ ToSet(c.got) = ToSet(g.got) \cup ToSet(g.asked) /\ Refusal \notin ToSet(g.asked)
    BY <1>1, <1>2, <1>3, ShownKeeps DEF Settled
<1>5. Seen(c) = Seen(g) \cup ToSet(g.asked) /\ (Refusal \in ToSet(c.got) <=> Refusal \in ToSet(g.got))
    BY <1>4 DEF Seen
<1>6. CASE end
  <2>1. h = c
      BY <1>6 DEF TextPassed, end, b, c
  <2>2. Seen(c) = 1 .. a.sent \/ Refusal \in ToSet(c.got) \/ c.unjudged # {}
    <3> SUFFICES ASSUME Refusal \notin ToSet(c.got), c.unjudged = {} PROVE Seen(c) = 1 .. a.sent
        OBVIOUS
    <3>1. c.refused = {}
        BY <1>1, <1>2, <1>3, <1>5 DEF TextGuard
    <3> QED BY <1>2, <1>3, <1>4, <1>6, <3>1, AllSeen DEF Settled, end
  <2>3. TextGuard(c, a)
      BY <1>1, <1>2, <1>3, <1>5, <1>6, <2>2 DEF TextGuard, Settled, end
  <2> QED BY <1>4, <2>1, <2>3 DEF TextKept
<1>7. CASE ~ end
  <2>1. h \in SingleCall(d)
      BY <1>7 DEF TextPassed, end, b, c, d
  <2>2. /\ d \in GuardRecord
        /\ d.bufferQueue = c.bufferQueue /\ d.asked = c.asked /\ d.calling = c.calling
        /\ ~ d.duringCall /\ d.endOfStreamReceived = c.endOfStreamReceived
        /\ d.passed = c.passed /\ d.refused = c.refused /\ d.unjudged = c.unjudged
        /\ d.unsent = c.unsent /\ d.got = c.got /\ d.closed = c.closed /\ d.late = c.late
      BY <1>3, FreedFields
  <2> HIDE DEF d
  <2>3. Held(d) = Held(c) /\ Seen(d) = Seen(c)
      BY <2>2 DEF Held, Seen
  <2>4. Kept(d, a)
      BY <1>2, <1>3, <1>4, <2>2, <2>3 DEF Kept, Whereabouts, Orderly, Settled
  <2>5. ~ d.closed /\ ~ d.calling
      BY <1>1, <1>2, <1>3, <1>7, <2>2 DEF Settled
  <2>6. TextGuard(d, a)
      BY <1>1, <1>2, <1>3, <1>5, <2>2, <2>3, <2>5 DEF TextGuard, Settled
  <2> QED BY <2>1, <2>4, <2>5, <2>6, SingleCallKeeps DEF TextKept
<1> QED BY <1>6, <1>7

\* A chunk of text is put into the queue, and a batch is taken when it may be.
LEMMA TextChunkKeeps ==
    ASSUME NEW g, NEW a \in AnswerRecord, TextKept(g, a), ~ a.ended, NEW n \in Nat, NEW end \in BOOLEAN,
           NEW b \in AnswerRecord, b.sent = a.sent + n, b.ended = end, b.plain = {},
           NEW pieces, Numbered(pieces, a.sent, n), NEW h \in TextChunk(g, pieces, end)
    PROVE  TextKept(h, b)
<1> DEFINE d == [g EXCEPT !.bufferQueue = @ \o pieces, !.endOfStreamReceived = end]
<1>1. /\ g \in GuardRecord /\ Kept(g, a) /\ TextGuard(g, a) /\ g.bufferQueue \in Seq(Nat) /\ a.plain = {}
      /\ a.sent \in Nat
    BY DEF TextKept, Kept, GuardRecord, TextGuard, AnswerRecord
<1>2. pieces \in Seq(Nat) /\ (n = 0 => pieces = <<>>)
    BY <1>1, ChunkOfPieces
<1>3. g.bufferQueue \o pieces \in Seq(Nat)
    BY <1>1, <1>2, ConcatProperties
<1>4. /\ d \in GuardRecord
      /\ d.bufferQueue = g.bufferQueue \o pieces /\ d.asked = g.asked /\ d.calling = g.calling
      /\ d.duringCall = g.duringCall /\ d.endOfStreamReceived = end
      /\ d.passed = g.passed /\ d.refused = g.refused /\ d.unjudged = g.unjudged
      /\ d.unsent = g.unsent /\ d.got = g.got /\ d.closed = g.closed /\ d.late = g.late
    BY <1>1, <1>3 DEF GuardRecord
<1>5. h \in SingleCall(d)
    BY DEF TextChunk
<1> HIDE DEF d
<1>6. Kept(d, b)
    BY <1>1, <1>4, EnqueueKeeps
<1>7. Seen(d) = Seen(g)
    BY <1>4 DEF Seen
<1>8. g.closed => ~ g.calling /\ g.duringCall /\ (Refusal \in ToSet(g.got) \/ g.unsent)
    BY <1>1 DEF TextGuard
<1>9. g.calling => g.asked # <<>>
    BY <1>1 DEF TextGuard
<1>10. TextGuard(d, b)
    BY <1>1, <1>4, <1>7, <1>8, <1>9 DEF TextGuard
<1>11. CASE g.calling
  <2>1. h = d
      BY <1>1, <1>4, <1>5, <1>11 DEF SingleCall, Kept
  <2> QED BY <1>6, <1>10, <2>1 DEF TextKept
<1>12. CASE ~ g.calling
    BY <1>4, <1>5, <1>6, <1>8, <1>10, <1>12, SingleCallKeeps DEF TextKept
<1> QED BY <1>11, <1>12

-----------------------------------------------------------------------------
(* MCP. *)

McpKept(g, a) == Kept(g, a) /\ McpGuard(g)

\* To free the plugin for another call disturbs no piece.
LEMMA FreedKeeps ==
    ASSUME NEW g, NEW a \in AnswerRecord, McpKept(g, a), ~ g.calling
    PROVE  /\ McpKept([g EXCEPT !.duringCall = FALSE], a)
           /\ ~ [g EXCEPT !.duringCall = FALSE].calling
<1> DEFINE h == [g EXCEPT !.duringCall = FALSE]
<1>1. g \in GuardRecord
    BY DEF McpKept, Kept
<1>2. /\ h \in GuardRecord
      /\ h.bufferQueue = g.bufferQueue /\ h.asked = g.asked /\ h.calling = g.calling
      /\ ~ h.duringCall /\ h.endOfStreamReceived = g.endOfStreamReceived
      /\ h.passed = g.passed /\ h.refused = g.refused /\ h.unjudged = g.unjudged
      /\ h.unsent = g.unsent /\ h.got = g.got /\ h.closed = g.closed /\ h.late = g.late
    BY <1>1, FreedFields
<1> HIDE DEF h
<1>3. Held(h) = Held(g) /\ Seen(h) = Seen(g)
    BY <1>2 DEF Held, Seen
<1>4. McpKept(h, a) /\ ~ h.calling
    BY <1>2, <1>3 DEF McpKept, Kept, Whereabouts, Orderly, McpGuard
<1> QED BY <1>4 DEF h

\* An event that is asked about is shown when it passed, and when nothing could be said of it.
LEMMA LetThroughKeeps ==
    ASSUME NEW g, NEW a \in AnswerRecord, McpKept(g, a),
           NEW b \in {Passing(g), Unjudged(g), Unsent(g)}, NEW pieces, pieces = g.asked
    PROVE  McpKept(Injected(b, pieces, FALSE), a) /\ ~ Injected(b, pieces, FALSE).calling
<1> DEFINE h == Injected(b, pieces, FALSE)
<1>1. g \in GuardRecord /\ Kept(g, a) /\ McpGuard(g) /\ g.asked \in Seq(Nat) /\ g.got \in Seq(Nat)
    BY DEF McpKept, Kept, GuardRecord
<1>2. /\ Settled(g, b) /\ g.passed \subseteq b.passed /\ b.refused = g.refused
      /\ g.unjudged \subseteq b.unjudged /\ ToSet(g.asked) \subseteq b.passed \cup b.unjudged
    BY <1>1, AnsweredFields
<1>3. b \in GuardRecord /\ b.got \o g.asked \in Seq(Nat)
    BY <1>1, <1>2, ConcatProperties DEF Settled
<1>4. /\ h \in GuardRecord
      /\ h.bufferQueue = b.bufferQueue /\ h.asked = b.asked /\ h.calling = b.calling
      /\ h.endOfStreamReceived = b.endOfStreamReceived
      /\ h.passed = b.passed /\ h.refused = b.refused /\ h.unjudged = b.unjudged
      /\ h.got = b.got \o g.asked
    BY <1>3 DEF Injected, GuardRecord
<1> HIDE DEF h
<1>5. Kept(h, a) /\ ToSet(h.got) = ToSet(g.got) \cup ToSet(g.asked)
  <2>1. /\ h.bufferQueue = g.bufferQueue /\ h.asked = <<>> /\ h.got = g.got \o g.asked
        /\ ~ h.calling /\ g.refused \subseteq h.refused /\ g.unjudged \subseteq h.unjudged
    BY <1>2, <1>4 DEF Settled
  <2>2. QED
    BY <1>1, <1>4, <2>1, ShownKeeps
<1>6. McpGuard(h)
    BY <1>1, <1>2, <1>4, <1>5 DEF McpGuard, Seen, Settled
<1>7. McpKept(h, a) /\ ~ h.calling
    BY <1>2, <1>4, <1>5, <1>6 DEF McpKept, Settled
<1> QED BY <1>7 DEF h

\* Who takes the next event, or lets it through, keeps what is known of the answer.
LEMMA McpCallKeeps ==
    ASSUME NEW g, NEW a \in AnswerRecord, McpKept(g, a), ~ g.calling, NEW h \in McpCall(g)
    PROVE  McpKept(h, a)
<1> DEFINE b == Asking(g, 1)
           c == Injected(Unsent(b), <<g.bufferQueue[1]>>, FALSE)
<1>1. /\ g \in GuardRecord /\ Kept(g, a) /\ McpGuard(g) /\ g.asked = <<>>
      /\ g.bufferQueue \in Seq(Nat) /\ RisingBut(g.bufferQueue, {}) /\ Len(g.bufferQueue) \in Nat
    BY DEF McpKept, Kept, Orderly, GuardRecord
<1>2. CASE h = g
    BY <1>2
<1>3. CASE h # g
  <2>1. g.bufferQueue # <<>> /\ (h = b \/ h = [c EXCEPT !.duringCall = FALSE])
      BY <1>3 DEF McpCall
  <2>2. 1 \in 0 .. Len(g.bufferQueue)
      BY <1>1, <2>1
  <2>3. Kept(b, a)
      BY <1>1, <2>2, AskingKeeps
  <2>4. /\ b.asked = SubSeq(g.bufferQueue, 1, 1)
        /\ b.endOfStreamReceived = g.endOfStreamReceived
        /\ b.passed = g.passed /\ b.unjudged = g.unjudged /\ b.got = g.got
      BY <1>1, <2>2, AskingFields
  <2>5. SubSeq(g.bufferQueue, 1, 1) = <<g.bufferQueue[1]>>
      BY <1>1, <2>2, FrontAndRest
  <2> HIDE DEF b
  <2>6. McpKept(b, a)
      BY <1>1, <2>3, <2>4 DEF McpKept, McpGuard, Seen
  <2>7. McpKept(c, a) /\ ~ c.calling
    <3>1. <<g.bufferQueue[1]>> = b.asked
        BY <2>4, <2>5
    <3> QED BY <2>6, <3>1, LetThroughKeeps
  <2> HIDE DEF c
  <2>8. McpKept([c EXCEPT !.duringCall = FALSE], a)
      BY <2>7, FreedKeeps
  <2> QED BY <2>1, <2>6, <2>8
<1> QED BY <1>2, <1>3

\* Whatever becomes of a call, the next event is taken with all in order.
LEMMA McpReturnsKeep ==
    ASSUME NEW g, NEW a \in AnswerRecord, McpKept(g, a),
           NEW h \in McpUnjudged(g) \cup McpDenied(g) \cup McpPassed(g)
    PROVE  McpKept(h, a)
<1>1. CASE h \in McpUnjudged(g)
  <2> DEFINE b == Injected(Unjudged(g), g.asked, FALSE)
             c == [b EXCEPT !.duringCall = FALSE]
  <2>1. h \in McpCall(c)
      BY <1>1 DEF McpUnjudged, Freed
  <2>2. McpKept(b, a) /\ ~ b.calling
      BY LetThroughKeeps
  <2> HIDE DEF b
  <2>3. McpKept(c, a) /\ ~ c.calling
      BY <2>2, FreedKeeps
  <2> HIDE DEF c
  <2> QED BY <2>1, <2>3, McpCallKeeps
<1>2. CASE h \in McpPassed(g)
  <2> DEFINE b == Injected(Passing(g), g.asked, FALSE)
             c == [b EXCEPT !.duringCall = FALSE]
  <2>1. h \in McpCall(c)
      BY <1>2 DEF McpPassed, Freed
  <2>2. McpKept(b, a) /\ ~ b.calling
      BY LetThroughKeeps
  <2> HIDE DEF b
  <2>3. McpKept(c, a) /\ ~ c.calling
      BY <2>2, FreedKeeps
  <2> HIDE DEF c
  <2> QED BY <2>1, <2>3, McpCallKeeps
<1>3. CASE h \in McpDenied(g)
  <2> DEFINE b == Denying(g)
             d == Injected(b, <<Refusal>>, TRUE)
             c == [d EXCEPT !.duringCall = FALSE]
  <2>1. h \in McpCall(c)
      BY <1>3 DEF McpDenied, Freed
  <2>2. g \in GuardRecord /\ Kept(g, a) /\ McpGuard(g)
      BY DEF McpKept, Kept
  <2>3. /\ Settled(g, b) /\ b.passed = g.passed /\ b.refused = g.refused \cup ToSet(g.asked)
        /\ b.unjudged = g.unjudged
      BY <2>2, AnsweredFields
  <2> HIDE DEF b
  <2>4. Kept(b, a)
      BY <2>2, <2>3, SettledKeeps DEF Settled
  <2>5. <<Refusal>> \in Seq(Nat)
      BY DEF Refusal
  <2>6. /\ d \in GuardRecord
        /\ d.bufferQueue = b.bufferQueue /\ d.asked = b.asked /\ d.calling = b.calling
        /\ d.duringCall = b.duringCall /\ d.endOfStreamReceived = b.endOfStreamReceived
        /\ d.passed = b.passed /\ d.refused = b.refused /\ d.unjudged = b.unjudged
        /\ d.got = b.got \o <<Refusal>>
    <3>1. b \in GuardRecord /\ b.got \o <<Refusal>> \in Seq(Nat)
        BY <2>3, <2>5, ConcatProperties DEF Settled, GuardRecord
    <3> QED BY <3>1 DEF Injected, GuardRecord
  <2> HIDE DEF d
  <2>7. Kept(d, a) /\ ToSet(d.got) = ToSet(b.got) \cup {Refusal}
      BY <2>4, <2>6, RefusalKeeps
  <2>8. McpKept(d, a) /\ ~ d.calling
      BY <2>2, <2>3, <2>6, <2>7 DEF McpKept, McpGuard, Seen, Settled
  <2>9. McpKept(c, a) /\ ~ c.calling
      BY <2>8, FreedKeeps
  <2> HIDE DEF c
  <2> QED BY <2>1, <2>9, McpCallKeeps
<1> QED BY <1>1, <1>2, <1>3

\* An event without the path of the content is shown at once.
LEMMA McpPlainKeeps ==
    ASSUME NEW g, NEW a \in AnswerRecord, McpKept(g, a), NEW n \in Nat,
           NEW pieces, Numbered(pieces, a.sent, n),
           NEW b \in AnswerRecord, b.sent = a.sent + n, Plainer(b, a, pieces),
           NEW h, h = Injected([g EXCEPT !.unjudged = @ \cup ToSet(pieces)], pieces, FALSE)
    PROVE  McpKept(h, b)
<1>1. /\ g \in GuardRecord /\ Kept(g, a) /\ McpGuard(g) /\ a.sent \in Nat
      /\ g.got \in Seq(Nat) /\ g.unjudged \in SUBSET Nat
    BY DEF McpKept, Kept, GuardRecord, AnswerRecord
<1>2. pieces \in Seq(Nat) /\ ToSet(pieces) \subseteq Nat
    BY <1>1, ChunkOfPieces, SetOf
<1> DEFINE P == ToSet(pieces)
           c == [g EXCEPT !.unjudged = @ \cup P]
           d == Injected(c, pieces, FALSE)
<1>3. h = d
    OBVIOUS
<1> HIDE DEF P
<1>4. /\ c \in GuardRecord
      /\ c.bufferQueue = g.bufferQueue /\ c.asked = g.asked /\ c.calling = g.calling
      /\ c.duringCall = g.duringCall /\ c.endOfStreamReceived = g.endOfStreamReceived
      /\ c.passed = g.passed /\ c.refused = g.refused /\ c.unjudged = g.unjudged \cup P
      /\ c.got = g.got
    BY <1>1, <1>2 DEF GuardRecord, P
<1> HIDE DEF c
<1>5. c.got \o pieces \in Seq(Nat)
    BY <1>1, <1>2, <1>4, ConcatProperties
<1>6. /\ d \in GuardRecord
      /\ d.bufferQueue = c.bufferQueue /\ d.asked = c.asked /\ d.calling = c.calling
      /\ d.duringCall = c.duringCall /\ d.endOfStreamReceived = c.endOfStreamReceived
      /\ d.passed = c.passed /\ d.refused = c.refused /\ d.unjudged = c.unjudged
      /\ d.got = c.got \o pieces
    BY <1>4, <1>5 DEF Injected, GuardRecord
<1> HIDE DEF d
<1>8. Kept(d, b) /\ ToSet(d.got) = ToSet(g.got) \cup ToSet(pieces)
  <2>1. /\ d.bufferQueue = g.bufferQueue /\ d.asked = g.asked /\ d.got = g.got \o pieces
        /\ d.calling = g.calling /\ d.duringCall = g.duringCall /\ d.refused = g.refused
        /\ g.unjudged \subseteq d.unjudged /\ d \in GuardRecord
      BY <1>4, <1>6
  <2> HIDE <1>4, <1>6
  <2>2. Kept(d, b)
      BY <1>1, <2>1, PlainKeeps
  <2>3. ToSet(d.got) = ToSet(g.got) \cup ToSet(pieces)
    <3>1. ToSet(g.got \o pieces) = ToSet(g.got) \cup ToSet(pieces)
        BY <1>1, <1>2, SetOfBoth
    <3> QED BY <2>1, <3>1
  <2> QED BY <2>2, <2>3
<1>9. McpGuard(d)
    BY <1>1, <1>4, <1>6, <1>8 DEF McpGuard, Seen, P
<1> QED BY <1>3, <1>8, <1>9 DEF McpKept

\* An event is shown at once or put into the queue, and an event is taken when none is asked
\* about.
LEMMA McpChunkKeeps ==
    ASSUME NEW g, NEW a \in AnswerRecord, McpKept(g, a), NEW n \in Nat, NEW plain \in BOOLEAN,
           NEW pieces, Numbered(pieces, a.sent, n),
           NEW b \in AnswerRecord, b.sent = a.sent + n,
           b.plain = a.plain \cup (IF plain THEN ToSet(pieces) ELSE {}),
           NEW h \in McpChunk(g, pieces, plain)
    PROVE  McpKept(h, b)
<1>1. /\ g \in GuardRecord /\ Kept(g, a) /\ McpGuard(g) /\ a.sent \in Nat
      /\ g.bufferQueue \in Seq(Nat) /\ g.got \in Seq(Nat) /\ g.unjudged \in SUBSET Nat
    BY DEF McpKept, Kept, GuardRecord, AnswerRecord
<1>2. pieces \in Seq(Nat) /\ ToSet(pieces) \subseteq Nat
    BY <1>1, ChunkOfPieces, SetOf
<1>3. CASE plain
  <2>1. Plainer(b, a, pieces)
      BY <1>3 DEF Plainer
  <2>2. h = Injected([g EXCEPT !.unjudged = @ \cup ToSet(pieces)], pieces, FALSE)
      BY <1>3 DEF McpChunk
  <2> QED BY <2>1, <2>2, McpPlainKeeps
<1>4. CASE ~ plain
  <2> DEFINE d == [g EXCEPT !.bufferQueue = @ \o pieces]
  <2>1. h \in McpCall(d)
      BY <1>4 DEF McpChunk
  <2>2. g.bufferQueue \o pieces \in Seq(Nat)
      BY <1>1, <1>2, ConcatProperties
  <2>3. /\ d \in GuardRecord
        /\ d.bufferQueue = g.bufferQueue \o pieces /\ d.asked = g.asked /\ d.calling = g.calling
        /\ d.duringCall = g.duringCall /\ d.endOfStreamReceived = g.endOfStreamReceived
        /\ d.passed = g.passed /\ d.refused = g.refused /\ d.unjudged = g.unjudged
        /\ d.got = g.got
      BY <1>1, <2>2 DEF GuardRecord
  <2> HIDE DEF d
  <2>4. b.plain = a.plain
      BY <1>4
  <2>5. Kept(d, b)
      BY <1>1, <2>3, <2>4, EnqueueKeeps
  <2>6. McpKept(d, b)
      BY <1>1, <2>3, <2>5 DEF McpKept, McpGuard, Seen
  <2>7. CASE g.calling
    <3>1. h = d
        BY <1>1, <2>1, <2>3, <2>7 DEF McpCall, Kept
    <3> QED BY <2>6, <3>1
  <2>8. CASE ~ g.calling
      BY <2>1, <2>3, <2>6, <2>8, McpCallKeeps
  <2> QED BY <2>7, <2>8
<1> QED BY <1>3, <1>4

-----------------------------------------------------------------------------
(* Both. *)

\* Nothing is held and nothing shown at the start.
LEMMA GuardStarts == GuardInit => GuardOK
<1> SUFFICES ASSUME GuardInit PROVE GuardOK
    OBVIOUS
<1>1. /\ api \in {"text", "mcp"} /\ guard = FreshGuard
      /\ answer = [sent |-> 0, ended |-> FALSE, plain |-> {}]
    BY DEF GuardInit
<1>2. /\ answer \in AnswerRecord /\ answer.sent = 0 /\ ~ answer.ended /\ answer.plain = {}
    BY <1>1 DEF AnswerRecord
<1>3. /\ guard \in GuardRecord /\ guard.bufferQueue = <<>> /\ guard.asked = <<>> /\ guard.got = <<>>
      /\ ~ guard.calling /\ ~ guard.duringCall /\ ~ guard.endOfStreamReceived
      /\ ~ guard.closed /\ ~ guard.late /\ guard.refused = {}
    BY <1>1, EmptySet DEF FreshGuard, GuardRecord
<1>4. Held(guard) = {} /\ Seen(guard) = {} /\ ToSet(guard.got) = {}
    BY <1>3, EmptySet DEF Held, Seen
<1>5. Whereabouts(guard, answer)
    BY <1>2, <1>4 DEF Whereabouts
<1>6. NoTwice(guard.got) /\ ToSet(guard.asked) = {}
    BY <1>3, EmptySet DEF NoTwice
<1>7. Orderly(guard, answer)
  <2>1. /\ RisingBut(guard.asked, {}) /\ RisingBut(guard.bufferQueue, {})
        /\ RisingBut(guard.got, answer.plain \cup {Refusal})
      BY <1>3, EmptySet
  <2>2. \A p \in ToSet(guard.asked), q \in ToSet(guard.bufferQueue) : p < q
      BY <1>6
  <2>3. \A p \in ToSet(guard.got) \ answer.plain, q \in Held(guard) : p < q
      BY <1>4
  <2> QED BY <1>6, <2>1, <2>2, <2>3 DEF Orderly
<1>8. guard.endOfStreamReceived = answer.ended
    BY <1>1 DEF FreshGuard
<1> QED BY <1>1, <1>2, <1>3, <1>4, <1>5, <1>7, <1>8 DEF GuardOK, Kept, TextGuard, McpGuard

\* A chunk of either kind of answer.
LEMMA GuardChunkKeeps ==
    ASSUME GuardOK, GuardChunk
    PROVE  GuardOK'
<1>1. PICK n \in 0 .. 2, end \in BOOLEAN, plain \in BOOLEAN :
        /\ api = "text" => ~ plain
        /\ answer' = [sent |-> answer.sent + n, ended |-> end,
                      plain |-> answer.plain \cup (IF plain THEN ToSet(Next1(n)) ELSE {})]
        /\ guard' \in IF api = "text" THEN TextChunk(guard, Next1(n), end)
                      ELSE McpChunk(guard, Next1(n), plain)
    BY DEF GuardChunk
<1>2. ~ answer.ended /\ api' = api
    BY DEF GuardChunk
<1> DEFINE pieces == Next1(n)
<1>3. Numbered(pieces, answer.sent, n)
    BY DEF Next1, Numbered
<1>4. answer \in AnswerRecord /\ Kept(guard, answer) /\ api \in {"text", "mcp"}
    BY DEF GuardOK
<1>5. answer.sent \in Nat /\ n \in Nat /\ answer.plain \in SUBSET Nat
    BY <1>4 DEF AnswerRecord
<1> HIDE DEF pieces
<1>6. ToSet(pieces) \subseteq Nat
    BY <1>3, <1>5, ChunkOfPieces, SetOf
<1>7. /\ answer' \in AnswerRecord /\ answer'.sent = answer.sent + n /\ (answer'.ended <=> end)
      /\ answer'.plain = answer.plain \cup (IF plain THEN ToSet(pieces) ELSE {})
    BY <1>1, <1>5, <1>6 DEF AnswerRecord, pieces
<1>8. CASE api = "text"
  <2>1. TextKept(guard, answer) /\ answer.plain = {}
      BY <1>8 DEF GuardOK, TextKept, TextGuard
  <2>2. answer'.plain = {}
      BY <1>1, <1>7, <1>8, <2>1
  <2>3. guard' \in TextChunk(guard, pieces, end)
      BY <1>1, <1>8 DEF pieces
  <2>4. answer'.ended = end
      BY <1>1
  <2>5. TextKept(guard', answer')
      BY <1>2, <1>3, <1>4, <1>5, <1>7, <2>1, <2>2, <2>3, <2>4, TextChunkKeeps
  <2>6. api' = "text"
      BY <1>2, <1>8
  <2> QED BY <1>7, <2>5, <2>6 DEF GuardOK, TextKept
<1>9. CASE api = "mcp"
  <2>1. McpKept(guard, answer)
      BY <1>9 DEF GuardOK, McpKept
  <2>2. guard' \in McpChunk(guard, pieces, plain)
      BY <1>1, <1>9 DEF pieces
  <2>3. McpKept(guard', answer')
      BY <1>3, <1>4, <1>5, <1>7, <2>1, <2>2, McpChunkKeeps
  <2>4. api' = "mcp"
      BY <1>2, <1>9
  <2> QED BY <1>7, <2>3, <2>4 DEF GuardOK, McpKept
<1> QED BY <1>4, <1>8, <1>9

\* A callback of either kind, whatever it says.
LEMMA GuardReturnsKeep ==
    ASSUME GuardOK, GuardReturns
    PROVE  GuardOK'
<1>1. /\ guard.calling /\ api' = api /\ answer' = answer
      /\ guard' \in IF api = "text" THEN TextUnjudged(guard) \cup TextDenied(guard) \cup TextPassed(guard)
                    ELSE McpUnjudged(guard) \cup McpDenied(guard) \cup McpPassed(guard)
    BY DEF GuardReturns
<1>2. answer \in AnswerRecord /\ api \in {"text", "mcp"}
    BY DEF GuardOK
<1>3. CASE api = "text"
  <2>1. TextKept(guard, answer)
      BY <1>3 DEF GuardOK, TextKept
  <2>2. TextKept(guard', answer)
      BY <1>1, <1>2, <1>3, <2>1, TextUnjudgedKeeps, TextDeniedKeeps, TextPassedKeeps
  <2> QED BY <1>1, <1>2, <1>3, <2>2 DEF GuardOK, TextKept
<1>4. CASE api = "mcp"
  <2>1. McpKept(guard, answer)
      BY <1>4 DEF GuardOK, McpKept
  <2>2. McpKept(guard', answer)
      BY <1>1, <1>2, <1>4, <2>1, McpReturnsKeep
  <2> QED BY <1>1, <1>2, <1>4, <2>2 DEF GuardOK, McpKept
<1> QED BY <1>2, <1>3, <1>4

\* The pieces that are shown stand in the answer once each.
LEMMA ShownOnce ==
    ASSUME GuardOK
    PROVE  Cardinality(Shown) = Cardinality({n \in DOMAIN guard.got : guard.got[n] # Refusal})
<1> DEFINE S == {n \in DOMAIN guard.got : guard.got[n] # Refusal}
           f == [n \in S |-> guard.got[n]]
<1>1. guard.got \in Seq(Nat) /\ NoTwice(guard.got)
    BY DEF GuardOK, Kept, Orderly, GuardRecord
<1>2. IsFiniteSet(S)
  <2>1. S \subseteq 1 .. Len(guard.got) /\ Len(guard.got) \in Nat
      BY <1>1
  <2>2. IsFiniteSet(1 .. Len(guard.got))
      BY <2>1, FS_Interval
  <2> QED BY <2>1, <2>2, FS_Subset
<1>3. f \in [S -> Shown]
    BY DEF Shown, ToSet
<1>4. \A x \in Shown : \E n \in S : f[n] = x
    BY DEF Shown, ToSet
<1>5. \A m, n \in S : f[m] = f[n] => m = n
  <2> SUFFICES ASSUME NEW m \in S, NEW n \in S, m # n, f[m] = f[n] PROVE FALSE
      OBVIOUS
  <2>1. m \in Nat /\ n \in Nat /\ guard.got[m] = guard.got[n] /\ guard.got[m] # Refusal
      BY <1>1
  <2>2. m < n \/ n < m
      BY <2>1
  <2> QED BY <2>1, <2>2, <1>1 DEF NoTwice
<1> HIDE DEF f, S
<1>6. f \in Bijection(S, Shown)
    BY <1>3, <1>4, <1>5 DEF Bijection, Injection, Surjection, IsInjective
<1>7. ExistsBijection(S, Shown)
    BY <1>6 DEF ExistsBijection
<1> QED BY <1>2, <1>7, FS_Bijection DEF S

\* What is known of the answer says what the client sees.
LEMMA GuardHolds == GuardOK => OnlyPassedInOrder
<1> SUFFICES ASSUME GuardOK PROVE OnlyPassedInOrder
    OBVIOUS
<1>1. /\ answer \in AnswerRecord /\ Kept(guard, answer) /\ api \in {"text", "mcp"}
      /\ Whereabouts(guard, answer) /\ Orderly(guard, answer) /\ guard.got \in Seq(Nat)
      /\ api = "text" => TextGuard(guard, answer)
      /\ api = "mcp" => McpGuard(guard)
    BY DEF GuardOK, Kept, GuardRecord
<1>2. Shown = Seen(guard)
    BY DEF Shown, Seen
<1>3. OnlyPassed
    BY <1>1, <1>2, ShownOnce DEF OnlyPassed, TextGuard, McpGuard
<1>4. ASSUME NEW p \in Shown \ answer.plain, NEW q \in Shown \ answer.plain, p < q
      PROVE  Position(p) < Position(q)
  <2>1. \A x \in Shown : Position(x) \in DOMAIN guard.got /\ guard.got[Position(x)] = x
      BY DEF Position, Shown, ToSet
  <2> DEFINE i == Position(p)
             j == Position(q)
  <2>2. i \in DOMAIN guard.got /\ j \in DOMAIN guard.got /\ guard.got[i] = p /\ guard.got[j] = q
      BY <2>1
  <2> HIDE DEF i, j
  <2>3. i \in Nat /\ j \in Nat /\ p \in Nat /\ q \in Nat
      BY <1>1, <2>2
  <2>4. i # j
      BY <1>4, <2>2, <2>3
  <2>5. ~ (j < i)
    <3> SUFFICES ASSUME j < i PROVE FALSE
        OBVIOUS
    <3>1. p \notin answer.plain \cup {Refusal} /\ q \notin answer.plain \cup {Refusal}
        BY DEF Shown
    <3>2. q < p
        BY <1>1, <2>2, <3>1 DEF Orderly, RisingBut
    <3> QED BY <1>4, <2>3, <3>2
  <2>6. i < j
      BY <2>3, <2>4, <2>5
  <2> QED BY <2>6 DEF i, j
<1>5. ASSUME NEW p \in Piece, NEW q \in Shown \ answer.plain, p < q
      PROVE  p \in Shown \cup guard.refused \cup guard.unjudged
  <2>1. q \in 0 .. answer.sent /\ answer.sent \in Nat /\ p \in Nat /\ p >= 1
      BY <1>1, GuardAssumption DEF Shown, Whereabouts, AnswerRecord, Piece
  <2>2. p \in 1 .. answer.sent
      BY <1>5, <2>1
  <2>3. p \notin Held(guard)
    <3> SUFFICES ASSUME p \in Held(guard) PROVE FALSE
        OBVIOUS
    <3>1. q < p
        BY <1>1 DEF Orderly, Shown
    <3> QED BY <1>5, <2>1, <3>1
  <2> QED BY <1>1, <2>1, <2>2, <2>3 DEF Whereabouts, Shown, Refusal
<1>6. guard.late => api = "mcp"
    BY <1>1 DEF TextGuard
<1>7. api = "text" /\ guard.closed =>
        Shown = 1 .. answer.sent \/ Refusal \in ToSet(guard.got) \/ guard.unjudged # {} \/ guard.unsent
    BY <1>1, <1>2 DEF TextGuard
<1>8. InOrderToTheEnd
    BY <1>4, <1>5, <1>6, <1>7 DEF InOrderToTheEnd
<1> QED BY <1>3, <1>8 DEF OnlyPassedInOrder

\* Whatever plugin the stream passes through, the guard stays in order.
LEMMA StreamKeepsGuard ==
    ASSUME GuardOK, [StreamNext]_streamVars
    PROVE  GuardOK'
<1>1. CASE GuardNext
    BY <1>1, GuardChunkKeeps, GuardReturnsKeep DEF GuardNext
<1>2. CASE UNCHANGED guardVars
    BY <1>2 DEF guardVars, GuardOK, Kept, Whereabouts, Orderly, TextGuard, McpGuard, Held, Seen
<1> QED BY <1>1, <1>2 DEF StreamNext, streamVars

\* For any number of pieces and any batch: of a streamed answer the client sees what passed, in
\* order and once, and a text to its end unless it is told why not (OnlyPassedInOrder).
THEOREM ModerationHolds == StreamSpec => []OnlyPassedInOrder
<1>1. StreamInit => GuardOK
    BY GuardStarts DEF StreamInit
<1>2. GuardOK /\ [StreamNext]_streamVars => GuardOK'
    BY StreamKeepsGuard
<1>3. GuardOK => OnlyPassedInOrder
    BY GuardHolds
<1> QED BY <1>1, <1>2, <1>3, PTL DEF StreamSpec

-----------------------------------------------------------------------------
(* Folds and induction: what is folded over is as long as it likes. *)

\* A set of numbers has a smallest one; induction follows, with a set for what is to be shown.
LEMMA Smallest == \A T \in SUBSET Nat : T # {} => \E x \in T : \A y \in T : ~ (y < x)
<1> SUFFICES ASSUME NEW T \in SUBSET Nat, T # {} PROVE \E x \in T : \A y \in T : ~ (y < x)
    OBVIOUS
<1> DEFINE R == {ss \in Nat \X Nat : ss[1] < ss[2]}
<1>1. IsWellFoundedOn(R, Nat)
    BY NatLessThanWellFounded DEF OpToRel
<1>2. \A x, y \in Nat : y < x => <<y, x>> \in R
    OBVIOUS
<1> HIDE DEF R
<1>3. PICK x \in T : \A y \in T : ~ (<<y, x>> \in R)
    BY <1>1, WFMin
<1>. QED
    BY <1>2, <1>3

LEMMA ByInduction ==
    ASSUME NEW S, 0 \in S, \A n \in Nat : n \in S => n + 1 \in S
    PROVE  \A n \in Nat : n \in S
<1> SUFFICES ASSUME Nat \ S # {} PROVE FALSE
    OBVIOUS
<1>1. PICK x \in Nat \ S : \A y \in Nat \ S : ~ (y < x)
    BY Smallest
<1>2. x # 0 /\ x - 1 \in Nat /\ x - 1 < x /\ (x - 1) + 1 = x
    OBVIOUS
<1>. QED
    BY <1>1, <1>2

\* What is folded: the client reads an event, a tool call that waits is started, one is stopped.
Turn(op, x, e) ==
    IF op = "read" THEN Receives(x, e) ELSE IF op = "start" THEN StartRemaining(x, e) ELSE StopTool(x, e)

\* A fold over a sequence is a function of the sets of its indices; it goes over the first n.
Folding(op, c, s, n, it) ==
    it = [u \in SUBSET (1 .. n) |-> IF u = {} THEN c ELSE Turn(op, it[u \ {Max(u)}], s[Max(u)])]

LEMMA Largest == \A n \in Nat : \A u \in SUBSET (1 .. n + 1) : n + 1 \in u => Max(u) = n + 1
<1> SUFFICES ASSUME NEW n \in Nat, NEW u \in SUBSET (1 .. n + 1), n + 1 \in u PROVE Max(u) = n + 1
    OBVIOUS
<1>1. n + 1 \in u /\ \A y \in u : n + 1 >= y
    OBVIOUS
<1>2. \A x \in u : (\A y \in u : x >= y) => x = n + 1
    BY <1>1
<1>3. Max(u) \in u /\ \A y \in u : Max(u) >= y
    BY <1>1 DEF Max
<1>. QED
    BY <1>2, <1>3

LEMMA Segment ==
    \A n \in Nat : /\ Max(1 .. n + 1) = n + 1
                   /\ (1 .. n + 1) \ {n + 1} = 1 .. n
                   /\ 1 .. n + 1 # {}
<1> SUFFICES ASSUME NEW n \in Nat
             PROVE  /\ Max(1 .. n + 1) = n + 1
                    /\ (1 .. n + 1) \ {n + 1} = 1 .. n
                    /\ 1 .. n + 1 # {}
    OBVIOUS
<1>1. n + 1 \in 1 .. n + 1 /\ 1 .. n + 1 \in SUBSET (1 .. n + 1)
    OBVIOUS
<1>2. Max(1 .. n + 1) = n + 1
    BY <1>1, Largest
<1>3. (1 .. n + 1) \ {n + 1} = 1 .. n
    OBVIOUS
<1>. QED
    BY <1>1, <1>2, <1>3

\* There is such a function, step by step, and the fold is one.
LEMMA FoldingGoesOn ==
    ASSUME NEW op, NEW c, NEW s, NEW n \in Nat, NEW it, Folding(op, c, s, n, it)
    PROVE  \E more : Folding(op, c, s, n + 1, more)
<1> DEFINE more == [u \in SUBSET (1 .. n + 1) |->
                      IF n + 1 \in u THEN Turn(op, it[u \ {n + 1}], s[n + 1]) ELSE it[u]]
<1>1. \A u \in SUBSET (1 .. n + 1) :
        more[u] = IF u = {} THEN c ELSE Turn(op, more[u \ {Max(u)}], s[Max(u)])
  <2> SUFFICES ASSUME NEW u \in SUBSET (1 .. n + 1)
               PROVE more[u] = IF u = {} THEN c ELSE Turn(op, more[u \ {Max(u)}], s[Max(u)])
      OBVIOUS
  <2>1. CASE n + 1 \in u
    <3>1. Max(u) = n + 1 /\ u \ {n + 1} \in SUBSET (1 .. n) /\ u # {}
        BY <2>1, Largest
    <3>2. more[u] = Turn(op, it[u \ {n + 1}], s[n + 1]) /\ more[u \ {n + 1}] = it[u \ {n + 1}]
        BY <2>1
    <3>. QED
        BY <3>1, <3>2
  <2>2. CASE n + 1 \notin u
    <3>1. u \in SUBSET (1 .. n)
        BY <2>2
    <3>2. more[u] = it[u]
        BY <2>2
    <3>3. it[u] = IF u = {} THEN c ELSE Turn(op, it[u \ {Max(u)}], s[Max(u)])
        BY <3>1 DEF Folding
    <3>4. more[u \ {Max(u)}] = it[u \ {Max(u)}]
        BY <2>2
    <3>. QED
        BY <3>2, <3>3, <3>4
  <2>. QED
      BY <2>1, <2>2
<1>2. more = [u \in SUBSET (1 .. n + 1) |-> more[u]]
    OBVIOUS
<1> HIDE DEF more
<1>3. Folding(op, c, s, n + 1, more)
    BY <1>1, <1>2 DEF Folding
<1>. QED
    BY <1>3

LEMMA FoldingExists ==
    ASSUME NEW op, NEW c, NEW s
    PROVE  \A n \in Nat : \E it : Folding(op, c, s, n, it)
<1> DEFINE S == {n \in Nat : \E it : Folding(op, c, s, n, it)}
<1>1. 0 \in S
  <2> DEFINE it == [u \in {{}} |-> c]
  <2>1. SUBSET (1 .. 0) = {{}}
      OBVIOUS
  <2>2. it = [u \in SUBSET (1 .. 0) |-> IF u = {} THEN c ELSE Turn(op, it[u \ {Max(u)}], s[Max(u)])]
      BY <2>1
  <2>. QED
      BY <2>2 DEF Folding
<1>2. \A n \in Nat : n \in S => n + 1 \in S
    BY FoldingGoesOn
<1> HIDE DEF S
<1>3. \A n \in Nat : n \in S
    BY <1>1, <1>2, ByInduction
<1>. QED
    BY <1>3 DEF S

LEMMA ReadIsFolding ==
    ASSUME NEW c, NEW s, NEW n \in Nat, DOMAIN s = 1 .. n
    PROVE  \E it : Folding("read", c, s, n, it) /\ FoldLeft(Receives, c, s) = it[1 .. n]
<1> DEFINE it == CHOOSE i : Folding("read", c, s, n, i)
<1>1. Folding("read", c, s, n, it)
    BY FoldingExists
<1>2. FoldLeft(Receives, c, s) = it[1 .. n]
    BY DEF FoldLeft, MapThenFoldSet, Folding, Turn
<1>. QED
    BY <1>1, <1>2

LEMMA StartIsFolding ==
    ASSUME NEW c, NEW s, NEW n \in Nat, DOMAIN s = 1 .. n
    PROVE  \E it : Folding("start", c, s, n, it) /\ FoldLeft(StartRemaining, c, s) = it[1 .. n]
<1> DEFINE it == CHOOSE i : Folding("start", c, s, n, i)
<1>1. Folding("start", c, s, n, it)
    BY FoldingExists
<1>2. FoldLeft(StartRemaining, c, s) = it[1 .. n]
    BY DEF FoldLeft, MapThenFoldSet, Folding, Turn
<1>. QED
    BY <1>1, <1>2

LEMMA StopIsFolding ==
    ASSUME NEW c, NEW s, NEW n \in Nat, DOMAIN s = 1 .. n
    PROVE  \E it : Folding("stop", c, s, n, it) /\ FoldLeft(StopTool, c, s) = it[1 .. n]
<1> DEFINE it == CHOOSE i : Folding("stop", c, s, n, i)
<1>1. Folding("stop", c, s, n, it)
    BY FoldingExists
<1>2. FoldLeft(StopTool, c, s) = it[1 .. n]
    BY DEF FoldLeft, MapThenFoldSet, Folding, Turn
<1>. QED
    BY <1>1, <1>2

\* What was read so far does not depend on what follows.
LEMMA FoldingAgrees ==
    ASSUME NEW op, NEW c, NEW s, NEW t, NEW n \in Nat, NEW m \in Nat, NEW f, NEW g,
           Folding(op, c, s, n, f), Folding(op, c, t, m, g),
           n <= m, \A i \in 1 .. n : s[i] = t[i]
    PROVE  f[1 .. n] = g[1 .. n]
<1> DEFINE S == {j \in Nat : j <= n => f[1 .. j] = g[1 .. j]}
<1>1. \A j \in Nat \ {0} : 1 .. j \in SUBSET (1 .. j) /\ j \in 1 .. j /\ (1 .. j) \ {j} = 1 .. j - 1
    OBVIOUS
<1>2. 0 \in S
  <2>1. 1 .. 0 = {}
      OBVIOUS
  <2>2. f[{}] = c /\ g[{}] = c
      BY DEF Folding
  <2>. QED
      BY <2>1, <2>2
<1>3. ASSUME NEW j \in Nat, j \in S PROVE j + 1 \in S
  <2> SUFFICES ASSUME j + 1 <= n PROVE f[1 .. j + 1] = g[1 .. j + 1]
      OBVIOUS
  <2>1. f[1 .. j] = g[1 .. j] /\ s[j + 1] = t[j + 1]
      BY <1>3
  <2>2. /\ Max(1 .. j + 1) = j + 1
        /\ (1 .. j + 1) \ {j + 1} = 1 .. j /\ 1 .. j + 1 # {}
      BY Segment
  <2>3. 1 .. j + 1 \in SUBSET (1 .. n) /\ 1 .. j + 1 \in SUBSET (1 .. m)
      OBVIOUS
  <2> DEFINE u == 1 .. j + 1
  <2> HIDE DEF u
  <2>4. f[u] = Turn(op, f[u \ {Max(u)}], s[Max(u)])
      BY <2>2, <2>3 DEF Folding, u
  <2>5. g[u] = Turn(op, g[u \ {Max(u)}], t[Max(u)])
      BY <2>2, <2>3 DEF Folding, u
  <2>. QED
      BY <2>1, <2>2, <2>4, <2>5 DEF u
<1> HIDE DEF S
<1>4. n \in S
    BY <1>2, <1>3, ByInduction
<1>. QED
    BY <1>4 DEF S

\* What the client makes of nothing, and of one event more.
LEMMA ReadNothing == \A c : FoldLeft(Receives, c, <<>>) = c
<1> SUFFICES ASSUME NEW c PROVE FoldLeft(Receives, c, <<>>) = c
    OBVIOUS
<1>1. DOMAIN <<>> = 1 .. 0 /\ 1 .. 0 = {}
    OBVIOUS
<1>2. PICK it : Folding("read", c, <<>>, 0, it) /\ FoldLeft(Receives, c, <<>>) = it[1 .. 0]
    BY <1>1, ReadIsFolding
<1>3. it[{}] = c
    BY <1>2 DEF Folding
<1>. QED
    BY <1>1, <1>2, <1>3

LEMMA ReadMore ==
    ASSUME NEW c, NEW E, NEW s \in Seq(E), NEW e \in E
    PROVE  FoldLeft(Receives, c, Append(s, e)) = Receives(FoldLeft(Receives, c, s), e)
<1> DEFINE n == Len(s)
           t == Append(s, e)
<1>1. n \in Nat /\ DOMAIN s = 1 .. n /\ DOMAIN t = 1 .. n + 1 /\ t[n + 1] = e /\ \A i \in 1 .. n : s[i] = t[i]
    OBVIOUS
<1> HIDE DEF n, t
<1>2. PICK f : Folding("read", c, s, n, f) /\ FoldLeft(Receives, c, s) = f[1 .. n]
    BY <1>1, ReadIsFolding
<1>3. PICK g : Folding("read", c, t, n + 1, g) /\ FoldLeft(Receives, c, t) = g[1 .. n + 1]
    BY <1>1, ReadIsFolding
<1>4. f[1 .. n] = g[1 .. n]
    BY <1>1, <1>2, <1>3, FoldingAgrees
<1>5. Max(1 .. n + 1) = n + 1 /\ (1 .. n + 1) \ {n + 1} = 1 .. n /\ 1 .. n + 1 # {}
    BY <1>1, Segment
<1>6. g[1 .. n + 1] = Turn("read", g[1 .. n], t[n + 1])
    BY <1>1, <1>3, <1>5 DEF Folding
<1>7. g[1 .. n + 1] = Receives(g[1 .. n], t[n + 1])
    BY <1>6 DEF Turn
<1>. QED
    BY <1>1, <1>2, <1>3, <1>4, <1>7 DEF t

-----------------------------------------------------------------------------
(* The Claude stream: what the client was told is what the converter thinks it told. *)

Converter ==
    [messageStartSent : BOOLEAN, messageStopSent : BOOLEAN, pendingStopReason : BOOLEAN,
     block : [Block -> {"unknown", "new", "open", "closed"}],
     cachedArguments : [ToolIndex -> Nat], activeToolIndex : 0 .. Nobody]

Reader ==
    [started : BOOLEAN, stopped : BOOLEAN, open : SUBSET Block, closed : SUBSET Block,
     reasons : Nat, input : [ToolIndex -> Nat], faults : SUBSET Fault]

Sender ==
    [phase : {"start", "deltas", "finished", "counted", "over"}, rank : 0 .. 3, turnedBack : BOOLEAN,
     earlyUsage : BOOLEAN, finished : BOOLEAN, named : SUBSET ToolIndex,
     arguments : [ToolIndex -> Nat]]

ClaudeEvent ==
    [type : {"message_start", "message_stop"}]
    \cup [type : {"message_delta"}, reason : BOOLEAN]
    \cup [type : {"content_block_start", "content_block_stop"}, block : Block]
    \cup [type : {"content_block_delta"}, block : Block, pieces : Nat]

BlockStart(b) == [type |-> "content_block_start", block |-> b]
BlockDelta(b, n) == [type |-> "content_block_delta", block |-> b, pieces |-> n]
BlockStop(b) == [type |-> "content_block_stop", block |-> b]
StartOfMessage == [type |-> "message_start"]
Reason(reason) == [type |-> "message_delta", reason |-> reason]
StopOfMessage == [type |-> "message_stop"]
WithBlock(s, b, x) == [s EXCEPT !.conv.block[b] = x]

\* Of the blocks, b alone becomes x.
Alters(s, t, b, x) ==
    /\ t.conv.block[b] = x
    /\ \A k \in Block : k # b => t.conv.block[k] = s.conv.block[k]

\* The client sees the message and its blocks as the converter does.
Mirrors(v, c) ==
    /\ (c.started <=> v.messageStartSent) /\ (c.stopped <=> v.messageStopSent)
    /\ \A b \in Block : /\ b \in c.open <=> v.block[b] = "open"
                        /\ b \in c.closed <=> v.block[b] = "closed"
    /\ v.block[Thinking] # "unknown" /\ v.block[Text] # "unknown"
    /\ c.faults \cap {"early", "again"} = {}
    /\ ~ c.started => c.open = {}

\* The tool calls that were named are known, one of them is written as its arguments come, the
\* others wait with theirs.
ToolsFollow(v, c, named, args) ==
    /\ v.cachedArguments = args
    /\ v.activeToolIndex = Nobody => named = {}
    /\ \A i \in ToolIndex :
        /\ i \in named <=> v.block[ToolUse(i)] # "unknown"
        /\ v.block[ToolUse(i)] # "closed"
        /\ v.block[ToolUse(i)] = "open" <=> v.activeToolIndex = i
        /\ c.input[i] = IF v.activeToolIndex = i THEN args[i] ELSE 0
        /\ i \notin named => args[i] = 0

\* Reasoning and text are closed by what follows them.
RanksFollow(v, turnedBack, rank) ==
    turnedBack \/ /\ v.block[Thinking] = "closed" => rank >= 2
                  /\ v.block[Text] = "closed" => rank = 3

\* Before the finish reason, and after it.
MessageGoing(v, c, u) ==
    /\ ~ u.finished /\ ~ v.pendingStopReason /\ c.reasons = 0
    /\ u.phase = "deltas" => c.started
    /\ c.stopped => u.earlyUsage
    /\ ToolsFollow(v, c, u.named, u.arguments)
    /\ RanksFollow(v, u.turnedBack, u.rank)

MessageEnding(v, c, u) ==
    /\ u.finished /\ c.started /\ c.open = {} /\ c.input = u.arguments
    /\ c.reasons = (IF v.pendingStopReason THEN 0 ELSE 1)
    /\ IF u.phase = "finished" THEN c.stopped => u.earlyUsage ELSE c.stopped /\ ~ v.pendingStopReason

ClaudeOK ==
    /\ conv \in Converter /\ client \in Reader /\ upstream \in Sender
    /\ "outside" \in client.faults => upstream.turnedBack
    /\ "late" \in client.faults => upstream.earlyUsage
    /\ client.faults \cap {"early", "again"} = {}
    /\ upstream.phase # "over" => Mirrors(conv, client)
    /\ upstream.phase \in {"start", "deltas"} => MessageGoing(conv, client, upstream)
    /\ upstream.phase \in {"finished", "counted"} => MessageEnding(conv, client, upstream)
    /\ upstream.phase = "over" =>
        /\ upstream.finished => client.input = upstream.arguments
        /\ client.started =>
            client.stopped /\ client.open = {} /\ client.reasons = IF upstream.finished THEN 1 ELSE 0

\* A handler at work: the state of the converter, and the client once it has read what was emitted.
Working == [conv : Converter, out : Seq(ClaudeEvent)]
Told(s) == FoldLeft(Receives, client, s.out)
Good(s) == s \in Working /\ Told(s) \in Reader /\ Mirrors(s.conv, Told(s))

\* From s to t nothing was wrong but that a block may have been started in another.
DueTo(c, more) == c.faults \cup more \cup (IF c.stopped THEN {"late"} ELSE {})
Tolerated(s) == DueTo(Told(s), {"overlap"})

SameFlags(s, t) ==
    /\ t.conv.messageStartSent <=> s.conv.messageStartSent
    /\ t.conv.messageStopSent <=> s.conv.messageStopSent
    /\ t.conv.pendingStopReason <=> s.conv.pendingStopReason

Steady(s, t) == Good(t) /\ SameFlags(s, t) /\ Told(t).reasons = Told(s).reasons

SameConv(s, t) == t.conv = s.conv
SameInput(s, t) == Told(t).input = Told(s).input

SameTools(s, t) ==
    /\ t.conv.cachedArguments = s.conv.cachedArguments
    /\ t.conv.activeToolIndex = s.conv.activeToolIndex
    /\ Told(t).input = Told(s).input

LEMMA BlockFacts ==
    /\ Thinking \in Block /\ Text \in Block /\ Thinking # Text
    /\ Thinking \notin Tools /\ Text \notin Tools
    /\ \A i \in ToolIndex : /\ ToolUse(i) \in Block /\ ToolUse(i) \in Tools /\ ToolUse(i)[2] = i
                            /\ ToolUse(i) # Thinking /\ ToolUse(i) # Text
                            /\ \A j \in ToolIndex : ToolUse(i) = ToolUse(j) => i = j
    /\ \A b \in Block : b = Thinking \/ b = Text \/ \E i \in ToolIndex : b = ToolUse(i)
    /\ \A b \in Tools : \E i \in ToolIndex : b = ToolUse(i)
BY DEF Thinking, Text, ToolUse, Tools, Block

\* One event more.
LEMMA Emits ==
    ASSUME NEW s \in Working, NEW e \in ClaudeEvent
    PROVE  /\ Emitting(s, e) \in Working /\ Emitting(s, e).conv = s.conv
           /\ Told(Emitting(s, e)) = Receives(Told(s), e)
<1>1. s.out \in Seq(ClaudeEvent) /\ s = [conv |-> s.conv, out |-> s.out]
    BY DEF Working
<1>2. Emitting(s, e) = [conv |-> s.conv, out |-> Append(s.out, e)]
    BY <1>1 DEF Emitting
<1>3. Emitting(s, e).out = Append(s.out, e) /\ Append(s.out, e) \in Seq(ClaudeEvent)
    BY <1>1, <1>2
<1>4. FoldLeft(Receives, client, Append(s.out, e)) = Receives(FoldLeft(Receives, client, s.out), e)
    BY <1>1, ReadMore
<1>5. Emitting(s, e).conv = s.conv
    BY <1>2
<1>6. Told(Emitting(s, e)) = Receives(Told(s), e)
    BY <1>3, <1>4 DEF Told
<1>7. Emitting(s, e) \in Working
    BY <1>1, <1>2, <1>3 DEF Working
<1>. QED
    BY <1>5, <1>6, <1>7

\* What a client makes of the start, the content and the stop of a block.
LEMMA ReadsStart ==
    ASSUME NEW c \in Reader, c.started, NEW b \in Block, b \notin c.open, b \notin c.closed,
           NEW e, e = BlockStart(b),
           NEW d, d = Receives(c, e)
    PROVE  /\ d \in Reader /\ (d.started <=> c.started) /\ (d.stopped <=> c.stopped) /\ d.reasons = c.reasons
           /\ d.input = c.input /\ d.open = c.open \cup {b} /\ d.closed = c.closed
           /\ d.faults \subseteq DueTo(c, {"overlap"})
<1>1. e.type = "content_block_start" /\ e.block = b
    BY DEF BlockStart, BlockStop
<1>2. Faults(c, e) \subseteq {"overlap"} \cup (IF c.stopped THEN {"late"} ELSE {})
    BY <1>1 DEF Faults
<1>3. d = [[c EXCEPT !.faults = @ \cup Faults(c, e)] EXCEPT !.open = @ \cup {b}]
    BY <1>1 DEF Receives
<1>4. Faults(c, e) \subseteq Fault
    BY <1>2 DEF Fault
<1> DEFINE f == c.faults \cup Faults(c, e)
<1>5. f \in SUBSET Fault /\ c.faults \subseteq f
      /\ f \subseteq DueTo(c, {"overlap"})
    BY <1>2, <1>4 DEF Reader, DueTo
<1> DEFINE g == c.open \cup {b}
<1>6. d = [c EXCEPT !.faults = f, !.open = g]
    BY <1>3
<1>7. g \in SUBSET Block
    BY DEF Reader
<1> HIDE DEF f, g
<1>8. /\ d \in Reader /\ (d.started <=> c.started) /\ (d.stopped <=> c.stopped) /\ d.reasons = c.reasons
      /\ d.input = c.input /\ d.open = g /\ d.closed = c.closed /\ d.faults = f
    BY <1>5, <1>6, <1>7 DEF Reader
<1>. QED
    BY <1>5, <1>8 DEF g

\* The client c has read n pieces of content of b, and is d.
HasRead(c, b, n, d) ==
    /\ d \in Reader /\ (d.started <=> c.started) /\ (d.stopped <=> c.stopped) /\ d.reasons = c.reasons
    /\ d.open = c.open /\ d.closed = c.closed
    /\ d.input = IF b \in Tools THEN [c.input EXCEPT ![b[2]] = @ + n] ELSE c.input
    /\ d.faults \subseteq DueTo(c, IF b \in c.open THEN {} ELSE {"outside"})

LEMMA ReadsContent ==
    ASSUME NEW c \in Reader, c.started, NEW b \in Block, NEW n \in Nat,
           NEW e, e = BlockDelta(b, n),
           NEW d, d = Receives(c, e)
    PROVE  HasRead(c, b, n, d)
<1>1. e.type = "content_block_delta" /\ e.block = b /\ e.pieces = n
    BY DEF BlockDelta
<1>2. Faults(c, e) \subseteq (IF b \in c.open THEN {} ELSE {"outside"}) \cup (IF c.stopped THEN {"late"} ELSE {})
    BY <1>1 DEF Faults
<1>3. Faults(c, e) \subseteq Fault
    BY <1>2 DEF Fault
<1> DEFINE f == c.faults \cup Faults(c, e)
<1>4. f \in SUBSET Fault /\ c.faults \subseteq f
      /\ f \subseteq DueTo(c, IF b \in c.open THEN {} ELSE {"outside"})
    BY <1>2, <1>3 DEF Reader, DueTo
<1>5. [c EXCEPT !.faults = @ \cup Faults(c, e)] = [c EXCEPT !.faults = f]
    OBVIOUS
<1> HIDE DEF f
<1>6. CASE b \in Tools
  <2>1. d = [[c EXCEPT !.faults = f] EXCEPT !.input[b[2]] = @ + n]
      BY <1>1, <1>5, <1>6 DEF Receives
  <2>2. b[2] \in ToolIndex
      BY <1>6, BlockFacts
  <2> DEFINE g == [c.input EXCEPT ![b[2]] = @ + n]
  <2>3. d = [c EXCEPT !.faults = f, !.input = g]
      BY <2>1
  <2>4. g \in [ToolIndex -> Nat]
      BY <2>2 DEF Reader
  <2>5. d.input = g
      BY <2>3 DEF Reader
  <2> HIDE DEF g
  <2>6. /\ d \in Reader /\ (d.started <=> c.started) /\ (d.stopped <=> c.stopped) /\ d.reasons = c.reasons
        /\ d.open = c.open /\ d.closed = c.closed /\ d.faults = f
      BY <1>4, <2>3, <2>4 DEF Reader
  <2>. QED
      BY <1>4, <1>6, <2>5, <2>6 DEF g, HasRead
<1>7. CASE b \notin Tools
  <2>1. d = [c EXCEPT !.faults = f]
      BY <1>1, <1>5, <1>7 DEF Receives
  <2>. QED
      BY <1>4, <1>7, <2>1 DEF Reader, HasRead
<1>. QED
    BY <1>6, <1>7

LEMMA ReadsStop ==
    ASSUME NEW c \in Reader, c.started, NEW b \in Block, b \in c.open,
           NEW e, e = BlockStop(b),
           NEW d, d = Receives(c, e)
    PROVE  /\ d \in Reader /\ (d.started <=> c.started) /\ (d.stopped <=> c.stopped) /\ d.reasons = c.reasons
           /\ d.input = c.input /\ d.open = c.open \ {b} /\ d.closed = c.closed \cup {b}
           /\ d.faults \subseteq DueTo(c, {})
<1>1. e.type = "content_block_stop" /\ e.block = b
    BY DEF BlockStart, BlockStop
<1>2. Faults(c, e) \subseteq (IF c.stopped THEN {"late"} ELSE {})
    BY <1>1 DEF Faults
<1>3. d = [[c EXCEPT !.faults = @ \cup Faults(c, e)] EXCEPT !.open = @ \ {b}, !.closed = @ \cup {b}]
    BY <1>1 DEF Receives
<1>4. Faults(c, e) \subseteq Fault
    BY <1>2 DEF Fault
<1> DEFINE f == c.faults \cup Faults(c, e)
<1>5. f \in SUBSET Fault /\ c.faults \subseteq f
      /\ f \subseteq DueTo(c, {})
    BY <1>2, <1>4 DEF Reader, DueTo
<1> DEFINE g == c.open \ {b}
           h == c.closed \cup {b}
<1>6. d = [c EXCEPT !.faults = f, !.open = g, !.closed = h]
    BY <1>3
<1>7. g \in SUBSET Block /\ h \in SUBSET Block
    BY DEF Reader
<1> HIDE DEF f, g, h
<1>8. /\ d \in Reader /\ (d.started <=> c.started) /\ (d.stopped <=> c.stopped) /\ d.reasons = c.reasons
      /\ d.input = c.input /\ d.open = g /\ d.closed = h /\ d.faults = f
    BY <1>5, <1>6, <1>7 DEF Reader
<1>. QED
    BY <1>5, <1>8 DEF g, h

\* The client c has heard an event of the whole message that gives n reasons, and is d.
HasHeard(c, n, d) ==
    /\ d \in Reader /\ d.started /\ d.reasons = c.reasons + n
    /\ d.input = c.input /\ d.open = c.open /\ d.closed = c.closed
    /\ d.faults \subseteq DueTo(c, {})

\* What a client makes of the events of the message.
LEMMA ReadsMessage ==
    ASSUME NEW c \in Reader
    PROVE  /\ \A d : d = Receives(c, StartOfMessage) => HasHeard(c, 0, d) /\ (d.stopped <=> c.stopped)
           /\ \A d, reason : c.started /\ reason \in BOOLEAN /\ d = Receives(c, Reason(reason)) =>
                HasHeard(c, IF reason THEN 1 ELSE 0, d) /\ (d.stopped <=> c.stopped)
           /\ \A d : c.started /\ d = Receives(c, StopOfMessage) => HasHeard(c, 0, d) /\ d.stopped
<1>0. c.reasons \in Nat
    BY DEF Reader
<1>1. ASSUME NEW e, e = StartOfMessage, NEW d, d = Receives(c, e)
      PROVE  /\ d \in Reader /\ d.started /\ (d.stopped <=> c.stopped) /\ d.reasons = c.reasons
             /\ d.input = c.input /\ d.open = c.open /\ d.closed = c.closed
             /\ d.faults \subseteq DueTo(c, {})
  <2>1. e.type = "message_start"
      BY <1>1 DEF StartOfMessage
  <2>2. Faults(c, e) \subseteq (IF c.stopped THEN {"late"} ELSE {})
      BY <2>1 DEF Faults
  <2>3. d = [[c EXCEPT !.faults = @ \cup Faults(c, e)] EXCEPT !.started = TRUE]
      BY <1>1, <2>1 DEF Receives
  <2>4. Faults(c, e) \subseteq Fault
      BY <2>2 DEF Fault
  <2>. QED
      BY <2>2, <2>3, <2>4 DEF Reader, DueTo
<1>2. ASSUME NEW reason \in BOOLEAN, NEW e, e = Reason(reason),
             c.started, NEW d, d = Receives(c, e)
      PROVE  /\ d \in Reader /\ d.started /\ (d.stopped <=> c.stopped)
             /\ d.reasons = c.reasons + (IF reason THEN 1 ELSE 0)
             /\ d.input = c.input /\ d.open = c.open /\ d.closed = c.closed
             /\ d.faults \subseteq DueTo(c, {})
  <2>1. e.type = "message_delta" /\ e.reason = reason
      BY <1>2 DEF Reason
  <2>2. Faults(c, e) \subseteq (IF c.stopped THEN {"late"} ELSE {})
      BY <1>2, <2>1 DEF Faults
  <2>3. d = [[c EXCEPT !.faults = @ \cup Faults(c, e)] EXCEPT !.reasons = @ + (IF reason THEN 1 ELSE 0)]
      BY <1>2, <2>1 DEF Receives
  <2>4. Faults(c, e) \subseteq Fault
      BY <2>2 DEF Fault
  <2> DEFINE f == c.faults \cup Faults(c, e)
             n == c.reasons + (IF reason THEN 1 ELSE 0)
  <2>5. f \in SUBSET Fault /\ c.faults \subseteq f
        /\ f \subseteq DueTo(c, {})
      BY <2>2, <2>4 DEF Reader, DueTo
  <2>6. d = [c EXCEPT !.faults = f, !.reasons = n]
      BY <2>3
  <2>7. n \in Nat
      BY DEF Reader
  <2> HIDE DEF f, n
  <2>8. /\ d \in Reader /\ d.started /\ (d.stopped <=> c.stopped) /\ d.reasons = n
        /\ d.input = c.input /\ d.open = c.open /\ d.closed = c.closed /\ d.faults = f
      BY <1>2, <2>5, <2>6, <2>7 DEF Reader
  <2>. QED
      BY <2>5, <2>8 DEF n
<1>3. ASSUME NEW e, e = StopOfMessage, c.started, NEW d, d = Receives(c, e)
      PROVE  /\ d \in Reader /\ d.started /\ d.stopped /\ d.reasons = c.reasons
             /\ d.input = c.input /\ d.open = c.open /\ d.closed = c.closed
             /\ d.faults \subseteq DueTo(c, {})
  <2>1. e.type = "message_stop"
      BY <1>3 DEF StopOfMessage
  <2>2. Faults(c, e) \subseteq (IF c.stopped THEN {"late"} ELSE {})
      BY <1>3, <2>1 DEF Faults
  <2>3. d = [[c EXCEPT !.faults = @ \cup Faults(c, e)] EXCEPT !.stopped = TRUE]
      BY <1>3, <2>1 DEF Receives
  <2>4. Faults(c, e) \subseteq Fault
      BY <2>2 DEF Fault
  <2>. QED
      BY <1>3, <2>2, <2>3, <2>4 DEF Reader, DueTo
<1>. QED
    BY <1>0, <1>1, <1>2, <1>3 DEF HasHeard

\* What the converter keeps of the tool calls is what it was.
SameCalls(s, t) ==
    /\ t.conv.cachedArguments = s.conv.cachedArguments
    /\ t.conv.activeToolIndex = s.conv.activeToolIndex

\* The converter changes what it thinks of a block.
LEMMA BlockSet ==
    ASSUME NEW s \in Working, NEW b \in Block, NEW x \in {"unknown", "new", "open", "closed"},
           NEW u, u = WithBlock(s, b, x)
    PROVE  /\ u \in Working /\ Told(u) = Told(s)
           /\ Alters(s, u, b, x)
           /\ SameFlags(s, u) /\ SameCalls(s, u)
<1> DEFINE g == [s.conv.block EXCEPT ![b] = x]
           v == [s.conv EXCEPT !.block = g]
<1>1. s.conv \in Converter /\ s.out \in Seq(ClaudeEvent)
    BY DEF Working
<1>2. g \in [Block -> {"unknown", "new", "open", "closed"}]
    BY <1>1 DEF Converter
<1>3. u = [s EXCEPT !.conv = v]
    BY DEF WithBlock
<1>4. u.out = s.out /\ u.conv = v
    BY <1>3 DEF Working
<1> HIDE DEF g
<1>5. /\ v \in Converter /\ v.block = g
      /\ (v.messageStartSent <=> s.conv.messageStartSent)
      /\ (v.messageStopSent <=> s.conv.messageStopSent)
      /\ (v.pendingStopReason <=> s.conv.pendingStopReason)
      /\ v.cachedArguments = s.conv.cachedArguments
      /\ v.activeToolIndex = s.conv.activeToolIndex
    BY <1>1, <1>2 DEF Converter
<1> HIDE DEF v
<1>6. u \in Working
    BY <1>1, <1>3, <1>5 DEF Working
<1>7. Told(u) = Told(s)
    BY <1>4 DEF Told
<1>. QED
  <2>1. u.conv.block = [s.conv.block EXCEPT ![b] = x]
      BY <1>4, <1>5 DEF g
  <2>2. s.conv.block \in [Block -> {"unknown", "new", "open", "closed"}]
      BY <1>1 DEF Converter
  <2>3. Alters(s, u, b, x)
      BY <2>1, <2>2 DEF Alters
  <2>4. SameFlags(s, u) /\ SameCalls(s, u)
      BY <1>4, <1>5 DEF SameFlags, SameCalls
  <2>. QED
      BY <1>6, <1>7, <2>3, <2>4

\* A block is started, filled and stopped.
LEMMA Starts ==
    ASSUME NEW s, Good(s), s.conv.messageStartSent, NEW b \in Block, s.conv.block[b] \notin {"open", "closed"},
           NEW t, t = Started(s, b)
    PROVE  /\ Steady(s, t) /\ SameTools(s, t) /\ Told(t).faults \subseteq Tolerated(s)
           /\ Alters(s, t, b, "open")
<1> DEFINE u == WithBlock(s, b, "open")
           e == BlockStart(b)
<1>1. s \in Working /\ Told(s) \in Reader /\ Mirrors(s.conv, Told(s))
    BY DEF Good
<1>0. u = WithBlock(s, b, "open")
    OBVIOUS
<1> HIDE DEF u
<1>2. /\ u \in Working /\ Told(u) = Told(s)
      /\ Alters(s, u, b, "open")
      /\ SameFlags(s, u)
      /\ u.conv.cachedArguments = s.conv.cachedArguments
      /\ u.conv.activeToolIndex = s.conv.activeToolIndex
  <2>1. s \in Working /\ "open" \in {"unknown", "new", "open", "closed"}
      BY <1>1
  <2>2. /\ u \in Working /\ Told(u) = Told(s)
        /\ Alters(s, u, b, "open") /\ SameFlags(s, u) /\ SameCalls(s, u)
      BY <1>0, <2>1, BlockSet
  <2>. QED
      BY <2>2 DEF SameCalls
<1>3. t = Emitting(u, e)
    BY <1>0 DEF Started, WithBlock, BlockStart
<1>4. e \in ClaudeEvent
    BY DEF ClaudeEvent, BlockStart, BlockDelta
<1>5. Told(s).started /\ b \notin Told(s).open /\ b \notin Told(s).closed
    BY <1>1 DEF Mirrors
<1>6. t \in Working /\ t.conv = u.conv /\ Told(t) = Receives(Told(s), e)
    BY <1>2, <1>3, <1>4, Emits
<1> DEFINE c == Told(s)
           d == Told(t)
<1>. e = BlockStart(b)
    OBVIOUS
<1>. c \in Reader /\ c.started /\ b \notin c.open /\ b \notin c.closed /\ d = Receives(c, e)
    BY <1>1, <1>5, <1>6
<1> HIDE DEF c, d, e
<1>7. /\ d \in Reader /\ (d.started <=> c.started) /\ (d.stopped <=> c.stopped) /\ d.reasons = c.reasons
      /\ d.input = c.input /\ d.open = c.open \cup {b} /\ d.closed = c.closed
      /\ d.faults \subseteq DueTo(c, {"overlap"})
    BY ReadsStart
<1>8. Mirrors(t.conv, d)
  <2>1. s.conv.block \in [Block -> {"unknown", "new", "open", "closed"}]
      BY <1>1 DEF Working, Converter
  <2>2. d.faults \cap {"early", "again"} = {}
      BY <1>1, <1>7 DEF Mirrors, DueTo, c
  <2>3. t.conv.block[Thinking] # "unknown" /\ t.conv.block[Text] # "unknown"
      BY <1>1, <1>2, <1>6, <2>1, BlockFacts DEF Mirrors, Alters
  <2>4. (d.started <=> t.conv.messageStartSent) /\ (d.stopped <=> t.conv.messageStopSent) /\ d.started
      BY <1>1, <1>2, <1>5, <1>6, <1>7 DEF Mirrors, SameFlags, c
  <2>5. \A k \in Block : /\ k \in d.open <=> t.conv.block[k] = "open"
                         /\ k \in d.closed <=> t.conv.block[k] = "closed"
      BY <1>1, <1>2, <1>6, <1>7 DEF Mirrors, Alters, c
  <2>. QED
      BY <2>2, <2>3, <2>4, <2>5 DEF Mirrors
<1>9. Good(t)
    BY <1>6, <1>7, <1>8 DEF Good, d
<1>10. Told(t).faults \subseteq Tolerated(s)
    BY <1>7 DEF Tolerated, DueTo, c, d
<1>11. Steady(s, t) /\ SameTools(s, t)
    BY <1>2, <1>6, <1>7, <1>9 DEF Steady, SameFlags, SameTools, c, d
<1>12. Alters(s, t, b, "open")
    BY <1>2, <1>6 DEF Alters
<1>. QED
    BY <1>10, <1>11, <1>12

LEMMA Fills ==
    ASSUME NEW s, Good(s), s.conv.messageStartSent, NEW b \in Block, NEW n \in Nat,
           NEW t, t = Filled(s, b, n)
    PROVE  /\ Steady(s, t) /\ SameConv(s, t)
           /\ b \in Tools => Told(t).input = [Told(s).input EXCEPT ![b[2]] = @ + n]
           /\ b \notin Tools => SameInput(s, t)
           /\ Told(t).faults \subseteq Tolerated(s) \cup {"outside"}
           /\ s.conv.block[b] = "open" => Told(t).faults \subseteq Tolerated(s)
<1> DEFINE e == BlockDelta(b, n)
<1>1. s \in Working /\ Told(s) \in Reader /\ Mirrors(s.conv, Told(s))
    BY DEF Good
<1>2. t = Emitting(s, e)
    BY DEF Filled, BlockDelta
<1>3. e \in ClaudeEvent
    BY DEF ClaudeEvent, BlockStart, BlockDelta
<1>4. Told(s).started /\ (b \in Told(s).open <=> s.conv.block[b] = "open")
    BY <1>1 DEF Mirrors
<1>5. t \in Working /\ t.conv = s.conv /\ Told(t) = Receives(Told(s), e)
    BY <1>1, <1>2, <1>3, Emits
<1> DEFINE c == Told(s)
           d == Told(t)
<1>. e = BlockDelta(b, n)
    OBVIOUS
<1>. c \in Reader /\ c.started /\ d = Receives(c, e)
    BY <1>1, <1>4, <1>5
<1> HIDE DEF c, d, e
<1>6. /\ d \in Reader /\ (d.started <=> c.started) /\ (d.stopped <=> c.stopped) /\ d.reasons = c.reasons
      /\ d.open = c.open /\ d.closed = c.closed
      /\ d.input = IF b \in Tools THEN [c.input EXCEPT ![b[2]] = @ + n] ELSE c.input
      /\ d.faults \subseteq DueTo(c, IF b \in c.open THEN {} ELSE {"outside"})
  <2>1. HasRead(c, b, n, d)
      BY ReadsContent
  <2>. QED
      BY <2>1 DEF HasRead
<1>7. Mirrors(t.conv, d)
  <2>1. d.faults \cap {"early", "again"} = {}
      BY <1>1, <1>6 DEF Mirrors, DueTo, c
  <2>. QED
      BY <1>1, <1>5, <1>6, <2>1 DEF Mirrors, c
<1>8. Good(t)
    BY <1>5, <1>6, <1>7 DEF Good, d
<1>9. /\ Told(t).faults \subseteq Tolerated(s) \cup {"outside"}
      /\ s.conv.block[b] = "open" => Told(t).faults \subseteq Tolerated(s)
    BY <1>4, <1>6 DEF Tolerated, DueTo, c, d
<1>10. Steady(s, t)
    BY <1>5, <1>6, <1>8 DEF Steady, SameFlags, c, d
<1>11. SameConv(s, t) /\ (b \notin Tools => SameInput(s, t))
    BY <1>5, <1>6 DEF SameConv, SameInput, c, d
<1>12. b \in Tools => Told(t).input = [Told(s).input EXCEPT ![b[2]] = @ + n]
    BY <1>6 DEF c, d
<1>. QED
    BY <1>9, <1>10, <1>11, <1>12

LEMMA Stops ==
    ASSUME NEW s, Good(s), NEW b \in Block,
           NEW t, t = Stopped(s, b)
    PROVE  /\ Steady(s, t) /\ SameTools(s, t) /\ Told(t).faults \subseteq Tolerated(s)
           /\ Alters(s, t, b, IF s.conv.block[b] = "open" THEN "closed" ELSE s.conv.block[b])
<1>1. s \in Working /\ Told(s) \in Reader /\ Mirrors(s.conv, Told(s))
    BY DEF Good
<1>2. s.conv.block \in [Block -> {"unknown", "new", "open", "closed"}]
    BY <1>1 DEF Working, Converter
<1>3. CASE s.conv.block[b] # "open"
  <2>1. t = s
      BY <1>3 DEF Stopped
  <2>2. Alters(s, t, b, s.conv.block[b])
      BY <2>1 DEF Alters
  <2>3. Told(t).faults \subseteq Tolerated(s)
      BY <2>1 DEF Tolerated, DueTo
  <2>4. Steady(s, t) /\ SameTools(s, t)
      BY <2>1 DEF Steady, SameFlags, SameTools
  <2>. QED
      BY <1>3, <2>1, <2>2, <2>3, <2>4
<1>4. CASE s.conv.block[b] = "open"
  <2> DEFINE u == WithBlock(s, b, "closed")
             e == BlockStop(b)
  <2>0. u = WithBlock(s, b, "closed")
      OBVIOUS
  <2> HIDE DEF u
  <2>1. /\ u \in Working /\ Told(u) = Told(s)
        /\ Alters(s, u, b, "closed")
        /\ SameFlags(s, u)
        /\ u.conv.cachedArguments = s.conv.cachedArguments
        /\ u.conv.activeToolIndex = s.conv.activeToolIndex
    <3>1. s \in Working /\ "closed" \in {"unknown", "new", "open", "closed"}
        BY <1>1
    <3>2. /\ u \in Working /\ Told(u) = Told(s)
          /\ Alters(s, u, b, "closed") /\ SameFlags(s, u) /\ SameCalls(s, u)
        BY <2>0, <3>1, BlockSet
    <3>. QED
        BY <3>2 DEF SameCalls
  <2>2. t = Emitting(u, e)
      BY <1>4, <2>0 DEF Stopped, WithBlock, BlockStop
  <2>3. e \in ClaudeEvent
      BY DEF ClaudeEvent, BlockStop
  <2>4. b \in Told(s).open /\ Told(s).started
      BY <1>1, <1>4 DEF Mirrors
  <2>5. t \in Working /\ t.conv = u.conv /\ Told(t) = Receives(Told(s), e)
      BY <2>1, <2>2, <2>3, Emits
  <2> DEFINE c == Told(s)
             d == Told(t)
  <2>. e = BlockStop(b)
      OBVIOUS
  <2>. c \in Reader /\ c.started /\ b \in c.open /\ d = Receives(c, e)
      BY <1>1, <2>4, <2>5
  <2> HIDE DEF c, d, e
  <2>6. /\ d \in Reader /\ (d.started <=> c.started) /\ (d.stopped <=> c.stopped) /\ d.reasons = c.reasons
        /\ d.input = c.input /\ d.open = c.open \ {b} /\ d.closed = c.closed \cup {b}
        /\ d.faults \subseteq DueTo(c, {})
      BY ReadsStop
  <2>7. Mirrors(t.conv, d)
    <3>1. d.faults \cap {"early", "again"} = {}
        BY <1>1, <2>6 DEF Mirrors, DueTo, c
    <3>2. t.conv.block[Thinking] # "unknown" /\ t.conv.block[Text] # "unknown"
        BY <1>1, <1>2, <2>1, <2>5, BlockFacts DEF Mirrors, Alters
    <3>3. (d.started <=> t.conv.messageStartSent) /\ (d.stopped <=> t.conv.messageStopSent) /\ d.started
        BY <1>1, <2>1, <2>4, <2>5, <2>6 DEF Mirrors, SameFlags, c
    <3>4. \A k \in Block : /\ k \in d.open <=> t.conv.block[k] = "open"
                           /\ k \in d.closed <=> t.conv.block[k] = "closed"
        BY <1>1, <2>1, <2>5, <2>6 DEF Mirrors, Alters, c
    <3>. QED
        BY <3>1, <3>2, <3>3, <3>4 DEF Mirrors
  <2>8. Good(t)
      BY <2>5, <2>6, <2>7 DEF Good, d
  <2>9. Told(t).faults \subseteq Tolerated(s)
      BY <2>6 DEF Tolerated, DueTo, c, d
  <2>10. Steady(s, t) /\ SameTools(s, t)
      BY <2>1, <2>5, <2>6, <2>8 DEF Steady, SameFlags, SameTools, c, d
  <2>11. Alters(s, t, b, "closed")
      BY <2>1, <2>5 DEF Alters
  <2>. QED
      BY <1>4, <2>9, <2>10, <2>11
<1>. QED
    BY <1>3, <1>4

\* One thing after another.
Goes(s, t) == Steady(s, t) /\ Told(t).faults \subseteq Tolerated(s)

LEMMA GoesOn ==
    ASSUME NEW s, NEW u, NEW t, Good(s), Goes(s, u), Goes(u, t)
    PROVE  Goes(s, t)
<1>1. Mirrors(s.conv, Told(s)) /\ Mirrors(u.conv, Told(u)) /\ SameFlags(s, u)
    BY DEF Goes, Steady, Good
<1>2. Told(u).stopped <=> Told(s).stopped
    BY <1>1 DEF Mirrors, SameFlags
<1>3. Told(t).faults \subseteq Tolerated(s)
    BY <1>2 DEF Goes, Tolerated, DueTo
<1>4. Steady(s, t)
    BY DEF Goes, Steady, SameFlags
<1>. QED
    BY <1>3, <1>4 DEF Goes

LEMMA SameToolsChain ==
    ASSUME NEW s, NEW u, NEW t, SameTools(s, u), SameTools(u, t)
    PROVE  SameTools(s, t)
BY DEF SameTools

\* Thinking and text are stopped before what follows them.
LEMMA StopsWords ==
    ASSUME NEW s, Good(s), NEW t, t = Stopped(Stopped(s, Thinking), Text)
    PROVE  /\ Goes(s, t) /\ SameTools(s, t)
           /\ t.conv.block[Thinking] # "open" /\ t.conv.block[Text] # "open"
           /\ \A i \in ToolIndex : t.conv.block[ToolUse(i)] = s.conv.block[ToolUse(i)]
<1> DEFINE u == Stopped(s, Thinking)
<1>1. /\ Steady(s, u) /\ SameTools(s, u) /\ Told(u).faults \subseteq Tolerated(s)
      /\ Alters(s, u, Thinking, IF s.conv.block[Thinking] = "open" THEN "closed" ELSE s.conv.block[Thinking])
    BY Stops, BlockFacts
<1>2. t = Stopped(u, Text)
    OBVIOUS
<1> HIDE DEF u
<1>3. Good(u)
    BY <1>1 DEF Steady
<1>4. /\ Steady(u, t) /\ SameTools(u, t) /\ Told(t).faults \subseteq Tolerated(u)
      /\ Alters(u, t, Text, IF u.conv.block[Text] = "open" THEN "closed" ELSE u.conv.block[Text])
    BY <1>2, <1>3, Stops, BlockFacts
<1>5. Goes(s, t) /\ SameTools(s, t)
    BY <1>1, <1>4, GoesOn, SameToolsChain DEF Goes
<1>6. t.conv.block[Thinking] # "open" /\ t.conv.block[Text] # "open"
    BY <1>1, <1>4, BlockFacts DEF Alters
<1>7. \A i \in ToolIndex : t.conv.block[ToolUse(i)] = s.conv.block[ToolUse(i)]
    BY <1>1, <1>4, BlockFacts DEF Alters
<1>. QED
    BY <1>5, <1>6, <1>7

\* A tool call is started with the arguments that waited for it.
LEMMA StartsTool ==
    ASSUME NEW s, Good(s), s.conv.messageStartSent, NEW i \in ToolIndex,
           s.conv.block[ToolUse(i)] \notin {"open", "closed"}, Told(s).input[i] = 0,
           NEW t, t = StartToolCall(s, i)
    PROVE  /\ Goes(s, t)
           /\ t.conv.cachedArguments = s.conv.cachedArguments
           /\ t.conv.activeToolIndex = s.conv.activeToolIndex
           /\ t.conv.block[ToolUse(i)] = "open"
           /\ t.conv.block[Thinking] # "open" /\ t.conv.block[Text] # "open"
           /\ \A j \in ToolIndex \ {i} : t.conv.block[ToolUse(j)] = s.conv.block[ToolUse(j)]
           /\ Told(t).input[i] = s.conv.cachedArguments[i]
           /\ \A j \in ToolIndex \ {i} : Told(t).input[j] = Told(s).input[j]
<1> DEFINE u == Stopped(Stopped(s, Thinking), Text)
           w == Started(u, ToolUse(i))
           n == s.conv.cachedArguments[i]
           b == ToolUse(i)
<1>0. t = IF n > 0 THEN Filled(w, b, n) ELSE w
    BY DEF StartToolCall
<1>. b \in Block /\ b \in Tools /\ b[2] = i /\ b # Thinking /\ b # Text
    BY BlockFacts
<1>1. /\ Goes(s, u) /\ SameTools(s, u)
      /\ u.conv.block[Thinking] # "open" /\ u.conv.block[Text] # "open"
      /\ \A j \in ToolIndex : u.conv.block[ToolUse(j)] = s.conv.block[ToolUse(j)]
    BY StopsWords
<1> HIDE DEF u
<1>2. Good(u) /\ u.conv.messageStartSent /\ u.conv.block[b] \notin {"open", "closed"}
    BY <1>1 DEF Goes, Steady, SameFlags
<1>w. w = Started(u, b)
    OBVIOUS
<1> HIDE DEF w
<1>3. /\ Steady(u, w) /\ SameTools(u, w) /\ Told(w).faults \subseteq Tolerated(u)
      /\ Alters(u, w, b, "open")
  <2> HIDE DEF b
  <2>. QED
      BY <1>2, <1>w, Starts
<1>4. /\ Goes(s, w) /\ SameTools(s, w)
    BY <1>1, <1>3, GoesOn, SameToolsChain DEF Goes
<1>5. /\ w.conv.block[b] = "open" /\ w.conv.block[Thinking] # "open" /\ w.conv.block[Text] # "open"
      /\ \A j \in ToolIndex \ {i} : w.conv.block[ToolUse(j)] = s.conv.block[ToolUse(j)]
    BY <1>1, <1>3, BlockFacts DEF Alters
<1>6. Good(w) /\ w.conv.messageStartSent /\ n \in Nat /\ Told(w).input \in [ToolIndex -> Nat]
    BY <1>4 DEF Goes, Steady, SameFlags, Good, Working, Converter, Reader
<1> HIDE DEF b, n
<1>7. CASE n > 0
  <2>1. t = Filled(w, b, n)
      BY <1>0, <1>7
  <2>2. /\ Steady(w, t) /\ SameConv(w, t)
        /\ b \in Tools => Told(t).input = [Told(w).input EXCEPT ![b[2]] = @ + n]
        /\ w.conv.block[b] = "open" => Told(t).faults \subseteq Tolerated(w)
      BY <1>6, <2>1, Fills
  <2>3. Told(t).faults \subseteq Tolerated(w)
      BY <1>5, <2>2
  <2>4. Goes(s, t)
      BY <1>4, <2>2, <2>3, GoesOn DEF Goes
  <2>5. Told(t).input = [Told(w).input EXCEPT ![i] = @ + n]
      BY <2>2
  <2>6. Told(w).input[i] = 0 /\ Told(w).input = Told(s).input
      BY <1>4 DEF SameTools
  <2>7. Told(t).input[i] = n /\ \A j \in ToolIndex \ {i} : Told(t).input[j] = Told(s).input[j]
      BY <1>6, <2>5, <2>6
  <2>. QED
      BY <1>4, <1>5, <2>2, <2>4, <2>7 DEF SameTools, SameConv, n, b
<1>8. CASE ~ (n > 0)
  <2>1. t = w /\ n = 0
      BY <1>0, <1>6, <1>8
  <2>. QED
      BY <1>4, <1>5, <2>1 DEF SameTools, n, b
<1>. QED
    BY <1>7, <1>8

WithConv(s, v) == [s EXCEPT !.conv = v]

LEMMA ConvSet ==
    ASSUME NEW s \in Working, NEW v \in Converter, NEW u, u = WithConv(s, v)
    PROVE  u \in Working /\ u.conv = v /\ Told(u) = Told(s)
<1>1. u.out = s.out /\ u.conv = v
    BY DEF Working, WithConv
<1>2. u \in Working
    BY DEF Working, WithConv
<1>. QED
    BY <1>1, <1>2 DEF Told

\* The first chunk starts the message.
LEMMA StartsMessage ==
    ASSUME NEW s, Good(s), NEW t, t = WithRole(s)
    PROVE  /\ Good(t) /\ t.conv.messageStartSent
           /\ (t.conv.messageStopSent <=> s.conv.messageStopSent)
           /\ (t.conv.pendingStopReason <=> s.conv.pendingStopReason)
           /\ Told(t).reasons = Told(s).reasons
           /\ SameTools(s, t) /\ t.conv.block = s.conv.block
           /\ Told(t).faults \subseteq Tolerated(s)
<1>. s \in Working /\ Told(s) \in Reader /\ Mirrors(s.conv, Told(s)) /\ s.conv \in Converter
    BY DEF Good, Working
<1>1. CASE s.conv.messageStartSent
  <2>1. t = s
      BY <1>1 DEF WithRole
  <2>. QED
      BY <1>1, <2>1 DEF SameTools, Tolerated, DueTo
<1>2. CASE ~ s.conv.messageStartSent
  <2> DEFINE v == [s.conv EXCEPT !.messageStartSent = TRUE]
             u == WithConv(s, v)
             c == Told(s)
             d == Told(t)
             e == StartOfMessage
  <2>1. /\ v \in Converter /\ v.messageStartSent /\ v.block = s.conv.block
        /\ (v.messageStopSent <=> s.conv.messageStopSent)
        /\ (v.pendingStopReason <=> s.conv.pendingStopReason)
        /\ v.cachedArguments = s.conv.cachedArguments /\ v.activeToolIndex = s.conv.activeToolIndex
      BY DEF Converter
  <2>2. t = Emitting(u, e)
      BY <1>2 DEF WithRole, MessageStart, WithConv, StartOfMessage
  <2>3. u = WithConv(s, v)
      OBVIOUS
  <2> HIDE DEF v, u
  <2>4. u \in Working /\ u.conv = v /\ Told(u) = Told(s)
      BY <2>1, <2>3, ConvSet
  <2>5. e \in ClaudeEvent
      BY DEF ClaudeEvent, StartOfMessage
  <2>6. t \in Working /\ t.conv = v /\ Told(t) = Receives(Told(s), e)
      BY <2>2, <2>4, <2>5, Emits
  <2>7. c \in Reader /\ d = Receives(c, e)
      BY <2>6
  <2> HIDE DEF c, d
  <2>8. /\ d \in Reader /\ d.started /\ (d.stopped <=> c.stopped) /\ d.reasons = c.reasons
        /\ d.input = c.input /\ d.open = c.open /\ d.closed = c.closed
        /\ d.faults \subseteq DueTo(c, {})
    <3>1. HasHeard(c, 0, d) /\ (d.stopped <=> c.stopped)
        BY <2>7, ReadsMessage
    <3>2. c.reasons + 0 = c.reasons
        BY <2>7 DEF Reader
    <3>. QED
        BY <3>1, <3>2 DEF HasHeard
  <2>9. Mirrors(t.conv, d)
    <3>1. d.faults \cap {"early", "again"} = {}
        BY <2>8 DEF Mirrors, DueTo, c
    <3>. QED
        BY <2>1, <2>6, <2>8, <3>1 DEF Mirrors, c
  <2>10. Good(t)
      BY <2>6, <2>8, <2>9 DEF Good, d
  <2>11. Told(t).faults \subseteq Tolerated(s)
      BY <2>8 DEF Tolerated, DueTo, c, d
  <2>12. SameTools(s, t) /\ Told(t).reasons = Told(s).reasons
      BY <2>1, <2>6, <2>8 DEF SameTools, c, d
  <2>. QED
      BY <2>1, <2>6, <2>10, <2>11, <2>12
<1>. QED
    BY <1>1, <1>2

\* Reasoning goes into its block, unless that one is closed.
LEMMA FillsThinking ==
    ASSUME NEW s, Good(s), s.conv.messageStartSent, NEW t, t = WithThinking(s)
    PROVE  /\ Steady(s, t) /\ SameTools(s, t)
           /\ Told(t).faults \subseteq Tolerated(s) \cup {"outside"}
           /\ s.conv.block[Thinking] # "closed" => Told(t).faults \subseteq Tolerated(s)
           /\ t.conv.block[Thinking] = "closed" <=> s.conv.block[Thinking] = "closed"
           /\ t.conv.block[Text] = s.conv.block[Text]
           /\ \A i \in ToolIndex : t.conv.block[ToolUse(i)] = s.conv.block[ToolUse(i)]
<1> DEFINE b == Thinking
           u == IF s.conv.block[b] = "new" THEN Started(s, b) ELSE s
<1>0. t = Filled(u, b, 1)
    BY DEF WithThinking
<1>. b \in Block /\ b \notin Tools
    BY BlockFacts
<1>1. s.conv.block[b] \in {"new", "open", "closed"}
    BY DEF Good, Mirrors, Working, Converter
<1>2. u = IF s.conv.block[b] = "new" THEN Started(s, b) ELSE s
    OBVIOUS
<1>3. Text # b /\ \A i \in ToolIndex : ToolUse(i) # b /\ ToolUse(i) \in Block
    BY BlockFacts
<1>4. Text \in Block
    BY BlockFacts
<1> HIDE DEF u, b
<1>5. /\ Goes(s, u) /\ SameTools(s, u) /\ Good(u) /\ u.conv.messageStartSent
      /\ u.conv.block[b] = IF s.conv.block[b] = "new" THEN "open" ELSE s.conv.block[b]
      /\ \A k \in Block \ {b} : u.conv.block[k] = s.conv.block[k]
  <2>1. CASE s.conv.block[b] = "new"
    <3>1. u = Started(s, b)
        BY <1>2, <2>1
    <3>2. /\ Steady(s, u) /\ SameTools(s, u) /\ Told(u).faults \subseteq Tolerated(s)
          /\ Alters(s, u, b, "open")
        BY <2>1, <3>1, Starts
    <3>. QED
        BY <2>1, <3>2 DEF Goes, Steady, SameFlags, Alters
  <2>2. CASE s.conv.block[b] # "new"
    <3>1. u = s
        BY <1>2, <2>2
    <3>2. Told(u).faults \subseteq Tolerated(s)
        BY <3>1 DEF Tolerated, DueTo
    <3>. QED
        BY <2>2, <3>1, <3>2 DEF Goes, Steady, SameFlags, SameTools
  <2>. QED
      BY <2>1, <2>2
<1>6. /\ Steady(u, t) /\ t.conv = u.conv /\ Told(t).input = Told(u).input
      /\ Told(t).faults \subseteq Tolerated(u) \cup {"outside"}
      /\ u.conv.block[b] = "open" => Told(t).faults \subseteq Tolerated(u)
  <2> DEFINE n == 1
  <2>1. n \in Nat /\ Good(u) /\ u.conv.messageStartSent /\ t = Filled(u, b, n)
      BY <1>0, <1>5
  <2> HIDE DEF n
  <2>2. Steady(u, t)
      BY <2>1, Fills
  <2>3. SameConv(u, t)
      BY <2>1, Fills
  <2>4. SameInput(u, t)
      BY <2>1, Fills
  <2>5. Told(t).faults \subseteq Tolerated(u) \cup {"outside"}
      BY <2>1, Fills
  <2>6. u.conv.block[b] = "open" => Told(t).faults \subseteq Tolerated(u)
      BY <2>1, Fills
  <2>. QED
      BY <2>2, <2>3, <2>4, <2>5, <2>6 DEF SameConv, SameInput
<1>7. Tolerated(u) \subseteq Tolerated(s)
  <2>1. Goes(s, u) /\ Mirrors(s.conv, Told(s)) /\ Mirrors(u.conv, Told(u)) /\ SameFlags(s, u)
      BY <1>5 DEF Goes, Steady, Good
  <2>2. Told(u).stopped <=> Told(s).stopped
      BY <2>1 DEF Mirrors, SameFlags
  <2>. QED
      BY <2>1, <2>2 DEF Goes, Tolerated, DueTo
<1>8. Steady(s, t)
    BY <1>5, <1>6 DEF Goes, Steady, SameFlags
<1>9. SameTools(s, t)
    BY <1>5, <1>6 DEF SameTools
<1>10. /\ Told(t).faults \subseteq Tolerated(s) \cup {"outside"}
       /\ s.conv.block[b] # "closed" => Told(t).faults \subseteq Tolerated(s)
    BY <1>1, <1>5, <1>6, <1>7
<1>11. t.conv.block[b] = "closed" <=> s.conv.block[b] = "closed"
    BY <1>5, <1>6
<1>12. t.conv.block[Text] = s.conv.block[Text]
    BY <1>3, <1>4, <1>5, <1>6
<1>13. \A i \in ToolIndex : t.conv.block[ToolUse(i)] = s.conv.block[ToolUse(i)]
    BY <1>3, <1>5, <1>6
<1>. QED
    BY <1>8, <1>9, <1>10, <1>11, <1>12, <1>13 DEF b

\* Text goes into its block, unless that one is closed; the reasoning before it is over.
LEMMA FillsText ==
    ASSUME NEW s, Good(s), s.conv.messageStartSent, NEW t, t = WithText(s)
    PROVE  /\ Steady(s, t) /\ SameTools(s, t)
           /\ Told(t).faults \subseteq Tolerated(s) \cup {"outside"}
           /\ s.conv.block[Text] # "closed" => Told(t).faults \subseteq Tolerated(s)
           /\ t.conv.block[Text] = "closed" <=> s.conv.block[Text] = "closed"
           /\ \A i \in ToolIndex : t.conv.block[ToolUse(i)] = s.conv.block[ToolUse(i)]
<1> DEFINE b == Text
           v == Stopped(s, Thinking)
           u == IF v.conv.block[b] = "new" THEN Started(v, b) ELSE v
           n == 1
<1>0. t = Filled(u, b, n)
    BY DEF WithText
<1>. b \in Block /\ b \notin Tools /\ Thinking \in Block /\ Thinking # b /\ n \in Nat
    BY BlockFacts
<1>1. s.conv.block[b] \in {"new", "open", "closed"}
    BY DEF Good, Mirrors, Working, Converter
<1>2. u = IF v.conv.block[b] = "new" THEN Started(v, b) ELSE v
    OBVIOUS
<1>3. \A i \in ToolIndex : ToolUse(i) # b /\ ToolUse(i) # Thinking /\ ToolUse(i) \in Block
    BY BlockFacts
<1>4. v = Stopped(s, Thinking)
    OBVIOUS
<1> HIDE DEF u, v, b, n
<1>5. /\ Steady(s, v) /\ SameTools(s, v) /\ Told(v).faults \subseteq Tolerated(s)
      /\ Alters(s, v, Thinking, IF s.conv.block[Thinking] = "open" THEN "closed" ELSE s.conv.block[Thinking])
    BY <1>4, Stops
<1>6. /\ Goes(s, v) /\ Good(v) /\ v.conv.messageStartSent
      /\ \A k \in Block \ {Thinking} : v.conv.block[k] = s.conv.block[k]
    BY <1>5 DEF Goes, Steady, SameFlags, Alters
<1>7. /\ Goes(v, u) /\ SameTools(v, u) /\ Good(u) /\ u.conv.messageStartSent
      /\ u.conv.block[b] = IF v.conv.block[b] = "new" THEN "open" ELSE v.conv.block[b]
      /\ \A k \in Block \ {b} : u.conv.block[k] = v.conv.block[k]
  <2>1. CASE v.conv.block[b] = "new"
    <3>1. u = Started(v, b)
        BY <1>2, <2>1
    <3>2. /\ Steady(v, u) /\ SameTools(v, u) /\ Told(u).faults \subseteq Tolerated(v)
          /\ Alters(v, u, b, "open")
        BY <1>6, <2>1, <3>1, Starts
    <3>. QED
        BY <1>6, <2>1, <3>2 DEF Goes, Steady, SameFlags, Alters
  <2>2. CASE v.conv.block[b] # "new"
    <3>1. u = v
        BY <1>2, <2>2
    <3>2. Told(u).faults \subseteq Tolerated(v)
        BY <3>1 DEF Tolerated, DueTo
    <3>. QED
        BY <1>6, <2>2, <3>1, <3>2 DEF Goes, Steady, SameFlags, SameTools
  <2>. QED
      BY <2>1, <2>2
<1>8. Goes(s, u) /\ SameTools(s, u)
    BY <1>5, <1>6, <1>7, GoesOn, SameToolsChain
<1>9. /\ Steady(u, t) /\ SameConv(u, t) /\ SameInput(u, t)
      /\ Told(t).faults \subseteq Tolerated(u) \cup {"outside"}
      /\ u.conv.block[b] = "open" => Told(t).faults \subseteq Tolerated(u)
    BY <1>0, <1>7, Fills
<1>10. Tolerated(u) \subseteq Tolerated(s)
  <2>1. Goes(s, u) /\ Mirrors(s.conv, Told(s)) /\ Mirrors(u.conv, Told(u)) /\ SameFlags(s, u)
      BY <1>7, <1>8 DEF Goes, Steady, Good
  <2>2. Told(u).stopped <=> Told(s).stopped
      BY <2>1 DEF Mirrors, SameFlags
  <2>. QED
      BY <2>1, <2>2 DEF Goes, Tolerated, DueTo
<1>11. Steady(s, t)
    BY <1>8, <1>9 DEF Goes, Steady, SameFlags
<1>12. SameTools(s, t)
    BY <1>8, <1>9 DEF SameTools, SameConv, SameInput
<1>13. u.conv.block[b] = IF s.conv.block[b] = "new" THEN "open" ELSE s.conv.block[b]
    BY <1>6, <1>7
<1>14. /\ Told(t).faults \subseteq Tolerated(s) \cup {"outside"}
       /\ s.conv.block[b] # "closed" => Told(t).faults \subseteq Tolerated(s)
    BY <1>1, <1>9, <1>10, <1>13
<1>15. t.conv.block[b] = "closed" <=> s.conv.block[b] = "closed"
    BY <1>9, <1>13 DEF SameConv
<1>16. \A i \in ToolIndex : t.conv.block[ToolUse(i)] = s.conv.block[ToolUse(i)]
    BY <1>3, <1>6, <1>7, <1>9 DEF SameConv
<1>. QED
    BY <1>11, <1>12, <1>14, <1>15, <1>16 DEF b

\* The converter has gone from s to t, and knows there the tool calls of the stream so far.
Follows(s, t, named, args) == Goes(s, t) /\ ToolsFollow(t.conv, Told(t), named, args)

\* A tool call that is named is started, if it is the first, or waits.
LEMMA NamesTool ==
    ASSUME NEW s, Good(s), s.conv.messageStartSent, NEW named \in SUBSET ToolIndex,
           NEW args \in [ToolIndex -> Nat], ToolsFollow(s.conv, Told(s), named, args),
           NEW i \in ToolIndex, NEW t, t = Named(s, i)
    PROVE  Goes(s, t) /\ ToolsFollow(t.conv, Told(t), named \cup {i}, args)
<1> DEFINE b == ToolUse(i)
           u == IF s.conv.block[b] = "unknown" THEN WithBlock(s, b, "new") ELSE s
<1>. s \in Working /\ Told(s) \in Reader /\ Mirrors(s.conv, Told(s)) /\ s.conv \in Converter
    BY DEF Good, Working
<1>. b \in Block /\ b # Thinking /\ b # Text /\ "new" \in {"unknown", "new", "open", "closed"}
    BY BlockFacts
<1>0. u = IF s.conv.block[b] = "unknown" THEN WithBlock(s, b, "new") ELSE s
    OBVIOUS
<1>1. t = IF u.conv.activeToolIndex = Nobody
          THEN StartToolCall(WithConv(u, [u.conv EXCEPT !.activeToolIndex = i]), i) ELSE u
    BY DEF Named, WithBlock, WithConv
<1> HIDE DEF b, u
<1>2. /\ Goes(s, u) /\ SameTools(s, u)
      /\ u.conv.block[b] = IF s.conv.block[b] = "unknown" THEN "new" ELSE s.conv.block[b]
      /\ \A k \in Block \ {b} : u.conv.block[k] = s.conv.block[k]
  <2>1. CASE s.conv.block[b] = "unknown"
    <3>1. u = WithBlock(s, b, "new")
        BY <1>0, <2>1
    <3>2. /\ u \in Working /\ Told(u) = Told(s)
          /\ Alters(s, u, b, "new") /\ SameFlags(s, u) /\ SameCalls(s, u)
        BY <3>1, BlockSet
    <3>3. u.conv.cachedArguments = s.conv.cachedArguments /\ u.conv.activeToolIndex = s.conv.activeToolIndex
        BY <3>2 DEF SameCalls
    <3>4. Mirrors(u.conv, Told(u))
        BY <2>1, <3>2, BlockFacts DEF Mirrors, SameFlags, Alters
    <3>5. Told(u).faults \subseteq Tolerated(s)
        BY <3>2 DEF Tolerated, DueTo
    <3>6. Goes(s, u)
        BY <3>2, <3>4, <3>5 DEF Goes, Steady, Good
    <3>. QED
        BY <2>1, <3>2, <3>3, <3>6 DEF SameTools, Alters
  <2>2. CASE s.conv.block[b] # "unknown"
    <3>1. u = s
        BY <1>0, <2>2
    <3>2. Told(u).faults \subseteq Tolerated(s)
        BY <3>1 DEF Tolerated, DueTo
    <3>. QED
        BY <2>2, <3>1, <3>2 DEF Goes, Steady, SameFlags, SameTools
  <2>. QED
      BY <2>1, <2>2
<1>3. Good(u) /\ u.conv.messageStartSent /\ u \in Working /\ u.conv \in Converter
    BY <1>2 DEF Goes, Steady, SameFlags, Good, Working
<1>4. \A j \in ToolIndex : /\ ToolUse(j) \in Block
                           /\ j # i => ToolUse(j) # b /\ u.conv.block[ToolUse(j)] = s.conv.block[ToolUse(j)]
    BY <1>2, BlockFacts DEF b
<1>5. CASE u.conv.activeToolIndex = Nobody
  <2> DEFINE v == [u.conv EXCEPT !.activeToolIndex = i]
             w == WithConv(u, v)
  <2>0. i \in 0 .. Nobody /\ i # Nobody
      BY ClaudeAssumption DEF ToolIndex, Nobody
  <2>1. /\ v \in Converter /\ v.activeToolIndex = i /\ v.block = u.conv.block
        /\ v.cachedArguments = u.conv.cachedArguments
        /\ (v.messageStartSent <=> u.conv.messageStartSent)
        /\ (v.messageStopSent <=> u.conv.messageStopSent)
        /\ (v.pendingStopReason <=> u.conv.pendingStopReason)
      BY <1>3, <2>0 DEF Converter
  <2>2. w = WithConv(u, v) /\ t = StartToolCall(w, i)
      BY <1>1, <1>5
  <2> HIDE DEF v, w
  <2>3. w \in Working /\ w.conv = v /\ Told(w) = Told(u)
      BY <1>3, <2>1, <2>2, ConvSet
  <2>4. Mirrors(w.conv, Told(w))
      BY <1>3, <2>1, <2>3 DEF Mirrors, Good
  <2>5. Good(w) /\ w.conv.messageStartSent /\ SameFlags(u, w)
      BY <1>3, <2>1, <2>3, <2>4 DEF Good, SameFlags
  <2>6. Goes(u, w)
      BY <2>3, <2>5 DEF Goes, Steady, Tolerated, DueTo
  <2>7. named = {} /\ s.conv.activeToolIndex = Nobody
      BY <1>2, <1>5 DEF SameTools, ToolsFollow
  <2>8. s.conv.block[b] = "unknown" /\ Told(s).input[i] = 0
      BY <2>0, <2>7 DEF ToolsFollow, b
  <2>9. w.conv.block[ToolUse(i)] \notin {"open", "closed"} /\ Told(w).input[i] = 0
      BY <1>2, <2>1, <2>3, <2>8 DEF SameTools, b
  <2>10. /\ Goes(w, t)
         /\ t.conv.cachedArguments = w.conv.cachedArguments
         /\ t.conv.activeToolIndex = w.conv.activeToolIndex
         /\ t.conv.block[ToolUse(i)] = "open"
         /\ \A j \in ToolIndex \ {i} : t.conv.block[ToolUse(j)] = w.conv.block[ToolUse(j)]
         /\ Told(t).input[i] = w.conv.cachedArguments[i]
         /\ \A j \in ToolIndex \ {i} : Told(t).input[j] = Told(w).input[j]
      BY <2>2, <2>5, <2>9, StartsTool
  <2>11. Goes(s, t)
      BY <1>2, <1>3, <2>6, <2>10, GoesOn
  <2>12. t.conv.cachedArguments = args /\ t.conv.activeToolIndex = i
      BY <1>2, <2>1, <2>3, <2>10 DEF SameTools, ToolsFollow
  <2>13. Told(t).input[i] = args[i]
      BY <1>2, <2>1, <2>3, <2>10 DEF SameTools, ToolsFollow
  <2>14. ASSUME NEW j \in ToolIndex, j # i
         PROVE  t.conv.block[ToolUse(j)] = "unknown" /\ Told(t).input[j] = 0 /\ args[j] = 0
      BY <1>2, <1>4, <2>1, <2>3, <2>7, <2>10, <2>14 DEF SameTools, ToolsFollow
  <2>15. ToolsFollow(t.conv, Told(t), named \cup {i}, args)
      BY <2>0, <2>7, <2>10, <2>12, <2>13, <2>14 DEF ToolsFollow
  <2>. QED
      BY <2>11, <2>15
<1>6. CASE u.conv.activeToolIndex # Nobody
  <2>1. t = u
      BY <1>1, <1>6
  <2>2. s.conv.activeToolIndex # Nobody
      BY <1>2, <1>6 DEF SameTools
  <2>3. ToolsFollow(t.conv, Told(t), named \cup {i}, args)
      BY <1>2, <1>4, <2>1, <2>2 DEF SameTools, ToolsFollow, b
  <2>. QED
      BY <1>2, <2>1, <2>3
<1>. QED
    BY <1>5, <1>6

\* The arguments of a tool call go to its block, or wait for it.
LEMMA AddsArguments ==
    ASSUME NEW s, Good(s), s.conv.messageStartSent, NEW named \in SUBSET ToolIndex,
           NEW args \in [ToolIndex -> Nat], ToolsFollow(s.conv, Told(s), named, args),
           NEW i \in named, NEW more, more = [args EXCEPT ![i] = @ + 1], NEW t, t = WithArguments(s, i)
    PROVE  Follows(s, t, named, more)
<1> DEFINE b == ToolUse(i)
           v == [s.conv EXCEPT !.cachedArguments[i] = @ + 1]
           u == WithConv(s, v)
           n == 1
<1>. s \in Working /\ Told(s) \in Reader /\ Mirrors(s.conv, Told(s)) /\ s.conv \in Converter
    BY DEF Good, Working
<1>. b \in Block /\ b \in Tools /\ b[2] = i /\ i \in ToolIndex /\ n \in Nat
    BY BlockFacts
<1>0. more \in [ToolIndex -> Nat] /\ more[i] = args[i] + 1 /\ \A j \in ToolIndex \ {i} : more[j] = args[j]
    OBVIOUS
<1>1. s.conv.block[b] # "unknown" /\ s.conv.cachedArguments = args
    BY DEF ToolsFollow
<1>2. t = IF s.conv.activeToolIndex = i /\ s.conv.block[b] = "open" THEN Filled(u, b, n) ELSE u
    BY <1>1 DEF WithArguments, WithConv
<1>3. v = [s.conv EXCEPT !.cachedArguments = more]
    BY <1>1
<1>5. u = WithConv(s, v)
    OBVIOUS
<1>6. s.conv.block[b] = "open" <=> s.conv.activeToolIndex = i
    BY DEF ToolsFollow
<1> HIDE DEF v, u, n, b
<1>4. /\ v \in Converter /\ v.block = s.conv.block /\ v.activeToolIndex = s.conv.activeToolIndex
      /\ v.cachedArguments = more
      /\ (v.messageStartSent <=> s.conv.messageStartSent)
      /\ (v.messageStopSent <=> s.conv.messageStopSent)
      /\ (v.pendingStopReason <=> s.conv.pendingStopReason)
    BY <1>0, <1>3 DEF Converter
<1>7. u \in Working /\ u.conv = v /\ Told(u) = Told(s)
    BY <1>4, <1>5, ConvSet
<1>8. Mirrors(u.conv, Told(u))
    BY <1>4, <1>7 DEF Mirrors
<1>9. Good(u) /\ u.conv.messageStartSent /\ SameFlags(s, u)
    BY <1>4, <1>7, <1>8 DEF Good, SameFlags
<1>10. Goes(s, u)
    BY <1>7, <1>9 DEF Goes, Steady, Tolerated, DueTo
<1>11. CASE s.conv.activeToolIndex = i
  <2>1. t = Filled(u, b, n) /\ u.conv.block[b] = "open"
      BY <1>2, <1>4, <1>6, <1>7, <1>11
  <2>2. /\ Steady(u, t) /\ SameConv(u, t)
        /\ b \in Tools => Told(t).input = [Told(u).input EXCEPT ![b[2]] = @ + n]
        /\ u.conv.block[b] = "open" => Told(t).faults \subseteq Tolerated(u)
      BY <1>9, <2>1, Fills
  <2>3. Goes(s, t)
      BY <1>10, <2>1, <2>2, GoesOn DEF Goes
  <2>4. Told(t).input = [Told(s).input EXCEPT ![i] = @ + n] /\ Told(s).input \in [ToolIndex -> Nat]
      BY <1>7, <2>2 DEF Reader
  <2>5. Told(s).input[i] = args[i]
      BY <1>11 DEF ToolsFollow
  <2>6. Told(t).input[i] = more[i] /\ \A j \in ToolIndex \ {i} : Told(t).input[j] = Told(s).input[j]
      BY <1>0, <2>4, <2>5 DEF n
  <2>7. t.conv = v
      BY <1>7, <2>2 DEF SameConv
  <2>8. ToolsFollow(t.conv, Told(t), named, more)
      BY <1>0, <1>4, <1>11, <2>6, <2>7 DEF ToolsFollow
  <2>. QED
      BY <2>3, <2>8 DEF Follows
<1>12. CASE s.conv.activeToolIndex # i
  <2>1. t = u
      BY <1>2, <1>12
  <2>2. ToolsFollow(t.conv, Told(t), named, more)
      BY <1>0, <1>4, <1>7, <1>12, <2>1 DEF ToolsFollow
  <2>. QED
      BY <1>10, <2>1, <2>2 DEF Follows
<1>. QED
    BY <1>11, <1>12

\* What is known of the tool calls after a piece of one.
Tells(tool, named, args, known, more) ==
    /\ tool.named \/ tool.index \in named
    /\ known = (IF tool.named THEN named \cup {tool.index} ELSE named)
    /\ more = (IF tool.arguments THEN [args EXCEPT ![tool.index] = @ + 1] ELSE args)

\* A piece of a tool call: its name, its arguments or both.
LEMMA TakesTool ==
    ASSUME NEW s, Good(s), s.conv.messageStartSent, NEW named \in SUBSET ToolIndex,
           NEW args \in [ToolIndex -> Nat], ToolsFollow(s.conv, Told(s), named, args),
           NEW tool \in ToolDelta, NEW known, NEW more, Tells(tool, named, args, known, more),
           NEW t, t = WithTool(s, tool)
    PROVE  Follows(s, t, known, more)
<1> DEFINE i == tool.index
           u == IF tool.named THEN Named(s, i) ELSE s
<1>0. /\ i \in ToolIndex /\ known \in SUBSET ToolIndex /\ i \in known
      /\ t = (IF tool.arguments THEN WithArguments(u, i) ELSE u)
      /\ known = (IF tool.named THEN named \cup {i} ELSE named)
      /\ more = (IF tool.arguments THEN [args EXCEPT ![i] = @ + 1] ELSE args)
      /\ u = (IF tool.named THEN Named(s, i) ELSE s)
    BY DEF ToolDelta, WithTool, Tells
<1> HIDE DEF i, u
<1>1. Goes(s, u) /\ ToolsFollow(u.conv, Told(u), known, args)
  <2>1. CASE tool.named
    <3>1. u = Named(s, i) /\ known = named \cup {i} /\ i \in ToolIndex
        BY <1>0, <2>1
    <3>2. Goes(s, u) /\ ToolsFollow(u.conv, Told(u), named \cup {i}, args)
        BY <3>1, NamesTool
    <3>. QED
        BY <3>1, <3>2
  <2>2. CASE ~ tool.named
    <3>1. u = s /\ known = named
        BY <1>0, <2>2
    <3>. QED
        BY <3>1 DEF Goes, Steady, SameFlags, Tolerated, DueTo
  <2>. QED
      BY <2>1, <2>2
<1>2. Good(u) /\ u.conv.messageStartSent
    BY <1>1 DEF Goes, Steady, SameFlags
<1>3. CASE tool.arguments
  <2>1. more = [args EXCEPT ![i] = @ + 1] /\ t = WithArguments(u, i)
      BY <1>0, <1>3
  <2>2. Follows(u, t, known, more)
      BY <1>0, <1>1, <1>2, <2>1, AddsArguments
  <2>3. Goes(s, t)
      BY <1>1, <2>2, GoesOn DEF Follows
  <2>. QED
      BY <2>2, <2>3 DEF Follows
<1>4. CASE ~ tool.arguments
    BY <1>0, <1>1, <1>4 DEF Follows
<1>. QED
    BY <1>3, <1>4

\* The tool calls are gone over in the order of their indices.
LEMMA OneByOne ==
    ASSUME NEW op, NEW c, NEW it, Folding(op, c, InOrder, MaxTool + 1, it)
    PROVE  it[1 .. 0] = c /\ \A i \in ToolIndex : it[1 .. i + 1] = Turn(op, it[1 .. i], i)
<1>1. 1 .. 0 = {} /\ {} \in SUBSET (1 .. MaxTool + 1)
    OBVIOUS
<1>2. it[1 .. 0] = c
  <2>1. it[{}] = c
      BY <1>1 DEF Folding
  <2>. QED
      BY <1>1, <2>1
<1>3. ASSUME NEW i \in ToolIndex PROVE it[1 .. i + 1] = Turn(op, it[1 .. i], i)
  <2>1. i \in Nat /\ i + 1 \in 1 .. MaxTool + 1 /\ 1 .. i + 1 \in SUBSET (1 .. MaxTool + 1)
      BY ClaudeAssumption DEF ToolIndex
  <2>2. Max(1 .. i + 1) = i + 1 /\ (1 .. i + 1) \ {i + 1} = 1 .. i /\ 1 .. i + 1 # {}
      BY <2>1, Segment
  <2>3. InOrder[i + 1] = i
      BY <2>1 DEF InOrder
  <2> DEFINE u == 1 .. i + 1
  <2> HIDE DEF u
  <2>4. it[u] = Turn(op, it[u \ {Max(u)}], InOrder[Max(u)])
      BY <2>1, <2>2 DEF Folding, u
  <2>. QED
      BY <2>2, <2>3, <2>4 DEF u
<1>. QED
    BY <1>2, <1>3

LEMMA AllInOrder == MaxTool + 1 \in Nat /\ DOMAIN InOrder = 1 .. MaxTool + 1
BY ClaudeAssumption DEF InOrder

\* Of the tool calls that were known at s, those before k are started at t, with all they had.
Begun(s, t, k) ==
    /\ Goes(s, t)
    /\ t.conv.cachedArguments = s.conv.cachedArguments
    /\ t.conv.block[Thinking] # "open" /\ t.conv.block[Text] # "open"
    /\ \A i \in ToolIndex :
        IF i < k /\ s.conv.block[ToolUse(i)] # "unknown"
        THEN t.conv.block[ToolUse(i)] = "open" /\ Told(t).input[i] = s.conv.cachedArguments[i]
        ELSE t.conv.block[ToolUse(i)] = s.conv.block[ToolUse(i)] /\ Told(t).input[i] = Told(s).input[i]

LEMMA GoesNowhere == ASSUME NEW s, Good(s) PROVE Goes(s, s)
BY DEF Goes, Steady, SameFlags, Tolerated, DueTo

LEMMA BeginsNext ==
    ASSUME NEW s, Good(s), s.conv.messageStartSent, NEW named, NEW args,
           ToolsFollow(s.conv, Told(s), named, args),
           NEW k \in ToolIndex, NEW x, Begun(s, x, k), NEW t, t = StartRemaining(x, k)
    PROVE  Begun(s, t, k + 1)
<1>. k \in Nat
    BY DEF ToolIndex
<1>. \A i \in ToolIndex : i \in Nat
    BY DEF ToolIndex
<1>1. /\ Goes(s, x) /\ Good(x) /\ x.conv.messageStartSent
      /\ x.conv.cachedArguments = s.conv.cachedArguments
      /\ x.conv.block[ToolUse(k)] = s.conv.block[ToolUse(k)] /\ Told(x).input[k] = Told(s).input[k]
    BY DEF Begun, Goes, Steady, SameFlags
<1>2. \A i \in ToolIndex \ {k} : i < k + 1 <=> i < k
    OBVIOUS
<1>3. CASE x.conv.block[ToolUse(k)] = "new"
  <2>1. t = StartToolCall(x, k)
      BY <1>3 DEF StartRemaining
  <2>2. s.conv.block[ToolUse(k)] # "open" /\ s.conv.block[ToolUse(k)] # "unknown"
      BY <1>1, <1>3
  <2>3. Told(s).input[k] = 0
      BY <2>2 DEF ToolsFollow
  <2>4. x.conv.block[ToolUse(k)] \notin {"open", "closed"} /\ Told(x).input[k] = 0
      BY <1>1, <1>3, <2>3
  <2>5. /\ Goes(x, t)
        /\ t.conv.cachedArguments = x.conv.cachedArguments
        /\ t.conv.block[ToolUse(k)] = "open"
        /\ t.conv.block[Thinking] # "open" /\ t.conv.block[Text] # "open"
        /\ \A j \in ToolIndex \ {k} : t.conv.block[ToolUse(j)] = x.conv.block[ToolUse(j)]
        /\ Told(t).input[k] = x.conv.cachedArguments[k]
        /\ \A j \in ToolIndex \ {k} : Told(t).input[j] = Told(x).input[j]
      BY <1>1, <2>1, <2>4, StartsTool
  <2>6. Goes(s, t)
      BY <1>1, <2>5, GoesOn
  <2>7. ASSUME NEW i \in ToolIndex
        PROVE  IF i < k + 1 /\ s.conv.block[ToolUse(i)] # "unknown"
               THEN t.conv.block[ToolUse(i)] = "open" /\ Told(t).input[i] = s.conv.cachedArguments[i]
               ELSE t.conv.block[ToolUse(i)] = s.conv.block[ToolUse(i)] /\ Told(t).input[i] = Told(s).input[i]
    <3>1. CASE i = k
        BY <1>1, <2>2, <2>5, <3>1
    <3>2. CASE i # k
        BY <1>2, <2>5, <3>2 DEF Begun
    <3>. QED
        BY <3>1, <3>2
  <2>. QED
      BY <1>1, <2>5, <2>6, <2>7 DEF Begun
<1>4. CASE x.conv.block[ToolUse(k)] # "new"
  <2>1. t = x
      BY <1>4 DEF StartRemaining
  <2>2. s.conv.block[ToolUse(k)] # "unknown" =>
            s.conv.block[ToolUse(k)] = "open" /\ Told(s).input[k] = s.conv.cachedArguments[k]
    <3>1. s.conv.block \in [Block -> {"unknown", "new", "open", "closed"}]
        BY DEF Good, Working, Converter
    <3>2. s.conv.block[ToolUse(k)] \in {"unknown", "new", "open", "closed"}
        BY <3>1, BlockFacts
    <3>3. s.conv.block[ToolUse(k)] # "closed" /\ s.conv.block[ToolUse(k)] # "new"
        BY <1>1, <1>4 DEF ToolsFollow
    <3>. QED
        BY <3>2, <3>3 DEF ToolsFollow
  <2>3. ASSUME NEW i \in ToolIndex
        PROVE  IF i < k + 1 /\ s.conv.block[ToolUse(i)] # "unknown"
               THEN x.conv.block[ToolUse(i)] = "open" /\ Told(x).input[i] = s.conv.cachedArguments[i]
               ELSE x.conv.block[ToolUse(i)] = s.conv.block[ToolUse(i)] /\ Told(x).input[i] = Told(s).input[i]
    <3>1. CASE i = k
        BY <1>1, <2>2, <3>1
    <3>2. CASE i # k
        BY <1>2, <3>2 DEF Begun
    <3>. QED
        BY <3>1, <3>2
  <2>. QED
      BY <2>1, <2>3 DEF Begun
<1>. QED
    BY <1>3, <1>4

LEMMA BeginsAll ==
    ASSUME NEW s, Good(s), s.conv.messageStartSent, NEW named, NEW args \in [ToolIndex -> Nat],
           ToolsFollow(s.conv, Told(s), named, args),
           s.conv.block[Thinking] # "open", s.conv.block[Text] # "open",
           NEW t, t = FoldLeft(StartRemaining, s, InOrder)
    PROVE  /\ Goes(s, t) /\ Told(t).input = args
           /\ t.conv.block[Thinking] # "open" /\ t.conv.block[Text] # "open"
<1>. MaxTool + 1 \in Nat /\ MaxTool \in Nat
    BY ClaudeAssumption
<1>1. PICK it : Folding("start", s, InOrder, MaxTool + 1, it) /\ t = it[1 .. MaxTool + 1]
    BY AllInOrder, StartIsFolding
<1>2. it[1 .. 0] = s /\ \A i \in ToolIndex : it[1 .. i + 1] = StartRemaining(it[1 .. i], i)
  <2>1. it[1 .. 0] = s /\ \A i \in ToolIndex : it[1 .. i + 1] = Turn("start", it[1 .. i], i)
      BY <1>1, OneByOne
  <2>. QED
      BY <2>1 DEF Turn
<1> DEFINE S == {k \in Nat : k <= MaxTool + 1 => Begun(s, it[1 .. k], k)}
<1>3. 0 \in S
  <2>1. Begun(s, s, 0)
      BY GoesNowhere DEF Begun, ToolIndex
  <2>. QED
      BY <1>2, <2>1
<1>4. ASSUME NEW k \in Nat, k \in S PROVE k + 1 \in S
  <2> SUFFICES ASSUME k + 1 <= MaxTool + 1 PROVE Begun(s, it[1 .. k + 1], k + 1)
      OBVIOUS
  <2>1. k \in ToolIndex /\ Begun(s, it[1 .. k], k)
      BY <1>4 DEF ToolIndex
  <2>. QED
      BY <1>2, <2>1, BeginsNext
<1> HIDE DEF S
<1>5. MaxTool + 1 \in S
    BY <1>3, <1>4, ByInduction
<1>6. Begun(s, t, MaxTool + 1)
    BY <1>1, <1>5 DEF S
<1>7. Told(t).input \in [ToolIndex -> Nat]
    BY <1>6 DEF Begun, Goes, Steady, Good, Reader
<1>8. ASSUME NEW i \in ToolIndex PROVE Told(t).input[i] = args[i]
  <2>1. i < MaxTool + 1
      BY DEF ToolIndex
  <2>2. CASE s.conv.block[ToolUse(i)] # "unknown"
      BY <1>6, <2>1, <2>2 DEF Begun, ToolsFollow
  <2>3. CASE s.conv.block[ToolUse(i)] = "unknown"
    <3>1. Told(t).input[i] = Told(s).input[i]
        BY <1>6, <2>3 DEF Begun
    <3>2. args[i] = 0
        BY <2>3 DEF ToolsFollow
    <3>. QED
        BY <3>1, <3>2 DEF ToolsFollow
  <2>. QED
      BY <2>2, <2>3
<1>9. Told(t).input = args
    BY <1>7, <1>8
<1>. QED
    BY <1>6, <1>9 DEF Begun

\* Of the tool calls, those before k are not open at t; the rest is as it was at s.
Ended(s, t, k) ==
    /\ Goes(s, t) /\ SameTools(s, t)
    /\ t.conv.block[Thinking] # "open" /\ t.conv.block[Text] # "open"
    /\ \A i \in ToolIndex : i < k => t.conv.block[ToolUse(i)] # "open"

LEMMA EndsNext ==
    ASSUME NEW s, Good(s), NEW k \in ToolIndex, NEW x, Ended(s, x, k), NEW t, t = StopTool(x, k)
    PROVE  Ended(s, t, k + 1)
<1> DEFINE b == ToolUse(k)
<1>. b \in Block /\ k \in Nat
    BY BlockFacts DEF ToolIndex
<1>1. Goes(s, x) /\ SameTools(s, x) /\ Good(x) /\ t = Stopped(x, b)
    BY DEF Ended, Goes, Steady, StopTool
<1>2. \A i \in ToolIndex : i \in Nat /\ (i # k => ToolUse(i) # b) /\ ToolUse(i) \in Block
    BY BlockFacts DEF ToolIndex
<1>3. Thinking \in Block /\ Text \in Block /\ b # Thinking /\ b # Text
    BY BlockFacts
<1> HIDE DEF b
<1>4. /\ Steady(x, t) /\ SameTools(x, t) /\ Told(t).faults \subseteq Tolerated(x)
      /\ Alters(x, t, b, IF x.conv.block[b] = "open" THEN "closed" ELSE x.conv.block[b])
    BY <1>1, Stops
<1>5. Goes(s, t) /\ SameTools(s, t)
    BY <1>1, <1>4, GoesOn, SameToolsChain DEF Goes
<1>6. t.conv.block[Thinking] # "open" /\ t.conv.block[Text] # "open"
    BY <1>3, <1>4 DEF Alters, Ended
<1>7. t.conv.block[b] # "open" /\ \A j \in Block \ {b} : t.conv.block[j] = x.conv.block[j]
    BY <1>4 DEF Alters
<1>8. ASSUME NEW i \in ToolIndex, i < k + 1 PROVE t.conv.block[ToolUse(i)] # "open"
  <2>1. CASE i = k
      BY <1>7, <2>1 DEF b
  <2>2. CASE i # k
      BY <1>2, <1>7, <1>8, <2>2 DEF Ended
  <2>. QED
      BY <2>1, <2>2
<1>. QED
    BY <1>5, <1>6, <1>8 DEF Ended

LEMMA EndsAll ==
    ASSUME NEW s, Good(s), s.conv.block[Thinking] # "open", s.conv.block[Text] # "open",
           NEW t, t = FoldLeft(StopTool, s, InOrder)
    PROVE  Goes(s, t) /\ SameTools(s, t) /\ Told(t).open = {}
<1>. MaxTool + 1 \in Nat /\ MaxTool \in Nat
    BY ClaudeAssumption
<1>1. PICK it : Folding("stop", s, InOrder, MaxTool + 1, it) /\ t = it[1 .. MaxTool + 1]
    BY AllInOrder, StopIsFolding
<1>2. it[1 .. 0] = s /\ \A i \in ToolIndex : it[1 .. i + 1] = StopTool(it[1 .. i], i)
  <2>1. it[1 .. 0] = s /\ \A i \in ToolIndex : it[1 .. i + 1] = Turn("stop", it[1 .. i], i)
      BY <1>1, OneByOne
  <2>. QED
      BY <2>1 DEF Turn
<1> DEFINE S == {k \in Nat : k <= MaxTool + 1 => Ended(s, it[1 .. k], k)}
<1>3. 0 \in S
  <2>1. Ended(s, s, 0)
      BY GoesNowhere DEF Ended, ToolIndex, SameTools
  <2>. QED
      BY <1>2, <2>1
<1>4. ASSUME NEW k \in Nat, k \in S PROVE k + 1 \in S
  <2> SUFFICES ASSUME k + 1 <= MaxTool + 1 PROVE Ended(s, it[1 .. k + 1], k + 1)
      OBVIOUS
  <2>1. k \in ToolIndex /\ Ended(s, it[1 .. k], k)
      BY <1>4 DEF ToolIndex
  <2>. QED
      BY <1>2, <2>1, EndsNext
<1> HIDE DEF S
<1>5. MaxTool + 1 \in S
    BY <1>3, <1>4, ByInduction
<1>6. Ended(s, t, MaxTool + 1)
    BY <1>1, <1>5 DEF S
<1>7. \A i \in ToolIndex : t.conv.block[ToolUse(i)] # "open"
    BY <1>6 DEF Ended, ToolIndex
<1>8. \A b \in Block : t.conv.block[b] # "open"
    BY <1>6, <1>7, BlockFacts DEF Ended
<1>9. Told(t).open = {}
    BY <1>6, <1>8 DEF Ended, Goes, Steady, Good, Mirrors, Reader
<1>. QED
    BY <1>6, <1>9 DEF Ended

\* With the finish reason every tool call has what was sent for it, and nothing is left open.
LEMMA Finishes ==
    ASSUME NEW s, Good(s), s.conv.messageStartSent, NEW named, NEW args \in [ToolIndex -> Nat],
           ToolsFollow(s.conv, Told(s), named, args), NEW t, t = WithFinish(s)
    PROVE  /\ Good(t) /\ t.conv.messageStartSent /\ t.conv.pendingStopReason
           /\ (t.conv.messageStopSent <=> s.conv.messageStopSent)
           /\ Told(t).reasons = Told(s).reasons /\ Told(t).input = args /\ Told(t).open = {}
           /\ Told(t).faults \subseteq Tolerated(s)
<1> DEFINE closed == Stopped(Stopped(s, Thinking), Text)
           begun == FoldLeft(StartRemaining, closed, InOrder)
           ended == FoldLeft(StopTool, begun, InOrder)
           v == [ended.conv EXCEPT !.activeToolIndex = Nobody, !.pendingStopReason = TRUE]
<1>1. t = WithConv(ended, v)
    BY DEF WithFinish, WithConv
<1>2. /\ closed = Stopped(Stopped(s, Thinking), Text)
      /\ begun = FoldLeft(StartRemaining, closed, InOrder)
      /\ ended = FoldLeft(StopTool, begun, InOrder)
    OBVIOUS
<1>3. v = [ended.conv EXCEPT !.activeToolIndex = Nobody, !.pendingStopReason = TRUE]
    OBVIOUS
<1> HIDE DEF closed, begun, ended, v
<1>4. /\ Goes(s, closed) /\ SameTools(s, closed)
      /\ closed.conv.block[Thinking] # "open" /\ closed.conv.block[Text] # "open"
      /\ \A i \in ToolIndex : closed.conv.block[ToolUse(i)] = s.conv.block[ToolUse(i)]
    BY <1>2, StopsWords
<1>5. Good(closed) /\ closed.conv.messageStartSent
    BY <1>4 DEF Goes, Steady, SameFlags
<1>6. ToolsFollow(closed.conv, Told(closed), named, args)
    BY <1>4 DEF ToolsFollow, SameTools
<1>7. /\ Goes(closed, begun) /\ Told(begun).input = args
      /\ begun.conv.block[Thinking] # "open" /\ begun.conv.block[Text] # "open"
    BY <1>2, <1>4, <1>5, <1>6, BeginsAll
<1>8. Good(begun)
    BY <1>7 DEF Goes, Steady
<1>9. Goes(begun, ended) /\ SameTools(begun, ended) /\ Told(ended).open = {}
    BY <1>2, <1>7, <1>8, EndsAll
<1>10. Goes(s, ended)
    BY <1>4, <1>5, <1>7, <1>8, <1>9, GoesOn
<1>11. /\ ended \in Working /\ ended.conv \in Converter /\ Told(ended) \in Reader
       /\ Mirrors(ended.conv, Told(ended)) /\ ended.conv.messageStartSent
    BY <1>10 DEF Goes, Steady, SameFlags, Good, Working
<1>12. Nobody \in 0 .. Nobody
    BY ClaudeAssumption DEF Nobody
<1>13. /\ v \in Converter /\ v.block = ended.conv.block /\ v.pendingStopReason
       /\ (v.messageStartSent <=> ended.conv.messageStartSent)
       /\ (v.messageStopSent <=> ended.conv.messageStopSent)
    BY <1>3, <1>11, <1>12 DEF Converter
<1>14. t \in Working /\ t.conv = v /\ Told(t) = Told(ended)
    BY <1>1, <1>11, <1>13, ConvSet
<1>15. Mirrors(t.conv, Told(t))
    BY <1>11, <1>13, <1>14 DEF Mirrors
<1>16. Good(t)
    BY <1>11, <1>14, <1>15 DEF Good
<1>17. /\ (t.conv.messageStopSent <=> s.conv.messageStopSent)
       /\ Told(t).reasons = Told(s).reasons /\ Told(t).faults \subseteq Tolerated(s)
    BY <1>10, <1>13, <1>14 DEF Goes, Steady, SameFlags
<1>18. Told(t).input = args
    BY <1>7, <1>9, <1>14 DEF SameTools
<1>. QED
    BY <1>9, <1>11, <1>13, <1>14, <1>16, <1>17, <1>18

\* The end of the message: the reason for which it stops, and the stop.
SameBlocks(s, t) ==
    /\ t.conv.block = s.conv.block
    /\ Told(t).open = Told(s).open /\ Told(t).input = Told(s).input

LEMMA GivesReason ==
    ASSUME NEW s, Good(s), s.conv.messageStartSent, NEW reason \in BOOLEAN,
           NEW t, t = MessageDelta(s, reason)
    PROVE  /\ Good(t) /\ SameConv(s, t) /\ SameBlocks(s, t) /\ Told(t).faults \subseteq Tolerated(s)
           /\ Told(t).reasons = Told(s).reasons + (IF reason THEN 1 ELSE 0)
<1> DEFINE c == Told(s)
           d == Told(t)
           e == Reason(reason)
<1>1. s \in Working /\ c \in Reader /\ Mirrors(s.conv, c) /\ c.started
    BY DEF Good, Mirrors
<1>2. t = Emitting(s, e) /\ e \in ClaudeEvent
    BY DEF MessageDelta, Reason, ClaudeEvent
<1>3. t \in Working /\ t.conv = s.conv /\ d = Receives(c, e)
    BY <1>1, <1>2, Emits
<1>4. e = Reason(reason) /\ c = Told(s) /\ d = Told(t)
    OBVIOUS
<1> HIDE DEF c, d, e
<1>5. /\ d \in Reader /\ d.started /\ (d.stopped <=> c.stopped)
      /\ d.reasons = c.reasons + (IF reason THEN 1 ELSE 0)
      /\ d.input = c.input /\ d.open = c.open /\ d.closed = c.closed
      /\ d.faults \subseteq DueTo(c, {})
  <2> DEFINE n == IF reason THEN 1 ELSE 0
  <2>1. HasHeard(c, n, d) /\ (d.stopped <=> c.stopped)
      BY <1>1, <1>3, <1>4, ReadsMessage
  <2> HIDE DEF n
  <2>2. d.reasons = c.reasons + n
      BY <2>1 DEF HasHeard
  <2>. QED
      BY <2>1, <2>2 DEF HasHeard, n
<1>6. Mirrors(t.conv, d)
  <2>1. d.faults \cap {"early", "again"} = {}
      BY <1>1, <1>5 DEF Mirrors, DueTo
  <2>. QED
      BY <1>1, <1>3, <1>5, <2>1 DEF Mirrors
<1>7. Good(t)
    BY <1>3, <1>4, <1>5, <1>6 DEF Good
<1>8. Told(t).faults \subseteq Tolerated(s)
    BY <1>4, <1>5 DEF Tolerated, DueTo
<1>9. SameConv(s, t) /\ SameBlocks(s, t)
    BY <1>3, <1>4, <1>5 DEF SameConv, SameBlocks
<1>. QED
    BY <1>4, <1>5, <1>7, <1>8, <1>9

LEMMA StopsMessage ==
    ASSUME NEW s, Good(s), s.conv.messageStartSent, NEW t, t = MessageStop(s)
    PROVE  /\ Good(t) /\ SameBlocks(s, t) /\ SameTools(s, t) /\ Told(t).faults \subseteq Tolerated(s)
           /\ t.conv.messageStartSent /\ t.conv.messageStopSent
           /\ (t.conv.pendingStopReason <=> s.conv.pendingStopReason)
           /\ Told(t).reasons = Told(s).reasons
<1> DEFINE v == [s.conv EXCEPT !.messageStopSent = TRUE]
           u == WithConv(s, v)
           c == Told(s)
           d == Told(t)
           e == StopOfMessage
<1>1. s \in Working /\ c \in Reader /\ Mirrors(s.conv, c) /\ c.started /\ s.conv \in Converter
    BY DEF Good, Mirrors, Working
<1>2. t = Emitting(u, e) /\ e \in ClaudeEvent
    BY DEF MessageStop, WithConv, StopOfMessage, ClaudeEvent
<1>3. u = WithConv(s, v) /\ v = [s.conv EXCEPT !.messageStopSent = TRUE]
    OBVIOUS
<1>4. e = StopOfMessage /\ c = Told(s) /\ d = Told(t)
    OBVIOUS
<1> HIDE DEF v, u, c, d, e
<1>5. /\ v \in Converter /\ v.messageStopSent /\ v.block = s.conv.block
      /\ (v.messageStartSent <=> s.conv.messageStartSent)
      /\ (v.pendingStopReason <=> s.conv.pendingStopReason)
      /\ v.cachedArguments = s.conv.cachedArguments /\ v.activeToolIndex = s.conv.activeToolIndex
    BY <1>1, <1>3 DEF Converter
<1>6. u \in Working /\ u.conv = v /\ Told(u) = c
    BY <1>1, <1>3, <1>4, <1>5, ConvSet
<1>7. t \in Working /\ t.conv = v /\ d = Receives(c, e)
    BY <1>2, <1>4, <1>6, Emits
<1>8. /\ d \in Reader /\ d.started /\ d.stopped /\ d.reasons = c.reasons
      /\ d.input = c.input /\ d.open = c.open /\ d.closed = c.closed
      /\ d.faults \subseteq DueTo(c, {})
  <2>1. HasHeard(c, 0, d) /\ d.stopped
      BY <1>1, <1>4, <1>7, ReadsMessage
  <2>2. c.reasons + 0 = c.reasons
      BY <1>1 DEF Reader
  <2>. QED
      BY <2>1, <2>2 DEF HasHeard
<1>9. Mirrors(t.conv, d)
  <2>1. d.faults \cap {"early", "again"} = {}
      BY <1>1, <1>8 DEF Mirrors, DueTo
  <2>. QED
      BY <1>1, <1>5, <1>7, <1>8, <2>1 DEF Mirrors
<1>10. Good(t)
    BY <1>4, <1>7, <1>8, <1>9 DEF Good
<1>11. Told(t).faults \subseteq Tolerated(s)
    BY <1>4, <1>8 DEF Tolerated, DueTo
<1>12. SameBlocks(s, t) /\ SameTools(s, t)
    BY <1>4, <1>5, <1>7, <1>8 DEF SameBlocks, SameTools
<1>. QED
    BY <1>4, <1>5, <1>7, <1>8, <1>10, <1>11, <1>12

\* The usage is told with the reason, if it waits, and ends the message.
LEMMA Counts ==
    ASSUME NEW s, Good(s), s.conv.messageStartSent, NEW t, t = WithUsage(s)
    PROVE  /\ Good(t) /\ SameBlocks(s, t) /\ SameTools(s, t) /\ Told(t).faults \subseteq Tolerated(s)
           /\ t.conv.messageStartSent /\ t.conv.messageStopSent /\ ~ t.conv.pendingStopReason
           /\ Told(t).reasons = Told(s).reasons + (IF s.conv.pendingStopReason THEN 1 ELSE 0)
<1> DEFINE v == [s.conv EXCEPT !.pendingStopReason = FALSE]
           u == WithConv(s, v)
           reason == s.conv.pendingStopReason
           w == MessageDelta(u, reason)
<1>1. s \in Working /\ Told(s) \in Reader /\ Mirrors(s.conv, Told(s)) /\ s.conv \in Converter
    BY DEF Good, Working
<1>2. t = (IF w.conv.messageStopSent THEN w ELSE MessageStop(w))
    BY DEF WithUsage, WithConv
<1>3. /\ u = WithConv(s, v) /\ v = [s.conv EXCEPT !.pendingStopReason = FALSE]
      /\ w = MessageDelta(u, reason)
    OBVIOUS
<1>4. reason \in BOOLEAN /\ (s.conv.pendingStopReason <=> reason)
    BY <1>1 DEF Converter
<1> HIDE DEF v, u, w, reason
<1>5. /\ v \in Converter /\ ~ v.pendingStopReason /\ v.block = s.conv.block
      /\ (v.messageStartSent <=> s.conv.messageStartSent)
      /\ (v.messageStopSent <=> s.conv.messageStopSent)
      /\ v.cachedArguments = s.conv.cachedArguments /\ v.activeToolIndex = s.conv.activeToolIndex
    BY <1>1, <1>3 DEF Converter
<1>6. u \in Working /\ u.conv = v /\ Told(u) = Told(s)
    BY <1>1, <1>3, <1>5, ConvSet
<1>7. Good(u) /\ u.conv.messageStartSent
    BY <1>1, <1>5, <1>6 DEF Good, Mirrors
<1>8. /\ Good(w) /\ SameConv(u, w) /\ SameBlocks(u, w) /\ Told(w).faults \subseteq Tolerated(u)
      /\ Told(w).reasons = Told(u).reasons + (IF reason THEN 1 ELSE 0)
    BY <1>3, <1>4, <1>7, GivesReason
<1>9. /\ Good(w) /\ SameBlocks(s, w) /\ SameTools(s, w) /\ Told(w).faults \subseteq Tolerated(s)
      /\ w.conv.messageStartSent /\ ~ w.conv.pendingStopReason
      /\ (w.conv.messageStopSent <=> s.conv.messageStopSent)
      /\ Told(w).reasons = Told(s).reasons + (IF s.conv.pendingStopReason THEN 1 ELSE 0)
    BY <1>4, <1>5, <1>6, <1>7, <1>8 DEF SameConv, SameBlocks, SameTools, Tolerated, DueTo
<1>10. CASE w.conv.messageStopSent
    BY <1>2, <1>9, <1>10
<1>11. CASE ~ w.conv.messageStopSent
  <2>1. t = MessageStop(w)
      BY <1>2, <1>11
  <2>2. /\ Good(t) /\ SameBlocks(w, t) /\ SameTools(w, t) /\ Told(t).faults \subseteq Tolerated(w)
        /\ t.conv.messageStartSent /\ t.conv.messageStopSent
        /\ (t.conv.pendingStopReason <=> w.conv.pendingStopReason)
        /\ Told(t).reasons = Told(w).reasons
      BY <1>9, <2>1, StopsMessage
  <2>3. Tolerated(w) \subseteq Tolerated(s)
    <3>1. ~ Told(w).stopped
        BY <1>9, <1>11 DEF Good, Mirrors
    <3>. QED
        BY <1>9, <3>1 DEF Tolerated, DueTo
  <2>. QED
      BY <1>9, <2>2, <2>3, SameToolsChain DEF SameBlocks
<1>. QED
    BY <1>10, <1>11

\* [DONE] ends what was begun.
LEMMA Completes ==
    ASSUME NEW s, Good(s), s.conv.pendingStopReason => s.conv.messageStartSent, NEW t, t = WithDone(s)
    PROVE  /\ Told(t) \in Reader /\ t.conv = FreshConverter /\ Told(t).input = Told(s).input
           /\ Told(t).faults \subseteq Tolerated(s) /\ Told(t).faults \cap {"early", "again"} = {}
           /\ Told(t).reasons = Told(s).reasons + (IF s.conv.pendingStopReason THEN 1 ELSE 0)
           /\ Told(t).started <=> s.conv.messageStartSent
           /\ Told(t).started => Told(t).stopped /\ Told(t).open = {}
<1> DEFINE words == Stopped(Stopped(s, Thinking), Text)
           closed == FoldLeft(StopTool, words, InOrder)
           told == IF s.conv.pendingStopReason THEN MessageDelta(closed, TRUE) ELSE closed
           ended == IF s.conv.messageStartSent /\ ~ s.conv.messageStopSent THEN MessageStop(told) ELSE told
<1>1. t = WithConv(ended, FreshConverter)
    BY DEF WithDone, WithConv
<1>2. /\ words = Stopped(Stopped(s, Thinking), Text) /\ closed = FoldLeft(StopTool, words, InOrder)
      /\ told = (IF s.conv.pendingStopReason THEN MessageDelta(closed, TRUE) ELSE closed)
      /\ ended = (IF s.conv.messageStartSent /\ ~ s.conv.messageStopSent THEN MessageStop(told) ELSE told)
    OBVIOUS
<1> HIDE DEF words, closed, told, ended
<1>3. /\ Goes(s, words) /\ SameTools(s, words) /\ Good(words)
      /\ words.conv.block[Thinking] # "open" /\ words.conv.block[Text] # "open"
    BY <1>2, StopsWords DEF Goes, Steady
<1>4. Goes(words, closed) /\ SameTools(words, closed) /\ Told(closed).open = {}
    BY <1>2, <1>3, EndsAll
<1>5. Goes(s, closed) /\ SameTools(s, closed)
    BY <1>3, <1>4, GoesOn, SameToolsChain
<1>6. /\ Good(closed) /\ SameFlags(s, closed) /\ Told(closed).reasons = Told(s).reasons
      /\ Told(closed).input = Told(s).input /\ Told(closed).faults \subseteq Tolerated(s)
    BY <1>5 DEF Goes, Steady, SameTools
<1>7. /\ Good(told) /\ Told(told).open = {} /\ Told(told).input = Told(s).input
      /\ Told(told).faults \subseteq Tolerated(s)
      /\ (told.conv.messageStartSent <=> s.conv.messageStartSent)
      /\ (told.conv.messageStopSent <=> s.conv.messageStopSent)
      /\ Told(told).reasons = Told(s).reasons + (IF s.conv.pendingStopReason THEN 1 ELSE 0)
  <2>1. CASE s.conv.pendingStopReason
    <3> DEFINE reason == TRUE
    <3>1. told = MessageDelta(closed, reason) /\ reason \in BOOLEAN
        BY <1>2, <2>1
    <3>2. closed.conv.messageStartSent
        BY <1>6, <2>1 DEF SameFlags
    <3>3. (IF reason THEN 1 ELSE 0) = 1
        OBVIOUS
    <3> HIDE DEF reason
    <3>4. /\ Good(told) /\ SameConv(closed, told) /\ SameBlocks(closed, told)
          /\ Told(told).faults \subseteq Tolerated(closed)
          /\ Told(told).reasons = Told(closed).reasons + (IF reason THEN 1 ELSE 0)
        BY <1>6, <3>1, <3>2, GivesReason
    <3>5. Tolerated(closed) \subseteq Tolerated(s)
      <4>1. Told(closed).stopped <=> Told(s).stopped
          BY <1>6 DEF Good, Mirrors, SameFlags
      <4>. QED
          BY <1>6, <4>1 DEF Tolerated, DueTo
    <3>. QED
        BY <1>4, <1>6, <2>1, <3>3, <3>4, <3>5 DEF SameConv, SameBlocks, SameFlags
  <2>2. CASE ~ s.conv.pendingStopReason
    <3>1. told = closed
        BY <1>2, <2>2
    <3>2. Told(s).reasons \in Nat
        BY DEF Good, Reader
    <3>. QED
        BY <1>4, <1>6, <2>2, <3>1, <3>2 DEF SameFlags
  <2>. QED
      BY <2>1, <2>2
<1>8. /\ Good(ended) /\ Told(ended).open = {} /\ Told(ended).input = Told(s).input
      /\ Told(ended).faults \subseteq Tolerated(s)
      /\ (ended.conv.messageStartSent <=> s.conv.messageStartSent)
      /\ s.conv.messageStartSent => ended.conv.messageStopSent
      /\ Told(ended).reasons = Told(s).reasons + (IF s.conv.pendingStopReason THEN 1 ELSE 0)
  <2>1. CASE s.conv.messageStartSent /\ ~ s.conv.messageStopSent
    <3>1. ended = MessageStop(told) /\ told.conv.messageStartSent
        BY <1>2, <1>7, <2>1
    <3>2. /\ Good(ended) /\ SameBlocks(told, ended) /\ Told(ended).faults \subseteq Tolerated(told)
          /\ ended.conv.messageStartSent /\ ended.conv.messageStopSent
          /\ Told(ended).reasons = Told(told).reasons
        BY <1>7, <3>1, StopsMessage
    <3>3. Tolerated(told) \subseteq Tolerated(s)
      <4>1. ~ Told(told).stopped
          BY <1>7, <2>1 DEF Good, Mirrors
      <4>. QED
          BY <1>7, <4>1 DEF Tolerated, DueTo
    <3>. QED
        BY <1>7, <2>1, <3>2, <3>3 DEF SameBlocks
  <2>2. CASE ~ (s.conv.messageStartSent /\ ~ s.conv.messageStopSent)
    <3>1. ended = told
        BY <1>2, <2>2
    <3>. QED
        BY <1>7, <2>2, <3>1
  <2>. QED
      BY <2>1, <2>2
<1>9. t.out = ended.out /\ t.conv = FreshConverter
  <2>1. ended \in Working
      BY <1>8 DEF Good
  <2>. QED
      BY <1>1, <2>1 DEF Working, WithConv
<1>10. Told(t) = Told(ended)
    BY <1>9 DEF Told
<1>11. Told(ended) \in Reader /\ Mirrors(ended.conv, Told(ended))
    BY <1>8 DEF Good
<1>12. Told(t).started <=> s.conv.messageStartSent
    BY <1>8, <1>10, <1>11 DEF Mirrors
<1>13. Told(t).started => Told(t).stopped /\ Told(t).open = {}
    BY <1>8, <1>10, <1>11, <1>12 DEF Mirrors
<1>14. Told(t).faults \cap {"early", "again"} = {}
    BY <1>10, <1>11 DEF Mirrors
<1>. QED
    BY <1>8, <1>9, <1>10, <1>11, <1>12, <1>13, <1>14

\* What holds of the converter at work on a chunk, before the finish reason.
Stage(s, named, args, turnedBack, rank, earlyUsage) ==
    /\ Good(s) /\ s.conv.messageStartSent /\ ~ s.conv.pendingStopReason /\ Told(s).reasons = 0
    /\ s.conv.messageStopSent => earlyUsage
    /\ "outside" \in Told(s).faults => turnedBack
    /\ "late" \in Told(s).faults => earlyUsage
    /\ ToolsFollow(s.conv, Told(s), named, args)
    /\ RanksFollow(s.conv, turnedBack, rank)

\* What it tolerates is not laid to the converter.
LEMMA StageGoes ==
    ASSUME NEW s, NEW named, NEW args, NEW turnedBack, NEW rank, NEW earlyUsage,
           Stage(s, named, args, turnedBack, rank, earlyUsage)
    PROVE  /\ "outside" \in Tolerated(s) => turnedBack
           /\ "late" \in Tolerated(s) => earlyUsage
<1>1. Told(s).stopped => earlyUsage
    BY DEF Stage, Good, Mirrors
<1>. QED
    BY <1>1 DEF Stage, Tolerated, DueTo

LEMMA StageOfTools ==
    ASSUME NEW s, NEW t, SameTools(s, t), \A i \in ToolIndex : t.conv.block[ToolUse(i)] = s.conv.block[ToolUse(i)],
           NEW named, NEW args, ToolsFollow(s.conv, Told(s), named, args)
    PROVE  ToolsFollow(t.conv, Told(t), named, args)
BY DEF ToolsFollow, SameTools

LEMMA GoodGiven ==
    ASSUME ClaudeOK, upstream.phase # "over"
    PROVE  Good(Given) /\ Told(Given) = client /\ Given.conv = conv
<1>1. Given.conv = conv /\ Given.out = <<>>
    BY DEF Given
<1>2. Told(Given) = client
    BY <1>1, ReadNothing DEF Told
<1>3. Given \in Working
    BY DEF Given, Working, ClaudeOK
<1>. QED
    BY <1>1, <1>2, <1>3 DEF Good, ClaudeOK

LEMMA Begins ==
    ASSUME ClaudeOK, upstream.phase \in {"start", "deltas"}, NEW role, upstream.phase = "start" => role,
           NEW t, t = (IF role THEN WithRole(Given) ELSE Given)
    PROVE  Stage(t, upstream.named, upstream.arguments, upstream.turnedBack, upstream.rank, upstream.earlyUsage)
<1>1. Good(Given) /\ Told(Given) = client /\ Given.conv = conv
    BY GoodGiven
<1>2. MessageGoing(conv, client, upstream) /\ Mirrors(conv, client)
    BY DEF ClaudeOK
<1>3. /\ Good(t) /\ t.conv.messageStartSent
      /\ (t.conv.messageStopSent <=> conv.messageStopSent)
      /\ (t.conv.pendingStopReason <=> conv.pendingStopReason)
      /\ Told(t).reasons = client.reasons
      /\ SameTools(Given, t) /\ t.conv.block = conv.block
      /\ Told(t).faults \subseteq Tolerated(Given)
  <2>1. CASE role
    <3>1. t = WithRole(Given)
        BY <2>1
    <3>. QED
        BY <1>1, <3>1, StartsMessage
  <2>2. CASE ~ role
    <3>1. t = Given
        BY <2>2
    <3>2. conv.messageStartSent
        BY <1>2, <2>2 DEF MessageGoing, Mirrors
    <3>. QED
        BY <1>1, <3>1, <3>2 DEF SameTools, Tolerated, DueTo
  <2>. QED
      BY <2>1, <2>2
<1>4. ToolsFollow(t.conv, Told(t), upstream.named, upstream.arguments)
  <2>1. ToolsFollow(Given.conv, Told(Given), upstream.named, upstream.arguments)
      BY <1>1, <1>2 DEF MessageGoing
  <2>2. \A i \in ToolIndex : t.conv.block[ToolUse(i)] = Given.conv.block[ToolUse(i)]
      BY <1>1, <1>3
  <2>. QED
      BY <1>3, <2>1, <2>2, StageOfTools
<1>5. RanksFollow(t.conv, upstream.turnedBack, upstream.rank)
    BY <1>2, <1>3 DEF MessageGoing, RanksFollow
<1>6. t.conv.messageStopSent => upstream.earlyUsage
    BY <1>2, <1>3 DEF MessageGoing, Mirrors
<1>7. /\ "outside" \in Told(t).faults => upstream.turnedBack
      /\ "late" \in Told(t).faults => upstream.earlyUsage
    BY <1>1, <1>2, <1>3 DEF ClaudeOK, Tolerated, DueTo, MessageGoing
<1>8. ~ t.conv.pendingStopReason /\ Told(t).reasons = 0
    BY <1>2, <1>3 DEF MessageGoing
<1>. QED
    BY <1>3, <1>4, <1>5, <1>6, <1>7, <1>8 DEF Stage

\* Each kind of content.
LEMMA StageThinks ==
    ASSUME NEW s, NEW named, NEW args, NEW turnedBack, NEW rank \in 0 .. 3, NEW earlyUsage,
           Stage(s, named, args, turnedBack, rank, earlyUsage),
           NEW back, turnedBack \/ rank > 1 => back, NEW high \in rank .. 3,
           NEW t, t = WithThinking(s)
    PROVE  Stage(t, named, args, back, high, earlyUsage)
<1>1. Good(s) /\ s.conv.messageStartSent
    BY DEF Stage
<1>2. Steady(s, t) /\ SameTools(s, t)
    BY <1>1, FillsThinking
<1>3. Told(t).faults \subseteq Tolerated(s) \cup {"outside"}
    BY <1>1, FillsThinking
<1>4. s.conv.block[Thinking] # "closed" => Told(t).faults \subseteq Tolerated(s)
    BY <1>1, FillsThinking
<1>5. t.conv.block[Thinking] = "closed" <=> s.conv.block[Thinking] = "closed"
    BY <1>1, FillsThinking
<1>6. t.conv.block[Text] = s.conv.block[Text]
    BY <1>1, FillsThinking
<1>7. \A i \in ToolIndex : t.conv.block[ToolUse(i)] = s.conv.block[ToolUse(i)]
    BY <1>1, FillsThinking
<1>8. ToolsFollow(t.conv, Told(t), named, args)
  <2>1. ToolsFollow(s.conv, Told(s), named, args)
      BY DEF Stage
  <2>. QED
      BY <1>2, <1>7, <2>1, StageOfTools
<1>9. RanksFollow(s.conv, turnedBack, rank)
    BY DEF Stage
<1>10. RanksFollow(t.conv, back, high)
    BY <1>5, <1>6, <1>9 DEF RanksFollow
<1>11. s.conv.block[Thinking] = "closed" => back
    BY <1>9 DEF RanksFollow
<1>12. /\ "outside" \in Tolerated(s) => turnedBack
       /\ "late" \in Tolerated(s) => earlyUsage
    BY StageGoes
<1>13. "outside" \in Told(t).faults => back
    BY <1>4, <1>11, <1>12
<1>14. "late" \in Told(t).faults => earlyUsage
    BY <1>3, <1>12
<1>15. /\ Good(t) /\ t.conv.messageStartSent /\ ~ t.conv.pendingStopReason /\ Told(t).reasons = 0
       /\ t.conv.messageStopSent => earlyUsage
    BY <1>2 DEF Stage, Steady, SameFlags
<1>. QED
    BY <1>8, <1>10, <1>13, <1>14, <1>15 DEF Stage

LEMMA StageWrites ==
    ASSUME NEW s, NEW named, NEW args, NEW turnedBack, NEW rank \in 0 .. 3, NEW earlyUsage,
           Stage(s, named, args, turnedBack, rank, earlyUsage),
           NEW back, turnedBack \/ rank > 2 => back, NEW high \in rank .. 3, high >= 2,
           NEW t, t = WithText(s)
    PROVE  Stage(t, named, args, back, high, earlyUsage)
<1>1. Good(s) /\ s.conv.messageStartSent
    BY DEF Stage
<1>2. Steady(s, t) /\ SameTools(s, t)
    BY <1>1, FillsText
<1>3. Told(t).faults \subseteq Tolerated(s) \cup {"outside"}
    BY <1>1, FillsText
<1>4. s.conv.block[Text] # "closed" => Told(t).faults \subseteq Tolerated(s)
    BY <1>1, FillsText
<1>5. t.conv.block[Text] = "closed" <=> s.conv.block[Text] = "closed"
    BY <1>1, FillsText
<1>6. \A i \in ToolIndex : t.conv.block[ToolUse(i)] = s.conv.block[ToolUse(i)]
    BY <1>1, FillsText
<1>7. ToolsFollow(t.conv, Told(t), named, args)
  <2>1. ToolsFollow(s.conv, Told(s), named, args)
      BY DEF Stage
  <2>. QED
      BY <1>2, <1>6, <2>1, StageOfTools
<1>8. RanksFollow(s.conv, turnedBack, rank)
    BY DEF Stage
<1>9. RanksFollow(t.conv, back, high)
    BY <1>5, <1>8 DEF RanksFollow
<1>10. s.conv.block[Text] = "closed" => back
    BY <1>8 DEF RanksFollow
<1>11. /\ "outside" \in Tolerated(s) => turnedBack
       /\ "late" \in Tolerated(s) => earlyUsage
    BY StageGoes
<1>12. "outside" \in Told(t).faults => back
    BY <1>4, <1>10, <1>11
<1>13. "late" \in Told(t).faults => earlyUsage
    BY <1>3, <1>11
<1>14. /\ Good(t) /\ t.conv.messageStartSent /\ ~ t.conv.pendingStopReason /\ Told(t).reasons = 0
       /\ t.conv.messageStopSent => earlyUsage
    BY <1>2 DEF Stage, Steady, SameFlags
<1>. QED
    BY <1>7, <1>9, <1>12, <1>13, <1>14 DEF Stage

LEMMA StageCalls ==
    ASSUME NEW s, NEW named \in SUBSET ToolIndex, NEW args \in [ToolIndex -> Nat], NEW turnedBack,
           NEW rank \in 0 .. 3, NEW earlyUsage,
           Stage(s, named, args, turnedBack, rank, earlyUsage),
           NEW tool \in ToolDelta, tool.named \/ tool.index \in named,
           NEW known, known = (IF tool.named THEN named \cup {tool.index} ELSE named),
           NEW more, more = (IF tool.arguments THEN [args EXCEPT ![tool.index] = @ + 1] ELSE args),
           NEW t, t = WithTool(s, tool)
    PROVE  Stage(t, known, more, turnedBack, 3, earlyUsage)
<1>1. Good(s) /\ s.conv.messageStartSent /\ ToolsFollow(s.conv, Told(s), named, args)
    BY DEF Stage
<1>2. Goes(s, t) /\ ToolsFollow(t.conv, Told(t), known, more)
  <2>1. Tells(tool, named, args, known, more)
      BY DEF Tells
  <2>2. Follows(s, t, known, more)
      BY <1>1, <2>1, TakesTool
  <2>. QED
      BY <2>2 DEF Follows
<1>3. /\ "outside" \in Tolerated(s) => turnedBack
      /\ "late" \in Tolerated(s) => earlyUsage
    BY StageGoes
<1>4. /\ "outside" \in Told(t).faults => turnedBack
      /\ "late" \in Told(t).faults => earlyUsage
    BY <1>2, <1>3 DEF Goes
<1>5. RanksFollow(t.conv, turnedBack, 3)
    BY DEF RanksFollow
<1>6. /\ Good(t) /\ t.conv.messageStartSent /\ ~ t.conv.pendingStopReason /\ Told(t).reasons = 0
      /\ t.conv.messageStopSent => earlyUsage
    BY <1>2 DEF Stage, Goes, Steady, SameFlags
<1>. QED
    BY <1>2, <1>4, <1>5, <1>6 DEF Stage

\* What of a chunk is content.
Content(s, chunk) ==
    CASE chunk.delta = "thinking" -> WithThinking(s)
      [] chunk.delta = "text" -> WithText(s)
      [] chunk.delta = "tool" -> WithTool(s, chunk.tool)
      [] OTHER -> s

LEMMA SendingTyped ==
    ASSUME NEW u \in Sender, NEW chunk \in Chunk, NEW n, n = Sending(u, chunk)
    PROVE  /\ n \in Sender
           /\ n.rank = (IF Rank(chunk.delta) > u.rank THEN Rank(chunk.delta) ELSE u.rank)
           /\ n.turnedBack <=> (u.turnedBack \/ (chunk.delta # "none" /\ Rank(chunk.delta) < u.rank))
           /\ n.named = (IF chunk.tool.named THEN u.named \cup {chunk.tool.index} ELSE u.named)
           /\ n.arguments = (IF chunk.tool.arguments
                             THEN [u.arguments EXCEPT ![chunk.tool.index] = @ + 1] ELSE u.arguments)
<1>1. /\ chunk.delta \in {"none", "thinking", "text", "tool"} /\ chunk.tool.index \in ToolIndex
      /\ chunk.finish \in BOOLEAN /\ chunk.usage \in BOOLEAN
    BY ClaudeAssumption DEF Chunk, ToolDelta, NoTool, ToolIndex
<1>2. Rank(chunk.delta) \in 0 .. 3
    BY <1>1 DEF Rank
<1>3. /\ u.rank \in 0 .. 3 /\ u.named \in SUBSET ToolIndex /\ u.arguments \in [ToolIndex -> Nat]
      /\ u.turnedBack \in BOOLEAN /\ u.earlyUsage \in BOOLEAN /\ u.finished \in BOOLEAN
    BY DEF Sender
<1> DEFINE named == IF chunk.tool.named THEN u.named \cup {chunk.tool.index} ELSE u.named
           arguments == IF chunk.tool.arguments
                        THEN [u.arguments EXCEPT ![chunk.tool.index] = @ + 1] ELSE u.arguments
           rank == IF Rank(chunk.delta) > u.rank THEN Rank(chunk.delta) ELSE u.rank
           back == u.turnedBack \/ (chunk.delta # "none" /\ Rank(chunk.delta) < u.rank)
           early == u.earlyUsage \/ (chunk.usage /\ ~ chunk.finish /\ u.phase \in {"start", "deltas"})
           finished == u.finished \/ chunk.finish
           phase == IF chunk.finish THEN "finished" ELSE IF u.phase = "finished" THEN "counted" ELSE "deltas"
<1>4. named \in SUBSET ToolIndex /\ arguments \in [ToolIndex -> Nat] /\ rank \in 0 .. 3
    BY <1>1, <1>2, <1>3
<1>5. /\ back \in BOOLEAN /\ early \in BOOLEAN /\ finished \in BOOLEAN
      /\ phase \in {"start", "deltas", "finished", "counted", "over"}
    OBVIOUS
<1>6. n = [phase |-> phase, rank |-> rank, turnedBack |-> back, earlyUsage |-> early,
           finished |-> finished, named |-> named, arguments |-> arguments]
    BY DEF Sending
<1>7. /\ named = (IF chunk.tool.named THEN u.named \cup {chunk.tool.index} ELSE u.named)
      /\ arguments = (IF chunk.tool.arguments
                      THEN [u.arguments EXCEPT ![chunk.tool.index] = @ + 1] ELSE u.arguments)
      /\ rank = (IF Rank(chunk.delta) > u.rank THEN Rank(chunk.delta) ELSE u.rank)
      /\ back <=> (u.turnedBack \/ (chunk.delta # "none" /\ Rank(chunk.delta) < u.rank))
    OBVIOUS
<1> HIDE DEF named, arguments, rank, back, early, finished, phase
<1>8. n \in Sender
    BY <1>4, <1>5, <1>6 DEF Sender
<1>. QED
    BY <1>6, <1>7, <1>8

LEMMA StageFills ==
    ASSUME NEW s, NEW u \in Sender, NEW early, Stage(s, u.named, u.arguments, u.turnedBack, u.rank, early),
           NEW chunk \in Chunk, chunk.delta = "tool" => chunk.tool.named \/ chunk.tool.index \in u.named,
           NEW n, n = Sending(u, chunk), NEW t, t = Content(s, chunk)
    PROVE  Stage(t, n.named, n.arguments, n.turnedBack, n.rank, early)
<1>1. /\ chunk.delta \in {"none", "thinking", "text", "tool"}
      /\ chunk.delta # "tool" => ~ chunk.tool.named /\ ~ chunk.tool.arguments
      /\ chunk.delta = "tool" => chunk.tool \in ToolDelta
    BY DEF Chunk, NoTool
<1>2. n.rank = (IF Rank(chunk.delta) > u.rank THEN Rank(chunk.delta) ELSE u.rank)
    BY DEF Sending
<1>3. n.turnedBack <=> (u.turnedBack \/ (chunk.delta # "none" /\ Rank(chunk.delta) < u.rank))
    BY SendingTyped
<1>4. n.named = (IF chunk.tool.named THEN u.named \cup {chunk.tool.index} ELSE u.named)
    BY DEF Sending
<1>5. n.arguments = (IF chunk.tool.arguments
                     THEN [u.arguments EXCEPT ![chunk.tool.index] = @ + 1] ELSE u.arguments)
    BY DEF Sending
<1>6. u.rank \in 0 .. 3 /\ u.named \in SUBSET ToolIndex /\ u.arguments \in [ToolIndex -> Nat]
    BY DEF Sender
<1>7. chunk.delta # "tool" => n.named = u.named /\ n.arguments = u.arguments
    BY <1>1, <1>4, <1>5
<1>8. CASE chunk.delta = "thinking"
  <2>1. t = WithThinking(s) /\ Rank(chunk.delta) = 1
      BY <1>8 DEF Content, Rank
  <2>2. (u.turnedBack \/ u.rank > 1 => n.turnedBack) /\ n.rank \in u.rank .. 3
      BY <1>2, <1>3, <1>6, <1>8, <2>1
  <2>3. Stage(t, u.named, u.arguments, n.turnedBack, n.rank, early)
    <3> DEFINE back == n.turnedBack
               high == n.rank
    <3>1. (u.turnedBack \/ u.rank > 1 => back) /\ high \in u.rank .. 3
        BY <2>2
    <3> HIDE DEF back, high
    <3>2. Stage(t, u.named, u.arguments, back, high, early)
        BY <1>6, <2>1, <3>1, StageThinks
    <3>. QED
        BY <3>2 DEF back, high
  <2>. QED
      BY <1>7, <1>8, <2>3
<1>9. CASE chunk.delta = "text"
  <2>1. t = WithText(s) /\ Rank(chunk.delta) = 2
      BY <1>9 DEF Content, Rank
  <2>2. (u.turnedBack \/ u.rank > 2 => n.turnedBack) /\ n.rank \in u.rank .. 3 /\ n.rank >= 2
      BY <1>2, <1>3, <1>6, <1>9, <2>1
  <2>3. Stage(t, u.named, u.arguments, n.turnedBack, n.rank, early)
    <3> DEFINE back == n.turnedBack
               high == n.rank
    <3>1. (u.turnedBack \/ u.rank > 2 => back) /\ high \in u.rank .. 3 /\ high >= 2
        BY <2>2
    <3> HIDE DEF back, high
    <3>2. Stage(t, u.named, u.arguments, back, high, early)
        BY <1>6, <2>1, <3>1, StageWrites
    <3>. QED
        BY <3>2 DEF back, high
  <2>. QED
      BY <1>7, <1>9, <2>3
<1>10. CASE chunk.delta = "tool"
  <2>1. t = WithTool(s, chunk.tool) /\ Rank(chunk.delta) = 3
      BY <1>10 DEF Content, Rank
  <2>2. (n.turnedBack <=> u.turnedBack) /\ n.rank = 3
      BY <1>2, <1>3, <1>6, <1>10, <2>1
  <2>3. Stage(t, n.named, n.arguments, u.turnedBack, 3, early)
    <3> DEFINE tool == chunk.tool
    <3>1. tool \in ToolDelta /\ (tool.named \/ tool.index \in u.named) /\ t = WithTool(s, tool)
        BY <1>1, <1>10, <2>1
    <3>2. n.named = (IF tool.named THEN u.named \cup {tool.index} ELSE u.named)
        BY <1>4
    <3>3. n.arguments = (IF tool.arguments THEN [u.arguments EXCEPT ![tool.index] = @ + 1] ELSE u.arguments)
        BY <1>5
    <3> HIDE DEF tool
    <3>. QED
        BY <1>6, <3>1, <3>2, <3>3, StageCalls
  <2>. QED
      BY <2>2, <2>3 DEF Stage, RanksFollow
<1>11. CASE chunk.delta = "none"
  <2>1. t = s /\ Rank(chunk.delta) = 0
      BY <1>11 DEF Content, Rank
  <2>2. (n.turnedBack <=> u.turnedBack) /\ n.rank = u.rank
      BY <1>2, <1>3, <1>6, <1>11, <2>1
  <2>. QED
      BY <1>7, <1>11, <2>1, <2>2 DEF Stage, RanksFollow
<1>. QED
    BY <1>1, <1>8, <1>9, <1>10, <1>11

\* A chunk, up to the finish reason, with it, or the usage before or after it.
LEMMA ClaudeChunkOK ==
    ASSUME ClaudeOK, ClaudeChunk
    PROVE  ClaudeOK'
<1>1. PICK chunk \in Chunk :
        /\ Offered(upstream, chunk) /\ upstream' = Sending(upstream, chunk)
        /\ Sends(BuildClaudeStreamResponse(Given, chunk))
    BY DEF ClaudeChunk
<1> DEFINE n == Sending(upstream, chunk)
           begun == IF chunk.role THEN WithRole(Given) ELSE Given
           filled == Content(begun, chunk)
           t == BuildClaudeStreamResponse(Given, chunk)
<1>2. upstream \in Sender /\ upstream.phase \in {"start", "deltas", "finished"}
    BY DEF ClaudeOK, ClaudeChunk
<1>3. n \in Sender
    BY <1>1, <1>2, SendingTyped
<1>4. conv' = t.conv /\ client' = Told(t) /\ upstream' = n
    BY <1>1 DEF Sends, Told
<1>5. t = (IF chunk.finish THEN WithFinish(filled) ELSE IF chunk.usage THEN WithUsage(filled) ELSE filled)
    BY DEF BuildClaudeStreamResponse, Content
<1>6. /\ n.phase = (IF chunk.finish THEN "finished" ELSE IF upstream.phase = "finished" THEN "counted" ELSE "deltas")
      /\ n.earlyUsage <=> upstream.earlyUsage \/ (chunk.usage /\ ~ chunk.finish /\ upstream.phase \in {"start", "deltas"})
      /\ n.finished <=> (upstream.finished \/ chunk.finish)
    BY DEF Sending
<1>7. chunk.delta = "tool" => chunk.tool.named \/ chunk.tool.index \in upstream.named
    BY <1>1 DEF Offered
<1>8. n = Sending(upstream, chunk) /\ begun = (IF chunk.role THEN WithRole(Given) ELSE Given)
      /\ filled = Content(begun, chunk)
    OBVIOUS
<1>9. n.named \in SUBSET ToolIndex /\ n.arguments \in [ToolIndex -> Nat] /\ n.turnedBack \in BOOLEAN
    BY <1>3 DEF Sender
<1> HIDE DEF n, begun, filled, t
<1>10. CASE upstream.phase \in {"start", "deltas"}
  <2>1. upstream.phase = "start" => chunk.role
      BY <1>1 DEF Offered
  <2>2. Stage(begun, upstream.named, upstream.arguments, upstream.turnedBack, upstream.rank, upstream.earlyUsage)
      BY <1>8, <1>10, <2>1, Begins
  <2>3. Stage(filled, n.named, n.arguments, n.turnedBack, n.rank, upstream.earlyUsage)
    <3> DEFINE early == upstream.earlyUsage
    <3>1. Stage(begun, upstream.named, upstream.arguments, upstream.turnedBack, upstream.rank, early)
        BY <2>2
    <3> HIDE DEF early
    <3>2. Stage(filled, n.named, n.arguments, n.turnedBack, n.rank, early)
        BY <1>2, <1>7, <1>8, <3>1, StageFills
    <3>. QED
        BY <3>2 DEF early
  <2>4. ~ upstream.finished
      BY <1>10 DEF ClaudeOK, MessageGoing
  <2>5. /\ "outside" \in Tolerated(filled) => n.turnedBack
        /\ "late" \in Tolerated(filled) => n.earlyUsage
      BY <1>6, <2>3, StageGoes
  <2>6. Good(filled) /\ filled.conv.messageStartSent /\ ToolsFollow(filled.conv, Told(filled), n.named, n.arguments)
      BY <2>3 DEF Stage
  <2>7. CASE chunk.finish
    <3>1. t = WithFinish(filled) /\ n.phase = "finished" /\ n.finished
        BY <1>5, <1>6, <2>7
    <3>2. /\ Good(t) /\ t.conv.messageStartSent /\ t.conv.pendingStopReason
          /\ (t.conv.messageStopSent <=> filled.conv.messageStopSent)
          /\ Told(t).reasons = Told(filled).reasons /\ Told(t).input = n.arguments /\ Told(t).open = {}
          /\ Told(t).faults \subseteq Tolerated(filled)
        BY <1>9, <2>6, <3>1, Finishes
    <3>3. t.conv \in Converter /\ Told(t) \in Reader /\ Mirrors(t.conv, Told(t))
        BY <3>2 DEF Good, Working
    <3>4. MessageEnding(t.conv, Told(t), n)
      <4>1. Told(t).started /\ (Told(t).stopped => n.earlyUsage)
          BY <1>6, <2>3, <3>2, <3>3 DEF Mirrors, Stage
      <4>2. Told(t).reasons = 0
          BY <2>3, <3>2 DEF Stage
      <4>. QED
          BY <3>1, <3>2, <4>1, <4>2 DEF MessageEnding
    <3>5. Told(t).faults \cap {"early", "again"} = {}
        BY <3>3 DEF Mirrors
    <3>6. /\ "outside" \in Told(t).faults => n.turnedBack
          /\ "late" \in Told(t).faults => n.earlyUsage
        BY <2>5, <3>2
    <3>. QED
        BY <1>3, <1>4, <3>1, <3>3, <3>4, <3>5, <3>6 DEF ClaudeOK
  <2>8. CASE ~ chunk.finish
    <3>1. n.phase = "deltas" /\ ~ n.finished
        BY <1>6, <1>10, <2>4, <2>8
    <3>2. /\ Good(t) /\ t.conv.messageStartSent /\ ~ t.conv.pendingStopReason /\ Told(t).reasons = 0
          /\ t.conv.messageStopSent => n.earlyUsage
          /\ Told(t).faults \subseteq Tolerated(filled)
          /\ SameTools(filled, t) /\ t.conv.block = filled.conv.block
      <4>1. CASE chunk.usage
        <5>1. t = WithUsage(filled) /\ n.earlyUsage
            BY <1>5, <1>6, <1>10, <2>8, <4>1
        <5>2. Good(t) /\ SameBlocks(filled, t) /\ SameTools(filled, t) /\ Told(t).faults \subseteq Tolerated(filled)
            BY <2>6, <5>1, Counts
        <5>3. /\ t.conv.messageStartSent /\ ~ t.conv.pendingStopReason
              /\ Told(t).reasons = Told(filled).reasons + (IF filled.conv.pendingStopReason THEN 1 ELSE 0)
            BY <2>6, <5>1, Counts
        <5>4. Told(filled).reasons = 0 /\ ~ filled.conv.pendingStopReason
            BY <2>3 DEF Stage
        <5>. QED
            BY <5>1, <5>2, <5>3, <5>4 DEF SameBlocks
      <4>2. CASE ~ chunk.usage
        <5>1. t = filled
            BY <1>5, <2>8, <4>2
        <5>2. filled.conv.messageStopSent => n.earlyUsage
            BY <1>6, <2>3 DEF Stage
        <5>. QED
            BY <2>3, <5>1, <5>2 DEF Stage, SameTools, Tolerated, DueTo
      <4>. QED
          BY <4>1, <4>2
    <3>3. t.conv \in Converter /\ Told(t) \in Reader /\ Mirrors(t.conv, Told(t))
        BY <3>2 DEF Good, Working
    <3>4. ToolsFollow(t.conv, Told(t), n.named, n.arguments)
        BY <2>6, <3>2, StageOfTools
    <3>5. RanksFollow(t.conv, n.turnedBack, n.rank)
        BY <2>3, <3>2 DEF Stage, RanksFollow
    <3>6. MessageGoing(t.conv, Told(t), n)
      <4>1. Told(t).started /\ (Told(t).stopped => n.earlyUsage)
          BY <3>2, <3>3 DEF Mirrors
      <4>. QED
          BY <3>1, <3>2, <3>4, <3>5, <4>1 DEF MessageGoing
    <3>7. Told(t).faults \cap {"early", "again"} = {}
        BY <3>3 DEF Mirrors
    <3>8. /\ "outside" \in Told(t).faults => n.turnedBack
          /\ "late" \in Told(t).faults => n.earlyUsage
        BY <2>5, <3>2
    <3>. QED
        BY <1>3, <1>4, <3>1, <3>3, <3>6, <3>7, <3>8 DEF ClaudeOK
  <2>. QED
      BY <2>7, <2>8
<1>11. CASE upstream.phase = "finished"
  <2>1. chunk.delta = "none" /\ ~ chunk.finish /\ chunk.usage
      BY <1>1, <1>11 DEF Offered
  <2>2. Good(Given) /\ Told(Given) = client /\ Given.conv = conv
      BY <1>11, GoodGiven
  <2>3. MessageEnding(conv, client, upstream) /\ Mirrors(conv, client)
      BY <1>11 DEF ClaudeOK
  <2>4. conv.messageStartSent
      BY <2>3 DEF MessageEnding, Mirrors
  <2>5. begun = Given
      BY <1>8, <2>2, <2>4 DEF WithRole
  <2>6. filled = Given
      BY <1>8, <2>1, <2>5 DEF Content
  <2>7. t = WithUsage(Given)
      BY <1>5, <2>1, <2>6
  <2>8. Good(t) /\ SameBlocks(Given, t) /\ SameTools(Given, t) /\ Told(t).faults \subseteq Tolerated(Given)
      BY <2>2, <2>4, <2>7, Counts
  <2>9. /\ t.conv.messageStartSent /\ t.conv.messageStopSent /\ ~ t.conv.pendingStopReason
        /\ Told(t).reasons = Told(Given).reasons + (IF Given.conv.pendingStopReason THEN 1 ELSE 0)
      BY <2>2, <2>4, <2>7, Counts
  <2>10. t.conv \in Converter /\ Told(t) \in Reader /\ Mirrors(t.conv, Told(t))
      BY <2>8 DEF Good, Working
  <2>11. n.phase = "counted" /\ n.finished /\ (n.earlyUsage <=> upstream.earlyUsage)
      BY <1>6, <1>11, <2>1, <2>3 DEF MessageEnding
  <2>12. n.arguments = upstream.arguments /\ (n.turnedBack <=> upstream.turnedBack)
    <3>1. ~ chunk.tool.named /\ ~ chunk.tool.arguments
        BY <2>1 DEF Chunk, NoTool
    <3>. QED
        BY <1>8, <2>1, <3>1 DEF Sending
  <2>13. MessageEnding(t.conv, Told(t), n)
    <3>1. Told(t).started /\ Told(t).stopped
        BY <2>9, <2>10 DEF Mirrors
    <3>2. Told(t).open = {} /\ Told(t).input = n.arguments
        BY <2>2, <2>3, <2>8, <2>12 DEF SameBlocks, MessageEnding
    <3>3. Told(t).reasons = 1
        BY <2>2, <2>3, <2>9 DEF MessageEnding
    <3>. QED
        BY <2>9, <2>11, <3>1, <3>2, <3>3 DEF MessageEnding
  <2>14. Told(t).faults \cap {"early", "again"} = {}
      BY <2>10 DEF Mirrors
  <2>15. /\ "outside" \in Told(t).faults => n.turnedBack
         /\ "late" \in Told(t).faults => n.earlyUsage
    <3>1. /\ "outside" \in client.faults => upstream.turnedBack
          /\ "late" \in client.faults => upstream.earlyUsage
        BY DEF ClaudeOK
    <3>2. client.stopped => upstream.earlyUsage
        BY <1>11, <2>3 DEF MessageEnding
    <3>. QED
        BY <2>2, <2>8, <2>11, <2>12, <3>1, <3>2 DEF Tolerated, DueTo
  <2>. QED
      BY <1>3, <1>4, <2>10, <2>11, <2>13, <2>14, <2>15 DEF ClaudeOK
<1>. QED
    BY <1>2, <1>10, <1>11

\* When all was told before [DONE], nothing is told with it.
LEMMA NothingLeft ==
    ASSUME NEW s, Good(s), Told(s).open = {}, ~ s.conv.pendingStopReason, s.conv.messageStopSent,
           NEW t, t = WithDone(s)
    PROVE  Told(t) = Told(s)
<1>. MaxTool + 1 \in Nat /\ MaxTool \in Nat /\ s \in Working
    BY ClaudeAssumption DEF Good
<1>1. \A b \in Block : Stopped(s, b) = s
    BY DEF Good, Mirrors, Stopped
<1>2. Stopped(Stopped(s, Thinking), Text) = s
    BY <1>1, BlockFacts
<1> DEFINE closed == FoldLeft(StopTool, s, InOrder)
<1>3. PICK it : Folding("stop", s, InOrder, MaxTool + 1, it) /\ closed = it[1 .. MaxTool + 1]
    BY AllInOrder, StopIsFolding
<1>4. it[1 .. 0] = s /\ \A i \in ToolIndex : it[1 .. i + 1] = StopTool(it[1 .. i], i)
  <2>1. it[1 .. 0] = s /\ \A i \in ToolIndex : it[1 .. i + 1] = Turn("stop", it[1 .. i], i)
      BY <1>3, OneByOne
  <2>. QED
      BY <2>1 DEF Turn
<1> DEFINE S == {k \in Nat : k <= MaxTool + 1 => it[1 .. k] = s}
<1>5. 0 \in S
    BY <1>4
<1>6. ASSUME NEW k \in Nat, k \in S PROVE k + 1 \in S
  <2> SUFFICES ASSUME k + 1 <= MaxTool + 1 PROVE it[1 .. k + 1] = s
      OBVIOUS
  <2>1. k \in ToolIndex /\ it[1 .. k] = s
      BY <1>6 DEF ToolIndex
  <2>. QED
      BY <1>1, <1>4, <2>1, BlockFacts DEF StopTool
<1> HIDE DEF S
<1>7. MaxTool + 1 \in S
    BY <1>5, <1>6, ByInduction
<1>8. closed = s
    BY <1>3, <1>7 DEF S
<1>9. t = WithConv(s, FreshConverter)
    BY <1>2, <1>8 DEF WithDone, WithConv
<1>10. t.out = s.out
    BY <1>9 DEF Working, WithConv
<1>. QED
    BY <1>10 DEF Told

LEMMA FreshConverterTyped == FreshConverter \in Converter
<1>1. Nobody \in 0 .. Nobody
    BY ClaudeAssumption DEF Nobody
<1> DEFINE block == [b \in Block |-> IF b \in Tools THEN "unknown" ELSE "new"]
           cached == [i \in ToolIndex |-> 0]
<1>2. block \in [Block -> {"unknown", "new", "open", "closed"}] /\ cached \in [ToolIndex -> Nat]
    OBVIOUS
<1>3. FreshConverter = [messageStartSent |-> FALSE, messageStopSent |-> FALSE, pendingStopReason |-> FALSE,
                        block |-> block, cachedArguments |-> cached, activeToolIndex |-> Nobody]
    BY DEF FreshConverter
<1> HIDE DEF block, cached
<1>. QED
    BY <1>1, <1>2, <1>3 DEF Converter

\* [DONE] comes before the finish reason or after it.
LEMMA ClaudeDoneOK ==
    ASSUME ClaudeOK, ClaudeDone
    PROVE  ClaudeOK'
<1> DEFINE s == Given
           t == WithDone(s)
           n == [upstream EXCEPT !.phase = "over"]
<1>1. upstream.phase # "over" /\ conv' = t.conv /\ client' = Told(t) /\ upstream' = n
    BY DEF ClaudeDone, Sends, Told
<1>2. Good(s) /\ Told(s) = client /\ s.conv = conv
    BY <1>1, GoodGiven
<1>3. upstream \in Sender /\ client \in Reader /\ conv \in Converter /\ Mirrors(conv, client)
    BY <1>1 DEF ClaudeOK
<1>4. n \in Sender /\ n.phase = "over" /\ n.arguments = upstream.arguments
      /\ (n.finished <=> upstream.finished) /\ (n.turnedBack <=> upstream.turnedBack)
      /\ (n.earlyUsage <=> upstream.earlyUsage)
    BY <1>3 DEF Sender
<1>5. t = WithDone(s)
    OBVIOUS
<1> HIDE DEF s, t, n
<1>6. \/ upstream.phase \in {"start", "deltas"} /\ MessageGoing(conv, client, upstream)
      \/ upstream.phase \in {"finished", "counted"} /\ MessageEnding(conv, client, upstream)
    BY <1>1, <1>3 DEF ClaudeOK, Sender
<1>7. conv.pendingStopReason => conv.messageStartSent
    BY <1>3, <1>6 DEF MessageGoing, MessageEnding, Mirrors
<1>8. /\ Told(t) \in Reader /\ t.conv = FreshConverter /\ Told(t).input = client.input
      /\ Told(t).faults \subseteq Tolerated(s) /\ Told(t).faults \cap {"early", "again"} = {}
      /\ Told(t).started => Told(t).stopped /\ Told(t).open = {}
  <2>1. Told(t) \in Reader /\ t.conv = FreshConverter /\ Told(t).input = Told(s).input
      BY <1>2, <1>5, <1>7, Completes
  <2>2. Told(t).faults \subseteq Tolerated(s) /\ Told(t).faults \cap {"early", "again"} = {}
      BY <1>2, <1>5, <1>7, Completes
  <2>3. Told(t).started => Told(t).stopped /\ Told(t).open = {}
      BY <1>2, <1>5, <1>7, Completes
  <2>. QED
      BY <1>2, <2>1, <2>2, <2>3
<1>9. Told(t).reasons = client.reasons + (IF conv.pendingStopReason THEN 1 ELSE 0)
  <2>1. Told(t).reasons = Told(s).reasons + (IF s.conv.pendingStopReason THEN 1 ELSE 0)
      BY <1>2, <1>5, <1>7, Completes
  <2>. QED
      BY <1>2, <2>1
<1>10. Told(t).reasons = IF n.finished THEN 1 ELSE 0
    BY <1>4, <1>6, <1>9 DEF MessageGoing, MessageEnding
<1>11. n.finished => Told(t).input = n.arguments
    BY <1>4, <1>6, <1>8 DEF MessageGoing, MessageEnding
<1>12. /\ "outside" \in client.faults => upstream.turnedBack
       /\ "late" \in client.faults => upstream.earlyUsage
    BY DEF ClaudeOK
<1>13. "outside" \in Told(t).faults => n.turnedBack
    BY <1>2, <1>4, <1>8, <1>12 DEF Tolerated, DueTo
<1>14. "late" \in Told(t).faults => n.earlyUsage
  <2>1. CASE upstream.phase = "counted"
    <3>1. client.open = {} /\ client.stopped /\ ~ conv.pendingStopReason
        BY <1>6, <2>1 DEF MessageEnding
    <3>2. conv.messageStopSent
        BY <1>3, <3>1 DEF Mirrors
    <3>3. Told(t) = Told(s)
        BY <1>2, <1>5, <3>1, <3>2, NothingLeft
    <3>. QED
        BY <1>2, <1>4, <1>12, <3>3
  <2>2. CASE upstream.phase # "counted"
    <3>1. client.stopped => upstream.earlyUsage
        BY <1>6, <2>2 DEF MessageGoing, MessageEnding
    <3>. QED
        BY <1>2, <1>4, <1>8, <1>12, <3>1 DEF Tolerated, DueTo
  <2>. QED
      BY <2>1, <2>2
<1>15. conv' \in Converter
    BY <1>1, <1>8, FreshConverterTyped
<1>. QED
    BY <1>1, <1>4, <1>8, <1>10, <1>11, <1>13, <1>14, <1>15 DEF ClaudeOK

LEMMA ClaudeStarts == ClaudeInit => ClaudeOK
<1> SUFFICES ASSUME ClaudeInit PROVE ClaudeOK
    OBVIOUS
<1> DEFINE none == [i \in ToolIndex |-> 0]
<1>1. none \in [ToolIndex -> Nat] /\ \A i \in ToolIndex : none[i] = 0
    OBVIOUS
<1>2. \A i \in ToolIndex : FreshConverter.cachedArguments[i] = none[i]
    BY DEF FreshConverter
<1>3. /\ conv = FreshConverter /\ FreshConverter.cachedArguments = none
      /\ upstream = [phase |-> "start", rank |-> 0, turnedBack |-> FALSE, earlyUsage |-> FALSE,
                     finished |-> FALSE, named |-> {}, arguments |-> none]
      /\ client = [started |-> FALSE, stopped |-> FALSE, open |-> {}, closed |-> {},
                   reasons |-> 0, input |-> none, faults |-> {}]
    BY DEF ClaudeInit, FreshConverter
<1> HIDE DEF none
<1>4. conv \in Converter
    BY <1>3, FreshConverterTyped
<1>5. client \in Reader /\ upstream \in Sender
    BY <1>1, <1>3 DEF Reader, Sender
<1>6. /\ \A b \in Block : conv.block[b] = (IF b \in Tools THEN "unknown" ELSE "new")
      /\ ~ conv.messageStartSent /\ ~ conv.messageStopSent /\ ~ conv.pendingStopReason
      /\ conv.activeToolIndex = Nobody /\ conv.cachedArguments = none
    BY <1>3 DEF FreshConverter
<1>7. Mirrors(conv, client)
    BY <1>3, <1>6, BlockFacts DEF Mirrors
<1>8. \A i \in ToolIndex : i # Nobody
    BY ClaudeAssumption DEF ToolIndex, Nobody
<1>9. ToolsFollow(conv, client, upstream.named, upstream.arguments)
    BY <1>1, <1>3, <1>6, <1>8, BlockFacts DEF ToolsFollow
<1>10. MessageGoing(conv, client, upstream)
    BY <1>3, <1>6, <1>9, BlockFacts DEF MessageGoing, RanksFollow
<1>. QED
    BY <1>3, <1>4, <1>5, <1>7, <1>10 DEF ClaudeOK

LEMMA StreamKeepsClaude ==
    ASSUME ClaudeOK, [StreamNext]_streamVars
    PROVE  ClaudeOK'
<1>1. CASE ClaudeNext
    BY <1>1, ClaudeChunkOK, ClaudeDoneOK DEF ClaudeNext
<1>2. CASE UNCHANGED claudeVars
    BY <1>2 DEF ClaudeOK, claudeVars
<1>. QED
    BY <1>1, <1>2 DEF StreamNext, streamVars

\* In every state the client of the Claude stream has what is well formed.
LEMMA ClaudeHolds == ClaudeOK => MessageWellFormed
<1> SUFFICES ASSUME ClaudeOK PROVE MessageWellFormed
    OBVIOUS
<1>1. upstream \in Sender
    BY DEF ClaudeOK
<1>2. upstream.phase \in {"start", "deltas", "finished", "counted", "over"}
    BY <1>1 DEF Sender
<1>3. ContentInsideBlocks
    BY DEF ClaudeOK, ContentInsideBlocks
<1>4. ToolInputWhole
    BY <1>2 DEF ClaudeOK, MessageGoing, MessageEnding, ToolInputWhole
<1>5. MessageEndsOnce
    BY DEF ClaudeOK, MessageEndsOnce
<1>. QED
    BY <1>3, <1>4, <1>5 DEF MessageWellFormed

\* What a client of Claude's protocol reads, for any number of tool calls and pieces: blocks that
\* begin, fill and end, tool calls with all of their arguments, and one end
\* (claude_to_openai.go, BuildClaudeStreamResponse and ConvertOpenAIStreamResponseToClaude).
THEOREM MessagesAreWellFormed == StreamSpec => []MessageWellFormed
<1>1. StreamInit => ClaudeOK
    BY ClaudeStarts DEF StreamInit
<1>2. ClaudeOK /\ [StreamNext]_streamVars => ClaudeOK'
    BY StreamKeepsClaude
<1>3. ClaudeOK => MessageWellFormed
    BY ClaudeHolds
<1> QED BY <1>1, <1>2, <1>3, PTL DEF StreamSpec
=============================================================================
