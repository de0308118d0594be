------------------------- MODULE WasmPluginsProofs -------------------------
(***************************************************************************)
(* The Wasm plugins, for any requests, keys, thresholds, tokens and calls.  *)
(***************************************************************************)
EXTENDS WasmPlugins, FiniteSetTheorems, SequenceTheorems, TLAPS

-----------------------------------------------------------------------------
(* What the handlers do to a request, field by field. What a call carries back and what is    *)
(* noted differs from plugin to plugin, and the set of it is left to each.                    *)

Formed(q) ==
    q \in [key : {q.key}, body : BOOLEAN, stage : Stage, held : BOOLEAN, answers : Nat,
           local : BOOLEAN, calls : [CallName -> {q.calls[c] : c \in CallName}],
           ctx : {q.ctx}, facts : {q.facts}]

\* What a handler leaves alone when it only moves the request.
Kept(q, p) == p.key = q.key /\ p.calls = q.calls /\ p.ctx = q.ctx /\ p.facts = q.facts

\* What a handler leaves alone when it only notes something.
Unmoved(q, p) ==
    /\ p.key = q.key /\ p.stage = q.stage /\ p.held = q.held
    /\ p.answers = q.answers /\ p.local = q.local

LEMMA UnreadFields ==
    ASSUME NEW q, Formed(q)
    PROVE  Formed(Unread(q)) /\ Kept(q, Unread(q)) /\ Unmoved(q, Unread(q))
BY DEF Formed, Unread, Kept, Unmoved

LEMMA NotingFields ==
    ASSUME NEW q, Formed(q), NEW S
    PROVE  /\ Formed(Noting(q, S)) /\ Unmoved(q, Noting(q, S)) /\ Noting(q, S).calls = q.calls
           /\ Noting(q, S).ctx = q.ctx \cup S /\ Noting(q, S).facts = q.facts
           /\ Noting(q, S).body = q.body
BY DEF Formed, Noting, Unmoved

LEMMA LearningFields ==
    ASSUME NEW q, Formed(q), NEW S
    PROVE  /\ Formed(Learning(q, S)) /\ Unmoved(q, Learning(q, S))
           /\ Learning(q, S).calls = q.calls
           /\ Learning(q, S).ctx = q.ctx /\ Learning(q, S).facts = q.facts \cup S
           /\ Learning(q, S).body = q.body
BY DEF Formed, Learning, Unmoved

LEMMA ContinuedFields ==
    ASSUME NEW q, Formed(q)
    PROVE  /\ Formed(Continued(q)) /\ Kept(q, Continued(q))
           /\ Continued(q).answers = q.answers /\ Continued(q).local = q.local
           /\ q.stage = "headers" /\ q.body => Continued(q).stage = "body"
           /\ q.stage = "headers" /\ ~ q.body => Continued(q).stage = "upstream"
           /\ q.stage = "body" => Continued(q).stage = "upstream"
           /\ q.stage \in {"headers", "body"} => ~ Continued(q).held
           /\ q.stage \notin {"headers", "body"} => Continued(q) = q
BY DEF Formed, Continued, Kept, Stage

LEMMA PostponedFields ==
    ASSUME NEW q, Formed(q)
    PROVE  /\ Formed(Postponed(q)) /\ Kept(q, Postponed(q)) /\ Postponed(q).stage = "body"
           /\ Postponed(q).held = q.held /\ Postponed(q).answers = q.answers
           /\ Postponed(q).local = q.local
BY DEF Formed, Postponed, Kept, Stage

LEMMA PausedFields ==
    ASSUME NEW q, Formed(q)
    PROVE  /\ Formed(Paused(q)) /\ Kept(q, Paused(q)) /\ Paused(q).stage = q.stage
           /\ Paused(q).answers = q.answers /\ Paused(q).local = q.local
           /\ q.stage \notin {"over", "gone"} => Paused(q).held
           /\ q.stage \in {"over", "gone"} => Paused(q) = q
BY DEF Formed, Paused, Kept

LEMMA ResumedFields ==
    ASSUME NEW q, Formed(q)
    PROVE  /\ Formed(Resumed(q)) /\ Kept(q, Resumed(q))
           /\ q.held => Resumed(q) = Continued(q)
           /\ ~ q.held => Resumed(q) = q
BY ContinuedFields DEF Resumed, Kept

LEMMA CallFields ==
    ASSUME NEW q, Formed(q), NEW c, NEW v
    PROVE  LET p == [q EXCEPT !.calls[c] = v]
           IN /\ Formed(p) /\ Unmoved(q, p) /\ p.ctx = q.ctx /\ p.facts = q.facts
              /\ p.calls = [q.calls EXCEPT ![c] = v] /\ p.body = q.body
BY DEF Formed, Unmoved

LEMMA AwaitingFields ==
    ASSUME NEW q, Formed(q), NEW c
    PROVE  LET p == Awaiting(q, c)
           IN /\ Formed(p) /\ p.key = q.key /\ p.ctx = q.ctx /\ p.facts = q.facts
              /\ p.stage = q.stage /\ p.answers = q.answers /\ p.local = q.local
              /\ p.calls = [q.calls EXCEPT ![c] = Sent]
              /\ q.stage \notin {"over", "gone"} => p.held
<1> DEFINE d == [q EXCEPT !.calls[c] = Sent]
<1>1. Awaiting(q, c) = Paused(d)
  BY DEF Awaiting, Dispatched
<1>2. /\ Formed(d) /\ Unmoved(q, d) /\ d.ctx = q.ctx /\ d.facts = q.facts
      /\ d.calls = [q.calls EXCEPT ![c] = Sent]
  BY CallFields
<1> HIDE DEF d
<1>3. QED
  BY <1>1, <1>2, PausedFields DEF Unmoved, Kept

Moved(q, s, n) == [q EXCEPT !.stage = s, !.held = FALSE, !.answers = n]

LEMMA MovedFields ==
    ASSUME NEW q, Formed(q), NEW s \in Stage, NEW n \in Nat
    PROVE  LET p == Moved(q, s, n)
           IN /\ Formed(p) /\ Kept(q, p) /\ p.stage = s /\ ~ p.held /\ p.answers = n
              /\ p.local = q.local
<1> DEFINE p == Moved(q, s, n)
<1>1. p.key = q.key /\ p.calls = q.calls /\ p.ctx = q.ctx /\ p.facts = q.facts
  BY DEF Formed, Moved
<1>2. p \in [key : {q.key}, body : BOOLEAN, stage : Stage, held : BOOLEAN, answers : Nat,
             local : BOOLEAN, calls : [CallName -> {q.calls[c] : c \in CallName}],
             ctx : {q.ctx}, facts : {q.facts}]
  BY DEF Formed, Moved
<1>3. p.stage = s /\ ~ p.held
  BY DEF Formed, Moved
<1>4. p.answers = n /\ p.local = q.local
  BY DEF Formed, Moved
<1> HIDE DEF p
<1>5. Formed(p) /\ Kept(q, p)
  BY <1>1, <1>2 DEF Formed, Kept
<1>6. QED
  BY <1>3, <1>4, <1>5 DEF p

Gone(q) == [q EXCEPT !.stage = "gone", !.held = FALSE]

LEMMA LeftFields ==
    ASSUME NEW q, Formed(q)
    PROVE  /\ Formed(Gone(q)) /\ Kept(q, Gone(q)) /\ Gone(q).stage = "gone" /\ ~ Gone(q).held
           /\ Gone(q).answers = q.answers /\ Gone(q).local = q.local
<1>1. Formed(Gone(q))
  <2>1. "gone" \in Stage /\ FALSE \in BOOLEAN
    BY DEF Stage
  <2>2. QED
    BY <2>1 DEF Formed, Gone
<1>2. Gone(q).stage = "gone" /\ ~ Gone(q).held
  BY DEF Formed, Gone
<1>3. Kept(q, Gone(q)) /\ Gone(q).answers = q.answers
  BY DEF Formed, Kept, Gone
<1>4. Gone(q).local = q.local
  BY DEF Formed, Gone
<1>5. QED
  BY <1>1, <1>2, <1>3, <1>4

LEMMA RepliedFields ==
    ASSUME NEW q, Formed(q)
    PROVE  /\ Formed(Replied(q)) /\ Kept(q, Replied(q)) /\ Replied(q).local
           /\ q.local => Replied(q) = q
           /\ ~ q.local => /\ Replied(q).stage = "over" /\ ~ Replied(q).held
                           /\ Replied(q).answers = q.answers + 1
<1>1. CASE q.local
  BY <1>1 DEF Replied, Kept
<1>2. CASE ~ q.local
  <2> DEFINE n == q.answers + 1
             t == Moved(q, "over", n)
             p == [t EXCEPT !.local = TRUE]
  <2>1. n \in Nat /\ "over" \in Stage /\ n = q.answers + 1
    BY DEF Formed, Stage
  <2>2. Replied(q) = [q EXCEPT !.stage = "over", !.held = FALSE, !.local = TRUE, !.answers = n]
    BY <1>2 DEF Replied
  <2> HIDE DEF n
  <2>3. Formed(t) /\ Kept(q, t) /\ t.stage = "over" /\ ~ t.held /\ t.answers = n
    BY <2>1, MovedFields
  <2>4. Replied(q) = p
    BY <2>2 DEF Formed, Moved
  <2> HIDE DEF t
  <2>5. Formed(p) /\ Kept(q, p) /\ p.local /\ p.stage = "over" /\ ~ p.held /\ p.answers = n
    <3>1. p.key = t.key /\ p.calls = t.calls /\ p.ctx = t.ctx /\ p.facts = t.facts
      BY <2>3 DEF Formed
    <3>2. p \in [key : {t.key}, body : BOOLEAN, stage : Stage, held : BOOLEAN, answers : Nat,
                 local : BOOLEAN, calls : [CallName -> {t.calls[c] : c \in CallName}],
                 ctx : {t.ctx}, facts : {t.facts}]
      BY <2>3 DEF Formed
    <3>3. p.local /\ p.stage = t.stage /\ (p.held <=> t.held) /\ p.answers = t.answers
      BY <2>3 DEF Formed
    <3> HIDE DEF p
    <3>4. Formed(p)
      BY <3>1, <3>2 DEF Formed
    <3>5. QED
      BY <2>3, <3>1, <3>3, <3>4 DEF Kept
  <2>6. QED
    BY <2>4, <2>5, <2>1, <1>2
<1>3. QED
  BY <1>1, <1>2 DEF Formed

LEMMA AnswerFields ==
    ASSUME NEW q, Formed(q)
    PROVE  /\ Formed(AnswerPasses(q)) /\ Kept(q, AnswerPasses(q))
           /\ AnswerPasses(q).stage = "response" /\ ~ AnswerPasses(q).held
           /\ AnswerPasses(q).answers = q.answers + 1 /\ AnswerPasses(q).local = q.local
           /\ Formed(ResponseEnds(q)) /\ Kept(q, ResponseEnds(q)) /\ ResponseEnds(q).stage = "over"
           /\ ResponseEnds(q).held = q.held /\ ResponseEnds(q).answers = q.answers
           /\ ResponseEnds(q).local = q.local
<1> DEFINE n == q.answers + 1
<1>1. n \in Nat /\ n = q.answers + 1 /\ "response" \in Stage /\ "over" \in Stage
  BY DEF Formed, Stage
<1>2. AnswerPasses(q) = Moved(q, "response", n)
  BY DEF AnswerPasses, Moved
<1> HIDE DEF n
<1>3. Formed(ResponseEnds(q)) /\ Kept(q, ResponseEnds(q)) /\ ResponseEnds(q).stage = "over"
  BY <1>1 DEF ResponseEnds, Formed, Kept
<1>4. ResponseEnds(q).held = q.held /\ ResponseEnds(q).answers = q.answers /\ ResponseEnds(q).local = q.local
  BY DEF ResponseEnds, Formed
<1> DEFINE m == Moved(q, "response", n)
<1>5. /\ Formed(m) /\ Kept(q, m) /\ m.stage = "response" /\ ~ m.held /\ m.answers = n
      /\ m.local = q.local
  BY <1>1, MovedFields, SMTT(30)
<1>6. AnswerPasses(q) = m
  BY <1>2
<1> HIDE DEF m
<1>7. QED
  BY <1>1, <1>3, <1>4, <1>5, <1>6

LEMMA PassedOnFields ==
    ASSUME NEW q, Formed(q)
    PROVE  /\ Formed(PassedOn(q)) /\ Kept(q, PassedOn(q)) /\ PassedOn(q).stage = "over"
           /\ ~ PassedOn(q).held /\ PassedOn(q).answers = q.answers + 1
           /\ PassedOn(q).local = q.local
<1>1. Formed(AnswerPasses(q)) /\ Kept(q, AnswerPasses(q))
  BY AnswerFields
<1>2. QED
  BY <1>1, AnswerFields DEF PassedOn, Kept

-----------------------------------------------------------------------------
(* Whether a request is in order *)

Idle(q) == \A c \in CallName : q.calls[c] = None

\* The handlers that may hold a request.
Holding == {"headers", "body", "answering"}

\* A request that waits for something is held; it waits for one call, or for the parts of a
\* question; and it is answered once, when it is over or on its way back.
Sound(q) ==
    /\ q.held => q.stage \in Holding
    /\ q.stage \in {"headers", "body", "upstream", "answering"} => q.answers = 0 /\ ~ q.local
    /\ q.stage = "response" => q.answers = 1 /\ ~ q.local
    /\ q.answers <= 1
    /\ Idle(q) \/ q.held \/ q.stage = "gone"
    /\ \A c, d \in CallName :
          q.calls[c] # None /\ q.calls[d] # None => c = d \/ {c, d} \subseteq Part

\* A handler or a callback is at work on it.
Ready(q) == Formed(q) /\ Sound(q) /\ Idle(q) /\ q.stage \in Holding

\* A handler is through with it, and nothing is to come.
Quiet(q) == Formed(q) /\ Sound(q) /\ Idle(q)

\* A handler is through with it.
Rested(q) == Formed(q) /\ Sound(q)

LEMMA ReadyIsQuiet == \A q : Ready(q) => Quiet(q)
BY DEF Ready, Quiet

LEMMA QuietIsRested == \A q : Quiet(q) => Rested(q)
BY DEF Quiet, Rested

LEMMA ReadyIsRested == \A q : Ready(q) => Rested(q)
BY DEF Ready, Rested

\* What is noted and learned changes nothing, and nor does what is read of the body.
LEMMA SoundUnmoved ==
    ASSUME NEW q, NEW p, Unmoved(q, p), p.calls = q.calls
    PROVE  (Sound(q) => Sound(p)) /\ (Idle(q) => Idle(p))
BY DEF Unmoved, Sound, Idle

LEMMA ReadyNotes ==
    ASSUME NEW q, Ready(q), NEW S
    PROVE  Ready(Unread(q)) /\ Ready(Noting(q, S)) /\ Ready(Learning(q, S))
<1>1. Formed(q) /\ Sound(q) /\ Idle(q) /\ q.stage \in Holding
  BY DEF Ready
<1>2. Ready(Unread(q))
  BY <1>1, UnreadFields, SoundUnmoved DEF Ready, Kept, Unmoved
<1>3. Ready(Noting(q, S))
  BY <1>1, NotingFields, SoundUnmoved DEF Ready, Unmoved
<1>4. Ready(Learning(q, S))
  BY <1>1, LearningFields, SoundUnmoved DEF Ready, Unmoved
<1>5. QED
  BY <1>2, <1>3, <1>4

\* A request that was noted something about is as sound as before.
LEMMA RestedNotes ==
    ASSUME NEW q, Rested(q), NEW S
    PROVE  Rested(Noting(q, S)) /\ Rested(Learning(q, S))
<1>1. Formed(q) /\ Sound(q)
  BY DEF Rested
<1>2. Rested(Noting(q, S))
  BY <1>1, NotingFields, SoundUnmoved DEF Rested
<1>3. Rested(Learning(q, S))
  BY <1>1, LearningFields, SoundUnmoved DEF Rested
<1>4. QED
  BY <1>2, <1>3

\* It may be paused, answered, held for a call, or let go on.
LEMMA ReadyGoesOn ==
    ASSUME NEW q, Ready(q)
    PROVE  /\ Ready(Paused(q))
           /\ Quiet(Continued(q)) /\ Quiet(Resumed(q)) /\ Quiet(Replied(q))
           /\ q.stage = "headers" => Ready(Postponed(q))
           /\ \A c : Rested(Awaiting(q, c))
           /\ Quiet(AnswerPasses(q)) /\ Quiet(PassedOn(q))
<1>1. Formed(q) /\ Sound(q) /\ Idle(q) /\ q.stage \in Holding /\ q.answers = 0 /\ ~ q.local
  BY DEF Ready, Sound, Holding
<1>2. Ready(Paused(q))
  BY <1>1, PausedFields DEF Ready, Sound, Idle, Kept, Holding
<1>3. Quiet(Continued(q))
  BY <1>1, ContinuedFields DEF Quiet, Sound, Idle, Kept, Holding
<1>4. Quiet(Resumed(q))
  BY <1>1, <1>3, ResumedFields DEF Quiet
<1>5. Quiet(Replied(q))
  BY <1>1, RepliedFields DEF Quiet, Sound, Idle, Kept, Holding
<1>6. q.stage = "headers" => Ready(Postponed(q))
  BY <1>1, PostponedFields DEF Ready, Sound, Idle, Kept, Holding
<1>7. \A c : Rested(Awaiting(q, c))
  <2> SUFFICES ASSUME NEW c PROVE Rested(Awaiting(q, c))
    OBVIOUS
  <2> DEFINE w == Awaiting(q, c)
  <2>1. /\ Formed(w) /\ w.held /\ w.stage = q.stage /\ w.answers = q.answers /\ w.local = q.local
        /\ w.calls = [q.calls EXCEPT ![c] = Sent]
    BY <1>1, AwaitingFields DEF Holding
  <2>2. \A d \in CallName : w.calls[d] # None => d = c
    BY <2>1, <1>1 DEF Formed, Idle
  <2> HIDE DEF w
  <2>3. Rested(w)
    BY <2>1, <2>2, <1>1 DEF Rested, Sound, Holding
  <2>4. QED
    BY <2>3 DEF w
<1>8. Quiet(AnswerPasses(q))
  BY <1>1, AnswerFields DEF Quiet, Sound, Idle, Kept, Holding
<1>9. Quiet(PassedOn(q))
  BY <1>1, PassedOnFields DEF Quiet, Sound, Idle, Kept, Holding
<1>10. QED
  BY <1>2, <1>3, <1>4, <1>5, <1>6, <1>7, <1>8, <1>9

LEMMA QuietGoesOn ==
    ASSUME NEW q, Quiet(q)
    PROVE  Quiet(Continued(q)) /\ Quiet(Resumed(q)) /\ (q.local => Quiet(Replied(q)))
<1>1. Formed(q) /\ Sound(q) /\ Idle(q)
  BY DEF Quiet
<1>2. Quiet(Continued(q))
  BY <1>1, ContinuedFields DEF Quiet, Sound, Idle, Kept, Holding
<1>3. Quiet(Resumed(q))
  BY <1>1, <1>2, ResumedFields DEF Quiet
<1>4. q.local => Quiet(Replied(q))
  BY <1>1, RepliedFields DEF Quiet
<1>5. QED
  BY <1>2, <1>3, <1>4

-----------------------------------------------------------------------------
(* The requests of a behaviour *)

AllFormed ==
    /\ req = [r \in Request |-> req[r]]
    /\ \A r \in Request : Formed(req[r])

AllRested ==
    /\ req = [r \in Request |-> req[r]]
    /\ \A r \in Request : Rested(req[r])

\* A step of request r that leaves it in order.
Moves(r) == conf' = conf /\ \E q : Rested(q) /\ Step(r, q)

LEMMA MovesKeep ==
    ASSUME AllRested, NEW r \in Request, Moves(r)
    PROVE  AllRested' /\ conf' = conf
<1>1. PICK q : Rested(q) /\ Step(r, q)
  BY DEF Moves
<1>2. req' = [s \in Request |-> IF s = r THEN q ELSE req[s]]
  BY <1>1 DEF Step, AllRested
<1>3. req' = [s \in Request |-> req'[s]]
  BY <1>2
<1>4. \A s \in Request : Rested(req'[s])
  BY <1>1, <1>2 DEF AllRested
<1>5. QED
  BY <1>3, <1>4 DEF AllRested, Moves

\* A request that a handler is given waits for nothing.
LEMMA HandlingIsReady ==
    ASSUME AllRested, NEW r \in Request, NEW stage \in Holding, Handling(r, stage)
    PROVE  Ready(req[r])
BY DEF AllRested, Handling, Ready, Rested, Sound, Holding

LEMMA BackFields ==
    ASSUME NEW r \in Request, Formed(req[r]), NEW c
    PROVE  LET p == Back(r, c)
           IN /\ Formed(p) /\ Unmoved(req[r], p) /\ p.ctx = req[r].ctx /\ p.facts = req[r].facts
              /\ p.calls = [req[r].calls EXCEPT ![c] = None] /\ p.body = req[r].body
BY CallFields DEF Back

\* The callback of the only call of a request finds it held, and without another.
LEMMA CalledIsReady ==
    ASSUME AllRested, NEW r \in Request, NEW c \in OneAtATime, Called(r, c)
    PROVE  Ready(Back(r, c)) /\ Back(r, c).held
<1> DEFINE q == req[r]  p == Back(r, c)
<1>1. Formed(q) /\ Sound(q) /\ c \in CallName /\ c \notin Part
  BY WasmAssumption DEF AllRested, Rested
<1>2. q.calls[c] # None /\ q.stage # "gone"
  BY DEF Called
<1>3. q.held /\ q.stage \in Holding
  BY <1>1, <1>2 DEF Sound, Idle
<1>4. \A d \in CallName : q.calls[d] # None => d = c
  BY <1>1, <1>2 DEF Sound
<1>5. Formed(p) /\ Unmoved(q, p) /\ p.calls = [q.calls EXCEPT ![c] = None]
  BY <1>1, BackFields
<1>6. Idle(p)
  BY <1>1, <1>4, <1>5 DEF Idle, Formed
<1> HIDE DEF p, q
<1>7. Sound(p) /\ p.stage \in Holding /\ p.held
  BY <1>1, <1>3, <1>5, <1>6 DEF Sound, Idle, Unmoved, Holding
<1>8. QED
  BY <1>5, <1>6, <1>7 DEF Ready, p

-----------------------------------------------------------------------------
(* Every handler and every callback leaves a request in order. *)

LEMMA ExtAuthMoves ==
    ASSUME AllRested, NEW r \in Request, ExtAuthHeaders(r) \/ ExtAuthBody(r) \/ ExtAuthReturns(r)
    PROVE  Moves(r)
<1>1. ASSUME NEW q, Ready(q), NEW status PROVE Quiet(ServerErrorHandler(q, status))
  BY <1>1, ReadyGoesOn DEF ServerErrorHandler
<1>2. ASSUME NEW q, Ready(q), CheckExtAuth(r, q) PROVE \E p : Rested(p) /\ Step(r, p)
  <2>1. CASE Step(r, Awaiting(q, "check"))
    BY <1>2, <2>1, ReadyGoesOn
  <2>2. CASE Step(r, Continued(ServerErrorHandler(Learning(q, {Class5xx}), Class5xx)))
    <3>1. Ready(Learning(q, {Class5xx}))
      BY <1>2, ReadyNotes
    <3>2. Rested(Continued(ServerErrorHandler(Learning(q, {Class5xx}), Class5xx)))
      BY <3>1, <1>1, QuietGoesOn, QuietIsRested
    <3>3. QED
      BY <2>2, <3>2
  <2>3. QED
    BY <1>2, <2>1, <2>2 DEF CheckExtAuth
<1>3. CASE ExtAuthHeaders(r)
  <2>1. Ready(req[r])
    BY <1>3, HandlingIsReady DEF ExtAuthHeaders, Holding
  <2>2. Ready(Unread(req[r]))
    BY <2>1, ReadyNotes
  <2>3. Rested(Continued(Learning(Unread(req[r]), {"exempt"})))
    BY <2>2, ReadyNotes, ReadyGoesOn, QuietIsRested
  <2>4. Rested(Postponed(req[r]))
    BY <1>3, <2>1, ReadyGoesOn, ReadyIsRested DEF ExtAuthHeaders, Handling
  <2>5. QED
    BY <1>3, <1>2, <2>2, <2>3, <2>4 DEF ExtAuthHeaders, Moves
<1>4. CASE ExtAuthBody(r)
  <2>1. Ready(req[r])
    BY <1>4, HandlingIsReady DEF ExtAuthBody, Holding
  <2>2. QED
    BY <1>4, <1>2, <2>1 DEF ExtAuthBody, Moves
<1>5. CASE ExtAuthReturns(r)
  <2>1. Ready(Back(r, "check"))
    BY <1>5, CalledIsReady DEF ExtAuthReturns, OneAtATime
  <2>2. \A S : Ready(Learning(Back(r, "check"), S))
    BY <2>1, ReadyNotes
  <2>3. \A S, status : /\ Rested(Resumed(Learning(Back(r, "check"), S)))
                       /\ Rested(ServerErrorHandler(Learning(Back(r, "check"), S), status))
    BY <2>2, <1>1, ReadyGoesOn, QuietIsRested
  <2>4. QED
    BY <1>5, <2>3 DEF ExtAuthReturns, Moves
<1>6. QED
  BY <1>3, <1>4, <1>5

\* What handlers and callbacks commonly end with.
LEMMA Endings ==
    ASSUME NEW q, Ready(q)
    PROVE  /\ Rested(q) /\ Rested(Continued(q)) /\ Rested(Resumed(q)) /\ Rested(Replied(q))
           /\ Rested(Paused(q)) /\ Rested(PassedOn(q)) /\ Rested(AnswerPasses(q))
           /\ \A c : Rested(Awaiting(q, c))
           /\ q.stage = "headers" => Rested(Postponed(q))
           /\ \A S : Rested(Learning(Paused(q), S))
BY ReadyIsRested, ReadyGoesOn, ReadyNotes, QuietIsRested

LEMMA OpaMoves ==
    ASSUME AllRested, NEW r \in Request, OpaHeaders(r) \/ OpaBody(r) \/ RspCall(r)
    PROVE  Moves(r)
<1>1. ASSUME OpaCall(r), Ready(req[r]) PROVE \E p : Rested(p) /\ Step(r, p)
  BY <1>1, Endings DEF OpaCall
<1>2. CASE OpaHeaders(r)
  <2>1. Ready(req[r])
    BY <1>2, HandlingIsReady DEF OpaHeaders, Holding
  <2>2. QED
    BY <1>1, <1>2, <2>1 DEF OpaHeaders, Moves
<1>3. CASE OpaBody(r)
  <2>1. Ready(req[r])
    BY <1>3, HandlingIsReady DEF OpaBody, Holding
  <2>2. QED
    BY <1>1, <1>3, <2>1 DEF OpaBody, Moves
<1>4. CASE RspCall(r)
  <2>1. Ready(Back(r, "check"))
    BY <1>4, CalledIsReady DEF RspCall, OneAtATime
  <2>2. \A S : /\ Rested(Resumed(Learning(Back(r, "check"), S)))
               /\ Rested(Replied(Learning(Back(r, "check"), S)))
    BY <2>1, ReadyNotes, Endings
  <2>3. QED
    BY <1>4, <2>2 DEF RspCall, Moves
<1>5. QED
  BY <1>2, <1>3, <1>4

LEMMA ValidationMoves ==
    ASSUME AllRested, NEW r \in Request, ValidationHeaders(r) \/ ValidationBody(r)
    PROVE  Moves(r)
<1>1. ASSUME Ready(req[r])
      PROVE  \A S : /\ Rested(Replied(Learning(req[r], S))) /\ Rested(Continued(Learning(req[r], S)))
  BY <1>1, ReadyNotes, Endings
<1>2. CASE ValidationHeaders(r)
  <2>1. Ready(req[r])
    BY <1>2, HandlingIsReady DEF ValidationHeaders, Holding
  <2>2. QED
    BY <1>1, <1>2, <2>1 DEF ValidationHeaders, Moves
<1>3. CASE ValidationBody(r)
  <2>1. Ready(req[r])
    BY <1>3, HandlingIsReady DEF ValidationBody, Holding
  <2>2. QED
    BY <1>1, <1>3, <2>1 DEF ValidationBody, Moves
<1>4. QED
  BY <1>2, <1>3

\* A reply of Redis, or the news that none will come, changes the call and nothing else.
LEMMA ExecutedMoves ==
    ASSUME AllRested, NEW r \in Request, NEW c \in CallName, NEW v, NEW S,
           req[r].calls[c] # None, conf' = conf,
           \/ Step(r, [req[r] EXCEPT !.calls[c] = v])
           \/ Step(r, Noting([req[r] EXCEPT !.calls[c] = v], S))
    PROVE  Moves(r)
<1> DEFINE q == req[r]  p == [q EXCEPT !.calls[c] = v]
<1>1. Formed(q) /\ Sound(q)
  BY DEF AllRested, Rested
<1>2. Formed(p) /\ Unmoved(q, p) /\ p.calls = [q.calls EXCEPT ![c] = v]
  BY <1>1, CallFields
<1>3. \A d \in CallName : p.calls[d] # None => q.calls[d] # None
  BY <1>1, <1>2 DEF Formed
<1>4. \A d \in CallName : q.calls[d] = None => p.calls[d] = None
  BY <1>3
<1>5. Step(r, p) \/ Step(r, Noting(p, S))
  OBVIOUS
<1> HIDE DEF p, q
<1>6. Sound(p)
  BY <1>1, <1>2, <1>3, <1>4 DEF Sound, Unmoved, Idle
<1>7. Rested(p) /\ Rested(Noting(p, S))
  BY <1>2, <1>6, RestedNotes DEF Rested
<1>8. QED
  BY <1>5, <1>7 DEF Moves

LEMMA ReplayMoves ==
    ASSUME AllRested, NEW r \in Request, ReplayHeaders(r) \/ SetNX(r) \/ ReplayReturns(r)
    PROVE  Moves(r)
<1>1. CASE ReplayHeaders(r)
  <2>1. Ready(req[r])
    BY <1>1, HandlingIsReady DEF ReplayHeaders, Holding
  <2>2. /\ Rested(Replied(req[r])) /\ Rested(Awaiting(req[r], "check"))
        /\ \A S : /\ Rested(Replied(Learning(req[r], S)))
                  /\ Rested(Continued(Learning(req[r], S)))
    BY <2>1, ReadyNotes, Endings
  <2>3. QED
    BY <1>1, <2>2 DEF ReplayHeaders, Moves
<1>2. CASE SetNX(r)
  <2>1. req[r].calls["check"] # None /\ "check" \in CallName
    BY <1>2, WasmAssumption, OpaqueAssumption DEF SetNX, Executing, OneAtATime
  <2>2. QED
    BY <1>2, <2>1, ExecutedMoves DEF SetNX, Executed
<1>3. CASE ReplayReturns(r)
  <2>1. Ready(Back(r, "check"))
    BY <1>3, CalledIsReady DEF ReplayReturns, OneAtATime
  <2>2. \A S : /\ Rested(Resumed(Learning(Back(r, "check"), S)))
               /\ Rested(Replied(Learning(Back(r, "check"), S)))
    BY <2>1, ReadyNotes, Endings
  <2>3. QED
    BY <1>3, <2>2 DEF ReplayReturns, Moves
<1>4. QED
  BY <1>1, <1>2, <1>3

LEMMA ConsumerMoves ==
    ASSUME AllRested, NEW r \in Request, ConsumerNext(r)
    PROVE  Moves(r)
<1>1. ASSUME Ready(req[r])
      PROVE  \A S : LET q == Learning(req[r], S)
                    IN /\ Rested(Replied(q)) /\ Rested(Continued(q)) /\ Rested(Continued(Unread(q)))
                       /\ q.stage = "headers" => Rested(Postponed(q))
  <2> SUFFICES ASSUME NEW S
               PROVE  LET q == Learning(req[r], S)
                      IN /\ Rested(Replied(q)) /\ Rested(Continued(q)) /\ Rested(Continued(Unread(q)))
                         /\ q.stage = "headers" => Rested(Postponed(q))
    OBVIOUS
  <2>1. Ready(Learning(req[r], S))
    BY <1>1, ReadyNotes
  <2>2. Ready(Unread(Learning(req[r], S)))
    BY <2>1, ReadyNotes
  <2>3. QED
    BY <2>1, <2>2, Endings
<1>2. ASSUME Handling(r, "headers")
      PROVE  \A S : LET q == Learning(req[r], S)
                    IN /\ Rested(Replied(q)) /\ Rested(Continued(q)) /\ Rested(Continued(Unread(q)))
                       /\ Rested(Postponed(q))
  <2>1. Ready(req[r])
    BY <1>2, HandlingIsReady DEF Holding
  <2>2. \A S : Learning(req[r], S).stage = "headers"
    BY <1>2, <2>1, LearningFields DEF Handling, Unmoved, Ready
  <2>3. QED
    BY <2>1, <2>2, <1>1
<1>3. CASE KeyAuthHeaders(r)
  BY <1>2, <1>3 DEF KeyAuthHeaders, Moves
<1>4. CASE BasicAuthHeaders(r)
  BY <1>2, <1>4 DEF BasicAuthHeaders, Moves
<1>5. CASE JwtAuthHeaders(r)
  BY <1>2, <1>5 DEF JwtAuthHeaders, Moves
<1>6. CASE HmacHeaders(r)
  BY <1>2, <1>6 DEF HmacHeaders, Moves
<1>7. CASE HmacBody(r)
  <2>1. Ready(req[r])
    BY <1>7, HandlingIsReady DEF HmacBody, Holding
  <2>2. QED
    BY <1>1, <1>7, <2>1, Endings DEF HmacBody, Moves
<1>8. QED
  BY <1>3, <1>4, <1>5, <1>6, <1>7 DEF ConsumerNext

LEMMA LimitMoves ==
    ASSUME AllRested, NEW r \in Request,
           LimitHeaders(r) \/ LimitReturns(r) \/ FixedWindowScript(r) \/ RequestPhaseScript(r)
    PROVE  Moves(r)
<1>1. CASE LimitHeaders(r)
  <2>1. Ready(req[r])
    BY <1>1, HandlingIsReady DEF LimitHeaders, Holding
  <2>2. /\ \A S : Rested(Continued(Learning(req[r], S)))
        /\ \A S, T : /\ Rested(Awaiting(Noting(req[r], S), "check"))
                     /\ Rested(Continued(Learning(Noting(req[r], S), T)))
    BY <2>1, ReadyNotes, Endings
  <2>3. QED
    BY <1>1, <2>2 DEF LimitHeaders, Moves
<1>2. CASE LimitReturns(r)
  <2>1. Ready(Back(r, "check"))
    BY <1>2, CalledIsReady DEF LimitReturns, OneAtATime
  <2>2. /\ \A S : Rested(Resumed(Learning(Back(r, "check"), S)))
        /\ Rested(Resumed(Back(r, "check"))) /\ Rested(Replied(Back(r, "check")))
    BY <2>1, ReadyNotes, Endings
  <2>3. QED
    BY <1>2, <2>2 DEF LimitReturns, Moves
<1>3. CASE FixedWindowScript(r)
  <2>1. req[r].calls["check"] # None /\ "check" \in CallName
    BY <1>3, WasmAssumption, OpaqueAssumption DEF FixedWindowScript, Executing, OneAtATime
  <2>2. QED
    BY <1>3, <2>1, ExecutedMoves DEF FixedWindowScript, Executed
<1>4. CASE RequestPhaseScript(r)
  <2>1. req[r].calls["check"] # None /\ "check" \in CallName
    BY <1>4, WasmAssumption, OpaqueAssumption DEF RequestPhaseScript, Executing, OneAtATime
  <2>2. QED
    BY <1>4, <2>1, ExecutedMoves DEF RequestPhaseScript, Executed
<1>5. QED
  BY <1>1, <1>2, <1>3, <1>4

\* What has passed the handler of the headers of its answer.
LEMMA ResponseMoves ==
    ASSUME AllRested, NEW r \in Request, conf' = conf,
           \/ Handling(r, "response") /\ Step(r, ResponseEnds(req[r]))
           \/ Handling(r, "answering") /\ Step(r, AnswerPasses(req[r]))
           \/ Handling(r, "answering") /\ Step(r, PassedOn(req[r]))
    PROVE  Moves(r)
<1>1. CASE Handling(r, "response") /\ Step(r, ResponseEnds(req[r]))
  <2>1. Formed(req[r]) /\ Sound(req[r]) /\ req[r].stage = "response" /\ ~ req[r].held
    BY <1>1 DEF AllRested, Rested, Handling
  <2>2. Rested(ResponseEnds(req[r]))
    BY <2>1, AnswerFields DEF Rested, Sound, Idle, Kept, Holding
  <2>3. QED
    BY <1>1, <2>2 DEF Moves
<1>2. CASE Handling(r, "answering") /\ (Step(r, AnswerPasses(req[r])) \/ Step(r, PassedOn(req[r])))
  <2>1. Ready(req[r])
    BY <1>2, HandlingIsReady DEF Holding
  <2>2. QED
    BY <1>2, <2>1, Endings DEF Moves
<1>3. QED
  BY <1>1, <1>2

LEMMA QuotaMoves ==
    ASSUME AllRested, NEW r \in Request,
           \/ QuotaHeaders(r) \/ QuotaBody(r) \/ QuotaGet(r) \/ QuotaReturns(r) \/ QuotaAdmin(r)
           \/ QuotaAdminReturns(r) \/ QuotaCharged(r) \/ TokensCharged(r)
    PROVE  Moves(r)
<1>1. CASE QuotaHeaders(r)
  <2>1. Ready(req[r]) /\ req[r].stage = "headers"
    BY <1>1, HandlingIsReady DEF QuotaHeaders, Holding, Handling
  <2>2. Ready(Unread(req[r]))
    BY <2>1, ReadyNotes
  <2>3. \A S : Ready(Noting(Unread(req[r]), S)) /\ Ready(Noting(req[r], S)) /\ Ready(Learning(req[r], S))
    BY <2>1, <2>2, ReadyNotes
  <2>4. \A S : Noting(req[r], S).stage = "headers"
    BY <2>1, NotingFields DEF Ready, Unmoved
  <2>5. \A S, T : /\ Rested(Replied(Learning(req[r], S))) /\ Rested(Continued(Learning(req[r], S)))
                  /\ Rested(Awaiting(Noting(Unread(req[r]), S), "check"))
                  /\ Rested(Learning(Paused(Noting(Unread(req[r]), S)), T))
                  /\ Rested(Awaiting(Noting(req[r], S), "admin"))
                  /\ Rested(Postponed(Noting(req[r], S))) /\ Rested(Bodyless(Noting(req[r], S)))
    BY <2>3, <2>4, Endings DEF Bodyless
  <2>6. QED
    BY <1>1, <2>5 DEF QuotaHeaders, Moves
<1>2. CASE QuotaBody(r)
  <2>1. Ready(req[r])
    BY <1>2, HandlingIsReady DEF QuotaBody, Holding
  <2>2. /\ \A S : Rested(Replied(Learning(req[r], S)))
        /\ Rested(Continued(req[r])) /\ Rested(Awaiting(req[r], "admin"))
    BY <2>1, ReadyNotes, Endings
  <2>3. QED
    BY <1>2, <2>2 DEF QuotaBody, Moves
<1>3. CASE QuotaGet(r)
  <2>1. req[r].calls["check"] # None /\ "check" \in CallName
    BY <1>3, WasmAssumption, OpaqueAssumption DEF QuotaGet, Executing, OneAtATime
  <2>2. QED
    BY <1>3, <2>1, ExecutedMoves DEF QuotaGet, Executed
<1>4. CASE QuotaReturns(r)
  <2>1. Ready(Back(r, "check"))
    BY <1>4, CalledIsReady DEF QuotaReturns, OneAtATime
  <2>2. Rested(Resumed(Back(r, "check"))) /\ Rested(Replied(Back(r, "check")))
    BY <2>1, Endings
  <2>3. QED
    BY <1>4, <2>2 DEF QuotaReturns, Moves
<1>5. CASE QuotaAdmin(r)
  <2>1. req[r].calls["admin"] # None /\ "admin" \in CallName
    BY <1>5, WasmAssumption, OpaqueAssumption DEF QuotaAdmin, Executing, OneAtATime
  <2>2. QED
    BY <1>5, <2>1, ExecutedMoves DEF QuotaAdmin, Executed
<1>6. CASE QuotaAdminReturns(r)
  <2>1. Ready(Back(r, "admin"))
    BY <1>6, CalledIsReady DEF QuotaAdminReturns, OneAtATime
  <2>2. QED
    BY <1>6, <2>1, Endings DEF QuotaAdminReturns, Moves
<1>7. CASE QuotaCharged(r)
  BY <1>7, ResponseMoves DEF QuotaCharged
<1>8. CASE TokensCharged(r)
  BY <1>8, ResponseMoves DEF TokensCharged
<1>9. QED
  BY <1>1, <1>2, <1>3, <1>4, <1>5, <1>6, <1>7, <1>8

\* A call that a callback makes for a request it leaves held.
LEMMA DispatchedRests ==
    ASSUME NEW q, Ready(q), q.held, NEW c
    PROVE  Rested(Dispatched(q, c))
<1>1. Formed(q) /\ Sound(q) /\ q.stage \notin {"over", "gone"}
  BY DEF Ready, Holding
<1>2. Formed(Dispatched(q, c)) /\ Unmoved(q, Dispatched(q, c))
  BY <1>1, CallFields DEF Dispatched
<1>3. Paused(Dispatched(q, c)) = Dispatched(q, c)
  BY <1>1, <1>2 DEF Paused, Formed, Unmoved
<1>4. QED
  BY <1>3, Endings DEF Awaiting

LEMMA CacheHitRests ==
    ASSUME NEW q, Ready(q), NEW answer
    PROVE  Rested(ProcessCacheHit(q, answer))
<1> DEFINE p == [q EXCEPT !.ctx = @ \ {"key"}]
<1>1. Formed(p) /\ Unmoved(q, p) /\ p.calls = q.calls
  BY DEF Ready, Formed, Unmoved
<1>2. ProcessCacheHit(q, answer) = Replied(Learning(p, {answer}))
  BY DEF ProcessCacheHit
<1> HIDE DEF p
<1>3. Ready(p)
  BY <1>1, SoundUnmoved DEF Ready, Unmoved
<1>4. QED
  BY <1>2, <1>3, ReadyNotes, Endings

\* What becomes of a request with the answer of the cache.
LEMMA CacheResponseRests ==
    ASSUME NEW q, Ready(q), q.held, NEW value, NEW similarity,
           NEW p \in HandleCacheResponse(q, value, similarity)
    PROVE  Rested(p)
<1>1. CASE value \in Request
  BY <1>1, CacheHitRests DEF HandleCacheResponse
<1>2. CASE value \notin Request
  <2>1. /\ Rested(Resumed(q)) /\ Rested(Dispatched(q, "embed"))
        /\ Rested(Resumed(Resumed(q)))
    BY DispatchedRests, ReadyGoesOn, QuietGoesOn, QuietIsRested
  <2>2. \A o \in PerformSimilaritySearch(q) : Rested(IF o.err THEN Resumed(o.q) ELSE o.q)
    <3> SUFFICES ASSUME NEW o \in PerformSimilaritySearch(q)
                 PROVE  Rested(IF o.err THEN Resumed(o.q) ELSE o.q)
      OBVIOUS
    <3>1. \/ o = [q |-> q, err |-> TRUE]
          \/ o = [q |-> Dispatched(q, "embed"), err |-> FALSE]
          \/ o = [q |-> Resumed(q), err |-> TRUE]
      BY DEF PerformSimilaritySearch, GetEmbedding, Fine, Fails
    <3>2. CASE o = [q |-> q, err |-> TRUE]
      BY <2>1, <3>2
    <3>3. CASE o = [q |-> Dispatched(q, "embed"), err |-> FALSE]
      BY <2>1, <3>3
    <3>4. CASE o = [q |-> Resumed(q), err |-> TRUE]
      BY <2>1, <3>4
    <3>5. QED
      BY <3>1, <3>2, <3>3, <3>4
  <2>3. p = Resumed(q) \/ \E o \in PerformSimilaritySearch(q) : p = IF o.err THEN Resumed(o.q) ELSE o.q
    BY <1>2 DEF HandleCacheResponse
  <2>4. QED
    BY <2>1, <2>2, <2>3
<1>3. QED
  BY <1>1, <1>2

LEMMA CacheExecutes ==
    ASSUME AllRested, NEW r \in Request,
           QueryRuns(r) \/ \E c \in {"lookup", "other"} : \E k : RedisGet(r, c, k)
    PROVE  Moves(r)
<1>1. CASE QueryRuns(r)
  <2>1. req[r].calls["query"] # None /\ "query" \in CallName
    BY <1>1, WasmAssumption, OpaqueAssumption DEF QueryRuns, Executing, OneAtATime
  <2>2. QED
    BY <1>1, <2>1, ExecutedMoves DEF QueryRuns, Executed
<1>2. CASE \E c \in {"lookup", "other"} : \E k : RedisGet(r, c, k)
  <2>1. PICK c \in {"lookup", "other"} : \E k : RedisGet(r, c, k)
    BY <1>2
  <2>2. req[r].calls[c] # None /\ c \in CallName
    BY <2>1, WasmAssumption, OpaqueAssumption DEF RedisGet, Executing, OneAtATime
  <2>3. QED
    BY <2>1, <2>2, ExecutedMoves DEF RedisGet, Executed
<1>3. QED
  BY <1>1, <1>2

LEMMA AiCacheMoves ==
    ASSUME AllRested, NEW r \in Request,
           \/ AiCacheHeaders(r) \/ AiCacheBody(r) \/ AiCacheAnswered(r) \/ AiCacheEnds(r)
           \/ AiCacheLookedUp(r) \/ EmbeddingReturns(r) \/ HandleQueryResults(r)
           \/ AiCacheOtherLookedUp(r)
    PROVE  Moves(r)
<1>1. CASE AiCacheHeaders(r)
  <2>1. Ready(req[r]) /\ req[r].stage = "headers"
    BY <1>1, HandlingIsReady DEF AiCacheHeaders, Holding, Handling
  <2>2. Ready(Unread(req[r])) /\ \A S : Ready(Noting(Unread(req[r]), S))
    BY <2>1, ReadyNotes
  <2>3. /\ \A S : Rested(Continued(Noting(Unread(req[r]), S)))
        /\ Rested(Continued(req[r])) /\ Rested(Continued(Unread(req[r]))) /\ Rested(Postponed(req[r]))
        /\ Rested(Bodyless(req[r]))
    BY <2>1, <2>2, Endings DEF Bodyless
  <2>4. QED
    BY <1>1, <2>3 DEF AiCacheHeaders, Moves
<1>2. CASE AiCacheBody(r)
  <2> DEFINE q == Noting(req[r], {"key"})
  <2>1. Ready(req[r])
    BY <1>2, HandlingIsReady DEF AiCacheBody, Holding
  <2>2. Ready(q) /\ Rested(Continued(Noting(req[r], {"skip"})))
    BY <2>1, ReadyNotes, Endings
  <2> HIDE DEF q
  <2>3. /\ Rested(Continued(q)) /\ Rested(Continued(Resumed(q)))
        /\ Rested(Paused(Dispatched(q, "lookup"))) /\ Rested(Paused(Dispatched(q, "embed")))
    BY <2>2, Endings, ReadyGoesOn, QuietGoesOn, QuietIsRested DEF Awaiting
  <2>4. \A o \in CheckCacheForKey(q) : Rested(IF o.err THEN Continued(o.q) ELSE Paused(o.q))
    <3> SUFFICES ASSUME NEW o \in CheckCacheForKey(q)
                 PROVE  Rested(IF o.err THEN Continued(o.q) ELSE Paused(o.q))
      OBVIOUS
    <3>1. \/ o = [q |-> q, err |-> TRUE]
          \/ o = [q |-> Dispatched(q, "lookup"), err |-> FALSE]
          \/ o = [q |-> Dispatched(q, "embed"), err |-> FALSE]
          \/ o = [q |-> Resumed(q), err |-> TRUE]
      BY DEF CheckCacheForKey, PerformSimilaritySearch, GetEmbedding, Fine, Fails
    <3>2. CASE o = [q |-> q, err |-> TRUE]
      BY <2>3, <3>2
    <3>3. CASE o = [q |-> Dispatched(q, "lookup"), err |-> FALSE]
      BY <2>3, <3>3
    <3>4. CASE o = [q |-> Dispatched(q, "embed"), err |-> FALSE]
      BY <2>3, <3>4
    <3>5. CASE o = [q |-> Resumed(q), err |-> TRUE]
      BY <2>3, <3>5
    <3>6. QED
      BY <3>1, <3>2, <3>3, <3>4, <3>5
  <2>5. \E p : Rested(p) /\ Step(r, p)
    BY <1>2, <2>2, <2>4 DEF AiCacheBody, q
  <2>6. QED
    BY <1>2, <2>5 DEF AiCacheBody, Moves
<1>3. CASE AiCacheAnswered(r)
  BY <1>3, ResponseMoves DEF AiCacheAnswered
<1>4. CASE AiCacheEnds(r)
  BY <1>4, ResponseMoves DEF AiCacheEnds
<1>5. CASE AiCacheLookedUp(r)
  <2>1. Ready(Back(r, "lookup")) /\ Back(r, "lookup").held
    BY <1>5, CalledIsReady DEF AiCacheLookedUp, OneAtATime
  <2>2. QED
    BY <1>5, <2>1, CacheResponseRests DEF AiCacheLookedUp, Moves
<1>6. CASE EmbeddingReturns(r)
  <2> DEFINE q == Back(r, "embed")
             n == Noting(q, {"embedding"})
  <2>1. Ready(q) /\ q.held
    BY <1>6, CalledIsReady DEF EmbeddingReturns, OneAtATime
  <2>2. Ready(n) /\ n.held
    BY <2>1, ReadyNotes, NotingFields DEF Ready, Unmoved
  <2>3. Rested(Resumed(q)) /\ Rested(Dispatched(n, "query")) /\ Rested(Resumed(n))
    BY <2>1, <2>2, Endings, DispatchedRests
  <2>4. QED
    BY <1>6, <2>3 DEF EmbeddingReturns, Moves
<1>7. CASE HandleQueryResults(r)
  <2> DEFINE q == Back(r, "query")
  <2>1. Ready(q) /\ q.held
    BY <1>7, CalledIsReady DEF HandleQueryResults, OneAtATime
  <2>2. /\ \A S : Rested(Learning(q, S))
        /\ Rested(Resumed(q)) /\ Rested(Dispatched(q, "other"))
        /\ \A a : Rested(ProcessCacheHit(q, a))
    BY <2>1, Endings, DispatchedRests, CacheHitRests, ReadyNotes
  <2> HIDE DEF q
  <2>3. QED
    BY <1>7, <2>2 DEF HandleQueryResults, Moves, q
<1>8. CASE AiCacheOtherLookedUp(r)
  <2>1. Ready(Back(r, "other")) /\ Back(r, "other").held
    BY <1>8, CalledIsReady DEF AiCacheOtherLookedUp, OneAtATime
  <2>2. QED
    BY <1>8, <2>1, CacheResponseRests DEF AiCacheOtherLookedUp, Moves
<1>9. QED
  BY <1>1, <1>2, <1>3, <1>4, <1>5, <1>6, <1>7, <1>8

\* response-cache, but for the lookup of a key from a header.
LEMMA ResponseCacheMoves ==
    ASSUME AllRested, ~ conf.cacheKeyFromHeader, NEW r \in Request,
           \/ ResponseCacheHeaders(r) \/ ResponseCacheBody(r) \/ ResponseCacheAnswered(r)
           \/ ResponseCacheEnds(r) \/ ResponseCacheLookedUp(r)
    PROVE  Moves(r)
<1>1. CASE ResponseCacheHeaders(r)
  <2>1. Ready(req[r]) /\ req[r].stage = "headers"
    BY <1>1, HandlingIsReady DEF ResponseCacheHeaders, Holding, Handling
  <2>2. Rested(Continued(Noting(Unread(req[r]), {"skip"}))) /\ Rested(Postponed(req[r]))
        /\ Rested(Bodyless(req[r]))
    BY <2>1, ReadyNotes, Endings DEF Bodyless
  <2>3. QED
    BY <1>1, <2>2 DEF ResponseCacheHeaders, Moves
<1>2. CASE ResponseCacheBody(r)
  <2>1. Ready(req[r])
    BY <1>2, HandlingIsReady DEF ResponseCacheBody, Holding
  <2>2. \A S : /\ Rested(Continued(Noting(req[r], S)))
               /\ Rested(Awaiting(Noting(req[r], S), "lookup"))
    BY <2>1, ReadyNotes, Endings
  <2>3. QED
    BY <1>2, <2>2 DEF ResponseCacheBody, Moves
<1>3. CASE ResponseCacheAnswered(r)
  <2>1. Ready(req[r])
    BY <1>3, HandlingIsReady DEF ResponseCacheAnswered, Holding
  <2>2. Rested(AnswerPasses(req[r])) /\ Rested(AnswerPasses(Noting(req[r], {"skip"})))
    BY <2>1, ReadyNotes, Endings
  <2>3. QED
    BY <1>3, <2>2 DEF ResponseCacheAnswered, Moves
<1>4. CASE ResponseCacheEnds(r)
  BY <1>4, ResponseMoves DEF ResponseCacheEnds
<1>5. CASE ResponseCacheLookedUp(r)
  <2>1. Ready(Back(r, "lookup"))
    BY <1>5, CalledIsReady DEF ResponseCacheLookedUp, OneAtATime
  <2>2. /\ \A a : Rested(ProcessCacheHit(Back(r, "lookup"), a))
        /\ Rested(Resumed(Back(r, "lookup")))
    BY <2>1, Endings, CacheHitRests
  <2>3. QED
    BY <1>5, <2>2 DEF ResponseCacheLookedUp, Moves
<1>6. QED
  BY <1>1, <1>2, <1>3, <1>4, <1>5

LEMMA AiProxyMoves ==
    ASSUME AllRested, NEW r \in Request,
           AiProxyHeaders(r) \/ AiProxyBody(r) \/ AiProxyAnswered(r) \/ ContextReturns(r) \/ RetryCall(r)
    PROVE  Moves(r)
<1>1. ASSUME NEW q, Ready(q), NEW n, SendRetryRequest(r, q, n)
      PROVE  \E p : Rested(p) /\ Step(r, p)
  <2>1. /\ Rested(PassedOn(q)) /\ Rested(Awaiting(q, "retry"))
        /\ \A S : Rested(PassedOn(Learning(q, S)))
    BY <1>1, ReadyNotes, Endings
  <2>2. QED
    BY <1>1, <2>1 DEF SendRetryRequest
<1>2. CASE AiProxyHeaders(r)
  <2>1. Ready(req[r]) /\ req[r].stage = "headers"
    BY <1>2, HandlingIsReady DEF AiProxyHeaders, Holding, Handling
  <2>2. Ready(Unread(req[r])) /\ \A S : Ready(Noting(req[r], S))
    BY <2>1, ReadyNotes
  <2>3. \A S : Noting(req[r], S).stage = "headers"
    BY <2>1, NotingFields DEF Ready, Unmoved
  <2>4. /\ Rested(Continued(Unread(req[r]))) /\ Rested(Replied(req[r]))
        /\ \A S : Rested(Postponed(Noting(req[r], S)))
    BY <2>1, <2>2, <2>3, Endings
  <2>5. QED
    BY <1>2, <2>4 DEF AiProxyHeaders, Moves
<1>3. CASE AiProxyBody(r)
  <2>1. Ready(req[r])
    BY <1>3, HandlingIsReady DEF AiProxyBody, Holding
  <2>2. Ready(Paused(req[r]))
    BY <2>1, ReadyGoesOn
  <2>3. /\ Rested(Resumed(Paused(req[r]))) /\ Rested(Replied(Paused(req[r])))
        /\ Rested(Replied(req[r])) /\ Rested(Continued(req[r])) /\ Rested(Awaiting(req[r], "context"))
    BY <2>1, <2>2, Endings
  <2>4. QED
    BY <1>3, <2>3 DEF AiProxyBody, HandleRequestBody, GetContextFromFile, InsertContext, Moves
<1>4. CASE AiProxyAnswered(r)
  <2>1. Ready(req[r])
    BY <1>4, HandlingIsReady DEF AiProxyAnswered, Holding
  <2>2. Ready(Learning(req[r], {"retrying"})) /\ Rested(PassedOn(req[r]))
    BY <2>1, ReadyNotes, Endings
  <2>3. QED
    BY <1>1, <1>4, <2>2 DEF AiProxyAnswered, Moves
<1>5. CASE ContextReturns(r)
  <2> DEFINE q == Back(r, "context")
  <2>1. Ready(q)
    BY <1>5, CalledIsReady DEF ContextReturns, OneAtATime
  <2>2. Quiet(Replied(q)) /\ Replied(q).local
    BY <2>1, ReadyGoesOn, RepliedFields DEF Ready
  <2>3. Replied(Replied(q)) = Replied(q)
    BY <2>2 DEF Replied
  <2>4. Rested(Resumed(q)) /\ Rested(Replied(q)) /\ Rested(InsertFailure(q))
    BY <2>1, <2>2, <2>3, Endings, QuietGoesOn, QuietIsRested DEF InsertFailure
  <2>5. QED
    BY <1>5, <2>4 DEF ContextReturns, InsertContext, Moves
<1>6. CASE RetryCall(r)
  <2>1. Ready(Back(r, "retry"))
    BY <1>6, CalledIsReady DEF RetryCall, OneAtATime
  <2>2. Rested(Replied(Back(r, "retry"))) /\ Rested(PassedOn(Back(r, "retry")))
    BY <2>1, Endings
  <2>3. QED
    BY <1>1, <1>6, <2>1, <2>2 DEF RetryCall, Moves
<1>7. QED
  BY <1>2, <1>3, <1>4, <1>5, <1>6

LEMMA GuardMoves ==
    ASSUME AllRested, NEW r \in Request,
           GuardHeaders(r) \/ GuardBody(r) \/ GuardAnswered(r) \/ TextChecked(r) \/ ImageChecked(r)
    PROVE  Moves(r)
<1>1. ASSUME NEW q, Ready(q) PROVE Rested(Passes(q)) /\ Rested(Passes(Paused(q)))
  BY <1>1, ReadyGoesOn, Endings DEF Passes
<1>2. ASSUME NEW q, Ready(q), NEW m, FailsOpen(r, q, m) \/ SingleCall(r, q, m) \/ SingleCallForImage(r, q, m)
      PROVE  \E p : Rested(p) /\ Step(r, p)
  BY <1>1, <1>2, Endings DEF FailsOpen, SingleCall, SingleCallForImage
<1>3. ASSUME NEW q, Ready(q), NEW m, Denied(r, q, m) PROVE \E p : Rested(p) /\ Step(r, p)
  <2>1. /\ \A S : Rested(PassedOn(Noting(q, S))) /\ Rested(Learning(Paused(q), S))
        /\ Rested(Replied(q))
    BY <1>3, ReadyNotes, Endings
  <2>2. QED
    BY <1>3, <2>1 DEF Denied
<1>4. CASE GuardHeaders(r)
  <2>1. Ready(req[r])
    BY <1>4, HandlingIsReady DEF GuardHeaders, Holding
  <2>2. Rested(Continued(req[r])) /\ Rested(Continued(Unread(req[r])))
    BY <2>1, ReadyNotes, Endings
  <2>3. QED
    BY <1>4, <2>2 DEF GuardHeaders, Moves
<1>5. CASE GuardBody(r)
  <2>1. Ready(req[r])
    BY <1>5, HandlingIsReady DEF GuardBody, Holding
  <2>2. Rested(Continued(req[r]))
    BY <2>1, Endings
  <2>3. QED
    BY <1>2, <1>5, <2>1, <2>2 DEF GuardBody, Moves
<1>6. CASE GuardAnswered(r)
  <2>1. Ready(req[r])
    BY <1>6, HandlingIsReady DEF GuardAnswered, Holding
  <2>2. Rested(PassedOn(req[r])) /\ Rested(Bodyless(req[r]))
    BY <2>1, Endings DEF Bodyless
  <2>3. QED
    BY <1>2, <1>6, <2>1, <2>2 DEF GuardAnswered, Moves
<1>7. CASE TextChecked(r)
  <2>1. Ready(Back(r, "text"))
    BY <1>7, CalledIsReady DEF TextChecked, OneAtATime
  <2>2. QED
    BY <1>1, <1>2, <1>3, <1>7, <2>1 DEF TextChecked, Moves
<1>8. CASE ImageChecked(r)
  <2>1. Ready(Back(r, "image"))
    BY <1>8, CalledIsReady DEF ImageChecked, OneAtATime
  <2>2. QED
    BY <1>1, <1>2, <1>3, <1>8, <2>1 DEF ImageChecked, Moves
<1>9. QED
  BY <1>4, <1>5, <1>6, <1>7, <1>8

LEMMA HistoryMoves ==
    ASSUME AllRested, NEW r \in Request,
           \/ HistoryHeaders(r) \/ HistoryBody(r) \/ HistoryAnswered(r) \/ HistoryGet(r)
           \/ HistoryReturns(r)
    PROVE  Moves(r)
<1>1. CASE HistoryHeaders(r)
  <2> DEFINE q == Noting(req[r], {"named"})
  <2>1. Ready(req[r]) /\ req[r].stage = "headers"
    BY <1>1, HandlingIsReady DEF HistoryHeaders, Holding, Handling
  <2>2. Ready(Unread(req[r])) /\ Ready(q)
    BY <2>1, ReadyNotes
  <2>3. q.stage = "headers"
    BY <2>1, NotingFields DEF Ready, Unmoved
  <2>4. /\ Rested(Continued(Unread(req[r]))) /\ Rested(Continued(req[r]))
        /\ Rested(Postponed(q)) /\ Rested(Bodyless(q))
    BY <2>1, <2>2, <2>3, Endings DEF Bodyless
  <2>5. QED
    BY <1>1, <2>4 DEF HistoryHeaders, Moves, Unchanged
<1>2. CASE HistoryBody(r)
  <2>1. Ready(req[r])
    BY <1>2, HandlingIsReady DEF HistoryBody, Holding
  <2>2. \A S : /\ Rested(Awaiting(Noting(req[r], S), "lookup"))
               /\ Rested(Continued(Noting(req[r], S)))
    BY <2>1, ReadyNotes, Endings
  <2>3. QED
    BY <1>2, <2>1, <2>2, Endings DEF HistoryBody, Moves, Unchanged
<1>3. CASE HistoryAnswered(r)
  BY <1>3, ResponseMoves DEF HistoryAnswered
<1>4. CASE HistoryGet(r)
  <2>1. req[r].calls["lookup"] # None /\ "lookup" \in CallName
    BY <1>4, WasmAssumption, OpaqueAssumption DEF HistoryGet, Executing, OneAtATime
  <2>2. QED
    BY <1>4, <2>1, ExecutedMoves DEF HistoryGet, Executed
<1>5. CASE HistoryReturns(r)
  <2>1. Ready(Back(r, "lookup"))
    BY <1>5, CalledIsReady DEF HistoryReturns, OneAtATime
  <2>2. Rested(Resumed(Back(r, "lookup"))) /\ Rested(Replied(Back(r, "lookup")))
    BY <2>1, Endings
  <2>3. QED
    BY <1>5, <2>2 DEF HistoryReturns, Moves, Unchanged
<1>6. QED
  BY <1>1, <1>2, <1>3, <1>4, <1>5

LEMMA AgentMoves ==
    ASSUME AllRested, NEW r \in Request,
           \/ AgentHeaders(r) \/ AgentBody(r) \/ AgentAnswered(r) \/ ToolsCallResult(r)
           \/ AgentThinks(r) \/ JsonFormat(r)
    PROVE  Moves(r)
<1>1. ASSUME NEW q, Ready(q)
      PROVE  /\ Rested(WrongSide(q)) /\ Rested(Dead(q)) /\ Rested(PassedOn(q))
             /\ \A c : Rested(Awaiting(q, c))
             /\ \A a \in AgentAnswers(q) : Rested(a)
  BY <1>1, Endings DEF WrongSide, Dead, AgentAnswers
<1>2. ASSUME NEW q, Ready(q), NEW answered, \A a \in answered : Rested(a), ToolsCall(r, q, answered)
      PROVE  \E p : Rested(p) /\ Step(r, p)
  <2>1. \/ Step(r, Dead(q)) \/ \E a \in answered : Step(r, a)
        \/ \E a \in answered \cup {Awaiting(q, "tool"), WrongSide(q)} : Step(r, a)
    BY <1>2 DEF ToolsCall
  <2>2. QED
    BY <1>1, <1>2, <2>1
<1>3. CASE AgentHeaders(r)
  <2>1. Ready(req[r])
    BY <1>3, HandlingIsReady DEF AgentHeaders, Holding
  <2>2. QED
    BY <1>3, <2>1, Endings DEF AgentHeaders, Moves, Unchanged
<1>4. CASE AgentBody(r)
  <2>1. Ready(req[r])
    BY <1>4, HandlingIsReady DEF AgentBody, Holding
  <2>2. \A S : Rested(Continued(Noting(req[r], S)))
    BY <2>1, ReadyNotes, Endings
  <2>3. QED
    BY <1>4, <2>1, <2>2, Endings DEF AgentBody, Moves, Unchanged
<1>5. CASE AgentAnswered(r)
  <2>1. Ready(req[r])
    BY <1>5, HandlingIsReady DEF AgentAnswered, Holding
  <2>2. QED
    BY <1>1, <1>2, <1>5, <2>1 DEF AgentAnswered, Moves, Unchanged
<1>6. CASE ToolsCallResult(r)
  <2>1. Ready(Back(r, "tool"))
    BY <1>6, CalledIsReady DEF ToolsCallResult, OneAtATime
  <2>2. QED
    BY <1>1, <1>6, <2>1 DEF ToolsCallResult, Moves, Unchanged
<1>7. CASE AgentThinks(r)
  <2>1. Ready(Back(r, "llm"))
    BY <1>7, CalledIsReady DEF AgentThinks, OneAtATime
  <2>2. QED
    BY <1>1, <1>2, <1>7, <2>1 DEF AgentThinks, Moves, Unchanged
<1>8. CASE JsonFormat(r)
  <2>1. Ready(Back(r, "format"))
    BY <1>8, CalledIsReady DEF JsonFormat, OneAtATime
  <2>2. QED
    BY <1>1, <1>8, <2>1 DEF JsonFormat, Moves, Unchanged
<1>9. QED
  BY <1>3, <1>4, <1>5, <1>6, <1>7, <1>8

\* What the plugins that ask one service at a time end with.
LEMMA AskRests ==
    ASSUME NEW q, Ready(q)
    PROVE  /\ Rested(Bodyless(q)) /\ Rested(Dead(q)) /\ Rested(Unheeded(q))
           /\ Rested(Continued(q)) /\ Rested(Continued(Unread(q))) /\ Rested(Resumed(Paused(q)))
           /\ Rested(Resumed(q)) /\ Rested(Replied(q)) /\ Rested(PassedOn(q))
           /\ q.stage = "headers" => Rested(Postponed(q))
           /\ \A c : Rested(Awaiting(q, c)) /\ Rested(Awaiting(Unread(q), c))
           /\ \A S : Rested(Continued(Noting(q, S)))
BY Endings, ReadyGoesOn, ReadyNotes DEF Bodyless, Dead, Unheeded

LEMMA AskMoves ==
    ASSUME NEW r, NEW q, NEW c, Ready(q), Ask(r, q, c)
    PROVE  \E p : Rested(p) /\ Step(r, p)
BY AskRests DEF Ask

\* The plugins that ask one service after another.
LEMMA ChainMoves ==
    ASSUME AllRested, NEW r \in Request,
           \/ ReadsJson(r)
           \/ IntentHeaders(r) \/ IntentBody(r) \/ IntentReturns(r)
           \/ TransformerHeaders(r) \/ TransformerBody(r) \/ TransformerAnswered(r) \/ TransformerReturns(r)
           \/ ChatgptHeaders(r) \/ ChatgptReturns(r) \/ HttpCallHeaders(r) \/ HttpCallReturns(r)
           \/ RagHeaders(r) \/ RagBody(r) \/ RagEmbedded(r) \/ RagRecalled(r)
           \/ JsonHeaders(r) \/ JsonBody(r) \/ JsonReturns(r)
    PROVE  Moves(r)
<1>1. ASSUME Handling(r, "headers") PROVE Ready(req[r]) /\ req[r].stage = "headers"
  BY <1>1, HandlingIsReady DEF Holding, Handling
<1>2. ASSUME Handling(r, "body") PROVE Ready(req[r])
  BY <1>2, HandlingIsReady DEF Holding
<1>3. ASSUME Handling(r, "answering") PROVE Ready(req[r])
  BY <1>3, HandlingIsReady DEF Holding
<1>4. ASSUME NEW c \in {"llm", "check", "embed", "query"}, Called(r, c) PROVE Ready(Back(r, c))
  BY <1>4, CalledIsReady DEF OneAtATime
<1>5. CASE ReadsJson(r)
  BY <1>1, <1>5, AskRests DEF ReadsJson, Moves, Unchanged
<1>6. CASE IntentHeaders(r)
  BY <1>1, <1>6, AskRests DEF IntentHeaders, Moves, Unchanged
<1>7. CASE IntentBody(r)
  BY <1>2, <1>7, AskRests DEF IntentBody, Moves, Unchanged
<1>8. CASE IntentReturns(r)
  BY <1>4, <1>8, AskRests DEF IntentReturns, Moves, Unchanged
<1>9. CASE TransformerHeaders(r)
  BY <1>1, <1>9, AskRests DEF TransformerHeaders, Moves, Unchanged
<1>10. CASE TransformerBody(r)
  BY <1>2, <1>10, AskRests, AskMoves DEF TransformerBody, Moves, Unchanged
<1>11. CASE TransformerAnswered(r)
  BY <1>3, <1>11, AskRests, AskMoves DEF TransformerAnswered, Moves, Unchanged
<1>12. CASE TransformerReturns(r)
  <2>1. Ready(Back(r, "llm"))
    BY <1>4, <1>12 DEF TransformerReturns
  <2>2. /\ Rested(PassedOn(Back(r, "llm"))) /\ Rested(Resumed(Back(r, "llm")))
        /\ Rested(Dead(Back(r, "llm")))
    BY <2>1, AskRests
  <2>3. QED
    BY <1>12, <2>2 DEF TransformerReturns, Moves, Unchanged
<1>13. CASE ChatgptHeaders(r)
  BY <1>1, <1>13, AskRests DEF ChatgptHeaders, Moves, Unchanged
<1>14. CASE ChatgptReturns(r)
  BY <1>4, <1>14, AskRests DEF ChatgptReturns, Moves, Unchanged
<1>15. CASE HttpCallHeaders(r)
  BY <1>1, <1>15, ReadyNotes, AskMoves DEF HttpCallHeaders, Moves, Unchanged
<1>16. CASE HttpCallReturns(r)
  BY <1>4, <1>16, AskRests DEF HttpCallReturns, Moves, Unchanged
<1>17. CASE RagHeaders(r)
  BY <1>1, <1>17, AskRests DEF RagHeaders, Moves, Unchanged
<1>18. CASE RagBody(r)
  BY <1>2, <1>18, AskRests, AskMoves DEF RagBody, Moves, Unchanged
<1>19. CASE RagEmbedded(r)
  BY <1>4, <1>19, AskRests, AskMoves DEF RagEmbedded, Moves, Unchanged
<1>20. CASE RagRecalled(r)
  BY <1>4, <1>20, AskRests DEF RagRecalled, Moves, Unchanged
<1>21. CASE JsonHeaders(r)
  BY <1>1, <1>21, AskRests DEF JsonHeaders, Moves, Unchanged
<1>22. CASE JsonBody(r)
  BY <1>2, <1>22, AskRests, AskMoves DEF JsonBody, Moves, Unchanged
<1>23. CASE JsonReturns(r)
  BY <1>4, <1>23, AskRests, AskMoves DEF JsonReturns, RecursiveRefineJson, Moves, Unchanged
<1>24. QED
  BY <1>5, <1>6, <1>7, <1>8, <1>9, <1>10, <1>11, <1>12, <1>13, <1>14, <1>15, <1>16, <1>17,
     <1>18, <1>19, <1>20, <1>21, <1>22, <1>23

-----------------------------------------------------------------------------
(* Calls at one time: those that came back and those that did not are all that were made. *)

Waiting(q) == {c \in Part : q.calls[c] # None}

Gathering ==
    /\ progress \in [Request -> [searching : Nat, finished : Nat, round : Nat]]
    /\ \A r \in Request :
          Waiting(req[r]) # {} /\ req[r].stage # "gone" =>
              progress[r].finished + Cardinality(Waiting(req[r])) = progress[r].searching

\* A step that keeps the count of the calls of request r.
Counts(r) ==
    /\ Moves(r)
    /\ progress' \in [Request -> [searching : Nat, finished : Nat, round : Nat]]
    /\ \A s \in Request : s # r => progress'[s] = progress[s]
    /\ \/ Waiting(req'[r]) = {}
       \/ req'[r].stage = "gone"
       \/ progress'[r].finished + Cardinality(Waiting(req'[r])) = progress'[r].searching

LEMMA CountsKeep ==
    ASSUME AllRested, Gathering, NEW r \in Request, Counts(r)
    PROVE  AllRested' /\ Gathering' /\ conf' = conf
<1>1. AllRested' /\ conf' = conf
  BY MovesKeep DEF Counts
<1>2. \A s \in Request : s # r => req'[s] = req[s]
  BY DEF Counts, Moves, Step, AllRested
<1>3. ASSUME NEW s \in Request, Waiting(req'[s]) # {}, req'[s].stage # "gone"
      PROVE  progress'[s].finished + Cardinality(Waiting(req'[s])) = progress'[s].searching
  <2>1. CASE s = r
    BY <1>3, <2>1 DEF Counts
  <2>2. CASE s # r
    BY <1>2, <1>3, <2>2 DEF Counts, Gathering
  <2>3. QED
    BY <2>1, <2>2
<1>4. Gathering'
  BY <1>3 DEF Gathering, Counts, Waiting
<1>5. QED
  BY <1>1, <1>4

\* What waits for nothing waits for no part.
LEMMA IdleWaitsForNoPart == \A q : Idle(q) => Waiting(q) = {}
BY PartAssumption DEF Idle, Waiting

LEMMA FanOutCounts ==
    ASSUME AllRested, Gathering, NEW r \in Request, NEW q, Ready(q), FanOut(r, q), conf' = conf
    PROVE  Counts(r)
<1>1. PICK S \in SUBSET Part :
        /\ Step(r, IF S = {} THEN Continued(q)
                   ELSE Paused(Sending(q, S)))
        /\ progress' = [progress EXCEPT ![r].searching = Cardinality(S), ![r].finished = 0]
  BY Zenon DEF FanOut
<1>2. IsFiniteSet(S) /\ Cardinality(S) \in Nat
  BY FS_Subset, FS_CardinalityType, WasmAssumption
<1> DEFINE p == Sending(q, S)
           n == Cardinality(S)
<1>3. /\ progress' \in [Request -> [searching : Nat, finished : Nat, round : Nat]]
      /\ \A s \in Request : s # r => progress'[s] = progress[s]
      /\ progress'[r].searching = n /\ progress'[r].finished = 0
  <2>1. n \in Nat /\ progress' = [progress EXCEPT ![r].searching = n, ![r].finished = 0]
    BY <1>1, <1>2
  <2> HIDE DEF n
  <2>2. progress' = [progress EXCEPT ![r] = [progress[r] EXCEPT !.searching = n, !.finished = 0]]
    BY <2>1 DEF Gathering
  <2>3. progress[r] \in [searching : Nat, finished : Nat, round : Nat]
    BY DEF Gathering
  <2> DEFINE w == [progress[r] EXCEPT !.searching = n, !.finished = 0]
  <2>4. w \in [searching : Nat, finished : Nat, round : Nat] /\ w.searching = n /\ w.finished = 0
    BY <2>1, <2>3
  <2> HIDE DEF w
  <2>5. progress' = [progress EXCEPT ![r] = w]
    BY <2>2 DEF w
  <2>6. QED
    BY <2>4, <2>5 DEF Gathering
<1>4. Quiet(Continued(q))
  BY ReadyGoesOn
<1>5. Formed(q) /\ Sound(q) /\ Idle(q) /\ q.stage \in Holding
  BY DEF Ready
<1>6. /\ Formed(p) /\ Unmoved(q, p)
      /\ p.calls = [c \in CallName |-> IF c \in S THEN Sent ELSE q.calls[c]]
  BY <1>5 DEF Formed, Unmoved, Sending
<1>7. /\ \A c \in CallName : p.calls[c] # None => c \in S
      /\ \A c \in S : p.calls[c] # None
  BY <1>5, <1>6, OpaqueAssumption, PartAssumption DEF Idle
<1> HIDE DEF p
<1>8. /\ Formed(Paused(p)) /\ Kept(p, Paused(p)) /\ Paused(p).held /\ Paused(p).stage = q.stage
      /\ Paused(p).answers = q.answers /\ Paused(p).local = q.local
  BY <1>5, <1>6, PausedFields DEF Unmoved, Holding
<1>9. Waiting(Paused(p)) = S
  BY <1>7, <1>8, PartAssumption DEF Waiting, Kept
<1>10. Rested(Paused(p))
  BY <1>5, <1>7, <1>8 DEF Rested, Sound, Kept, Holding
<1>11. CASE S = {}
  <2>1. req'[r] = Continued(q)
    BY <1>1, <1>11 DEF Step, AllRested
  <2>2. Waiting(req'[r]) = {}
    BY <2>1, <1>4, IdleWaitsForNoPart DEF Quiet
  <2>3. QED
    BY <1>1, <1>3, <1>4, <1>11, <2>2, QuietIsRested DEF Counts, Moves
<1>12. CASE S # {}
  <2>1. Step(r, Paused(p))
    BY <1>1, <1>12 DEF p
  <2>2. req'[r] = Paused(p)
    BY <2>1 DEF Step, AllRested
  <2>3. progress'[r].finished + Cardinality(Waiting(req'[r])) = progress'[r].searching
    BY <1>2, <1>3, <1>9, <2>2
  <2>4. QED
    BY <1>3, <1>10, <2>1, <2>3 DEF Counts, Moves
<1>13. QED
  BY <1>11, <1>12

LEMMA PartReturnsCounts ==
    ASSUME AllRested, Gathering, NEW r \in Request, PartReturns(r)
    PROVE  Counts(r)
<1>1. PICK c \in Part :
        /\ Called(r, c)
        /\ LET p == [progress[r] EXCEPT !.finished = @ + 1]
           IN /\ progress' = [progress EXCEPT ![r] = p]
              /\ Step(r, IF Gathered(p) THEN Resumed(Back(r, c)) ELSE Back(r, c))
        /\ conf' = conf
  BY Zenon DEF PartReturns, Unchanged
<1> DEFINE q == req[r]
           b == Back(r, c)
           n == progress[r].finished + 1
           p == [progress[r] EXCEPT !.finished = n]
<1>2. n \in Nat /\ progress[r] \in [searching : Nat, finished : Nat, round : Nat] /\ n = progress[r].finished + 1
  BY DEF Gathering
<1>3. progress' = [progress EXCEPT ![r] = p] /\ Step(r, IF Gathered(p) THEN Resumed(b) ELSE b)
  BY <1>1
<1> HIDE DEF n
<1>4. p \in [searching : Nat, finished : Nat, round : Nat] /\ p.finished = n /\ p.searching = progress[r].searching
  BY <1>2
<1> HIDE DEF p
<1>5. /\ progress' \in [Request -> [searching : Nat, finished : Nat, round : Nat]]
      /\ \A s \in Request : s # r => progress'[s] = progress[s]
      /\ progress'[r] = p
  BY <1>3, <1>4 DEF Gathering
<1>6. Formed(q) /\ Sound(q) /\ c \in CallName /\ q.calls[c] # None /\ q.stage # "gone"
  BY <1>1, PartAssumption DEF AllRested, Rested, Called
<1>7. q.held /\ q.stage \in Holding
  BY <1>6 DEF Sound, Idle
<1>8. \A d \in CallName : q.calls[d] # None => d \in Part
  BY <1>1, <1>6 DEF Sound
<1>9. Formed(b) /\ Unmoved(q, b) /\ b.calls = [q.calls EXCEPT ![c] = None]
  BY <1>6, BackFields
<1> HIDE DEF b, q
<1>10. Rested(b) /\ b.held /\ b.stage \in Holding
  <2>1. \A d \in CallName : b.calls[d] # None => d \in Part
    BY <1>6, <1>8, <1>9 DEF Formed
  <2>2. QED
    BY <1>6, <1>7, <1>9, <2>1 DEF Rested, Sound, Unmoved, Holding
<1>11. /\ IsFiniteSet(Waiting(q)) /\ c \in Waiting(q) /\ Waiting(b) = Waiting(q) \ {c}
  <2>1. Waiting(q) \subseteq Part /\ c \in Waiting(q)
    BY <1>1, <1>6 DEF Waiting
  <2>2. Waiting(b) = Waiting(q) \ {c}
    BY <1>6, <1>9, PartAssumption DEF Waiting, Formed
  <2>3. QED
    BY <2>1, <2>2, FS_Subset, WasmAssumption
<1>12. /\ Cardinality(Waiting(q)) \in Nat /\ Cardinality(Waiting(b)) \in Nat
       /\ Cardinality(Waiting(b)) = Cardinality(Waiting(q)) - 1
  BY <1>11, FS_RemoveElement, FS_CardinalityType
<1>13. progress[r].finished + Cardinality(Waiting(q)) = progress[r].searching
  BY <1>6, <1>11 DEF Gathering, q
<1>14. p.finished + Cardinality(Waiting(b)) = p.searching
  BY <1>2, <1>4, <1>12, <1>13
<1>15. CASE Gathered(p)
  <2>1. Cardinality(Waiting(b)) = 0
    BY <1>12, <1>14, <1>15, <1>4, <1>2 DEF Gathered
  <2>2. Waiting(b) = {}
    BY <1>11, <2>1, FS_EmptySet, FS_RemoveElement
  <2>3. Idle(b)
    <3>1. \A d \in CallName : d \notin Part => b.calls[d] = None
      BY <1>6, <1>8, <1>9 DEF Formed
    <3>2. QED
      BY <2>2, <3>1 DEF Idle, Waiting
  <2>4. Ready(b)
    BY <1>9, <1>10, <2>3 DEF Ready, Rested
  <2>5. Quiet(Resumed(b))
    BY <2>4, ReadyGoesOn
  <2>6. Step(r, Resumed(b))
    BY <1>3, <1>15
  <2>7. req'[r] = Resumed(b)
    BY <2>6 DEF Step, AllRested
  <2>8. Waiting(req'[r]) = {}
    BY <2>5, <2>7, IdleWaitsForNoPart DEF Quiet
  <2>9. QED
    BY <1>1, <1>5, <2>5, <2>6, <2>8, QuietIsRested DEF Counts, Moves
<1>16. CASE ~ Gathered(p)
  <2>1. Step(r, b)
    BY <1>3, <1>16
  <2>2. req'[r] = b
    BY <2>1 DEF Step, AllRested
  <2>3. QED
    BY <1>1, <1>5, <1>10, <1>14, <2>1, <2>2 DEF Counts, Moves
<1>17. QED
  BY <1>15, <1>16

\* Where a step sends no part and counts nothing, the request waits for no part after it.
LEMMA OtherStepsCount ==
    ASSUME AllRested, Gathering, NEW r \in Request, UNCHANGED progress, Moves(r),
           \/ Waiting(req'[r]) = {}
           \/ req'[r].stage = "gone"
           \/ Waiting(req'[r]) = Waiting(req[r]) /\ req[r].stage # "gone"
    PROVE  Counts(r)
BY DEF Counts, Gathering

-----------------------------------------------------------------------------
(* Every step of the gateway leaves every request in order. *)

\* The plugins that wait for several calls at one time.
Searching == conf.plugin \in {"ai-search", "ai-image-reader"}

LEMMA HandlersMove ==
    ASSUME AllRested, ~ LooksUpMeanwhile, ~ Searching, NEW r \in Request, Handlers(r)
    PROVE  Moves(r)
<1>1. CASE \/ ExtAuthHeaders(r) \/ ExtAuthBody(r) \/ OpaHeaders(r) \/ OpaBody(r)
           \/ ValidationHeaders(r) \/ ValidationBody(r) \/ ReplayHeaders(r) \/ ConsumerNext(r)
  BY <1>1, ExtAuthMoves, OpaMoves, ValidationMoves, ReplayMoves, ConsumerMoves
<1>2. CASE \/ LimitHeaders(r) \/ TokensCharged(r) \/ QuotaHeaders(r) \/ QuotaBody(r) \/ QuotaCharged(r)
  BY <1>2, LimitMoves, QuotaMoves
<1>3. CASE AiCacheHeaders(r) \/ AiCacheBody(r) \/ AiCacheAnswered(r) \/ AiCacheEnds(r)
  BY <1>3, AiCacheMoves
<1>4. CASE /\ Is("response-cache")
           /\ \/ ResponseCacheHeaders(r) \/ ResponseCacheBody(r) \/ ResponseCacheAnswered(r)
              \/ ResponseCacheEnds(r)
  BY <1>4, ResponseCacheMoves DEF LooksUpMeanwhile, Is
<1>5. CASE AiProxyHeaders(r) \/ AiProxyBody(r) \/ AiProxyAnswered(r)
  BY <1>5, AiProxyMoves
<1>6. CASE ChainHandlers(r)
  BY <1>6, ChainMoves DEF ChainHandlers, Searching
<1>7. CASE ConversationHandlers(r)
  BY <1>7, HistoryMoves, AgentMoves DEF ConversationHandlers
<1>8. CASE GuardHeaders(r) \/ GuardBody(r) \/ GuardAnswered(r)
  BY <1>8, GuardMoves
<1>9. QED
  BY <1>1, <1>2, <1>3, <1>4, <1>5, <1>6, <1>7, <1>8 DEF Handlers

LEMMA CallbacksMove ==
    ASSUME AllRested, ~ LooksUpMeanwhile, ~ Searching, NEW r \in Request, Callbacks(r)
    PROVE  Moves(r)
<1>1. CASE ExtAuthReturns(r) \/ RspCall(r) \/ ReplayReturns(r)
  BY <1>1, ExtAuthMoves, OpaMoves, ReplayMoves
<1>2. CASE LimitReturns(r) \/ QuotaReturns(r) \/ QuotaAdminReturns(r)
  BY <1>2, LimitMoves, QuotaMoves
<1>3. CASE AiCacheLookedUp(r) \/ EmbeddingReturns(r) \/ HandleQueryResults(r) \/ AiCacheOtherLookedUp(r)
  BY <1>3, AiCacheMoves
<1>4. CASE Is("response-cache") /\ ResponseCacheLookedUp(r)
  BY <1>4, ResponseCacheMoves DEF LooksUpMeanwhile, Is
<1>5. CASE ContextReturns(r) \/ RetryCall(r)
  BY <1>5, AiProxyMoves
<1>6. CASE ChainReturns(r)
  BY <1>6, ChainMoves DEF ChainReturns, Searching
<1>7. CASE ConversationReturns(r)
  BY <1>7, HistoryMoves, AgentMoves DEF ConversationReturns
<1>8. CASE TextChecked(r) \/ ImageChecked(r)
  BY <1>8, GuardMoves
<1>9. QED
  BY <1>1, <1>2, <1>3, <1>4, <1>5, <1>6, <1>7, <1>8 DEF Callbacks

\* The calls that Redis or the database answers.
LEMMA AnsweredCallsAre ==
    ASSUME NEW c \in AnsweredCalls
    PROVE  c \in {"check", "admin", "lookup", "other", "query"} /\ ~ Searching
BY DEF AnsweredCalls, Searching, Is

LEMMA OthersMove ==
    ASSUME AllRested, NEW r \in Request,
           Answers(r) \/ Fail(r) \/ Upstream(r) \/ Left(r)
    PROVE  Moves(r)
<1>1. CASE Answers(r)
  <2>1. CASE \/ SetNX(r) \/ FixedWindowScript(r) \/ RequestPhaseScript(r) \/ QuotaGet(r) \/ QuotaAdmin(r)
             \/ HistoryGet(r)
    BY <2>1, ReplayMoves, LimitMoves, QuotaMoves, HistoryMoves
  <2>2. CASE \/ RedisGet(r, "lookup", req[r].key) \/ QueryRuns(r)
             \/ \E k \in TextFound(req[r]) : RedisGet(r, "other", k)
    BY <2>2, CacheExecutes DEF TextFound
  <2>3. QED
    BY <1>1, <2>1, <2>2 DEF Answers
<1>2. CASE Fail(r)
  <2>1. PICK c \in AnsweredCalls : CallFails(r, c)
    BY <1>2 DEF Fail
  <2>2. c \in CallName
    BY AnsweredCallsAre, WasmAssumption DEF OneAtATime
  <2>3. req[r].calls[c] # None /\ conf' = conf /\ Step(r, [req[r] EXCEPT !.calls[c] = Failed])
    BY <2>1 DEF CallFails
  <2>4. QED
    BY <2>2, <2>3, ExecutedMoves
<1>3. CASE Upstream(r)
  <2>1. CASE UpstreamAnswers(r)
    <3> DEFINE p == [req[r] EXCEPT !.stage = "answering"]
    <3>1. Formed(req[r]) /\ Sound(req[r]) /\ req[r].stage = "upstream"
      BY <2>1 DEF AllRested, Rested, UpstreamAnswers
    <3>2. /\ Formed(p) /\ Kept(req[r], p) /\ p.stage = "answering" /\ p.answers = req[r].answers
      BY <3>1 DEF Formed, Kept, Stage
    <3>3. p.local = req[r].local /\ p.held = req[r].held
      BY <3>1 DEF Formed
    <3>4. Step(r, p) /\ conf' = conf
      BY <2>1 DEF UpstreamAnswers
    <3> HIDE DEF p
    <3>5. Rested(p)
      BY <3>1, <3>2, <3>3 DEF Rested, Sound, Idle, Kept, Holding
    <3>6. QED
      BY <3>4, <3>5 DEF Moves
  <2>2. CASE Relay(r)
    BY <2>2, ResponseMoves DEF Relay
  <2>3. CASE Handling(r, "answering") /\ Step(r, AnswerPasses(req[r])) /\ conf' = conf
    BY <2>3, ResponseMoves
  <2>4. QED
    BY <1>3, <2>1, <2>2, <2>3 DEF Upstream
<1>4. CASE Left(r)
  <2> DEFINE p == Gone(req[r])
  <2>1. Formed(req[r]) /\ Sound(req[r])
    BY DEF AllRested, Rested
  <2>2. Formed(p) /\ Kept(req[r], p) /\ p.stage = "gone" /\ ~ p.held /\ p.answers = req[r].answers
    BY <2>1, LeftFields
  <2>3. Step(r, p) /\ conf' = conf
    BY <1>4 DEF Left, Leave, Gone
  <2> HIDE DEF p
  <2>4. Rested(p)
    BY <2>1, <2>2 DEF Rested, Sound, Idle, Kept, Holding
  <2>5. QED
    BY <2>3, <2>4 DEF Moves
<1>5. QED
  BY <1>1, <1>2, <1>3, <1>4

LEMMA BackgroundMovesNothing ==
    ASSUME Background
    PROVE  UNCHANGED <<conf, req>> /\ ~ Searching
BY DEF Background, ChargeRuns, SpendRuns, WindowEnds, SetRuns, UploadRuns, CacheExpires, HistorySet,
       HistoryExpires, Searching, Limits, Caches, Is

LEMMA SearchCounts ==
    ASSUME AllRested, Gathering, Searching, NEW r \in Request,
           Handlers(r) \/ Callbacks(r) \/ Answers(r) \/ Fail(r) \/ Upstream(r) \/ Left(r)
    PROVE  Counts(r)
<1>1. ASSUME NEW p, Rested(p), Step(r, p), conf' = conf, UNCHANGED progress,
             \/ Idle(p) \/ p.stage = "gone"
             \/ p.calls = [req[r].calls EXCEPT !["llm"] = Sent] /\ Idle(req[r])
             \/ p.calls = req[r].calls /\ req[r].stage # "gone"
      PROVE  Counts(r)
  <2>1. req'[r] = p /\ Moves(r)
    BY <1>1 DEF Step, AllRested, Moves
  <2>2. CASE Idle(p)
    BY <1>1, <2>1, <2>2, IdleWaitsForNoPart, OtherStepsCount
  <2>3. CASE p.stage = "gone"
    BY <1>1, <2>1, <2>3, OtherStepsCount
  <2>4. CASE p.calls = [req[r].calls EXCEPT !["llm"] = Sent] /\ Idle(req[r])
    <3>1. "llm" \notin Part
      BY WasmAssumption DEF OneAtATime
    <3>2. Formed(req[r])
      BY DEF AllRested, Rested
    <3>3. Waiting(p) = {}
      BY <2>4, <3>1, <3>2, PartAssumption DEF Waiting, Idle, Formed
    <3>4. QED
      BY <1>1, <2>1, <3>3, OtherStepsCount
  <2>5. CASE p.calls = req[r].calls /\ req[r].stage # "gone"
    <3>1. Waiting(p) = Waiting(req[r])
      BY <2>5 DEF Waiting
    <3>2. QED
      BY <1>1, <2>1, <2>5, <3>1, OtherStepsCount
  <2>6. QED
    BY <1>1, <2>2, <2>3, <2>4, <2>5
<1>2. CASE Handlers(r)
  <2>1. /\ ReadsJson(r) \/ SearchBody(r) \/ ImageBody(r)
    BY <1>2 DEF Handlers, ChainHandlers, Searching, Is, Access, Consumers, Limits, Caches, Conversing
  <2>2. CASE ReadsJson(r)
    <3>1. Ready(req[r])
      BY <2>2, HandlingIsReady DEF ReadsJson, Holding
    <3>2. Quiet(Continued(req[r])) /\ Quiet(Continued(Unread(req[r])))
      BY <3>1, ReadyNotes, ReadyGoesOn
    <3>3. QED
      BY <1>1, <2>2, <3>2, QuietIsRested DEF ReadsJson, Unchanged, Quiet
  <2>3. CASE SearchBody(r)
    <3>1. Ready(req[r])
      BY <2>3, HandlingIsReady DEF SearchBody, Holding
    <3>2. CASE FanOut(r, req[r])
      BY <2>3, <3>1, <3>2, FanOutCounts DEF SearchBody, Unchanged
    <3>3. CASE Step(r, Continued(req[r])) /\ UNCHANGED progress
      BY <1>1, <2>3, <3>1, <3>3, ReadyGoesOn, QuietIsRested DEF SearchBody, Unchanged, Quiet
    <3>4. CASE Step(r, Awaiting(req[r], "llm")) /\ UNCHANGED progress
      BY <1>1, <2>3, <3>1, <3>4, Endings, AwaitingFields DEF SearchBody, Unchanged, Ready
    <3>5. QED
      BY <2>3, <3>2, <3>3, <3>4 DEF SearchBody
  <2>4. CASE ImageBody(r)
    BY <2>4, HandlingIsReady, FanOutCounts DEF ImageBody, Holding, Unchanged
  <2>5. QED
    BY <2>1, <2>2, <2>3, <2>4
<1>3. CASE Callbacks(r)
  <2>1. PartReturns(r) \/ RewriteReturns(r)
    BY <1>3 DEF Callbacks, ChainReturns, Searching, Is, Access, Limits, Caches, Conversing
  <2>2. CASE RewriteReturns(r)
    <3>1. Ready(Back(r, "llm"))
      BY <2>2, CalledIsReady DEF RewriteReturns, OneAtATime
    <3>2. CASE FanOut(r, Back(r, "llm"))
      BY <2>2, <3>1, <3>2, FanOutCounts DEF RewriteReturns, Unchanged
    <3>3. CASE Step(r, Resumed(Back(r, "llm"))) /\ UNCHANGED progress
      BY <1>1, <2>2, <3>1, <3>3, ReadyGoesOn, QuietIsRested DEF RewriteReturns, Unchanged, Quiet
    <3>4. QED
      BY <2>2, <3>2, <3>3 DEF RewriteReturns
  <2>3. QED
    BY <2>1, <2>2, PartReturnsCounts
<1>4. CASE Answers(r)
  BY <1>4 DEF Answers, Searching, Is, Limits, Caches
<1>5. CASE Fail(r)
  BY <1>5, AnsweredCallsAre DEF Fail
<1>6. CASE Upstream(r)
  <2>1. UNCHANGED progress
    BY <1>6 DEF Upstream, restVars
  <2>2. Moves(r)
    BY <1>6, OthersMove
  <2>3. PICK p : Rested(p) /\ Step(r, p)
    BY <2>2 DEF Moves
  <2>4. Formed(req[r])
    BY DEF AllRested, Rested
  <2>5. CASE UpstreamAnswers(r)
    <3>1. req'[r] = [req[r] EXCEPT !.stage = "answering"] /\ req[r].stage = "upstream"
      BY <2>5 DEF UpstreamAnswers, Step, AllRested
    <3>2. req'[r] = p
      BY <2>3 DEF Step, AllRested
    <3>3. p.calls = req[r].calls
      BY <2>4, <3>1, <3>2 DEF Formed
    <3>4. QED
      BY <1>1, <2>1, <2>2, <2>3, <3>1, <3>3 DEF Moves
  <2>6. CASE Relay(r)
    <3>1. Ready(req[r])
      BY <2>6, HandlingIsReady DEF Relay, Holding
    <3>2. QED
      BY <1>1, <2>1, <2>6, <3>1, ReadyGoesOn, QuietIsRested DEF Relay, Quiet
  <2>7. QED
    BY <1>6, <2>5, <2>6 DEF Upstream, Searching
<1>7. CASE Left(r)
  <2>1. Moves(r) /\ UNCHANGED progress
    BY <1>7, OthersMove DEF Left, restVars
  <2>2. PICK p : Rested(p) /\ Step(r, p)
    BY <2>1 DEF Moves
  <2>3. req'[r] = Gone(req[r])
    BY <1>7 DEF Left, Leave, Step, AllRested, Gone
  <2>4. req'[r].stage = "gone"
    BY <2>3, LeftFields DEF AllRested, Rested
  <2>5. req'[r] = p
    BY <2>2 DEF Step, AllRested
  <2>6. QED
    BY <1>1, <2>1, <2>2, <2>4, <2>5 DEF Moves
<1>8. QED
  BY <1>2, <1>3, <1>4, <1>5, <1>6, <1>7

-----------------------------------------------------------------------------
(* The inductive invariant, and the answers *)

HostInv == LooksUpMeanwhile \/ (AllRested /\ (Searching => Gathering))

LEMMA ArrivingFields ==
    ASSUME NEW k \in Key, NEW q \in Arrivals(k)
    PROVE  /\ Quiet(q) /\ q.key = k /\ q.ctx = {} /\ q.facts = {} /\ q.stage \in {"headers", "gone"}
           /\ ~ q.held /\ ~ q.local
<1> DEFINE f == Arriving(k, FALSE)
           t == Arriving(k, TRUE)
           g == [f EXCEPT !.stage = "gone"]
<1>1. /\ Formed(f) /\ Idle(f) /\ f.key = k /\ f.ctx = {} /\ f.facts = {} /\ f.stage = "headers"
      /\ f.answers = 0 /\ ~ f.local /\ ~ f.held
  BY DEF Arriving, Formed, Idle, Stage
<1>2. /\ Formed(t) /\ Idle(t) /\ t.key = k /\ t.ctx = {} /\ t.facts = {} /\ t.stage = "headers"
      /\ t.answers = 0 /\ ~ t.local /\ ~ t.held
  BY DEF Arriving, Formed, Idle, Stage
<1> HIDE DEF f, t
<1>3. Formed(g) /\ Kept(f, g) /\ g.stage = "gone" /\ g.answers = f.answers
  BY <1>1 DEF Formed, Kept, Stage
<1>4. ~ g.held
  BY <1>1 DEF Formed
<1>4a. ~ g.local
  BY <1>1 DEF Formed
<1>5. q = f \/ q = t \/ q = g
  BY DEF Arrivals, f, t
<1> HIDE DEF g
<1>6. CASE q = f
  BY <1>1, <1>6 DEF Quiet, Sound, Idle, Holding
<1>7. CASE q = t
  BY <1>2, <1>7 DEF Quiet, Sound, Idle, Holding
<1>8. CASE q = g
  BY <1>1, <1>3, <1>4, <1>4a, <1>8 DEF Quiet, Sound, Idle, Kept, Holding
<1>9. QED
  BY <1>5, <1>6, <1>7, <1>8

LEMMA InitialRequests ==
    ASSUME WasmInit
    PROVE  /\ req = [r \in Request |-> req[r]]
           /\ \A r \in Request : /\ Quiet(req[r]) /\ req[r].key \in Key /\ req[r].ctx = {}
                                 /\ req[r].facts = {} /\ req[r].stage \in {"headers", "gone"}
                                 /\ ~ req[r].held /\ ~ req[r].local
<1>1. req = [r \in Request |-> req[r]]
  BY DEF WasmInit
<1>2. ASSUME NEW r \in Request
      PROVE  /\ Quiet(req[r]) /\ req[r].key \in Key /\ req[r].ctx = {}
             /\ req[r].facts = {} /\ req[r].stage \in {"headers", "gone"} /\ ~ req[r].held
             /\ ~ req[r].local
  <2>1. PICK k \in Key : req[r] \in Arrivals(k)
    BY DEF WasmInit
  <2>2. QED
    BY <2>1, ArrivingFields
<1>3. QED
  BY <1>1, <1>2

LEMMA InitHost == WasmInit => HostInv
<1> SUFFICES ASSUME WasmInit PROVE HostInv
  OBVIOUS
<1>1. AllRested
  BY InitialRequests, QuietIsRested DEF AllRested
<1>2. Gathering
  <2>1. progress = [r \in Request |-> [searching |-> 0, finished |-> 0, round |-> 0]]
    BY DEF WasmInit, NoProgress
  <2>2. progress \in [Request -> [searching : Nat, finished : Nat, round : Nat]]
    BY <2>1
  <2>3. \A r \in Request : Waiting(req[r]) = {}
    BY InitialRequests, IdleWaitsForNoPart DEF Quiet
  <2>4. QED
    BY <2>2, <2>3 DEF Gathering
<1>3. QED
  BY <1>1, <1>2 DEF HostInv

LEMMA NextHost ==
    ASSUME AllRested, Searching => Gathering, ~ LooksUpMeanwhile, [WasmNext]_wasmVars
    PROVE  AllRested' /\ (Searching => Gathering)' /\ conf' = conf
<1>1. CASE UNCHANGED wasmVars
  BY <1>1 DEF wasmVars, hostVars, restVars, AllRested, Searching, Gathering, Waiting
<1>2. ASSUME NEW r \in Request,
             Handlers(r) \/ Callbacks(r) \/ Answers(r) \/ Fail(r) \/ Upstream(r) \/ Left(r)
      PROVE  AllRested' /\ (Searching => Gathering)' /\ conf' = conf
  <2>1. CASE Searching
    <3>1. Counts(r)
      BY <1>2, <2>1, SearchCounts
    <3>2. QED
      BY <2>1, <3>1, CountsKeep
  <2>2. CASE ~ Searching
    <3>1. Moves(r)
      BY <1>2, <2>2, HandlersMove, CallbacksMove, OthersMove
    <3>2. AllRested' /\ conf' = conf
      BY <3>1, MovesKeep
    <3>3. ~ Searching'
      BY <2>2, <3>2 DEF Searching
    <3>4. QED
      BY <3>2, <3>3
  <2>3. QED
    BY <2>1, <2>2
<1>3. CASE Background
  <2>1. UNCHANGED <<conf, req>> /\ ~ Searching
    BY <1>3, BackgroundMovesNothing
  <2>2. QED
    BY <2>1 DEF AllRested, Searching
<1>4. QED
  BY <1>1, <1>2, <1>3 DEF WasmNext

\* response-cache keeps its configuration as well.
LEMMA LookupKeepsConf ==
    ASSUME LooksUpMeanwhile, [WasmNext]_wasmVars
    PROVE  conf' = conf
<1>1. CASE UNCHANGED wasmVars
  BY <1>1 DEF wasmVars, hostVars
<1>2. ASSUME NEW r \in Request, Handlers(r)
      PROVE  conf' = conf
  <2>1. \/ ResponseCacheHeaders(r) \/ ResponseCacheBody(r) \/ ResponseCacheAnswered(r)
        \/ ResponseCacheEnds(r)
    BY <1>2 DEF Handlers, LooksUpMeanwhile, Is, Access, Consumers, Limits, Caches, Chains, ChainConf, Conversing
  <2>2. QED
    BY <2>1 DEF ResponseCacheHeaders, ResponseCacheBody, ResponseCacheAnswered, ResponseCacheEnds
<1>3. ASSUME NEW r \in Request, Callbacks(r)
      PROVE  conf' = conf
  <2>1. ResponseCacheLookedUp(r)
    BY <1>3 DEF Callbacks, LooksUpMeanwhile, Is, Access, Limits, Caches, Chains, ChainConf, Conversing
  <2>2. QED
    BY <2>1 DEF ResponseCacheLookedUp
<1>4. ASSUME NEW r \in Request, Answers(r)
      PROVE  conf' = conf
  BY <1>4 DEF Answers, LooksUpMeanwhile, Is, Limits, Caches, RedisGet
<1>5. ASSUME NEW r \in Request, Fail(r) \/ Upstream(r) \/ Left(r)
      PROVE  conf' = conf
  BY <1>5 DEF Fail, CallFails, Upstream, UpstreamAnswers, Relay, Left, Leave
<1>6. CASE Background
  BY <1>6, BackgroundMovesNothing
<1>7. QED
  BY <1>1, <1>2, <1>3, <1>4, <1>5, <1>6 DEF WasmNext

LEMMA StepHost == HostInv /\ [WasmNext]_wasmVars => HostInv' /\ conf' = conf
<1> SUFFICES ASSUME HostInv, [WasmNext]_wasmVars PROVE HostInv' /\ conf' = conf
  OBVIOUS
<1>1. CASE LooksUpMeanwhile
  BY <1>1, LookupKeepsConf DEF HostInv, LooksUpMeanwhile
<1>2. CASE ~ LooksUpMeanwhile
  BY <1>2, NextHost DEF HostInv
<1>3. QED
  BY <1>1, <1>2

\* A request is held only by a handler, and answered once at most; calls are under way only
\* for a request that is held or gone, one at a time but for the parts of a question.
THEOREM HostHolds == WasmSpec => []HostInv
<1>1. WasmInit => HostInv
  BY InitHost
<1>2. HostInv /\ [WasmNext]_wasmVars => HostInv'
  BY StepHost
<1>3. QED
  BY <1>1, <1>2, PTL DEF WasmSpec

\* However the handlers, the callbacks and the answers of the services are interleaved, a
\* request is given one answer, and when it goes upstream no call of it is under way.
THEOREM AnsweredOnceOnly == WasmSpec => []OneAnswer
<1>1. ASSUME AllRested PROVE AnsweredOnce /\ UpstreamWaitsForNothing
  <2>1. AnsweredOnce
    BY <1>1 DEF AnsweredOnce, AllRested, Rested, Sound
  <2>2. UpstreamWaitsForNothing
    BY <1>1 DEF UpstreamWaitsForNothing, AllRested, Rested, Sound, Idle, Holding
  <2>3. QED
    BY <2>1, <2>2
<1>2. HostInv => OneAnswer
  BY <1>1 DEF HostInv, OneAnswer
<1>3. QED
  BY <1>2, HostHolds, PTL

-----------------------------------------------------------------------------
(* What the world around a plugin does to a request *)

World(r) ==
    /\ \/ UpstreamAnswers(r) \/ Relay(r) \/ Leave(r)
       \/ Handling(r, "answering") /\ Step(r, AnswerPasses(req[r])) /\ UNCHANGED <<conf, store, posted>>

LEMMA StepIs ==
    ASSUME AllFormed, NEW r \in Request, NEW q, Step(r, q)
    PROVE  req'[r] = q /\ \A s \in Request : s # r => req'[s] = req[s]
BY DEF Step, AllFormed

LEMMA RestedIsFormed == AllRested => AllFormed
BY DEF AllRested, AllFormed, Rested

LEMMA WorldFields ==
    ASSUME AllFormed, NEW r \in Request, World(r)
    PROVE  /\ UNCHANGED <<conf, store, posted>>
           /\ \A s \in Request : s # r => req'[s] = req[s]
           /\ Kept(req[r], req'[r]) /\ req'[r].local = req[r].local
           /\ \/ req[r].stage = "upstream" /\ req'[r].stage = "answering" /\ req'[r].held = req[r].held
              \/ req[r].stage = "answering" /\ ~ req[r].held /\ req'[r].stage \in {"over", "response"}
              \/ req'[r].stage = "gone"
           /\ req[r].stage \notin {"over", "gone"}
<1>1. Formed(req[r])
  BY DEF AllFormed
<1>2. CASE UpstreamAnswers(r)
  <2> DEFINE q == req[r]  p == [q EXCEPT !.stage = "answering"]
  <2>1. Step(r, p) /\ q.stage = "upstream" /\ UNCHANGED <<conf, store, posted>>
    BY <1>2 DEF UpstreamAnswers
  <2> HIDE DEF q
  <2>2. Kept(q, p) /\ p.stage = "answering"
    BY <1>1 DEF Formed, Kept, q
  <2>3. p.held = q.held
    BY <1>1 DEF Formed, q
  <2>3a. p.local = q.local
    BY <1>1 DEF Formed, q
  <2> HIDE DEF p
  <2>4. req'[r] = p /\ \A s \in Request : s # r => req'[s] = req[s]
    BY <2>1, StepIs
  <2>5. QED
    BY <2>1, <2>2, <2>3, <2>3a, <2>4 DEF q
<1>3. CASE Relay(r)
  BY <1>1, <1>3, PassedOnFields, StepIs DEF Relay, Handling
<1>4. CASE Leave(r)
  <2> DEFINE p == Gone(req[r])
  <2>1. Step(r, p) /\ UNCHANGED <<conf, store, posted>> /\ req[r].stage \notin {"over", "gone"}
    BY <1>4 DEF Leave, Gone
  <2>2. Kept(req[r], p) /\ p.stage = "gone" /\ p.local = req[r].local
    BY <1>1, LeftFields
  <2> HIDE DEF p
  <2>3. QED
    BY <2>1, <2>2, StepIs
<1>5. CASE Handling(r, "answering") /\ Step(r, AnswerPasses(req[r])) /\ UNCHANGED <<conf, store, posted>>
  BY <1>1, <1>5, AnswerFields, StepIs DEF Handling
<1>6. QED
  BY <1>2, <1>3, <1>4, <1>5 DEF World

\* A call that fails, or that is answered.
LEMMA ExecutedFields ==
    ASSUME AllFormed, NEW r \in Request, NEW c, NEW v, Step(r, [req[r] EXCEPT !.calls[c] = v])
    PROVE  /\ \A s \in Request : s # r => req'[s] = req[s]
           /\ Unmoved(req[r], req'[r]) /\ req'[r].ctx = req[r].ctx /\ req'[r].facts = req[r].facts
           /\ req'[r].calls = [req[r].calls EXCEPT ![c] = v]
<1> DEFINE p == [req[r] EXCEPT !.calls[c] = v]
<1>1. Formed(req[r])
  BY DEF AllFormed
<1>2. /\ Unmoved(req[r], p) /\ p.ctx = req[r].ctx /\ p.facts = req[r].facts
      /\ p.calls = [req[r].calls EXCEPT ![c] = v]
  BY <1>1, CallFields
<1>3. Step(r, p)
  OBVIOUS
<1> HIDE DEF p
<1>4. QED
  BY <1>2, <1>3, StepIs

-----------------------------------------------------------------------------
(* replay-protection *)

Admitted == {"upstream", "answering", "response"}

ReplayInv ==
    /\ store = [k \in Key |-> store[k]]
    /\ \A r \in Request :
        LET q == req[r]
        IN /\ q.key \in Key
           /\ q.calls["check"] \in {None, Sent, Failed, "OK", "duplicate"}
           /\ q.calls["check"] = "OK" \/ "OK" \in q.facts => store[q.key] = r
           /\ q.stage \in Admitted => "OK" \in q.facts \/ Unchecked(q)

LEMMA ReplaySteps ==
    ASSUME Is("replay-protection"), WasmNext
    PROVE  \E r \in Request :
              ReplayHeaders(r) \/ ReplayReturns(r) \/ SetNX(r) \/ CallFails(r, "check") \/ World(r)
BY DEF WasmNext, Handlers, Callbacks, Answers, Fail, AnsweredCalls, Upstream, Left, Background, Is, Access,
       Consumers, Limits, Caches, Chains, ChainConf, Conversing, World

\* What may be said of a request, given what Redis holds under its key.
Fresh(q, r, held) ==
    /\ q.key \in Key
    /\ q.calls["check"] \in {None, Sent, Failed, "OK", "duplicate"}
    /\ q.calls["check"] = "OK" \/ "OK" \in q.facts => held = r
    /\ q.stage \in Admitted => "OK" \in q.facts \/ Unchecked(q)

LEMMA ReplayKept ==
    ASSUME AllRested, ReplayInv, NEW r \in Request,
           \A s \in Request : s # r => req'[s] = req[s],
           Fresh(req'[r], r, store'[req'[r].key]),
           \/ UNCHANGED store
           \/ store[req[r].key] = None /\ store' = [store EXCEPT ![req[r].key] = r]
    PROVE  ReplayInv'
<1>1. \A s \in Request : s # None
  BY WasmAssumption
<1>2. ASSUME NEW s \in Request, s # r
      PROVE  Fresh(req'[s], s, store'[req'[s].key])
  <2>1. Fresh(req[s], s, store[req[s].key]) /\ req'[s] = req[s]
    BY <1>2 DEF ReplayInv, Fresh
  <2>2. store'[req[s].key] = store[req[s].key] \/ store[req[s].key] = None
    BY <2>1 DEF ReplayInv, Fresh
  <2>3. QED
    BY <1>1, <2>1, <2>2 DEF Fresh
<1>3. store' = [k \in Key |-> store'[k]]
  BY DEF ReplayInv
<1>4. QED
  BY <1>2, <1>3 DEF ReplayInv, Fresh

LEMMA ReplayStep ==
    ASSUME AllRested, ReplayInv, Is("replay-protection"), [WasmNext]_wasmVars
    PROVE  ReplayInv'
<1> USE DEF Admitted
<1>1. CASE UNCHANGED wasmVars
  BY <1>1 DEF wasmVars, hostVars, ReplayInv, Unchecked
<1>2. CASE WasmNext
  <2>1. PICK r \in Request : ReplayHeaders(r) \/ ReplayReturns(r) \/ SetNX(r) \/ CallFails(r, "check") \/ World(r)
    BY <1>2, ReplaySteps
  <2> DEFINE q == req[r]
  <2>2. Formed(q) /\ AllFormed /\ Fresh(q, r, store[q.key]) /\ "check" \in CallName
    BY RestedIsFormed, WasmAssumption DEF AllFormed, ReplayInv, Fresh, OneAtATime
  <2>3. /\ "OK" \notin {None, Sent, Failed} /\ "duplicate" \notin {None, Sent, Failed}
        /\ None # Sent /\ None # Failed /\ Sent # Failed
    BY OpaqueAssumption DEF Word
  <2>4. CASE ReplayHeaders(r)
    <3>1. \A S : /\ Formed(Learning(q, S)) /\ Learning(q, S).facts = q.facts \cup S
                 /\ Learning(q, S).key = q.key /\ Learning(q, S).calls = q.calls
                 /\ ~ Learning(q, S).local
      BY <2>2, <2>4, LearningFields DEF Unmoved, ReplayHeaders, Handling, AllRested, Rested, Sound
    <3>2. ~ q.local
      BY <2>4 DEF ReplayHeaders, Handling, AllRested, Rested, Sound
    <3>3. PICK p : Step(r, p) /\ \/ p = Replied(q) \/ p = Replied(Learning(q, {"malformed"}))
                                 \/ p = Continued(Learning(q, {"none"})) \/ p = Awaiting(q, "check")
                                 \/ p = Continued(Learning(q, {"unsent"}))
      BY <2>4 DEF ReplayHeaders
    <3>4. Fresh(p, r, store[q.key]) /\ p.key = q.key
      <4>1. CASE p = Replied(q)
        BY <2>2, <3>2, <4>1, RepliedFields DEF Kept, Fresh
      <4>2. CASE p = Replied(Learning(q, {"malformed"}))
        BY <2>2, <3>1, <4>2, RepliedFields DEF Kept, Fresh
      <4>3. ASSUME NEW fact \in {"none", "unsent"}, p = Continued(Learning(q, {fact}))
            PROVE  Fresh(p, r, store[q.key]) /\ p.key = q.key
        <5> DEFINE l == Learning(q, {fact})
        <5>1. Formed(l) /\ l.key = q.key /\ l.calls = q.calls /\ l.facts = q.facts \cup {fact}
          BY <3>1
        <5> HIDE DEF l
        <5>2. Kept(l, Continued(l))
          BY <5>1, ContinuedFields
        <5>3. p = Continued(l)
          BY <4>3 DEF l
        <5>4. "OK" # fact
          BY <4>3
        <5> HIDE DEF q
        <5>5. QED
          BY <2>2, <4>3, <5>1, <5>2, <5>3, <5>4 DEF Kept, Fresh, Unchecked
      <4>4. CASE p = Awaiting(q, "check")
        <5>1. /\ p.key = q.key /\ p.facts = q.facts /\ p.stage = q.stage
              /\ p.calls = [q.calls EXCEPT !["check"] = Sent]
          BY <2>2, <4>4, AwaitingFields
        <5>2. p.calls["check"] = Sent
          BY <2>2, <5>1 DEF Formed
        <5>3. q.stage = "headers"
          BY <2>4 DEF ReplayHeaders, Handling
        <5> HIDE DEF q
        <5>4. QED
          BY <2>2, <2>3, <5>1, <5>2, <5>3 DEF Fresh
      <4>6. QED
        BY <3>3, <4>1, <4>2, <4>3, <4>4
    <3>5. UNCHANGED store
      BY <2>4 DEF ReplayHeaders
    <3>6. QED
      BY <2>2, <3>3, <3>4, <3>5, StepIs, ReplayKept
  <2>5. CASE ReplayReturns(r)
    <3> DEFINE b == Back(r, "check")
               o == Outcome(r, "check")
               p == Learning(b, {o})
    <3>1. o \in {Failed, "OK", "duplicate"} /\ o = q.calls["check"]
      BY <2>2, <2>5 DEF ReplayReturns, Called, Outcome, Fresh
    <3>2. /\ Formed(b) /\ Unmoved(q, b) /\ b.facts = q.facts
          /\ b.calls = [q.calls EXCEPT !["check"] = None]
      BY <2>2, BackFields
    <3>3. Ready(b) /\ b.held
      BY <2>5, CalledIsReady DEF ReplayReturns, OneAtATime
    <3> HIDE DEF b
    <3>4. /\ Formed(p) /\ p.facts = q.facts \cup {o} /\ p.key = q.key /\ p.calls["check"] = None
          /\ ~ p.local
      <4>1. ~ b.local
        BY <3>3 DEF Ready, Sound, Holding
      <4>2. /\ Formed(p) /\ Unmoved(b, p) /\ p.facts = b.facts \cup {o} /\ p.calls = b.calls
        BY <3>2, LearningFields
      <4>3. b.calls["check"] = None
        BY <2>2, <3>2 DEF Formed
      <4> HIDE DEF p, q, o
      <4>4. QED
        BY <3>2, <4>1, <4>2, <4>3 DEF Unmoved
    <3> HIDE DEF p
    <3>5. Step(r, IF o = "duplicate" THEN Replied(p) ELSE Resumed(p)) /\ UNCHANGED store
      BY <2>5 DEF ReplayReturns, b, p
    <3>6. CASE o = "duplicate"
      <4>1. Fresh(Replied(p), r, store[q.key]) /\ Replied(p).key = q.key
        BY <2>2, <2>3, <3>1, <3>4, <3>6, RepliedFields DEF Kept, Fresh
      <4>2. QED
        BY <2>2, <3>5, <3>6, <4>1, StepIs, ReplayKept
    <3>7. CASE o # "duplicate"
      <4>1. Fresh(Resumed(p), r, store[q.key]) /\ Resumed(p).key = q.key
        BY <2>2, <2>3, <3>1, <3>4, <3>7, ResumedFields DEF Kept, Fresh, Unchecked
      <4>2. QED
        BY <2>2, <3>5, <3>7, <4>1, StepIs, ReplayKept
    <3>8. QED
      BY <3>6, <3>7
  <2>6. CASE SetNX(r)
    <3>1. CASE store[q.key] = None /\ Executed(r, "check", "OK") /\ store' = [store EXCEPT ![q.key] = r]
      <4>1. /\ Unmoved(q, req'[r]) /\ req'[r].facts = q.facts
            /\ req'[r].calls = [q.calls EXCEPT !["check"] = "OK"]
            /\ \A s \in Request : s # r => req'[s] = req[s]
        BY <2>2, <3>1, ExecutedFields DEF Executed
      <4>2. store'[q.key] = r
        BY <2>2, <3>1 DEF ReplayInv, Fresh
      <4> HIDE DEF q
      <4>3. Fresh(req'[r], r, store'[req'[r].key])
        BY <2>2, <4>1, <4>2 DEF Fresh, Unmoved, Formed, Unchecked
      <4>4. QED
        BY <3>1, <4>1, <4>3, ReplayKept DEF q
    <3>2. CASE Executed(r, "check", "duplicate") /\ UNCHANGED store
      <4>1. /\ Unmoved(q, req'[r]) /\ req'[r].facts = q.facts
            /\ req'[r].calls = [q.calls EXCEPT !["check"] = "duplicate"]
            /\ \A s \in Request : s # r => req'[s] = req[s]
        BY <2>2, <3>2, ExecutedFields DEF Executed
      <4> HIDE DEF q
      <4>2. Fresh(req'[r], r, store'[req'[r].key])
        BY <2>2, <3>2, <4>1 DEF Fresh, Unmoved, Formed, Unchecked
      <4>3. QED
        BY <3>2, <4>1, <4>2, ReplayKept
    <3>3. QED
      BY <2>6, <3>1, <3>2 DEF SetNX
  <2>7. CASE CallFails(r, "check")
    <3>1. /\ Unmoved(q, req'[r]) /\ req'[r].facts = q.facts
          /\ req'[r].calls = [q.calls EXCEPT !["check"] = Failed]
          /\ \A s \in Request : s # r => req'[s] = req[s]
      BY <2>2, <2>7, ExecutedFields DEF CallFails
    <3>2. UNCHANGED store
      BY <2>7 DEF CallFails
    <3> HIDE DEF q
    <3>3. Fresh(req'[r], r, store'[req'[r].key])
      BY <2>2, <2>3, <3>1, <3>2 DEF Fresh, Unmoved, Formed, Unchecked
    <3>4. QED
      BY <3>1, <3>2, <3>3, ReplayKept
  <2>8. CASE World(r)
    <3>1. /\ UNCHANGED store /\ \A s \in Request : s # r => req'[s] = req[s]
          /\ Kept(q, req'[r])
          /\ req'[r].stage \in Admitted => q.stage \in Admitted
      BY <2>2, <2>8, WorldFields
    <3> HIDE DEF q
    <3>2. Fresh(req'[r], r, store'[req'[r].key])
      BY <2>2, <3>1 DEF Fresh, Kept, Unchecked
    <3>3. QED
      BY <3>1, <3>2, ReplayKept
  <2>9. QED
    BY <2>1, <2>4, <2>5, <2>6, <2>7, <2>8
<1>3. QED
  BY <1>1, <1>2

LEMMA ReplayAdmitsOnce ==
    ASSUME ReplayInv
    PROVE  NonceAdmitsOnce
BY DEF ReplayInv, NonceAdmitsOnce, Admitted

-----------------------------------------------------------------------------
(* The limits *)

KeysKept == \A s \in Request : req'[s].key = req[s].key

LEMMA EndsKeepKey ==
    ASSUME NEW q, Formed(q)
    PROVE  /\ Continued(q).key = q.key /\ Resumed(q).key = q.key /\ Replied(q).key = q.key
           /\ \A c : Awaiting(q, c).key = q.key
<1>1. Continued(q).key = q.key /\ Resumed(q).key = q.key /\ Replied(q).key = q.key
  BY ContinuedFields, ResumedFields, RepliedFields DEF Kept
<1>2. \A c : Awaiting(q, c).key = q.key
  BY AwaitingFields
<1>3. QED
  BY <1>1, <1>2

LEMMA KeyKept ==
    ASSUME AllFormed, NEW r \in Request, NEW q, Step(r, q), q.key = req[r].key
    PROVE  KeysKept
BY StepIs DEF KeysKept

\* The steps of a limit that leave its count alone.
Uncounted(r) ==
    \/ LimitHeaders(r) \/ LimitReturns(r)
    \/ UNCHANGED admitted /\ (CallFails(r, "check") \/ World(r))

LEMMA LimitSteps ==
    ASSUME Is("cluster-key-rate-limit") \/ Is("ai-token-ratelimit"), WasmNext
    PROVE  \/ \E r \in Request :
                \/ Uncounted(r)
                \/ Is("cluster-key-rate-limit") /\ FixedWindowScript(r)
                \/ Is("ai-token-ratelimit") /\ (RequestPhaseScript(r) \/ TokensCharged(r))
           \/ \E m \in posted : ChargeRuns(m) \/ SpendRuns(m)
           \/ \E k \in Key : WindowEnds(k)
BY DEF WasmNext, Handlers, Callbacks, Answers, Fail, AnsweredCalls, Upstream, Left, Background, Is, Access,
       Consumers, Limits, Caches, Chains, ChainConf, Conversing, World, Uncounted

LEMMA UncountedKeeps ==
    ASSUME AllFormed, NEW r \in Request, Uncounted(r)
    PROVE  KeysKept /\ UNCHANGED <<store, posted, admitted>>
<1> DEFINE q == req[r]
<1>1. Formed(q)
  BY DEF AllFormed
<1>2. \A S : /\ Formed(Learning(q, S)) /\ Learning(q, S).key = q.key
             /\ Formed(Noting(q, S)) /\ Noting(q, S).key = q.key
  BY <1>1, LearningFields, NotingFields DEF Unmoved
<1>3. \A S, T : Formed(Learning(Noting(q, S), T)) /\ Learning(Noting(q, S), T).key = q.key
  BY <1>2, LearningFields DEF Unmoved
<1>4. CASE LimitHeaders(r)
  <2> HIDE DEF q
  <2>1. Continued(Learning(q, {"no rule"})).key = q.key
    <3> DEFINE l == Learning(q, {"no rule"})
    <3>1. Formed(l) /\ l.key = q.key
      BY <1>2, Zenon
    <3> HIDE DEF l
    <3>2. Continued(l).key = q.key
      BY <3>1, EndsKeepKey
    <3>3. QED
      BY <3>2, Zenon DEF l
  <2>2. Awaiting(Noting(q, {"limited"}), "check").key = q.key
    BY <1>2, EndsKeepKey
  <2>3. Continued(Learning(Noting(q, {"limited"}), {"unsent"})).key = q.key
    BY <1>3, EndsKeepKey
  <2>4. QED
    BY <1>4, <2>1, <2>2, <2>3, KeyKept, Zenon DEF LimitHeaders, q
<1>5. CASE LimitReturns(r)
  <2> DEFINE b == Back(r, "check")
  <2>1. Formed(b) /\ b.key = q.key
    BY <1>1, BackFields DEF Unmoved
  <2>2. /\ Step(r, Resumed(Learning(b, {Failed}))) \/ Step(r, Replied(b)) \/ Step(r, Resumed(b))
        /\ UNCHANGED <<store, posted, admitted>>
    BY <1>5 DEF LimitReturns
  <2> HIDE DEF b
  <2>3. Formed(Learning(b, {Failed})) /\ Learning(b, {Failed}).key = q.key
    BY <2>1, LearningFields DEF Unmoved
  <2>4. Resumed(Learning(b, {Failed})).key = q.key
    BY <2>3, ResumedFields DEF Kept
  <2>5. Replied(b).key = q.key /\ Resumed(b).key = q.key
    BY <2>1, ResumedFields, RepliedFields DEF Kept
  <2>6. QED
    BY <2>2, <2>4, <2>5, KeyKept
<1>6. CASE UNCHANGED admitted /\ CallFails(r, "check")
  BY <1>6, ExecutedFields DEF CallFails, Unmoved, KeysKept
<1>7. CASE UNCHANGED admitted /\ World(r)
  BY <1>7, WorldFields DEF Kept, KeysKept
<1>8. QED
  BY <1>4, <1>5, <1>6, <1>7 DEF Uncounted

LEMMA ExecutedKeeps ==
    ASSUME AllFormed, NEW r \in Request, NEW c, NEW v, Executed(r, c, v)
    PROVE  KeysKept
BY ExecutedFields DEF Executed, Unmoved, KeysKept

\* What Redis counts.
Counting ==
    /\ store = [k \in Key |-> store[k]]
    /\ \A k \in Key : store[k] = None \/ store[k] \in Nat
    /\ \A r \in Request : req[r].key \in Key

LEMMA NumberIsSomething == \A v : v \in Int => v # None
BY OpaqueAssumption

LEMMA CountChanges ==
    ASSUME Counting, KeysKept, NEW k \in Key, NEW n, n \in Nat, store' = [store EXCEPT ![k] = n]
    PROVE  Counting' /\ Counted(k)' = n /\ \A j \in Key \ {k} : Counted(j)' = Counted(j)
<1>1. n # None
  BY NumberIsSomething
<1>2. store' = [j \in Key |-> IF j = k THEN n ELSE store[j]]
  BY DEF Counting
<1>3. Counting'
  BY <1>2 DEF Counting, KeysKept
<1>4. store'[k] = n /\ n # None /\ \A j \in Key \ {k} : store'[j] = store[j]
  BY <1>1, <1>2
<1>5. QED
  BY <1>3, <1>4, Zenon DEF Counted

LEMMA CountedIsNat == Counting => \A k \in Key : Counted(k) \in Nat
BY DEF Counting, Counted

Allowed(k) == {r \in admitted : req[r].key = k}

LEMMA OneMore ==
    ASSUME NEW S, IsFiniteSet(S), NEW x
    PROVE  /\ IsFiniteSet(S \cup {x}) /\ Cardinality(S \cup {x}) \in Nat
           /\ Cardinality(S \cup {x}) <= Cardinality(S) + 1
<1>1. IsFiniteSet(S \cup {x}) /\ Cardinality(S \cup {x}) \in Nat /\ Cardinality(S) \in Nat
  BY FS_AddElement, FS_CardinalityType
<1>2. Cardinality(S \cup {x}) = (IF x \in S THEN Cardinality(S) ELSE Cardinality(S) + 1)
  BY FS_AddElement
<1>3. QED
  BY <1>1, <1>2

ClusterInv ==
    /\ Counting
    /\ admitted \subseteq Request
    /\ posted = {}
    /\ \A k \in Key : /\ IsFiniteSet(Allowed(k))
                      /\ Cardinality(Allowed(k)) <= Counted(k)
                      /\ Cardinality(Allowed(k)) <= Threshold

LEMMA ClusterStep ==
    ASSUME AllRested, ClusterInv, Is("cluster-key-rate-limit"), [WasmNext]_wasmVars
    PROVE  ClusterInv'
<1>1. AllFormed
  BY RestedIsFormed
<1>2. \A v \in Nat : v # None
  BY OpaqueAssumption
<1>3. ASSUME KeysKept, UNCHANGED <<store, posted, admitted>>
      PROVE  ClusterInv'
  <2>1. \A k : Allowed(k)' = Allowed(k)
    BY <1>3 DEF Allowed, KeysKept, ClusterInv
  <2>2. QED
    BY <1>3, <2>1 DEF ClusterInv, Counting, Counted, KeysKept
<1>4. CASE UNCHANGED wasmVars
  BY <1>3, <1>4 DEF wasmVars, hostVars, KeysKept
<1>5. ASSUME NEW r \in Request, FixedWindowScript(r)
      PROVE  ClusterInv'
  <2>0. PICK k \in Key : k = req[r].key
    BY DEF ClusterInv, Counting
  <2> DEFINE n == IF Counted(k) > Threshold THEN Counted(k) ELSE Counted(k) + 1
  <2>1. /\ Executed(r, "check", n) /\ store' = [store EXCEPT ![k] = n] /\ UNCHANGED posted
        /\ admitted' = IF n > Threshold THEN admitted ELSE admitted \cup {r}
    BY <1>5, <2>0 DEF FixedWindowScript
  <2>2. KeysKept
    BY <1>1, <2>1, ExecutedKeeps
  <2>3. k \in Key /\ Counted(k) \in Nat /\ n \in Nat /\ Counted(k) <= n /\ Threshold \in Nat
        /\ (n <= Threshold => n = Counted(k) + 1)
    BY CountedIsNat, LimitAssumption DEF ClusterInv, Counting
  <2> HIDE DEF n
  <2>4. Counting' /\ Counted(k)' = n /\ \A j \in Key \ {k} : Counted(j)' = Counted(j)
    BY <2>1, <2>2, <2>3, CountChanges DEF ClusterInv
  <2>6. \A j \in Key \ {k} : Allowed(j)' = Allowed(j)
    BY <2>0, <2>1, <2>2 DEF Allowed, KeysKept, ClusterInv
  <2>7. Allowed(k)' = Allowed(k) \/ (n <= Threshold /\ Allowed(k)' = Allowed(k) \cup {r})
    BY <2>0, <2>1, <2>2, <2>3 DEF Allowed, KeysKept, ClusterInv
  <2>8. IsFiniteSet(Allowed(k)) /\ Cardinality(Allowed(k)) \in Nat
        /\ Cardinality(Allowed(k)) <= Counted(k) /\ Cardinality(Allowed(k)) <= Threshold
    BY <2>3, FS_CardinalityType DEF ClusterInv
  <2>9. IsFiniteSet(Allowed(k) \cup {r}) /\ Cardinality(Allowed(k) \cup {r}) \in Nat
        /\ Cardinality(Allowed(k) \cup {r}) <= Cardinality(Allowed(k)) + 1
    BY <2>8, OneMore
  <2>10. IsFiniteSet(Allowed(k)') /\ Cardinality(Allowed(k)') <= n /\ Cardinality(Allowed(k)') <= Threshold
    <3>1. CASE Allowed(k)' = Allowed(k)
      BY <2>3, <2>8, <3>1
    <3>2. CASE n <= Threshold /\ Allowed(k)' = Allowed(k) \cup {r}
      BY <2>3, <2>8, <2>9, <3>2
    <3>3. QED
      BY <2>7, <3>1, <3>2
  <2>11. admitted' \subseteq Request /\ posted' = {}
    BY <2>1 DEF ClusterInv
  <2>12. ASSUME NEW j \in Key
         PROVE  /\ IsFiniteSet(Allowed(j)') /\ Cardinality(Allowed(j)') <= Counted(j)'
                /\ Cardinality(Allowed(j)') <= Threshold
    <3>1. CASE j = k
      BY <2>4, <2>10, <3>1
    <3>2. CASE j # k
      <4>1. Allowed(j)' = Allowed(j) /\ Counted(j)' = Counted(j)
        BY <2>4, <2>6, <3>2
      <4>2. QED
        BY <4>1 DEF ClusterInv
    <3>3. QED
      BY <3>1, <3>2
  <2>13. QED
    BY <2>4, <2>11, <2>12 DEF ClusterInv
<1>6. ASSUME NEW k \in Key, WindowEnds(k)
      PROVE  ClusterInv'
  <2>1. /\ store' = [store EXCEPT ![k] = None] /\ UNCHANGED <<req, posted>>
        /\ admitted' = {r \in admitted : req[r].key # k}
    BY <1>6 DEF WindowEnds
  <2>2. Counting' /\ Counted(k)' = 0 /\ \A j \in Key \ {k} : Counted(j)' = Counted(j)
    BY <2>1 DEF ClusterInv, Counting, Counted
  <2>3. Allowed(k)' = {} /\ \A j \in Key \ {k} : Allowed(j)' = Allowed(j)
    BY <2>1 DEF Allowed
  <2>4. IsFiniteSet(Allowed(k)') /\ Cardinality(Allowed(k)') = 0
    BY <2>3, FS_EmptySet
  <2>5. ASSUME NEW j \in Key
        PROVE  /\ IsFiniteSet(Allowed(j)') /\ Cardinality(Allowed(j)') <= Counted(j)'
               /\ Cardinality(Allowed(j)') <= Threshold
    BY <2>2, <2>3, <2>4, LimitAssumption DEF ClusterInv
  <2>6. QED
    BY <2>1, <2>2, <2>5 DEF ClusterInv
<1>7. ~ \E m \in posted : ChargeRuns(m) \/ SpendRuns(m)
  BY DEF ClusterInv
<1>8. CASE WasmNext
  BY <1>1, <1>3, <1>5, <1>6, <1>7, <1>8, LimitSteps, UncountedKeeps DEF Is
<1>9. QED
  BY <1>4, <1>8

\* What the answers of the requests were charged for.
TokenInv ==
    /\ Counting
    /\ posted \subseteq [by : Request, cmd : {"charge"}, n : 1..MaxTokens]
    /\ \A k \in Key : Counted(k) <= Threshold + MaxTokens

LEMMA TokenStep ==
    ASSUME AllRested, TokenInv, Is("ai-token-ratelimit"), [WasmNext]_wasmVars
    PROVE  TokenInv'
<1>1. AllFormed
  BY RestedIsFormed
<1>2. \A v \in Nat : v # None
  BY OpaqueAssumption
<1>3. ASSUME KeysKept, UNCHANGED store,
             posted' \subseteq [by : Request, cmd : {"charge"}, n : 1..MaxTokens]
      PROVE  TokenInv'
  BY <1>3 DEF TokenInv, Counting, Counted, KeysKept
<1>4. CASE UNCHANGED wasmVars
  BY <1>3, <1>4 DEF wasmVars, hostVars, KeysKept, TokenInv
<1>5. ASSUME NEW r \in Request, RequestPhaseScript(r)
      PROVE  TokenInv'
  BY <1>1, <1>3, <1>5, ExecutedKeeps DEF RequestPhaseScript, TokenInv
<1>6. ASSUME NEW r \in Request, TokensCharged(r)
      PROVE  TokenInv'
  <2>1. KeysKept /\ UNCHANGED store
    BY <1>1, <1>6, KeyKept, AnswerFields DEF TokensCharged, AllFormed, Kept
  <2>2. UNCHANGED posted \/ \E n \in 1..MaxTokens : posted' = posted \cup {[by |-> r, cmd |-> "charge", n |-> n]}
    BY <1>6 DEF TokensCharged
  <2>3. QED
    BY <1>3, <2>1, <2>2 DEF TokenInv
<1>7. ASSUME NEW m \in posted, ChargeRuns(m) \/ SpendRuns(m)
      PROVE  TokenInv'
  <2>0. m \in [by : Request, cmd : {"charge"}, n : 1..MaxTokens]
    BY DEF TokenInv
  <2>1. PICK k \in Key : k = req[m.by].key
    BY <2>0 DEF TokenInv, Counting
  <2>2. /\ posted' \subseteq posted /\ UNCHANGED req
        /\ UNCHANGED store \/ (Counted(k) <= Threshold /\ store' = [store EXCEPT ![k] = Counted(k) + m.n])
    BY <1>7, <2>0, <2>1 DEF ChargeRuns, SpendRuns, ResponsePhaseScript
  <2>3. CASE UNCHANGED store
    BY <1>3, <2>2, <2>3 DEF TokenInv, KeysKept
  <2>4. CASE Counted(k) <= Threshold /\ store' = [store EXCEPT ![k] = Counted(k) + m.n]
    <3> DEFINE n == Counted(k) + m.n
    <3>1. n \in Nat /\ n <= Threshold + MaxTokens
      BY <2>0, <2>1, <2>4, CountedIsNat, LimitAssumption DEF TokenInv
    <3> HIDE DEF n
    <3>2. k \in Key /\ store' = [store EXCEPT ![k] = n] /\ KeysKept
      BY <2>1, <2>2, <2>4 DEF n, KeysKept
    <3>3. Counting' /\ Counted(k)' = n /\ \A j \in Key \ {k} : Counted(j)' = Counted(j)
      BY <3>1, <3>2, CountChanges DEF TokenInv
    <3>4. QED
      BY <2>2, <3>1, <3>3 DEF TokenInv
  <2>5. QED
    BY <2>2, <2>3, <2>4
<1>8. ASSUME NEW k \in Key, WindowEnds(k)
      PROVE  TokenInv'
  <2>1. store' = [store EXCEPT ![k] = None] /\ UNCHANGED <<req, posted>>
    BY <1>8 DEF WindowEnds
  <2>2. Counting' /\ Counted(k)' = 0 /\ \A j \in Key \ {k} : Counted(j)' = Counted(j)
    BY <2>1 DEF TokenInv, Counting, Counted
  <2>3. QED
    BY <2>1, <2>2, LimitAssumption DEF TokenInv
<1>9. CASE WasmNext
  BY <1>1, <1>3, <1>5, <1>6, <1>7, <1>8, <1>9, LimitSteps, UncountedKeeps DEF Is, TokenInv
<1>10. QED
  BY <1>4, <1>9

\* Each of the three limits, and the plugins that have none.
LimitInv ==
    /\ HostInv
    /\ Is("replay-protection") => ReplayInv
    /\ Is("cluster-key-rate-limit") => ClusterInv
    /\ Is("ai-token-ratelimit") => TokenInv

LEMMA InitLimits == WasmInit => LimitInv
<1> SUFFICES ASSUME WasmInit PROVE LimitInv
  OBVIOUS
<1>1. HostInv
  BY InitHost
<1>2. /\ store = [k \in Key |-> None] /\ posted = {} /\ admitted = {}
  BY DEF WasmInit
<1>3. \A r \in Request : /\ Idle(req[r]) /\ req[r].key \in Key /\ req[r].facts = {}
                         /\ req[r].stage \in {"headers", "gone"}
  BY InitialRequests DEF Quiet
<1>4. "check" \in CallName /\ \A k \in Key : Counted(k) = 0
  BY <1>2, WasmAssumption DEF Counted, OneAtATime
<1>5. Counting
  BY <1>2, <1>3 DEF Counting
<1>6. \A k : Allowed(k) = {}
  BY <1>2 DEF Allowed
<1>7. ReplayInv
  <2>1. \A r \in Request : req[r].calls["check"] = None /\ req[r].facts = {}
    BY <1>3, <1>4 DEF Idle
  <2>2. None # "OK"
    BY OpaqueAssumption DEF Word
  <2>3. QED
    BY <1>2, <1>3, <2>1, <2>2 DEF ReplayInv, Admitted
<1>8. ClusterInv
  BY <1>2, <1>4, <1>5, <1>6, FS_EmptySet, LimitAssumption DEF ClusterInv
<1>9. TokenInv
  BY <1>2, <1>4, <1>5, LimitAssumption DEF TokenInv
<1>10. QED
  BY <1>1, <1>7, <1>8, <1>9 DEF LimitInv

LEMMA StepLimits == LimitInv /\ [WasmNext]_wasmVars => LimitInv'
<1> SUFFICES ASSUME LimitInv, [WasmNext]_wasmVars PROVE LimitInv'
  OBVIOUS
<1>1. HostInv' /\ conf' = conf
  BY StepHost DEF LimitInv
<1>2. ASSUME conf.plugin \in {"replay-protection", "cluster-key-rate-limit", "ai-token-ratelimit"}
      PROVE  AllRested
  BY <1>2 DEF LimitInv, HostInv, LooksUpMeanwhile
<1>3. QED
  BY <1>1, <1>2, ReplayStep, ClusterStep, TokenStep DEF LimitInv, Is

\* No interleaving of the checks lets in more than one request for a nonce, or more requests in
\* a window than the threshold of the cluster limit, and the count of tokens is passed by the
\* tokens of one answer at most.
THEOREM LimitsAlwaysHold == WasmSpec => []LimitsHold
<1>1. LimitInv => LimitsHold
  BY ReplayAdmitsOnce DEF LimitInv, LimitsHold, ClusterInv, TokenInv, Allowed, NonceAdmitsOnce
<1>2. QED
  BY <1>1, InitLimits, StepLimits, PTL DEF WasmSpec

-----------------------------------------------------------------------------
(* The retries of ai-proxy *)

Apart(tokens) == \A i, j \in DOMAIN tokens : tokens[i] = tokens[j] => i = j

\* Of the tokens that were tried, only the one in use may be among those left.
Tokens(a) ==
    /\ a \in [used : {a.used}, left : SUBSET ApiToken, tried : Seq(ApiToken), retryCount : 0..MaxRetries]
    /\ Apart(a.tried)
    /\ \A i \in DOMAIN a.tried : a.tried[i] \in a.left => a.tried[i] = a.used
    /\ Len(a.tried) <= 1 + a.retryCount

\* Why a failure was passed on.
UsedUp(a, q) ==
    \/ "unsendable" \in q.facts
    \/ Len(a.tried) = 1 + MaxRetries
    \/ a.left \subseteq {a.used}

\* A retry is under way for an answer that is held, and for each a further token was tried.
Trying(a, q) ==
    /\ q.stage = "headers" => ~ q.held /\ "retrying" \notin q.facts
    /\ q.stage \in {"body", "upstream"} => "retrying" \notin q.facts
    /\ q.stage = "answering" /\ "retrying" \in q.facts => q.held
    /\ "retrying" \notin q.facts => a.retryCount = 0
    /\ q.calls["retry"] # None => "retrying" \in q.facts
    /\ q.stage \in {"body", "upstream", "answering"} /\ conf.protocol # "none" =>
          Len(a.tried) = 1 + a.retryCount
    /\ "retrying" \in q.facts => conf.protocol # "none"
    /\ "retrying" \in q.facts /\ q.stage = "over" /\ ~ q.local => UsedUp(a, q)

RetryInv ==
    /\ attempt = [r \in Request |-> attempt[r]]
    /\ \A r \in Request : Tokens(attempt[r]) /\ Trying(attempt[r], req[r])

LEMMA NextToken ==
    ASSUME NEW a, Tokens(a), NEW used \in RemoveFromRetryList(a), NEW n \in 1..MaxRetries, a.retryCount < n
    PROVE  LET b == [used |-> used, left |-> RemoveFromRetryList(a), tried |-> Append(a.tried, used),
                     retryCount |-> n]
           IN Tokens(b) /\ b.retryCount = n /\ Len(b.tried) = Len(a.tried) + 1
<1> DEFINE t == a.tried  u == Append(t, used)
<1>1. /\ t \in Seq(ApiToken) /\ used \in ApiToken /\ a.left \subseteq ApiToken /\ a.retryCount \in Nat
      /\ n \in Nat /\ Len(t) <= 1 + a.retryCount /\ Apart(t)
  BY RetriesAssumption DEF Tokens, RemoveFromRetryList
<1>2. \A i \in DOMAIN t : t[i] # used
  BY DEF Tokens, RemoveFromRetryList
<1>3. \A i \in DOMAIN t : t[i] \in RemoveFromRetryList(a) => t[i] = used
  BY DEF Tokens, RemoveFromRetryList
<1> HIDE DEF t
<1>4. /\ u \in Seq(ApiToken) /\ Len(u) = Len(t) + 1 /\ DOMAIN u = 1..(Len(t) + 1) /\ DOMAIN t = 1..Len(t)
      /\ Len(t) \in Nat /\ u[Len(t) + 1] = used /\ \A i \in 1..Len(t) : u[i] = t[i]
  BY <1>1
<1> HIDE DEF u
<1>5. Apart(u)
  BY <1>1, <1>2, <1>4 DEF Apart
<1>6. \A i \in DOMAIN u : u[i] \in RemoveFromRetryList(a) => u[i] = used
  BY <1>3, <1>4
<1> DEFINE b == [used |-> used, left |-> RemoveFromRetryList(a), tried |-> u, retryCount |-> n]
<1>7. b.used = used /\ b.left = RemoveFromRetryList(a) /\ b.tried = u /\ b.retryCount = n
  OBVIOUS
<1>8. b \in [used : {used}, left : SUBSET ApiToken, tried : Seq(ApiToken), retryCount : 0..MaxRetries]
  BY <1>1, <1>4, RetriesAssumption DEF RemoveFromRetryList
<1> HIDE DEF b
<1>9. Tokens(b)
  BY <1>1, <1>4, <1>5, <1>6, <1>7, <1>8 DEF Tokens
<1>10. QED
  BY <1>4, <1>7, <1>9 DEF b, t, u

LEMMA ProxySteps ==
    ASSUME Is("ai-proxy"), WasmNext
    PROVE  \E r \in Request :
              \/ AiProxyHeaders(r) \/ AiProxyBody(r) \/ AiProxyAnswered(r) \/ ContextReturns(r) \/ RetryCall(r)
              \/ UNCHANGED proxyVars /\ (UpstreamAnswers(r) \/ Leave(r))
BY DEF WasmNext, Handlers, Callbacks, Answers, Fail, AnsweredCalls, Upstream, Left, Background, Is, Access,
       Consumers, Limits, Caches, Chains, ChainConf, Conversing, restVars

\* A step of request r that leaves its tokens in order.
Retries(r) == \E q, a : Step(r, q) /\ attempt' = [attempt EXCEPT ![r] = a] /\ Tokens(a) /\ Trying(a, q)

LEMMA RetriesKeep ==
    ASSUME AllFormed, RetryInv, conf' = conf, NEW r \in Request, Retries(r)
    PROVE  RetryInv'
<1>1. PICK q, a : Step(r, q) /\ attempt' = [attempt EXCEPT ![r] = a] /\ Tokens(a) /\ Trying(a, q)
  BY DEF Retries
<1>2. attempt' = [s \in Request |-> IF s = r THEN a ELSE attempt[s]]
  BY <1>1 DEF RetryInv
<1>3. req'[r] = q /\ \A s \in Request : s # r => req'[s] = req[s]
  BY <1>1, StepIs
<1>4. ASSUME NEW s \in Request
      PROVE  Tokens(attempt'[s]) /\ Trying(attempt'[s], req'[s])
  <2>1. CASE s = r
    BY <1>1, <1>2, <1>3, <2>1
  <2>2. CASE s # r
    <3>1. attempt'[s] = attempt[s] /\ req'[s] = req[s]
      BY <1>2, <1>3, <2>2
    <3>2. QED
      BY <3>1 DEF RetryInv
  <2>3. QED
    BY <2>1, <2>2
<1>5. ASSUME NEW s \in Request
      PROVE  (Tokens(attempt[s]) /\ Trying(attempt[s], req[s]))'
  BY <1>4 DEF Tokens, Trying, UsedUp
<1>6. attempt' = [s \in Request |-> attempt'[s]]
  BY <1>2
<1>7. QED
  BY <1>5, <1>6 DEF RetryInv

\* A step that leaves the tokens of the request alone.
LEMMA SameTokens ==
    ASSUME RetryInv, NEW r \in Request, NEW q, Step(r, q), UNCHANGED attempt, Trying(attempt[r], q)
    PROVE  Retries(r)
<1>1. attempt' = [attempt EXCEPT ![r] = attempt[r]]
  BY DEF RetryInv
<1>2. QED
  BY <1>1 DEF Retries, RetryInv

LEMMA SendRetries ==
    ASSUME RetryInv, NEW r \in Request, NEW q, Ready(q), q.stage = "answering", "retrying" \in q.facts,
           conf.protocol # "none", Len(attempt[r].tried) = 1 + attempt[r].retryCount,
           NEW n \in 1..MaxRetries, n = attempt[r].retryCount + 1, SendRetryRequest(r, q, n)
    PROVE  Retries(r)
<1> DEFINE a == attempt[r]
<1>1. Formed(q) /\ Tokens(a) /\ ~ q.local
  BY DEF Ready, Sound, RetryInv
<1>2. /\ Formed(PassedOn(q)) /\ Kept(q, PassedOn(q)) /\ PassedOn(q).stage = "over"
  BY <1>1, PassedOnFields
<1>3. a.retryCount \in Nat /\ "retry" \in CallName /\ a.retryCount < n
  BY <1>1, WasmAssumption DEF Tokens, OneAtATime
<1>4. CASE RemoveFromRetryList(a) = {} /\ Step(r, PassedOn(q)) /\ UNCHANGED attempt
  <2>1. UsedUp(a, PassedOn(q))
    BY <1>4 DEF UsedUp, RemoveFromRetryList
  <2>2. Trying(a, PassedOn(q))
    BY <1>2, <2>1 DEF Trying, Kept
  <2>3. QED
    BY <1>4, <2>2, SameTokens
<1>5. ASSUME NEW used \in RemoveFromRetryList(a), Step(r, Awaiting(q, "retry")),
             attempt' = [attempt EXCEPT ![r] = [used |-> used, left |-> RemoveFromRetryList(a),
                                               tried |-> Append(a.tried, used), retryCount |-> n]]
      PROVE  Retries(r)
  <2> DEFINE b == [used |-> used, left |-> RemoveFromRetryList(a), tried |-> Append(a.tried, used),
                   retryCount |-> n]
             w == Awaiting(q, "retry")
  <2> HIDE DEF a
  <2>1. Tokens(b) /\ b.retryCount = n /\ Len(b.tried) = Len(a.tried) + 1
    BY <1>1, <1>3, NextToken
  <2>2. w.stage = "answering" /\ w.held /\ w.facts = q.facts
    <3>1. w.stage = q.stage /\ w.facts = q.facts
      BY <1>1, AwaitingFields
    <3>2. w.held
      BY <1>1, AwaitingFields
    <3>3. QED
      BY <3>1, <3>2
  <2>3. attempt' = [attempt EXCEPT ![r] = b] /\ Step(r, w)
    BY <1>5
  <2> HIDE DEF b, w
  <2>4. Trying(b, w)
    BY <1>3, <2>1, <2>2 DEF Trying, a
  <2>5. QED
    BY <2>1, <2>3, <2>4 DEF Retries
<1>6. CASE Step(r, PassedOn(Learning(q, {"unsendable"}))) /\ attempt' = [attempt EXCEPT ![r].retryCount = n]
  <2> DEFINE l == Learning(q, {"unsendable"})
             b == [a EXCEPT !.retryCount = n]
  <2>1. Formed(l) /\ l.facts = q.facts \cup {"unsendable"}
    BY <1>1, LearningFields
  <2>2. attempt' = [attempt EXCEPT ![r] = b] /\ Step(r, PassedOn(l))
    BY <1>6
  <2>3. Tokens(b)
    BY <1>1, <1>3, RetriesAssumption DEF Tokens
  <2> HIDE DEF l, b
  <2>4. PassedOn(l).facts = l.facts /\ PassedOn(l).stage = "over"
    BY <2>1, PassedOnFields DEF Kept
  <2>5. Trying(b, PassedOn(l))
    BY <2>1, <2>4 DEF Trying, UsedUp
  <2>6. QED
    BY <2>2, <2>3, <2>5 DEF Retries
<1>7. QED
  BY <1>4, <1>5, <1>6 DEF SendRetryRequest

\* What the other handlers and callbacks of ai-proxy do to the request.
LEMMA HeadersRetry ==
    ASSUME AllRested, RetryInv, NEW r \in Request, AiProxyHeaders(r)
    PROVE  Retries(r)
<1> DEFINE q == req[r]
<1>1. Ready(q) /\ q.stage = "headers" /\ "retry" \in CallName
  BY HandlingIsReady, WasmAssumption DEF AiProxyHeaders, Holding, Handling, OneAtATime
<1>2. /\ Formed(q) /\ "retrying" \notin q.facts /\ q.calls["retry"] = None
      /\ Formed(Unread(q)) /\ Kept(q, Unread(q)) /\ Unread(q).stage = "headers"
  BY <1>1, UnreadFields DEF Ready, Idle, RetryInv, Trying, Unmoved
<1>3. ASSUME NEW p, Kept(q, p)
      PROVE  "retrying" \notin p.facts /\ p.calls["retry"] = None
  BY <1>2, <1>3 DEF Kept
<1>4. CASE conf.protocol = "none" /\ Step(r, Continued(Unread(q))) /\ UNCHANGED attempt
  <2> DEFINE p == Continued(Unread(q))
  <2>1. Kept(Unread(q), p)
    BY <1>2, ContinuedFields
  <2>2. p.facts = q.facts /\ p.calls = q.calls /\ p.stage \in {"body", "upstream"}
    BY <1>1, <1>2, <2>1, ContinuedFields DEF Kept
  <2>3. Step(r, p) /\ UNCHANGED attempt
    BY <1>4
  <2> HIDE DEF p, q
  <2>4. Trying(attempt[r], p)
    BY <1>2, <1>4, <2>2 DEF Trying, RetryInv, q
  <2>5. QED
    BY <2>3, <2>4, SameTokens
<1>5. CASE conf.protocol # "none" /\ SetApiTokens(r)
  <2>1. PICK used \in ApiToken, left \in (IF conf.failover THEN SUBSET ApiToken ELSE {ApiToken}) :
          attempt' = [attempt EXCEPT ![r] =
              [used |-> used, left |-> left, tried |-> <<used>>, retryCount |-> 0]]
    BY <1>5, Zenon DEF SetApiTokens
  <2>0. left \in SUBSET ApiToken
    BY <2>1
  <2> DEFINE a == [used |-> used, left |-> left, tried |-> <<used>>, retryCount |-> 0]
  <2>2. attempt' = [attempt EXCEPT ![r] = a]
    BY <2>1
  <2>3. Tokens(a) /\ a.retryCount = 0 /\ Len(a.tried) = 1
    BY <2>0, RetriesAssumption DEF Tokens, Apart
  <2>4. PICK p : Step(r, p) /\ \/ p = Replied(q) \/ p = Continued(Unread(q))
                               \/ \E api : p = Postponed(Noting(q, {api}))
    BY <1>5 DEF AiProxyHeaders
  <2> HIDE DEF a
  <2>5. "retrying" \notin p.facts /\ p.calls["retry"] = None /\ p.stage \in {"over", "body", "upstream"}
    <3>1. CASE p = Replied(q)
      BY <1>1, <1>2, <1>3, <3>1, RepliedFields DEF Ready, Sound
    <3>2. CASE p = Continued(Unread(q))
      <4>1. Kept(Unread(q), p) /\ p.stage \in {"body", "upstream"}
        BY <1>1, <1>2, <3>2, ContinuedFields
      <4>2. QED
        BY <1>2, <4>1 DEF Kept
    <3>3. ASSUME NEW api, p = Postponed(Noting(q, {api}))
          PROVE  "retrying" \notin p.facts /\ p.calls["retry"] = None /\ p.stage = "body"
      <4> DEFINE l == Noting(q, {api})
      <4>1. Formed(l) /\ l.facts = q.facts /\ l.calls = q.calls
        BY <1>2, NotingFields
      <4>2. p = Postponed(l)
        BY <3>3
      <4> HIDE DEF l
      <4>3. Kept(l, p) /\ p.stage = "body"
        BY <4>1, <4>2, PostponedFields
      <4>4. QED
        BY <1>2, <4>1, <4>3 DEF Kept
    <3>4. QED
      BY <2>4, <3>1, <3>2, <3>3
  <2>6. Trying(a, p)
    BY <1>5, <2>3, <2>5 DEF Trying
  <2>7. QED
    BY <2>2, <2>3, <2>4, <2>6 DEF Retries
<1>6. QED
  BY <1>4, <1>5 DEF AiProxyHeaders

\* A request whose body was handled goes on, is held, or is answered.
LEMMA BodyRetries ==
    ASSUME RetryInv, NEW r \in Request, NEW q, Formed(q), q.stage \in {"body", "answering"}, q.held \/ q.stage = "body",
           ~ q.local, q.calls["retry"] = None, q.facts = req[r].facts, req[r].stage = q.stage,
           NEW p, Step(r, p), UNCHANGED attempt,
           p \in {Continued(q), Resumed(q), Replied(q), Awaiting(q, "context"), InsertFailure(q)}
    PROVE  Retries(r)
<1> DEFINE a == attempt[r]
<1>1. /\ Trying(a, req[r]) /\ {"retry", "context"} \subseteq CallName
  BY WasmAssumption DEF RetryInv, OneAtATime
<1>2. /\ Formed(Replied(q)) /\ Kept(q, Replied(q)) /\ Replied(q).local /\ Replied(q).stage = "over"
      /\ ~ Replied(q).held
  BY RepliedFields
<1>3. CASE p \in {Replied(q), InsertFailure(q)}
  <2>1. Replied(Replied(q)) = Replied(q) /\ Resumed(Replied(q)) = Replied(q)
    BY <1>2, RepliedFields, ResumedFields
  <2>2. p = Replied(q)
    BY <1>3, <2>1 DEF InsertFailure
  <2> HIDE DEF a
  <2>3. p.local /\ p.stage = "over" /\ p.facts = req[r].facts /\ p.calls["retry"] = None
    BY <1>2, <2>2 DEF Kept
  <2>4. Trying(a, p)
    BY <1>1, <2>3 DEF Trying
  <2>5. QED
    BY <2>4, SameTokens DEF a
<1>4. CASE p = Awaiting(q, "context")
  <2>1. p.stage = q.stage /\ p.facts = q.facts /\ p.calls = [q.calls EXCEPT !["context"] = Sent]
    BY <1>4, AwaitingFields
  <2>2. p.held
    BY <1>4, AwaitingFields
  <2>3. p.calls["retry"] = None
    BY <1>1, <2>1 DEF Formed
  <2> HIDE DEF a
  <2>4. Trying(a, p)
    BY <1>1, <2>1, <2>2, <2>3 DEF Trying
  <2>5. QED
    BY <2>4, SameTokens DEF a
<1>5. CASE p \in {Continued(q), Resumed(q)}
  <2>1. p = Continued(q) \/ p = q
    BY <1>5 DEF Resumed
  <2>2. p.facts = q.facts /\ p.calls = q.calls
    BY <2>1, ContinuedFields DEF Kept
  <2>3. \/ q.stage = "body" /\ p.stage \in {"body", "upstream"}
        \/ q.stage = "answering" /\ p.stage = "answering" /\ p.held
    BY <2>1, ContinuedFields
  <2> HIDE DEF a
  <2>4. Trying(a, p)
    BY <1>1, <2>2, <2>3 DEF Trying
  <2>5. QED
    BY <2>4, SameTokens DEF a
<1>6. QED
  BY <1>3, <1>4, <1>5

LEMMA RetryStep ==
    ASSUME AllRested, RetryInv, Is("ai-proxy"), conf' = conf, [WasmNext]_wasmVars
    PROVE  RetryInv'
<1>1. AllFormed
  BY RestedIsFormed
<1>2. CASE UNCHANGED wasmVars
  <2>1. UNCHANGED <<conf, req, attempt>>
    BY <1>2 DEF wasmVars, hostVars, restVars, proxyVars
  <2>2. QED
    BY <2>1 DEF RetryInv, Tokens, Trying, UsedUp
<1>3. ASSUME NEW r \in Request, AiProxyBody(r)
      PROVE  Retries(r)
  <2> DEFINE q == req[r]
  <2>1. Ready(q) /\ q.stage = "body" /\ UNCHANGED attempt
    BY <1>3, HandlingIsReady DEF AiProxyBody, Holding, Handling, proxyVars
  <2>2. Formed(q) /\ ~ q.local /\ q.calls["retry"] = None
    BY <2>1, WasmAssumption DEF Ready, Sound, Idle, OneAtATime
  <2>3. /\ Formed(Paused(q)) /\ Kept(q, Paused(q)) /\ Paused(q).held /\ Paused(q).stage = "body"
        /\ ~ Paused(q).local
    BY <2>1, <2>2, PausedFields
  <2>4. \E p : /\ Step(r, p)
               /\ \/ p \in {Continued(q), Replied(q), Awaiting(q, "context")}
                  \/ p \in {Resumed(Paused(q)), Replied(Paused(q))}
    BY <1>3 DEF AiProxyBody, HandleRequestBody, GetContextFromFile, InsertContext
  <2>5. QED
    BY <2>1, <2>2, <2>3, <2>4, BodyRetries DEF Kept
<1>4. ASSUME NEW r \in Request, ContextReturns(r)
      PROVE  Retries(r)
  <2> DEFINE q == req[r]  b == Back(r, "context")
  <2>1. Ready(b) /\ b.held /\ UNCHANGED attempt /\ {"retry", "context"} \subseteq CallName
    BY <1>4, CalledIsReady, WasmAssumption DEF ContextReturns, OneAtATime
  <2>2. /\ Formed(b) /\ ~ b.local /\ b.calls["retry"] = None
    BY <2>1 DEF Ready, Sound, Idle, Holding
  <2>3. b.facts = q.facts /\ b.stage = q.stage /\ b.held = q.held
    BY <1>1, BackFields DEF AllFormed, Unmoved
  <2>4. b.stage \in {"body", "answering"}
    BY <2>1, <2>3 DEF Ready, Holding, RetryInv, Trying
  <2>5. \E p \in {Resumed(b), Replied(b), InsertFailure(b)} : Step(r, p)
    BY <1>4 DEF ContextReturns, InsertContext
  <2>6. QED
    BY <2>1, <2>2, <2>3, <2>4, <2>5, BodyRetries
<1>5. ASSUME NEW r \in Request, AiProxyAnswered(r)
      PROVE  Retries(r)
  <2> DEFINE q == req[r]  a == attempt[r]  l == Learning(q, {"retrying"})
  <2>1. Ready(q) /\ q.stage = "answering" /\ ~ q.held
    BY <1>5, HandlingIsReady DEF AiProxyAnswered, Holding, Handling
  <2>2. Formed(q) /\ Trying(a, q) /\ "retrying" \notin q.facts /\ a.retryCount = 0
    BY <2>1 DEF Ready, RetryInv, Trying
  <2>3. Ready(l) /\ l.stage = "answering" /\ "retrying" \in l.facts
    BY <2>1, <2>2, ReadyNotes, LearningFields DEF Unmoved
  <2>4. 1 \in 1..MaxRetries /\ 1 = a.retryCount + 1
    BY <2>2, RetriesAssumption
  <2>5. CASE Step(r, PassedOn(q)) /\ UNCHANGED attempt
    <3>1. PassedOn(q).facts = q.facts /\ PassedOn(q).calls = q.calls /\ PassedOn(q).stage = "over"
      BY <2>2, PassedOnFields DEF Kept
    <3>2. Trying(a, PassedOn(q))
      BY <2>2, <3>1 DEF Trying
    <3>3. QED
      BY <2>5, <3>2, SameTokens
  <2>6. CASE conf.protocol # "none" /\ SendRetryRequest(r, l, 1)
    <3>1. Len(a.tried) = 1 + a.retryCount
      BY <2>1, <2>2, <2>6 DEF Trying
    <3> HIDE DEF l
    <3>2. QED
      BY <2>3, <2>4, <2>6, <3>1, SendRetries
  <2>7. QED
    BY <1>5, <2>5, <2>6 DEF AiProxyAnswered
<1>6. ASSUME NEW r \in Request, RetryCall(r)
      PROVE  Retries(r)
  <2> DEFINE q == req[r]  a == attempt[r]  b == Back(r, "retry")  n == a.retryCount + 1
  <2>1. Ready(b) /\ b.held /\ q.calls["retry"] # None /\ "retry" \in CallName
    BY <1>6, CalledIsReady, WasmAssumption DEF RetryCall, Called, OneAtATime
  <2>2. Formed(b) /\ b.facts = q.facts /\ b.stage = q.stage /\ b.calls["retry"] = None
    BY <1>1, <2>1, BackFields DEF AllFormed, Unmoved, Ready, Idle
  <2>3. Tokens(a) /\ Trying(a, q)
    BY DEF RetryInv
  <2>4. /\ "retrying" \in b.facts /\ b.stage = "answering" /\ conf.protocol # "none"
        /\ Len(a.tried) = 1 + a.retryCount
    BY <2>1, <2>2, <2>3 DEF Trying, Ready, Holding
  <2>5. a.retryCount \in 0..MaxRetries /\ MaxRetries \in Nat
    BY <2>3, RetriesAssumption DEF Tokens
  <2> HIDE DEF b
  <2>6. CASE Step(r, Replied(b)) /\ UNCHANGED attempt
    <3>1. Replied(b).facts = b.facts /\ Replied(b).calls = b.calls /\ Replied(b).local
      BY <2>2, RepliedFields DEF Kept
    <3>2. Replied(b).stage = "over"
      BY <2>1, <2>2, RepliedFields DEF Ready, Sound, Holding
    <3>3. Trying(a, Replied(b))
      BY <2>3, <2>2, <2>4, <3>1, <3>2 DEF Trying
    <3>4. QED
      BY <2>6, <3>3, SameTokens
  <2>7. CASE n <= MaxRetries /\ SendRetryRequest(r, b, n)
    <3>1. n \in 1..MaxRetries /\ n = a.retryCount + 1
      BY <2>5, <2>7
    <3> HIDE DEF n
    <3>2. QED
      BY <2>1, <2>4, <2>7, <3>1, SendRetries
  <2>8. CASE ~ (n <= MaxRetries) /\ Step(r, PassedOn(b)) /\ UNCHANGED attempt
    <3>1. PassedOn(b).facts = b.facts /\ PassedOn(b).calls = b.calls /\ PassedOn(b).stage = "over"
      BY <2>2, PassedOnFields DEF Kept
    <3>2. Len(a.tried) = 1 + MaxRetries
      BY <2>4, <2>5, <2>8
    <3>3. Trying(a, PassedOn(b))
      BY <2>2, <2>4, <3>1, <3>2 DEF Trying, UsedUp
    <3>4. QED
      BY <2>8, <3>3, SameTokens
  <2>9. QED
    BY <1>6, <2>6, <2>7, <2>8 DEF RetryCall, b
<1>7. ASSUME NEW r \in Request, UNCHANGED proxyVars, UpstreamAnswers(r) \/ Leave(r)
      PROVE  Retries(r)
  <2> DEFINE q == req[r]  a == attempt[r]
  <2>1. World(r) /\ UNCHANGED attempt
    BY <1>7 DEF World, proxyVars
  <2>2. PICK p : Step(r, p)
    BY <1>7 DEF UpstreamAnswers, Leave
  <2>3. req'[r] = p
    BY <1>1, <2>2, StepIs
  <2>4. /\ p.facts = q.facts /\ p.calls = q.calls
        /\ \/ q.stage = "upstream" /\ p.stage = "answering"
           \/ p.stage = "gone"
    <3>1. CASE UpstreamAnswers(r)
      <4>1. q.stage = "upstream"
        BY <3>1 DEF UpstreamAnswers
      <4> HIDE DEF q
      <4>2. QED
        BY <1>1, <2>1, <2>3, <4>1, WorldFields DEF Kept, q
    <3>2. CASE Leave(r)
      <4> DEFINE l == Gone(q)
      <4>1. Formed(q) /\ p = l
        BY <1>1, <2>3, <3>2, StepIs DEF Leave, AllFormed, Gone
      <4>2. Kept(q, l) /\ l.stage = "gone"
        BY <4>1, LeftFields
      <4> HIDE DEF l
      <4>3. QED
        BY <4>1, <4>2 DEF Kept
    <3>3. QED
      BY <1>7, <3>1, <3>2
  <2>5. Trying(a, q)
    BY DEF RetryInv
  <2> HIDE DEF q, a
  <2>6. Trying(a, p)
    BY <2>4, <2>5 DEF Trying
  <2>7. QED
    BY <2>1, <2>2, <2>6, SameTokens DEF a
<1>8. CASE WasmNext
  BY <1>1, <1>3, <1>4, <1>5, <1>6, <1>7, <1>8, ProxySteps, HeadersRetry, RetriesKeep
<1>9. QED
  BY <1>2, <1>8

\* Without ai-proxy nothing is tried.
LEMMA OthersTryNothing ==
    ASSUME ~ Is("ai-proxy"), WasmNext
    PROVE  UNCHANGED attempt
BY DEF WasmNext, Handlers, Callbacks, Answers, Fail, Upstream, Left, Background, Is, restVars, proxyVars

ProxyInv ==
    /\ HostInv
    /\ IF Is("ai-proxy") THEN RetryInv ELSE attempt = [r \in Request |-> NoAttempt]

LEMMA InitProxy == WasmInit => ProxyInv
<1> SUFFICES ASSUME WasmInit PROVE ProxyInv
  OBVIOUS
<1>1. attempt = [r \in Request |-> NoAttempt]
  BY DEF WasmInit
<1>2. ASSUME NEW r \in Request
      PROVE  Tokens(NoAttempt) /\ Trying(NoAttempt, req[r])
  <2>1. Tokens(NoAttempt) /\ NoAttempt.retryCount = 0
    BY RetriesAssumption DEF Tokens, NoAttempt, Apart
  <2>2. /\ Idle(req[r]) /\ Sound(req[r]) /\ req[r].facts = {} /\ req[r].stage \in {"headers", "gone"}
        /\ "retry" \in CallName /\ ~ req[r].held
    BY InitialRequests, WasmAssumption DEF Quiet, OneAtATime
  <2>3. QED
    BY <2>1, <2>2 DEF Trying, Idle
<1>3. RetryInv
  BY <1>1, <1>2 DEF RetryInv
<1>4. QED
  BY <1>1, <1>3, InitHost DEF ProxyInv

LEMMA StepProxy == ProxyInv /\ [WasmNext]_wasmVars => ProxyInv'
<1> SUFFICES ASSUME ProxyInv, [WasmNext]_wasmVars PROVE ProxyInv'
  OBVIOUS
<1>1. HostInv' /\ conf' = conf
  BY StepHost DEF ProxyInv
<1>2. CASE Is("ai-proxy")
  <2>1. AllRested
    BY <1>2 DEF ProxyInv, HostInv, LooksUpMeanwhile, Is
  <2>2. RetryInv'
    BY <1>1, <1>2, <2>1, RetryStep DEF ProxyInv
  <2>3. QED
    BY <1>1, <1>2, <2>2 DEF ProxyInv, Is
<1>3. CASE ~ Is("ai-proxy")
  <2>1. UNCHANGED attempt
    BY <1>3, OthersTryNothing DEF wasmVars, restVars, proxyVars
  <2>2. QED
    BY <1>1, <1>3, <2>1 DEF ProxyInv, Is
<1>4. QED
  BY <1>2, <1>3

\* Whatever the other VMs make of the list of tokens meanwhile, no token is tried twice for a
\* request, no more are tried than is allowed, and a failure is passed on only when they are
\* used up.
THEOREM RetriesAreAlwaysFresh == WasmSpec => []RetriesAreFresh
<1>1. RetryInv => RetriesAreFresh
  <2> SUFFICES ASSUME RetryInv, NEW r \in Request
               PROVE  LET a == attempt[r]
                      IN /\ Apart(a.tried) /\ Len(a.tried) <= 1 + MaxRetries
                         /\ "retrying" \in req[r].facts /\ req[r].stage = "over" /\ ~ req[r].local => UsedUp(a, req[r])
    BY DEF RetriesAreFresh, Apart, UsedUp
  <2>1. Tokens(attempt[r]) /\ Trying(attempt[r], req[r])
    BY DEF RetryInv
  <2>2. QED
    BY <2>1, RetriesAssumption DEF Tokens, Trying
<1>2. attempt = [r \in Request |-> NoAttempt] => RetriesAreFresh
  BY RetriesAssumption DEF RetriesAreFresh, NoAttempt
<1>3. ProxyInv => RetriesAreFresh
  BY <1>1, <1>2 DEF ProxyInv
<1>4. QED
  BY <1>3, InitProxy, StepProxy, PTL DEF WasmSpec

-----------------------------------------------------------------------------
(* The conversations of ai-history *)

Over(q) == q.stage \in {"over", "gone"}

\* The requests that are over, by the identity under which their turns are kept.
Theirs == [k \in Key |-> {s \in Request : Over(req[s]) /\ Identity(req[s]) = k}]

\* A request is given the turns of its own identity T, and none before it is known who asks.
Reads(q, h, T) ==
    /\ q.key \in Key /\ q.key # Unnamed
    /\ q.stage = "headers" => h.read = << >> /\ h.shown = {} /\ q.calls["lookup"] = None
    /\ q.calls["lookup"] \notin {None, Sent, Failed} => q.calls["lookup"] \in Seq(T)
    /\ h.read \in Seq(T)
    /\ h.shown \subseteq T

HistoryInv ==
    /\ store = [k \in Key |-> store[k]]
    /\ history = [r \in Request |-> history[r]]
    /\ \A k \in Key : store[k] = None \/ store[k] \in Seq(Theirs[k])
    /\ \A r \in Request : Reads(req[r], history[r], Theirs[Identity(req[r])])
    /\ \A m \in posted : m.by \in Request /\ Over(req[m.by]) /\ m.n \in Seq(Theirs[Identity(req[m.by])])

LEMMA SeqGrows ==
    ASSUME NEW S, NEW T, S \subseteq T, NEW t \in Seq(S)
    PROVE  t \in Seq(T)
<1>1. t \in [1..Len(t) -> S] /\ Len(t) \in Nat
  OBVIOUS
<1>2. t \in [1..Len(t) -> T]
  BY <1>1
<1>3. QED
  BY <1>1, <1>2

LEMMA IdentityIsKey ==
    ASSUME NEW q, q.key \in Key
    PROVE  Identity(q) \in Key
BY UnnamedAssumption DEF Identity

\* What a step of request r must see to: its own reading, and what it has posted.
Remembers(r) ==
    \E q, h :
        /\ Step(r, q) /\ history' = [history EXCEPT ![r] = h]
        /\ Over(req[r]) => Over(q) /\ Identity(q) = Identity(req[r])
        /\ Reads(q, h, Theirs'[Identity(q)])
        /\ posted' # posted => /\ Over(q)
                               /\ \E m : /\ posted' = posted \cup {m} /\ m.by = r
                                         /\ m.n \in Seq(Theirs'[Identity(q)])

LEMMA TheirsGrow ==
    ASSUME AllFormed, NEW r \in Request, NEW q, Step(r, q),
           Over(req[r]) => Over(q) /\ Identity(q) = Identity(req[r])
    PROVE  \A k \in Key : Theirs[k] \subseteq Theirs'[k] /\ Seq(Theirs[k]) \subseteq Seq(Theirs'[k])
<1> SUFFICES ASSUME NEW k \in Key
             PROVE  Theirs[k] \subseteq Theirs'[k] /\ Seq(Theirs[k]) \subseteq Seq(Theirs'[k])
  OBVIOUS
<1>1. req'[r] = q /\ \A s \in Request : s # r => req'[s] = req[s]
  BY StepIs
<1>2. /\ Theirs[k] = {s \in Request : Over(req[s]) /\ Identity(req[s]) = k}
      /\ Theirs'[k] = {s \in Request : Over(req'[s]) /\ Identity(req'[s]) = k}
  BY DEF Theirs, Over, Identity
<1>3. \A s \in Request : Over(req[s]) => Over(req'[s]) /\ Identity(req'[s]) = Identity(req[s])
  BY <1>1
<1>4. Theirs[k] \subseteq Theirs'[k]
  BY <1>2, <1>3
<1>5. QED
  BY <1>4, SeqGrows

LEMMA HistoryKeeps ==
    ASSUME AllFormed, HistoryInv, UNCHANGED store, NEW r \in Request, Remembers(r)
    PROVE  HistoryInv'
<1>1. PICK q, h :
        /\ Step(r, q) /\ history' = [history EXCEPT ![r] = h]
        /\ Over(req[r]) => Over(q) /\ Identity(q) = Identity(req[r])
        /\ Reads(q, h, Theirs'[Identity(q)])
        /\ posted' # posted => /\ Over(q)
                               /\ \E m : /\ posted' = posted \cup {m} /\ m.by = r
                                         /\ m.n \in Seq(Theirs'[Identity(q)])
  BY DEF Remembers
<1>2. req'[r] = q /\ \A s \in Request : s # r => req'[s] = req[s]
  BY <1>1, StepIs
<1>3. \A k \in Key : Theirs[k] \subseteq Theirs'[k] /\ Seq(Theirs[k]) \subseteq Seq(Theirs'[k])
  BY <1>1, TheirsGrow
<1>4. history' = [s \in Request |-> IF s = r THEN h ELSE history[s]]
  BY <1>1 DEF HistoryInv
<1>5. \A k \in Key : store'[k] = None \/ store'[k] \in Seq(Theirs'[k])
  BY <1>3 DEF HistoryInv
<1>6. ASSUME NEW s \in Request
      PROVE  Reads(req'[s], history'[s], Theirs'[Identity(req'[s])])
  <2>1. CASE s = r
    BY <1>1, <1>2, <1>4, <2>1
  <2>2. CASE s # r
    <3>1. req'[s] = req[s] /\ history'[s] = history[s]
      BY <1>2, <1>4, <2>2
    <3>2. Reads(req[s], history[s], Theirs[Identity(req[s])])
      BY DEF HistoryInv
    <3>3. Identity(req[s]) \in Key
      BY <3>2, IdentityIsKey DEF Reads
    <3>4. Reads(req[s], history[s], Theirs'[Identity(req[s])])
      BY <1>3, <3>2, <3>3 DEF Reads
    <3>5. QED
      BY <3>1, <3>4
  <2>3. QED
    BY <2>1, <2>2
<1>7. ASSUME NEW m \in posted'
      PROVE  m.by \in Request /\ Over(req'[m.by]) /\ m.n \in Seq(Theirs'[Identity(req'[m.by])])
  <2>1. CASE m \in posted
    <3>1. m.by \in Request /\ Over(req[m.by]) /\ m.n \in Seq(Theirs[Identity(req[m.by])])
      BY <2>1 DEF HistoryInv
    <3>2. Identity(req[m.by]) \in Key
      BY <3>1, IdentityIsKey DEF HistoryInv, Reads
    <3>3. Over(req'[m.by]) /\ Identity(req'[m.by]) = Identity(req[m.by])
      BY <1>1, <1>2, <3>1
    <3>4. QED
      BY <1>3, <3>1, <3>2, <3>3
  <2>2. CASE m \notin posted
    BY <1>1, <1>2, <2>2
  <2>3. QED
    BY <2>1, <2>2
<1>8. /\ \A s \in Request : Reads(req'[s], history'[s], Theirs'[Identity(req'[s])])
      /\ \A m \in posted' : /\ m.by \in Request /\ Over(req'[m.by])
                            /\ m.n \in Seq(Theirs'[Identity(req'[m.by])])
      /\ store' = [k \in Key |-> store'[k]] /\ history' = [s \in Request |-> history'[s]]
  BY <1>4, <1>6, <1>7 DEF HistoryInv
<1>9. QED
  BY <1>5, <1>8 DEF HistoryInv, Reads, Over, Identity

LEMMA HistorySteps ==
    ASSUME Is("ai-history"), WasmNext
    PROVE  \/ \E r \in Request :
                \/ HistoryHeaders(r) \/ HistoryBody(r) \/ HistoryGet(r) \/ HistoryReturns(r) \/ HistoryAnswered(r)
                \/ UNCHANGED history /\ (CallFails(r, "lookup") \/ UpstreamAnswers(r) \/ Leave(r))
           \/ \E m \in posted : HistorySet(m)
           \/ \E k \in Key : HistoryExpires(k)
BY DEF WasmNext, Handlers, Callbacks, Answers, Fail, AnsweredCalls, Upstream, Left, Background, Is, Access,
       Consumers, Limits, Caches, Chains, ChainConf, Conversing, ConversationHandlers, ConversationReturns,
       restVars, conversationVars

\* A step that neither reads nor posts: what is known of the request, and its call, are kept.
LEMMA NothingRead ==
    ASSUME AllFormed, HistoryInv, NEW r \in Request, NEW q, Step(r, q), UNCHANGED <<history, posted>>,
           q.key = req[r].key,
           \/ Identity(q) = Identity(req[r])
           \/ req[r].stage = "headers" /\ q.calls["lookup"] = None,
           q.stage = "headers" => req[r].stage = "headers" /\ q.calls["lookup"] = None,
           Over(req[r]) => Over(q),
           q.calls["lookup"] \in {None, Sent, Failed} \/ q.calls["lookup"] = req[r].calls["lookup"]
    PROVE  Remembers(r)
<1> DEFINE h == history[r]
<1>1. Reads(req[r], h, Theirs[Identity(req[r])])
  BY DEF HistoryInv
<1>2. Identity(req[r]) \in Key /\ Identity(q) \in Key
  BY <1>1, IdentityIsKey DEF Reads
<1>3. Over(req[r]) => Over(q) /\ Identity(q) = Identity(req[r])
  BY DEF Over
<1>4. \A k \in Key : Theirs[k] \subseteq Theirs'[k] /\ Seq(Theirs[k]) \subseteq Seq(Theirs'[k])
  BY <1>3, TheirsGrow
<1>5. history' = [history EXCEPT ![r] = h]
  BY DEF HistoryInv
<1> HIDE DEF h
<1>6. Reads(q, h, Theirs'[Identity(q)])
  <2>1. CASE Identity(q) = Identity(req[r])
    BY <1>1, <1>2, <1>4, <2>1 DEF Reads
  <2>2. CASE req[r].stage = "headers" /\ q.calls["lookup"] = None
    BY <1>1, <2>2, EmptySeq DEF Reads
  <2>3. QED
    BY <2>1, <2>2
<1>7. QED
  BY <1>3, <1>5, <1>6 DEF Remembers

LEMMA HistoryHeadersRemembers ==
    ASSUME AllRested, HistoryInv, NEW r \in Request, HistoryHeaders(r)
    PROVE  Remembers(r) /\ UNCHANGED store
<1> DEFINE q == req[r]
<1>1. AllFormed /\ Ready(q) /\ q.stage = "headers" /\ "lookup" \in CallName
  BY HandlingIsReady, RestedIsFormed, WasmAssumption DEF HistoryHeaders, Holding, Handling, OneAtATime
<1>2. Formed(q) /\ q.calls["lookup"] = None
  BY <1>1 DEF Ready, Idle
<1>3. UNCHANGED <<history, posted, store>>
  BY DEF HistoryHeaders, conversationVars, Unchanged
<1>4. ~ Over(q)
  BY <1>1 DEF Over
<1> DEFINE n == Noting(q, {"named"})
<1>5. /\ Formed(n) /\ n.key = q.key /\ n.calls = q.calls /\ n.stage = "headers"
      /\ Formed(Unread(q)) /\ Kept(q, Unread(q))
  BY <1>1, <1>2, NotingFields, UnreadFields DEF Unmoved
<1>6. PICK p : Step(r, p) /\ p \in {Continued(Unread(q)), Continued(q), Postponed(n), Bodyless(n)}
  BY DEF HistoryHeaders
<1> HIDE DEF n, q
<1>7. p.key = q.key /\ p.calls["lookup"] = None
  <2>1. CASE p \in {Continued(Unread(q)), Continued(q)}
    BY <1>2, <1>5, <2>1, ContinuedFields DEF Kept
  <2>2. CASE p = Postponed(n)
    BY <1>2, <1>5, <2>2, PostponedFields DEF Kept
  <2>3. CASE p = Bodyless(n)
    <3>1. Formed(Paused(n)) /\ Kept(n, Paused(n))
      BY <1>5, PausedFields
    <3>2. p.calls = Paused(n).calls /\ p.key = Paused(n).key
      BY <2>3, <3>1, LearningFields DEF Bodyless, Unmoved
    <3>3. QED
      BY <1>2, <1>5, <3>1, <3>2 DEF Kept
  <2>4. QED
    BY <1>6, <2>1, <2>2, <2>3
<1>8. QED
  BY <1>1, <1>3, <1>4, <1>6, <1>7, NothingRead DEF q

LEMMA HistoryBodyRemembers ==
    ASSUME AllRested, HistoryInv, NEW r \in Request, HistoryBody(r)
    PROVE  Remembers(r) /\ UNCHANGED store
<1> DEFINE q == req[r]
<1>1. AllFormed /\ Ready(q) /\ q.stage = "body" /\ "lookup" \in CallName
  BY HandlingIsReady, RestedIsFormed, WasmAssumption DEF HistoryBody, Holding, Handling, OneAtATime
<1>2. Formed(q) /\ q.calls["lookup"] = None
  BY <1>1 DEF Ready, Idle
<1>3. UNCHANGED <<history, posted, store>>
  BY DEF HistoryBody, conversationVars, Unchanged
<1>4. ~ Over(q)
  BY <1>1 DEF Over
<1>4a. PICK query \in {{}, {"query"}} :
          \E p : /\ Step(r, p)
                 /\ \/ p = Continued(q) \/ p = Awaiting(Noting(q, {"question"} \cup query), "lookup")
                    \/ p = Continued(Noting(q, {"question"} \cup query))
  BY DEF HistoryBody
<1>5. PICK p : /\ Step(r, p)
               /\ \/ p = Continued(q) \/ p = Awaiting(Noting(q, {"question"} \cup query), "lookup")
                  \/ p = Continued(Noting(q, {"question"} \cup query))
  BY <1>4a
<1> DEFINE n == Noting(q, {"question"} \cup query)
<1>6. /\ Formed(n) /\ n.key = q.key /\ n.calls = q.calls /\ n.stage = "body"
      /\ n.ctx = q.ctx \cup ({"question"} \cup query)
  BY <1>1, <1>2, NotingFields DEF Unmoved
<1>7. Identity(n) = Identity(q)
  BY <1>5, <1>6 DEF Identity
<1>8. p \in {Continued(q), Awaiting(n, "lookup"), Continued(n)}
  BY <1>5
<1> HIDE DEF n, q
<1>9. /\ p.key = q.key /\ Identity(p) = Identity(q) /\ p.stage # "headers"
      /\ p.calls["lookup"] \in {None, Sent, Failed}
  <2>1. ASSUME NEW m, Formed(m), m.key = q.key, m.calls = q.calls, Identity(m) = Identity(q), m.stage = "body",
               p = Continued(m)
        PROVE  /\ p.key = q.key /\ Identity(p) = Identity(q) /\ p.stage # "headers"
               /\ p.calls["lookup"] \in {None, Sent, Failed}
    BY <1>2, <2>1, ContinuedFields DEF Kept, Identity
  <2>2. CASE p = Awaiting(n, "lookup")
    <3>1. /\ p.key = n.key /\ p.ctx = n.ctx /\ p.stage = "body"
          /\ p.calls = [n.calls EXCEPT !["lookup"] = Sent]
      BY <1>6, <2>2, AwaitingFields
    <3>2. p.calls["lookup"] = Sent
      BY <1>1, <1>6, <3>1 DEF Formed
    <3>3. QED
      BY <1>6, <1>7, <3>1, <3>2 DEF Identity
  <2>3. QED
    BY <1>1, <1>2, <1>6, <1>7, <1>8, <2>1, <2>2
<1>10. QED
  BY <1>1, <1>3, <1>4, <1>5, <1>9, NothingRead DEF q

LEMMA HistoryGetRemembers ==
    ASSUME AllRested, HistoryInv, NEW r \in Request, HistoryGet(r)
    PROVE  Remembers(r) /\ UNCHANGED store
<1> DEFINE q == req[r]
           v == IF store[Identity(q)] = None THEN << >> ELSE store[Identity(q)]
           p == [q EXCEPT !.calls["lookup"] = v]
           h == history[r]
<1>1. AllFormed /\ Formed(q) /\ "lookup" \in CallName /\ UNCHANGED <<history, posted, store>> /\ Step(r, p)
  BY RestedIsFormed, WasmAssumption DEF HistoryGet, AllFormed, OneAtATime, conversationVars, Executed
<1>3. Reads(q, h, Theirs[Identity(q)]) /\ q.stage # "headers"
  BY OpaqueAssumption DEF HistoryInv, HistoryGet, Executing, Reads
<1>4. Identity(q) \in Key
  BY <1>3, IdentityIsKey DEF Reads
<1>5. v \in Seq(Theirs[Identity(q)])
  BY <1>4, EmptySeq DEF HistoryInv
<1>6. history' = [history EXCEPT ![r] = h]
  BY <1>1 DEF HistoryInv
<1> HIDE DEF v, q, h
<1>2. Unmoved(q, p) /\ p.ctx = q.ctx /\ p.calls = [q.calls EXCEPT !["lookup"] = v]
  BY <1>1, CallFields
<1> HIDE DEF p
<1>7. p.calls["lookup"] = v /\ Identity(p) = Identity(q) /\ p.stage = q.stage /\ p.key = q.key
  BY <1>1, <1>2 DEF Formed, Identity, Unmoved
<1>8. \A k \in Key : Theirs[k] \subseteq Theirs'[k] /\ Seq(Theirs[k]) \subseteq Seq(Theirs'[k])
  BY <1>1, <1>7, TheirsGrow DEF Over, q
<1>9. Reads(p, h, Theirs'[Identity(p)])
  BY <1>3, <1>4, <1>5, <1>7, <1>8 DEF Reads
<1>10. Over(q) => Over(p) /\ Identity(p) = Identity(q)
  BY <1>7 DEF Over
<1>11. QED
  BY <1>1, <1>6, <1>9, <1>10 DEF Remembers, q

LEMMA HistoryReturnsRemembers ==
    ASSUME AllRested, HistoryInv, NEW r \in Request, HistoryReturns(r)
    PROVE  Remembers(r) /\ UNCHANGED store
<1> DEFINE q == req[r]
           b == Back(r, "lookup")
           t == Outcome(r, "lookup")
<1>1. AllFormed /\ Formed(q) /\ Ready(b) /\ b.held /\ "lookup" \in CallName /\ UNCHANGED <<posted, store>>
  BY CalledIsReady, RestedIsFormed, WasmAssumption DEF HistoryReturns, AllFormed, OneAtATime, Unchanged
<1>2. Unmoved(q, b) /\ b.ctx = q.ctx /\ b.calls = [q.calls EXCEPT !["lookup"] = None]
  BY <1>1, BackFields
<1>3. Formed(b) /\ b.stage = q.stage /\ b.key = q.key /\ Identity(b) = Identity(q)
      /\ b.calls["lookup"] = None
  BY <1>1, <1>2 DEF Ready, Identity, Unmoved, Idle
<1>4. t = q.calls["lookup"] /\ t \notin {None, Sent}
  BY DEF HistoryReturns, Called, Outcome
<1>5. Reads(q, history[r], Theirs[Identity(q)])
  BY DEF HistoryInv
<1>6. Identity(q) \in Key
  BY <1>5, IdentityIsKey DEF Reads
<1>7. ~ Over(q) /\ q.stage # "headers"
  <2>1. q.stage \in Holding /\ q.held
    BY <1>1, <1>2, <1>3 DEF Ready, Unmoved
  <2>2. q.stage # "headers"
    BY <1>4, <1>5 DEF Reads
  <2> HIDE DEF q
  <2>3. QED
    BY <2>1, <2>2 DEF Over, Holding
<1>8. PICK p \in {Resumed(b), Replied(b)} :
        /\ Step(r, p)
        /\ \/ UNCHANGED history
           \/ /\ t \notin {Failed, << >>}
              /\ \E shown \in {{}, Askers(t)} : history' = [history EXCEPT ![r] = [read |-> t, shown |-> shown]]
  BY DEF HistoryReturns
<1> HIDE DEF q, b, t
<1>9. /\ p.key = q.key /\ Identity(p) = Identity(q) /\ p.calls["lookup"] = None /\ p.stage # "headers"
  <2>1. Kept(b, p)
    BY <1>3, <1>8, ResumedFields, RepliedFields
  <2>2. p.stage # "headers"
    <3>1. CASE p = Resumed(b)
      BY <1>1, <1>3, <1>7, <3>1, ResumedFields, ContinuedFields DEF Ready, Holding
    <3>2. CASE p = Replied(b)
      BY <1>3, <1>7, <3>2, RepliedFields
    <3>3. QED
      BY <1>8, <3>1, <3>2
  <2>3. QED
    BY <1>3, <2>1, <2>2 DEF Kept, Identity
<1>10. CASE UNCHANGED history
  BY <1>1, <1>7, <1>8, <1>9, <1>10, NothingRead DEF q
<1>11. ASSUME NEW shown \in {{}, Askers(t)}, t \notin {Failed, << >>},
              history' = [history EXCEPT ![r] = [read |-> t, shown |-> shown]]
       PROVE  Remembers(r)
  <2> DEFINE h == [read |-> t, shown |-> shown]
  <2>1. \A k \in Key : Theirs[k] \subseteq Theirs'[k] /\ Seq(Theirs[k]) \subseteq Seq(Theirs'[k])
    BY <1>1, <1>7, <1>8, TheirsGrow DEF q
  <2>2. t \in Seq(Theirs[Identity(q)])
    BY <1>4, <1>5, <1>11 DEF Reads
  <2>3. Askers(t) \subseteq Theirs[Identity(q)]
    BY <2>2 DEF Askers
  <2>4. h.read = t /\ h.shown = shown
    OBVIOUS
  <2> HIDE DEF h
  <2>5. Reads(p, h, Theirs'[Identity(p)])
    BY <1>5, <1>6, <1>9, <2>1, <2>2, <2>3, <2>4 DEF Reads
  <2>6. QED
    BY <1>7, <1>8, <1>11, <2>5, <1>1 DEF Remembers, q, h
<1>12. QED
  BY <1>1, <1>8, <1>10, <1>11

LEMMA HistoryAnsweredRemembers ==
    ASSUME AllRested, HistoryInv, NEW r \in Request, HistoryAnswered(r)
    PROVE  Remembers(r) /\ UNCHANGED store
<1> DEFINE q == req[r]
           p == PassedOn(q)
           h == history[r]
           turns == Append(h.read, r)
           n == IF Len(turns) > MaxTurns THEN Tail(turns) ELSE turns
<1>1. AllFormed /\ Ready(q) /\ q.stage = "answering" /\ "lookup" \in CallName
  BY HandlingIsReady, RestedIsFormed, WasmAssumption DEF HistoryAnswered, Holding, Handling, OneAtATime
<1>2. Formed(q) /\ q.calls["lookup"] = None
  BY <1>1 DEF Ready, Idle
<1>3. UNCHANGED <<history, store>> /\ Step(r, p)
  BY DEF HistoryAnswered, conversationVars
<1>4. p.key = q.key /\ p.ctx = q.ctx /\ p.calls = q.calls /\ p.stage = "over"
  BY <1>2, PassedOnFields DEF Kept
<1>5. ~ Over(q)
  BY <1>1 DEF Over
<1>6. Reads(q, h, Theirs[Identity(q)])
  BY DEF HistoryInv
<1>7. Identity(q) \in Key /\ Identity(p) = Identity(q)
  BY <1>4, <1>6, IdentityIsKey DEF Reads, Identity
<1>8. \A k \in Key : Theirs[k] \subseteq Theirs'[k] /\ Seq(Theirs[k]) \subseteq Seq(Theirs'[k])
  BY <1>1, <1>3, <1>5, TheirsGrow
<1>9. history' = [history EXCEPT ![r] = h]
  BY <1>3 DEF HistoryInv
<1>10. r \in Theirs'[Identity(q)]
  <2>1. req'[r] = p
    BY <1>1, <1>3, StepIs
  <2>2. Theirs'[Identity(q)] = {s \in Request : Over(req'[s]) /\ Identity(req'[s]) = Identity(q)}
    BY <1>7 DEF Theirs, Over, Identity
  <2> HIDE DEF p, q
  <2>3. QED
    BY <1>4, <1>7, <2>1, <2>2 DEF Over
<1>11. posted' # posted => \E m : posted' = posted \cup {m} /\ m.by = r /\ m.n = n
  <2> DEFINE m == SaveChatHistory(r)
  <2>1. m.by = r /\ m.n = n
    BY DEF SaveChatHistory
  <2>2. posted' # posted => posted' = posted \cup {m}
    BY DEF HistoryAnswered
  <2> HIDE DEF m
  <2>3. QED
    BY <2>1, <2>2
<1> HIDE DEF p, q, h
<1>12. n \in Seq(Theirs'[Identity(q)])
  <2> DEFINE T == Theirs'[Identity(q)]
  <2>1. h.read \in Seq(T) /\ r \in T
    BY <1>6, <1>7, <1>8, <1>10 DEF Reads
  <2> HIDE DEF T
  <2>2. turns \in Seq(T) /\ turns # << >>
    BY <2>1
  <2>3. Tail(turns) \in Seq(T)
    BY <2>2
  <2> HIDE DEF turns
  <2>4. n \in Seq(T)
    BY <2>2, <2>3
  <2>5. QED
    BY <2>4 DEF T
<1> HIDE DEF n
<1>13. Reads(p, h, Theirs'[Identity(p)])
  BY <1>2, <1>4, <1>6, <1>7, <1>8 DEF Reads
<1>14. Over(p)
  BY <1>4 DEF Over
<1>15. posted' # posted => \E m : /\ posted' = posted \cup {m} /\ m.by = r
                                  /\ m.n \in Seq(Theirs'[Identity(p)])
  <2>1. CASE posted' = posted
    BY <2>1
  <2>2. CASE posted' # posted
    <3>1. PICK m : posted' = posted \cup {m} /\ m.by = r /\ m.n = n
      BY <1>11, <2>2
    <3>2. m.n \in Seq(Theirs'[Identity(p)])
      BY <1>7, <1>12, <3>1
    <3>3. QED
      BY <3>1, <3>2
  <2>3. QED
    BY <2>1, <2>2
<1>16. ~ Over(req[r])
  BY <1>5 DEF q
<1>17. QED
  BY <1>3, <1>9, <1>13, <1>14, <1>15, <1>16 DEF Remembers

LEMMA HistoryStep ==
    ASSUME AllRested, HistoryInv, Is("ai-history"), [WasmNext]_wasmVars
    PROVE  HistoryInv'
<1>1. AllFormed
  BY RestedIsFormed
<1>2. CASE UNCHANGED wasmVars
  <2>1. UNCHANGED <<req, store, posted, history>>
    BY <1>2 DEF wasmVars, hostVars, restVars, conversationVars
  <2>2. Theirs' = Theirs
    BY <2>1 DEF Theirs, Over, Identity
  <2>3. QED
    BY <2>1, <2>2 DEF HistoryInv, Reads, Over, Identity
<1>3. ASSUME NEW r \in Request, UNCHANGED history, CallFails(r, "lookup") \/ UpstreamAnswers(r) \/ Leave(r)
      PROVE  Remembers(r) /\ UNCHANGED store
  <2> DEFINE q == req[r]
  <2>1. Reads(q, history[r], Theirs[Identity(q)])
    BY DEF HistoryInv
  <2>2. PICK p : Step(r, p)
    BY <1>3 DEF CallFails, UpstreamAnswers, Leave
  <2>3. req'[r] = p
    BY <1>1, <2>2, StepIs
  <2>4. UNCHANGED <<posted, store>>
    BY <1>3 DEF CallFails, UpstreamAnswers, Leave
  <2>5. CASE CallFails(r, "lookup")
    <3>1. q.stage # "headers" /\ "lookup" \in CallName
      BY <2>1, <2>5, WasmAssumption DEF CallFails, Reads, OneAtATime
    <3>2. Formed(q) /\ Step(r, [q EXCEPT !.calls["lookup"] = Failed])
      BY <1>1, <2>5 DEF AllFormed, CallFails
    <3> HIDE DEF q
    <3>3. Unmoved(q, p) /\ p.ctx = q.ctx /\ p.calls = [q.calls EXCEPT !["lookup"] = Failed]
      BY <1>1, <2>3, <3>2, ExecutedFields DEF q
    <3>4. p.calls["lookup"] = Failed /\ p.key = q.key /\ p.stage = q.stage /\ Identity(p) = Identity(q)
      BY <3>1, <3>2, <3>3 DEF Formed, Unmoved, Identity
    <3>5. QED
      BY <1>1, <1>3, <2>2, <2>4, <3>1, <3>4, NothingRead DEF Over, q
  <2>6. CASE UpstreamAnswers(r) \/ Leave(r)
    <3>1. World(r)
      BY <2>6 DEF World
    <3> HIDE DEF q
    <3>2. /\ Kept(q, p) /\ q.stage \notin {"over", "gone"}
          /\ \/ q.stage = "upstream" /\ p.stage = "answering"
             \/ q.stage = "answering" /\ p.stage \in {"over", "response"}
             \/ p.stage = "gone"
      BY <1>1, <2>3, <3>1, WorldFields DEF q
    <3>3. /\ p.key = q.key /\ Identity(p) = Identity(q) /\ p.stage # "headers" /\ ~ Over(q)
          /\ p.calls["lookup"] = q.calls["lookup"]
      BY <3>2 DEF Kept, Identity, Over
    <3>4. QED
      BY <1>1, <1>3, <2>2, <2>4, <3>3, NothingRead DEF q
  <2>7. QED
    BY <1>3, <2>5, <2>6
<1>4. ASSUME UNCHANGED <<req, history>>, posted' \subseteq posted, store' = [k \in Key |-> store'[k]],
             \A k \in Key : store'[k] \in {None, store[k]} \/ store'[k] \in Seq(Theirs[k])
      PROVE  HistoryInv'
  <2>1. Theirs' = Theirs
    BY <1>4 DEF Theirs, Over, Identity
  <2>2. \A k \in Key : store'[k] = None \/ store'[k] \in Seq(Theirs[k])
    BY <1>4 DEF HistoryInv
  <2>3. QED
    BY <1>4, <2>1, <2>2 DEF HistoryInv, Reads, Over, Identity
<1>5. ASSUME NEW m \in posted, HistorySet(m)
      PROVE  HistoryInv'
  <2>1. PICK k \in Key : k = Identity(req[m.by])
    BY IdentityIsKey DEF HistoryInv, Reads
  <2>2. m.n \in Seq(Theirs[k])
    BY <2>1 DEF HistoryInv
  <2>3. store' = store \/ store' = [store EXCEPT ![k] = m.n]
    BY <1>5, <2>1 DEF HistorySet
  <2>4. /\ store' = [j \in Key |-> store'[j]]
        /\ \A j \in Key : store'[j] \in {None, store[j]} \/ store'[j] \in Seq(Theirs[j])
    BY <2>2, <2>3 DEF HistoryInv
  <2>5. UNCHANGED <<req, history>> /\ posted' \subseteq posted
    BY <1>5 DEF HistorySet, conversationVars
  <2>6. QED
    BY <1>4, <2>4, <2>5
<1>6. ASSUME NEW k \in Key, HistoryExpires(k)
      PROVE  HistoryInv'
  <2>1. store' = [store EXCEPT ![k] = None] /\ UNCHANGED <<req, history, posted>>
    BY <1>6 DEF HistoryExpires, conversationVars
  <2>2. /\ store' = [j \in Key |-> store'[j]]
        /\ \A j \in Key : store'[j] \in {None, store[j]} \/ store'[j] \in Seq(Theirs[j])
    BY <2>1 DEF HistoryInv
  <2>3. QED
    BY <1>4, <2>1, <2>2
<1>7. CASE WasmNext
  <2>1. CASE \E r \in Request :
                \/ HistoryHeaders(r) \/ HistoryBody(r) \/ HistoryGet(r) \/ HistoryReturns(r) \/ HistoryAnswered(r)
                \/ UNCHANGED history /\ (CallFails(r, "lookup") \/ UpstreamAnswers(r) \/ Leave(r))
    <3>1. PICK r \in Request : Remembers(r) /\ UNCHANGED store
      BY <1>3, <2>1, HistoryHeadersRemembers, HistoryBodyRemembers, HistoryGetRemembers,
         HistoryReturnsRemembers, HistoryAnsweredRemembers
    <3>2. QED
      BY <1>1, <3>1, HistoryKeeps
  <2>2. QED
    BY <1>5, <1>6, <1>7, <2>1, HistorySteps
<1>8. QED
  BY <1>2, <1>7

-----------------------------------------------------------------------------
(* The conversation of ai-agent *)

\* Nobody whose messages are in the list was over when a request came that is still asking.
AgentInv ==
    /\ agent = [said |-> agent.said, asked |-> agent.asked, before |-> agent.before]
    /\ agent.asked = [r \in Request |-> agent.asked[r]]
    /\ agent.before = [r \in Request |-> agent.before[r]]
    /\ \A r \in Request :
        /\ agent.asked[r] \cap agent.before[r] = {}
        /\ agent.said \cap agent.before[r] = {}
        /\ \A s \in agent.before[r] : s \in Request /\ Over(req[s])
        /\ req[r].stage \in {"headers", "body"} => agent.asked[r] = {}
        /\ req[r].calls["tool"] # None \/ req[r].calls["llm"] # None =>
              req[r].stage \notin {"headers", "body"}

LEMMA AgentSteps ==
    ASSUME Is("ai-agent"), WasmNext
    PROVE  \E r \in Request :
              \/ AgentHeaders(r) \/ AgentBody(r) \/ AgentAnswered(r) \/ ToolsCallResult(r) \/ AgentThinks(r)
              \/ JsonFormat(r)
              \/ UNCHANGED agent /\ (UpstreamAnswers(r) \/ Leave(r))
BY DEF WasmNext, Handlers, Callbacks, Answers, Fail, AnsweredCalls, Upstream, Left, Background, Is, Access,
       Consumers, Limits, Caches, Chains, ChainConf, Conversing, ConversationHandlers, ConversationReturns,
       restVars, conversationVars

\* What a step of request r may do to the list: the request may add to it and be asked with it,
\* or begin it anew.
Utters(r, q, said, asked) ==
    /\ Step(r, q) /\ ~ Over(req[r])
    /\ q.stage \in {"headers", "body"} => req[r].stage \in {"headers", "body"} /\ asked = agent.asked[r]
    /\ q.calls["tool"] # None \/ q.calls["llm"] # None => q.stage \notin {"headers", "body"}
    /\ said \subseteq agent.said \cup {r}
    /\ asked \subseteq agent.asked[r] \cup said
    /\ \/ agent' = [agent EXCEPT !.said = said, !.asked[r] = asked]
       \/ /\ said \subseteq {r} /\ asked = {} /\ agent.asked[r] = {}
          /\ agent' = [agent EXCEPT !.said = said,
                                    !.before[r] = {s \in Request : req[s].stage \in {"over", "gone"}}]

Says(r) == \E q, said, asked : Utters(r, q, said, asked)

LEMMA AgentKeeps ==
    ASSUME AllFormed, AgentInv, NEW r \in Request, Says(r)
    PROVE  AgentInv'
<1>1. PICK q, said, asked :
        /\ Step(r, q) /\ ~ Over(req[r])
        /\ q.stage \in {"headers", "body"} => req[r].stage \in {"headers", "body"} /\ asked = agent.asked[r]
        /\ q.calls["tool"] # None \/ q.calls["llm"] # None => q.stage \notin {"headers", "body"}
        /\ said \subseteq agent.said \cup {r}
        /\ asked \subseteq agent.asked[r] \cup said
        /\ \/ agent' = [agent EXCEPT !.said = said, !.asked[r] = asked]
           \/ /\ said \subseteq {r} /\ asked = {} /\ agent.asked[r] = {}
              /\ agent' = [agent EXCEPT !.said = said,
                                        !.before[r] = {s \in Request : req[s].stage \in {"over", "gone"}}]
  BY DEF Says, Utters
<1>2. req'[r] = q /\ \A s \in Request : s # r => req'[s] = req[s]
  BY <1>1, StepIs
<1>3. \A s \in Request : Over(req[s]) => Over(req'[s]) /\ s # r
  BY <1>1, <1>2
<1> DEFINE before == {s \in Request : Over(req[s])}
<1>4. /\ agent' = [said |-> agent'.said, asked |-> agent'.asked, before |-> agent'.before]
      /\ agent'.said = said
      /\ agent'.asked = [s \in Request |-> IF s = r THEN asked ELSE agent.asked[s]]
      /\ \/ agent'.before = agent.before
         \/ /\ said \subseteq {r} /\ asked = {}
            /\ agent'.before = [s \in Request |-> IF s = r THEN before ELSE agent.before[s]]
  <2>1. CASE agent' = [agent EXCEPT !.said = said, !.asked[r] = asked]
    BY <2>1 DEF AgentInv
  <2>2. CASE /\ said \subseteq {r} /\ asked = {} /\ agent.asked[r] = {}
             /\ agent' = [agent EXCEPT !.said = said,
                                       !.before[r] = {s \in Request : req[s].stage \in {"over", "gone"}}]
    <3>1. before = {s \in Request : req[s].stage \in {"over", "gone"}}
      BY DEF Over
    <3> HIDE DEF before
    <3>2. agent' = [agent EXCEPT !.said = said, !.before[r] = before]
      BY <2>2, <3>1
    <3>3. agent' = [said |-> said, asked |-> agent.asked, before |-> [agent.before EXCEPT ![r] = before]]
      BY <3>2 DEF AgentInv
    <3>4. agent'.said = said /\ agent'.asked = agent.asked /\ agent'.before = [agent.before EXCEPT ![r] = before]
      BY <3>3
    <3>5. agent'.asked = [s \in Request |-> IF s = r THEN asked ELSE agent.asked[s]]
      BY <2>2, <3>4 DEF AgentInv
    <3>6. agent'.before = [s \in Request |-> IF s = r THEN before ELSE agent.before[s]]
      BY <3>4 DEF AgentInv
    <3>7. agent' = [said |-> agent'.said, asked |-> agent'.asked, before |-> agent'.before]
      BY <3>3, <3>4
    <3>8. QED
      BY <2>2, <3>4, <3>5, <3>6, <3>7
  <2>3. QED
    BY <1>1, <2>1, <2>2
<1> HIDE DEF before
<1>5. ASSUME NEW s \in Request
      PROVE  /\ agent'.asked[s] \cap agent'.before[s] = {} /\ said \cap agent'.before[s] = {}
             /\ \A o \in agent'.before[s] : o \in Request /\ Over(req'[o])
  <2>1. /\ agent.asked[s] \cap agent.before[s] = {} /\ agent.said \cap agent.before[s] = {}
        /\ \A o \in agent.before[s] : o \in Request /\ Over(req[o])
    BY DEF AgentInv
  <2>2. r \notin agent.before[s] /\ r \notin before
    BY <1>1, <2>1 DEF before
  <2>3. CASE agent'.before[s] = agent.before[s]
    BY <1>1, <1>3, <1>4, <2>1, <2>2, <2>3
  <2>4. CASE s = r /\ said \subseteq {r} /\ asked = {} /\ agent'.before[s] = before
    <3>1. said \cap before = {} /\ agent'.asked[s] = {}
      BY <1>4, <2>2, <2>4
    <3>2. \A o \in before : o \in Request /\ Over(req'[o])
      BY <1>3 DEF before
    <3>3. QED
      BY <2>4, <3>1, <3>2
  <2>5. CASE s # r /\ agent'.before[s] = agent.before[s]
    BY <2>3, <2>5
  <2>6. QED
    BY <1>4, <2>3, <2>4, <2>5
<1>6. ASSUME NEW s \in Request
      PROVE  /\ req'[s].stage \in {"headers", "body"} => agent'.asked[s] = {}
             /\ req'[s].calls["tool"] # None \/ req'[s].calls["llm"] # None =>
                   req'[s].stage \notin {"headers", "body"}
  BY <1>1, <1>2, <1>4 DEF AgentInv
<1>7. /\ agent'.asked = [s \in Request |-> agent'.asked[s]]
      /\ agent'.before = [s \in Request |-> agent'.before[s]]
  BY <1>4 DEF AgentInv
<1>8. QED
  BY <1>4, <1>5, <1>6, <1>7 DEF AgentInv, Over

\* What moves a request without a question to the model.
LEMMA SaysNothing ==
    ASSUME AgentInv, NEW r \in Request, NEW q, Step(r, q), UNCHANGED agent, ~ Over(req[r]),
           q.stage \in {"headers", "body"} => req[r].stage \in {"headers", "body"},
           q.calls["tool"] # None \/ q.calls["llm"] # None => q.stage \notin {"headers", "body"}
    PROVE  Says(r)
<1> DEFINE said == agent.said  asked == agent.asked[r]
<1>1. agent' = [agent EXCEPT !.said = said, !.asked[r] = asked]
  BY DEF AgentInv
<1> HIDE DEF said, asked
<1>2. said \subseteq agent.said \cup {r} /\ asked \subseteq agent.asked[r] \cup said /\ asked = agent.asked[r]
  BY DEF said, asked
<1>3. /\ Step(r, q) /\ ~ Over(req[r])
      /\ q.stage \in {"headers", "body"} => req[r].stage \in {"headers", "body"} /\ asked = agent.asked[r]
      /\ q.calls["tool"] # None \/ q.calls["llm"] # None => q.stage \notin {"headers", "body"}
      /\ said \subseteq agent.said \cup {r}
      /\ asked \subseteq agent.asked[r] \cup said
  BY <1>2
<1> HIDE DEF said, asked
<1>4. Utters(r, q, said, asked)
  BY <1>1, <1>3 DEF Utters
<1>5. QED
  BY <1>4 DEF Says

\* What follows an answer of the model or of a tool.
Follows(q) ==
    {PassedOn(q), Dead(q), WrongSide(q), Awaiting(q, "tool"), Awaiting(q, "llm"), Awaiting(q, "format")}

LEMMA FollowsFields ==
    ASSUME NEW q, Ready(q), q.stage = "answering", NEW p \in Follows(q)
    PROVE  p.stage \in {"answering", "over"}
<1>1. Formed(q)
  BY DEF Ready
<1>2. CASE p = PassedOn(q)
  BY <1>1, <1>2, PassedOnFields
<1>3. CASE p = Dead(q) \/ p = WrongSide(q)
  <2>1. Formed(Paused(q)) /\ Paused(q).stage = "answering"
    BY <1>1, PausedFields
  <2>2. \A S : Learning(Paused(q), S).stage = "answering"
    BY <2>1, LearningFields DEF Unmoved
  <2>3. QED
    BY <1>3, <2>2, Zenon DEF Dead, WrongSide
<1>4. ASSUME NEW c, p = Awaiting(q, c)
      PROVE  p.stage = q.stage
  BY <1>1, <1>4, AwaitingFields
<1>5. QED
  BY <1>2, <1>3, <1>4 DEF Follows

\* The request says something while it is answered, and may be asked with all that was said.
LEMMA SaysMore ==
    ASSUME AgentInv, NEW r \in Request, req[r].stage = "answering",
           NEW q, Ready(q), q.stage = "answering", NEW p \in Follows(q), Step(r, p),
           \/ UNCHANGED agent
           \/ agent' = [agent EXCEPT !.said = @ \cup {r}]
           \/ agent' = [agent EXCEPT !.said = @ \cup {r}, !.asked[r] = @ \cup (agent.said \cup {r})]
    PROVE  Says(r)
<1>1. p.stage \notin {"headers", "body"} /\ ~ Over(req[r])
  BY FollowsFields DEF Over
<1>2. CASE UNCHANGED agent
  BY <1>1, <1>2, SaysNothing
<1>3. ASSUME NEW asked, asked \in {agent.asked[r], agent.asked[r] \cup (agent.said \cup {r})},
             agent' = [agent EXCEPT !.said = @ \cup {r}, !.asked[r] = asked]
      PROVE  Says(r)
  <2> DEFINE said == agent.said \cup {r}
  <2>1. agent' = [agent EXCEPT !.said = said, !.asked[r] = asked] /\ asked \subseteq agent.asked[r] \cup said
        /\ said \subseteq agent.said \cup {r}
    BY <1>3
  <2> HIDE DEF said
  <2>2. QED
    BY <1>1, <2>1 DEF Says, Utters
<1>4. CASE agent' = [agent EXCEPT !.said = @ \cup {r}]
  <2>1. agent' = [agent EXCEPT !.said = @ \cup {r}, !.asked[r] = agent.asked[r]]
    BY <1>4 DEF AgentInv
  <2>2. QED
    BY <1>3, <2>1
<1>5. CASE agent' = [agent EXCEPT !.said = @ \cup {r}, !.asked[r] = @ \cup (agent.said \cup {r})]
  <2>1. agent' = [agent EXCEPT !.said = @ \cup {r}, !.asked[r] = agent.asked[r] \cup (agent.said \cup {r})]
    BY <1>5
  <2>2. QED
    BY <1>3, <2>1
<1>6. QED
  BY <1>2, <1>4, <1>5

\* A callback of the agent finds the request with its answer held.
LEMMA AgentIsCalled ==
    ASSUME AllRested, AgentInv, NEW r \in Request, NEW c \in {"tool", "llm"}, Called(r, c)
    PROVE  Ready(Back(r, c)) /\ Back(r, c).stage = "answering" /\ req[r].stage = "answering"
<1>1. Ready(Back(r, c)) /\ Formed(req[r]) /\ req[r].calls[c] # None
  BY CalledIsReady DEF OneAtATime, Called, AllRested, Rested
<1>2. Back(r, c).stage = req[r].stage
  BY <1>1, BackFields DEF Unmoved
<1>3. req[r].stage \in Holding /\ req[r].stage \notin {"headers", "body"}
  BY <1>1, <1>2 DEF Ready, AgentInv
<1>4. QED
  BY <1>1, <1>2, <1>3 DEF Holding

LEMMA ToolsCallSays ==
    ASSUME AgentInv, NEW r \in Request, req[r].stage = "answering",
           NEW q, Ready(q), q.stage = "answering",
           NEW answered, answered \subseteq Follows(q), ToolsCall(r, q, answered)
    PROVE  Says(r)
<1>1. \E p \in Follows(q) : Step(r, p)
  BY DEF ToolsCall, Follows
<1>2. agent' = [agent EXCEPT !.said = @ \cup {r}]
  BY DEF ToolsCall
<1>3. QED
  BY <1>1, <1>2, SaysMore

LEMMA AgentStep ==
    ASSUME AllRested, AgentInv, Is("ai-agent"), [WasmNext]_wasmVars
    PROVE  AgentInv'
<1>1. AllFormed
  BY RestedIsFormed
<1>2. CASE UNCHANGED wasmVars
  BY <1>2 DEF wasmVars, hostVars, restVars, conversationVars, AgentInv, Over
<1>3. ASSUME NEW r \in Request, AgentHeaders(r) \/ AgentBody(r)
      PROVE  Says(r)
  <2> DEFINE q == req[r]
  <2>1. Ready(q) /\ q.stage \in {"headers", "body"} /\ {"tool", "llm"} \subseteq CallName
    BY <1>3, HandlingIsReady, WasmAssumption DEF AgentHeaders, AgentBody, Holding, Handling, OneAtATime
  <2>2. Formed(q) /\ q.calls["tool"] = None /\ q.calls["llm"] = None /\ ~ Over(q)
    BY <2>1 DEF Ready, Idle, Over
  <2>3. agent.asked[r] = {}
    BY <2>1 DEF AgentInv
  <2> DEFINE n == Noting(q, {"counted"})
  <2>4. Formed(n) /\ n.calls = q.calls
    BY <2>2, NotingFields
  <2>5. PICK p \in {Continued(q), Continued(n), Replied(q)} :
          /\ Step(r, p)
          /\ \/ UNCHANGED agent
             \/ agent' = [agent EXCEPT !.said = Clear(@) \cup {r},
                                       !.before[r] = {s \in Request : req[s].stage \in {"over", "gone"}}]
    BY <1>3 DEF AgentHeaders, AgentBody, conversationVars
  <2> HIDE DEF n, q
  <2>6. p.calls = q.calls
    BY <2>2, <2>4, <2>5, ContinuedFields, RepliedFields DEF Kept
  <2>7. p.calls["tool"] = None /\ p.calls["llm"] = None
    BY <2>2, <2>6
  <2>8. CASE UNCHANGED agent
    BY <2>1, <2>2, <2>5, <2>7, <2>8, SaysNothing DEF q
  <2>9. CASE agent' = [agent EXCEPT !.said = Clear(@) \cup {r},
                                    !.before[r] = {s \in Request : req[s].stage \in {"over", "gone"}}]
    <3>1. agent' = [agent EXCEPT !.said = {r}, !.before[r] = {s \in Request : req[s].stage \in {"over", "gone"}}]
      BY <2>9 DEF Clear
    <3> DEFINE asked == {}  said == {r}
    <3>2. /\ asked = agent.asked[r] /\ said \subseteq agent.said \cup {r} /\ said \subseteq {r} /\ asked = {}
          /\ asked \subseteq agent.asked[r] \cup said
      BY <2>3
    <3>3. agent' = [agent EXCEPT !.said = said, !.before[r] = {s \in Request : req[s].stage \in {"over", "gone"}}]
      BY <3>1
    <3>4. Step(r, p) /\ ~ Over(req[r]) /\ req[r].stage \in {"headers", "body"} /\ agent.asked[r] = {}
      BY <2>1, <2>2, <2>3, <2>5 DEF q
    <3> HIDE DEF asked, said
    <3>5. QED
      BY <2>7, <3>2, <3>3, <3>4 DEF Says, Utters
  <2>10. QED
    BY <2>5, <2>8, <2>9
<1>4. ASSUME NEW r \in Request, AgentAnswered(r)
      PROVE  Says(r)
  <2>1. Ready(req[r]) /\ req[r].stage = "answering"
    BY <1>4, HandlingIsReady DEF AgentAnswered, Holding, Handling
  <2>2. \/ \E p \in Follows(req[r]) : Step(r, p) /\ UNCHANGED agent
        \/ ToolsCall(r, req[r], {PassedOn(req[r])})
    BY <1>4 DEF AgentAnswered, Follows
  <2>3. {PassedOn(req[r])} \subseteq Follows(req[r])
    BY DEF Follows
  <2>4. QED
    BY <2>1, <2>2, <2>3, SaysMore, ToolsCallSays
<1>5. ASSUME NEW r \in Request, ToolsCallResult(r)
      PROVE  Says(r)
  <2>1. Ready(Back(r, "tool")) /\ Back(r, "tool").stage = "answering" /\ req[r].stage = "answering"
    BY <1>5, AgentIsCalled DEF ToolsCallResult
  <2>2. \E p \in Follows(Back(r, "tool")) :
           /\ Step(r, p)
           /\ \/ agent' = [agent EXCEPT !.said = @ \cup {r}, !.asked[r] = @ \cup (agent.said \cup {r})]
              \/ agent' = [agent EXCEPT !.said = @ \cup {r}]
    BY <1>5 DEF ToolsCallResult, Follows
  <2>3. QED
    BY <2>1, <2>2, SaysMore
<1>6. ASSUME NEW r \in Request, AgentThinks(r)
      PROVE  Says(r)
  <2>1. Ready(Back(r, "llm")) /\ Back(r, "llm").stage = "answering" /\ req[r].stage = "answering"
    BY <1>6, AgentIsCalled DEF AgentThinks
  <2>2. \/ \E p \in Follows(Back(r, "llm")) : Step(r, p) /\ UNCHANGED agent
        \/ ToolsCall(r, Back(r, "llm"), AgentAnswers(Back(r, "llm")))
    BY <1>6 DEF AgentThinks, Follows
  <2>3. AgentAnswers(Back(r, "llm")) \subseteq Follows(Back(r, "llm"))
    BY DEF AgentAnswers, Follows
  <2>4. QED
    BY <2>1, <2>2, <2>3, SaysMore, ToolsCallSays
<1>7. ASSUME NEW r \in Request, JsonFormat(r)
      PROVE  Says(r)
  <2> DEFINE b == Back(r, "format")
  <2>1. Ready(b) /\ UNCHANGED agent /\ Formed(req[r]) /\ {"tool", "llm"} \subseteq CallName
    BY <1>1, <1>7, CalledIsReady, WasmAssumption DEF JsonFormat, OneAtATime, conversationVars, AllFormed
  <2>2. /\ Formed(b) /\ b.stage = req[r].stage /\ b.stage \in Holding
        /\ b.calls["tool"] = None /\ b.calls["llm"] = None
    BY <2>1, BackFields DEF Ready, Unmoved, Idle
  <2>3. PICK p \in {PassedOn(b), Dead(b)} : Step(r, p)
    BY <1>7 DEF JsonFormat
  <2> HIDE DEF b
  <2>4. p.calls = b.calls /\ p.stage \in {b.stage, "over"}
    <3>1. CASE p = PassedOn(b)
      BY <2>2, <3>1, PassedOnFields DEF Kept
    <3>2. CASE p = Dead(b)
      BY <2>2, <3>2, PausedFields, LearningFields DEF Dead, Unmoved, Kept
    <3>3. QED
      BY <2>3, <3>1, <3>2
  <2>5. ~ Over(req[r])
    BY <2>2 DEF Over, Holding
  <2>6. QED
    BY <2>1, <2>2, <2>3, <2>4, <2>5, SaysNothing
<1>8. ASSUME NEW r \in Request, UNCHANGED agent, UpstreamAnswers(r) \/ Leave(r)
      PROVE  Says(r)
  <2> DEFINE q == req[r]
  <2>1. World(r)
    BY <1>8 DEF World
  <2>2. PICK p : Step(r, p)
    BY <1>8 DEF UpstreamAnswers, Leave
  <2>3. req'[r] = p
    BY <1>1, <2>2, StepIs
  <2>4. q.stage \notin {"over", "gone"} /\ p.stage \notin {"headers", "body"}
    BY <1>1, <2>1, <2>3, WorldFields
  <2>5. QED
    BY <1>8, <2>2, <2>4, SaysNothing DEF Over
<1>9. CASE WasmNext
  BY <1>1, <1>3, <1>4, <1>5, <1>6, <1>7, <1>8, <1>9, AgentSteps, AgentKeeps
<1>10. QED
  BY <1>2, <1>9

\* The other plugins remember nothing.
LEMMA OthersRememberNothing ==
    ASSUME WasmNext
    PROVE  /\ ~ Is("ai-history") => UNCHANGED history
           /\ ~ Is("ai-agent") => UNCHANGED agent
<1>1. ASSUME UNCHANGED restVars PROVE UNCHANGED <<history, agent>>
  BY <1>1 DEF restVars, conversationVars
<1>2. ASSUME NEW r \in Request, Handlers(r)
      PROVE  /\ ~ Is("ai-history") => UNCHANGED history
             /\ ~ Is("ai-agent") => UNCHANGED agent
  <2>1. CASE ConversationHandlers(r)
    <3>1. ~ Is("ai-history") => UNCHANGED history
      BY <2>1 DEF ConversationHandlers, AgentHeaders, AgentBody, AgentAnswered, Is, conversationVars
    <3>2. ~ Is("ai-agent") => UNCHANGED agent
      BY <2>1 DEF ConversationHandlers, HistoryHeaders, HistoryBody, HistoryAnswered, Is, conversationVars
    <3>3. QED
      BY <3>1, <3>2
  <2>2. QED
    BY <1>1, <1>2, <2>1 DEF Handlers, conversationVars
<1>3. ASSUME NEW r \in Request, Callbacks(r)
      PROVE  /\ ~ Is("ai-history") => UNCHANGED history
             /\ ~ Is("ai-agent") => UNCHANGED agent
  <2>1. CASE ConversationReturns(r)
    <3>1. ~ Is("ai-history") => UNCHANGED history
      BY <2>1 DEF ConversationReturns, ToolsCallResult, AgentThinks, JsonFormat, Is, conversationVars
    <3>2. ~ Is("ai-agent") => UNCHANGED agent
      BY <2>1 DEF ConversationReturns, HistoryReturns, Is
    <3>3. QED
      BY <3>1, <3>2
  <2>2. QED
    BY <1>1, <1>3, <2>1 DEF Callbacks, conversationVars
<1>4. ASSUME NEW r \in Request, Answers(r) \/ Fail(r) \/ Upstream(r) \/ Left(r)
      PROVE  /\ ~ Is("ai-history") => UNCHANGED history
             /\ ~ Is("ai-agent") => UNCHANGED agent
  BY <1>1, <1>4 DEF Answers, Fail, Upstream, Left, HistoryGet, Is, conversationVars
<1>5. ASSUME Background
      PROVE  /\ ~ Is("ai-history") => UNCHANGED history
             /\ ~ Is("ai-agent") => UNCHANGED agent
  BY <1>1, <1>5 DEF Background, HistorySet, HistoryExpires, Is, conversationVars
<1>6. QED
  BY <1>2, <1>3, <1>4, <1>5 DEF WasmNext

ConversationInv ==
    /\ HostInv
    /\ IF Is("ai-history") THEN HistoryInv ELSE history = NoHistory
    /\ IF Is("ai-agent") THEN AgentInv ELSE agent = NoAgent

LEMMA InitConversations == WasmInit => ConversationInv
<1> SUFFICES ASSUME WasmInit PROVE ConversationInv
  OBVIOUS
<1>1. store = [k \in Key |-> None] /\ posted = {} /\ history = NoHistory /\ agent = NoAgent
  BY DEF WasmInit
<1>2. \A r \in Request : /\ req[r].calls["lookup"] = None /\ req[r].calls["tool"] = None
                         /\ req[r].calls["llm"] = None /\ req[r].key \in Key
  BY InitialRequests, WasmAssumption DEF Quiet, Idle, OneAtATime
<1>3. AgentInv
  BY <1>1, <1>2 DEF AgentInv, NoAgent
<1>4. ASSUME Is("ai-history")
      PROVE  HistoryInv
  <2>1. \A r \in Request : req[r].key # Unnamed
    BY <1>4 DEF WasmInit, KeysOf, Is
  <2>2. ASSUME NEW r \in Request
        PROVE  Reads(req[r], history[r], Theirs[Identity(req[r])])
    <3>1. history[r].read = << >> /\ history[r].shown = {}
      BY <1>1 DEF NoHistory
    <3>2. QED
      BY <1>2, <2>1, <3>1, EmptySeq DEF Reads
  <2>3. history = [r \in Request |-> history[r]]
    BY <1>1 DEF NoHistory
  <2>4. QED
    BY <1>1, <2>2, <2>3 DEF HistoryInv
<1>5. QED
  BY <1>1, <1>3, <1>4, InitHost DEF ConversationInv

LEMMA StepConversations == ConversationInv /\ [WasmNext]_wasmVars => ConversationInv'
<1> SUFFICES ASSUME ConversationInv, [WasmNext]_wasmVars PROVE ConversationInv'
  OBVIOUS
<1>1. HostInv' /\ conf' = conf
  BY StepHost DEF ConversationInv
<1>2. CASE Is("ai-history")
  <2>1. AllRested /\ ~ Is("ai-agent")
    BY <1>2 DEF ConversationInv, HostInv, LooksUpMeanwhile, Is
  <2>2. HistoryInv' /\ UNCHANGED agent
    BY <1>2, <2>1, HistoryStep, OthersRememberNothing DEF ConversationInv, wasmVars, restVars, conversationVars
  <2>3. QED
    BY <1>1, <1>2, <2>1, <2>2 DEF ConversationInv, Is, NoAgent
<1>3. CASE Is("ai-agent")
  <2>1. AllRested /\ ~ Is("ai-history")
    BY <1>3 DEF ConversationInv, HostInv, LooksUpMeanwhile, Is
  <2>2. AgentInv' /\ UNCHANGED history
    BY <1>3, <2>1, AgentStep, OthersRememberNothing DEF ConversationInv, wasmVars, restVars, conversationVars
  <2>3. QED
    BY <1>1, <1>3, <2>1, <2>2 DEF ConversationInv, Is, NoHistory
<1>4. CASE ~ Is("ai-history") /\ ~ Is("ai-agent")
  <2>1. UNCHANGED <<history, agent>>
    BY <1>4, OthersRememberNothing DEF wasmVars, restVars, conversationVars
  <2>2. QED
    BY <1>1, <1>4, <2>1 DEF ConversationInv, Is, NoHistory, NoAgent
<1>5. QED
  BY <1>2, <1>3, <1>4

\* Whatever was lost or came late, a user who is known is never shown the turns of another, and
\* the model is never asked with what was said in a conversation that was over before.
THEOREM ConversationsStayApart == WasmSpec => []ConversationsApart
<1>1. ASSUME ConversationInv, NEW r \in Request, "named" \in req[r].ctx, NEW s \in history[r].shown
      PROVE  req[s].key = req[r].key
  <2>1. Is("ai-history")
    BY <1>1 DEF ConversationInv, NoHistory
  <2>2. Reads(req[r], history[r], Theirs[Identity(req[r])]) /\ Identity(req[r]) = req[r].key
    BY <1>1, <2>1 DEF ConversationInv, HistoryInv, Identity
  <2>3. s \in Request /\ Identity(req[s]) = req[r].key /\ req[r].key # Unnamed
    BY <2>2 DEF Reads, Theirs
  <2>4. QED
    BY <2>3 DEF Identity
<1>2. ASSUME ConversationInv, NEW r \in Request
      PROVE  agent.asked[r] \cap agent.before[r] = {}
  BY <1>2 DEF ConversationInv, AgentInv, NoAgent
<1>3. ConversationInv => ConversationsApart
  BY <1>1, <1>2 DEF ConversationsApart
<1>4. QED
  BY <1>3, InitConversations, StepConversations, PTL DEF WasmSpec

-----------------------------------------------------------------------------
(* What may go upstream: the plugins that admit a request or refuse it. *)

\* The headers or the body of a request are before the plugin.
Begun == {"headers", "body"}

ExtAuthFine(q) == q.stage \in Admitted => ExtAuthAdmits(q)

\* The policy has said nothing but yes, or the request is held for good.
OpaFine(q) ==
    /\ q.stage \in Begun => q.facts \subseteq {"true"} \/ (q.held /\ Idle(q))
    /\ q.stage \in Admitted => OpaAdmits(q)

ValidationFine(q) == q.stage \in Begun \cup Admitted => ValidationAdmits(q)

ReplayFine(q) == q.stage \in Begun \cup Admitted => ReplayAdmits(q)

\* What a handler leaves behind of a request that it was given in order.
LEMMA GoesOn ==
    ASSUME NEW l, Ready(l)
    PROVE  /\ Kept(l, Continued(l)) /\ Kept(l, Resumed(l)) /\ Kept(l, Replied(l))
           /\ Kept(l, Continued(Resumed(l)))
           /\ Replied(l).stage = "over" /\ Continued(Replied(l)) = Replied(l)
           /\ ~ Continued(l).local /\ ~ Resumed(l).local /\ Replied(l).local
<1>1. Formed(l) /\ ~ l.local /\ l.stage \in Holding
  BY DEF Ready, Sound, Holding
<1>2. /\ Formed(Resumed(l)) /\ Kept(l, Resumed(l)) /\ Kept(l, Continued(l))
      /\ Resumed(l) = Continued(l) \/ Resumed(l) = l
      /\ Continued(l).local = l.local
  BY <1>1, ResumedFields, ContinuedFields
<1>3. Kept(l, Continued(Resumed(l)))
  BY <1>2, ContinuedFields DEF Kept
<1>4. Formed(Replied(l)) /\ Kept(l, Replied(l)) /\ Replied(l).stage = "over" /\ Replied(l).local
  BY <1>1, RepliedFields
<1>5. Continued(Replied(l)) = Replied(l)
  BY <1>4, ContinuedFields
<1>6. QED
  BY <1>1, <1>2, <1>3, <1>4, <1>5

LEMMA ReadyLearns ==
    ASSUME NEW q, Ready(q), NEW S
    PROVE  LET l == Learning(q, S)
           IN /\ Ready(l) /\ l.facts = q.facts \cup S /\ l.stage = q.stage /\ l.held = q.held
              /\ l.key = q.key /\ l.body = q.body /\ l.ctx = q.ctx
BY ReadyNotes, LearningFields DEF Ready, Unmoved

LEMMA ExtAuthStep ==
    ASSUME AllRested, NEW r \in Request, ExtAuthHeaders(r) \/ ExtAuthBody(r) \/ ExtAuthReturns(r)
    PROVE  \E p : Step(r, p) /\ ExtAuthFine(p)
<1>1. ASSUME NEW l, Ready(l), ExtAuthAdmits(l)
      PROVE  ExtAuthFine(Continued(l)) /\ ExtAuthFine(Resumed(l)) /\ ExtAuthFine(Continued(Resumed(l)))
  BY <1>1, GoesOn DEF Kept, ExtAuthFine, ExtAuthAdmits
<1>2. ASSUME NEW l, Ready(l)
      PROVE  ExtAuthFine(Replied(l)) /\ ExtAuthFine(Continued(Replied(l)))
  BY <1>2, GoesOn DEF ExtAuthFine, Admitted
<1>3. ASSUME NEW q, Ready(q), q.stage \in Begun, CheckExtAuth(r, q) PROVE \E p : Step(r, p) /\ ExtAuthFine(p)
  <2>1. CASE Step(r, Awaiting(q, "check"))
    <3>1. ExtAuthFine(Awaiting(q, "check"))
      BY <1>3, AwaitingFields DEF Ready, ExtAuthFine, Begun, Admitted
    <3>2. QED
      BY <2>1, <3>1
  <2>2. CASE Step(r, Continued(ServerErrorHandler(Learning(q, {Class5xx}), Class5xx)))
    <3> DEFINE l == Learning(q, {Class5xx})
    <3>1. Ready(l) /\ Class5xx \in l.facts
      BY <1>3, ReadyLearns
    <3> HIDE DEF l
    <3>2. CASE conf.failureModeAllow
      <4>1. ExtAuthAdmits(l) /\ ServerErrorHandler(l, Class5xx) = Resumed(l)
        BY <3>1, <3>2 DEF ExtAuthAdmits, ServerErrorHandler
      <4>2. QED
        BY <2>2, <3>1, <4>1, <1>1 DEF l
    <3>3. CASE ~ conf.failureModeAllow
      <4>1. ServerErrorHandler(l, Class5xx) = Replied(l)
        BY <3>3 DEF ServerErrorHandler
      <4>2. QED
        BY <2>2, <3>1, <4>1, <1>2 DEF l
    <3>4. QED
      BY <3>2, <3>3
  <2>3. QED
    BY <1>3, <2>1, <2>2 DEF CheckExtAuth
<1>4. CASE ExtAuthHeaders(r)
  <2>1. Ready(req[r]) /\ req[r].stage = "headers"
    BY <1>4, HandlingIsReady DEF ExtAuthHeaders, Handling, Holding
  <2>2. Ready(Unread(req[r])) /\ Unread(req[r]).stage = "headers"
    BY <2>1, ReadyNotes, UnreadFields DEF Ready, Unmoved
  <2>3. Ready(Learning(Unread(req[r]), {"exempt"})) /\ "exempt" \in Learning(Unread(req[r]), {"exempt"}).facts
    BY <2>2, ReadyLearns
  <2>4. ExtAuthFine(Continued(Learning(Unread(req[r]), {"exempt"})))
    BY <2>3, <1>1 DEF ExtAuthAdmits
  <2>5. ExtAuthFine(Postponed(req[r]))
    BY <2>1, PostponedFields DEF Ready, ExtAuthFine, Admitted
  <2>6. QED
    BY <1>3, <1>4, <2>2, <2>4, <2>5 DEF ExtAuthHeaders, Begun
<1>5. CASE ExtAuthBody(r)
  <2>1. Ready(req[r]) /\ req[r].stage = "body"
    BY <1>5, HandlingIsReady DEF ExtAuthBody, Handling, Holding
  <2>2. QED
    BY <1>3, <1>5, <2>1 DEF ExtAuthBody, Begun
<1>6. CASE ExtAuthReturns(r)
  <2> DEFINE b == Back(r, "check")
  <2>1. Ready(b)
    BY <1>6, CalledIsReady DEF ExtAuthReturns, OneAtATime
  <2>2. PICK status \in {"200", Class4xx, Class5xx} :
            Step(r, IF status = "200" THEN Resumed(Learning(b, {status}))
                    ELSE ServerErrorHandler(Learning(b, {status}), status))
    BY <1>6 DEF ExtAuthReturns
  <2> DEFINE l == Learning(b, {status})
  <2>3. Ready(l) /\ status \in l.facts
    BY <2>1, ReadyLearns
  <2>4. Step(r, IF status = "200" THEN Resumed(l) ELSE ServerErrorHandler(l, status))
    BY <2>2
  <2> HIDE DEF l
  <2>5. CASE status = "200"
    <3>1. ExtAuthAdmits(l)
      BY <2>3, <2>5 DEF ExtAuthAdmits
    <3>2. QED
      BY <2>3, <2>4, <2>5, <3>1, <1>1
  <2>6. CASE status # "200" /\ status = Class5xx /\ conf.failureModeAllow
    <3>1. ExtAuthAdmits(l)
      BY <2>3, <2>6 DEF ExtAuthAdmits
    <3>2. QED
      BY <2>3, <2>4, <2>6, <3>1, <1>1 DEF ServerErrorHandler
  <2>7. CASE status # "200" /\ ~ (status = Class5xx /\ conf.failureModeAllow)
    BY <2>3, <2>4, <2>7, <1>2 DEF ServerErrorHandler
  <2>8. QED
    BY <2>5, <2>6, <2>7
<1>7. QED
  BY <1>4, <1>5, <1>6

LEMMA OpaStep ==
    ASSUME AllRested, NEW r \in Request, OpaFine(req[r]), OpaHeaders(r) \/ OpaBody(r) \/ RspCall(r)
    PROVE  \E p : Step(r, p) /\ OpaFine(p)
<1>1. ASSUME Ready(req[r]), ~ req[r].held, req[r].stage \in Begun, OpaCall(r)
      PROVE  \E p : Step(r, p) /\ OpaFine(p)
  <2> DEFINE q == req[r]
  <2>1. Formed(q) /\ q.facts \subseteq {"true"} /\ q.stage \notin Admitted
    BY <1>1 DEF Ready, OpaFine, Begun, Admitted
  <2>2. CASE Step(r, Awaiting(q, "check"))
    <3>1. Awaiting(q, "check").facts = q.facts /\ Awaiting(q, "check").stage = q.stage
      BY <2>1, AwaitingFields
    <3>2. QED
      BY <2>1, <2>2, <3>1 DEF OpaFine
  <2>3. CASE Step(r, Learning(Paused(q), {"unsent"}))
    <3>1. Ready(Paused(q)) /\ Paused(q).stage = q.stage /\ Paused(q).held
      BY <1>1, <2>1, ReadyGoesOn, PausedFields DEF Begun
    <3>2. LET l == Learning(Paused(q), {"unsent"}) IN Idle(l) /\ l.stage = q.stage /\ l.held
      BY <3>1, ReadyLearns DEF Ready
    <3>3. QED
      BY <2>1, <2>3, <3>2 DEF OpaFine
  <2>4. QED
    BY <1>1, <2>2, <2>3 DEF OpaCall
<1>2. CASE OpaHeaders(r)
  <2>1. Ready(req[r]) /\ ~ req[r].held /\ req[r].stage \in Begun
    BY <1>2, HandlingIsReady DEF OpaHeaders, Handling, Holding, Begun
  <2>2. QED
    BY <1>1, <1>2, <2>1 DEF OpaHeaders
<1>3. CASE OpaBody(r)
  <2>1. Ready(req[r]) /\ ~ req[r].held /\ req[r].stage \in Begun
    BY <1>3, HandlingIsReady DEF OpaBody, Handling, Holding, Begun
  <2>2. QED
    BY <1>1, <1>3, <2>1 DEF OpaBody
<1>4. CASE RspCall(r)
  <2> DEFINE b == Back(r, "check")
  <2>1. Ready(b) /\ b.held /\ "check" \in CallName /\ Formed(req[r])
    BY <1>4, CalledIsReady, WasmAssumption DEF RspCall, OneAtATime, AllRested, Rested
  <2>2. b.facts = req[r].facts /\ b.stage = req[r].stage /\ ~ Idle(req[r])
    BY <1>4, <2>1, BackFields DEF RspCall, Called, Unmoved, Idle
  <2>3. b.stage \in Begun \cup Admitted
    BY <2>1 DEF Ready, Holding, Begun, Admitted
  <2>4. b.facts \subseteq {"true"}
    BY <2>2, <2>3 DEF OpaFine, OpaAdmits
  <2>5. PICK verdict \in {"true", "false", "unclear"} :
            Step(r, IF verdict = "true" THEN Resumed(Learning(b, {verdict})) ELSE Replied(Learning(b, {verdict})))
    BY <1>4 DEF RspCall
  <2> DEFINE l == Learning(b, {verdict})
  <2>6. Ready(l) /\ l.facts = b.facts \cup {verdict}
    BY <2>1, ReadyLearns
  <2>7. Step(r, IF verdict = "true" THEN Resumed(l) ELSE Replied(l))
    BY <2>5
  <2> HIDE DEF l, b
  <2>8. CASE verdict = "true"
    <3>1. Resumed(l).facts = {"true"}
      BY <2>4, <2>6, <2>8, GoesOn DEF Kept
    <3>2. QED
      BY <2>7, <2>8, <3>1 DEF OpaFine, OpaAdmits
  <2>9. CASE verdict # "true"
    <3>1. Replied(l).stage = "over"
      BY <2>6, GoesOn
    <3>2. OpaFine(Replied(l))
      BY <3>1 DEF OpaFine, Begun, Admitted
    <3>3. QED
      BY <2>7, <2>9, <3>2
  <2>10. QED
    BY <2>8, <2>9
<1>5. QED
  BY <1>2, <1>3, <1>4

LEMMA ValidationStep ==
    ASSUME AllRested, NEW r \in Request, ValidationFine(req[r]), ValidationHeaders(r) \/ ValidationBody(r)
    PROVE  \E p : Step(r, p) /\ ValidationFine(p)
<1> DEFINE q == req[r]
<1>1. Ready(q) /\ q.stage \in Begun
  BY HandlingIsReady DEF ValidationHeaders, ValidationBody, Handling, Holding, Begun
<1>2. PICK found \in {"valid", "badHeaders", "badBody", "unreadable"} :
          \/ Step(r, Replied(Learning(q, {found})))
          \/ /\ Step(r, Continued(Learning(q, {found})))
             /\ conf.header => found # "badHeaders"
             /\ conf.bodySchema => found # "badBody"
  BY DEF ValidationHeaders, ValidationBody
<1> DEFINE l == Learning(q, {found})
<1>3. Ready(l) /\ l.facts = q.facts \cup {found}
  BY <1>1, ReadyLearns
<1>4. ValidationFine(Replied(l))
  BY <1>3, GoesOn DEF ValidationFine, Begun, Admitted
<1>5. Continued(l).facts = q.facts \cup {found}
  BY <1>3, GoesOn DEF Kept
<1>6. ValidationAdmits(q)
  BY <1>1 DEF ValidationFine
<1> HIDE DEF l, q
<1>7. (conf.header => found # "badHeaders") /\ (conf.bodySchema => found # "badBody") => ValidationFine(Continued(l))
  BY <1>5, <1>6 DEF ValidationFine, ValidationAdmits
<1>8. QED
  BY <1>2, <1>4, <1>7 DEF l, q

LEMMA ReplayAdmitsStep ==
    ASSUME AllRested, ReplayInv, NEW r \in Request, ReplayFine(req[r]), ReplayHeaders(r) \/ ReplayReturns(r)
    PROVE  \E p : Step(r, p) /\ ReplayFine(p)
<1> DEFINE q == req[r]
<1>1. ASSUME NEW l, Ready(l) PROVE ReplayFine(Replied(l))
  BY <1>1, GoesOn DEF ReplayFine, Begun, Admitted
<1>2. CASE ReplayHeaders(r)
  <2>1. Ready(q) /\ q.stage \in Begun
    BY <1>2, HandlingIsReady DEF ReplayHeaders, Handling, Holding, Begun
  <2>2. ReplayAdmits(q)
    BY <2>1 DEF ReplayFine
  <2>3. ASSUME NEW fact \in {"none", "unsent"}, fact = "none" => ~ conf.forceNonce
        PROVE  ReplayFine(Continued(Learning(q, {fact})))
    <3> DEFINE l == Learning(q, {fact})
    <3>1. Ready(l) /\ l.facts = q.facts \cup {fact}
      BY <2>1, ReadyLearns
    <3>2. Continued(l).facts = q.facts \cup {fact}
      BY <3>1, GoesOn DEF Kept
    <3> HIDE DEF l, q
    <3>3. ReplayFine(Continued(l))
      BY <2>2, <2>3, <3>2 DEF ReplayFine, ReplayAdmits
    <3>4. QED
      BY <3>3 DEF l
  <2>4. ReplayFine(Awaiting(q, "check"))
    <3>1. Awaiting(q, "check").facts = q.facts
      BY <2>1, AwaitingFields DEF Ready
    <3>2. QED
      BY <2>2, <3>1 DEF ReplayFine, ReplayAdmits
  <2>5. ReplayFine(Replied(q)) /\ ReplayFine(Replied(Learning(q, {"malformed"})))
    BY <1>1, <2>1, ReadyNotes
  <2>6. QED
    BY <1>2, <2>3, <2>4, <2>5 DEF ReplayHeaders
<1>3. CASE ReplayReturns(r)
  <2> DEFINE b == Back(r, "check")
             o == Outcome(r, "check")
  <2>1. Ready(b) /\ Formed(q)
    BY <1>3, CalledIsReady DEF ReplayReturns, OneAtATime, AllRested, Rested
  <2>2. b.facts = q.facts /\ b.stage = q.stage
    BY <2>1, BackFields DEF Unmoved
  <2>3. o \in {Failed, "OK", "duplicate"}
    BY <1>3 DEF ReplayReturns, Called, Outcome, ReplayInv
  <2>4. o # "none" /\ o # "malformed"
    BY <2>3, OpaqueAssumption DEF Word
  <2>5. b.stage \in Begun \cup Admitted
    BY <2>1 DEF Ready, Holding, Begun, Admitted
  <2>6. ReplayAdmits(q)
    BY <2>2, <2>5 DEF ReplayFine
  <2> DEFINE l == Learning(b, {o})
  <2>7. Ready(l) /\ l.facts = b.facts \cup {o}
    BY <2>1, ReadyLearns
  <2>8. Step(r, IF o = "duplicate" THEN Replied(l) ELSE Resumed(l))
    BY <1>3 DEF ReplayReturns
  <2>9. Resumed(l).facts = q.facts \cup {o}
    BY <2>2, <2>7, GoesOn DEF Kept
  <2> HIDE DEF l, b, o, q
  <2>10. ReplayFine(Resumed(l))
    BY <2>4, <2>6, <2>9 DEF ReplayFine, ReplayAdmits
  <2>11. QED
    BY <1>1, <2>7, <2>8, <2>10
<1>4. QED
  BY <1>2, <1>3

\* What the handlers make of a consumer. The credentials are looked at before the body is.
ConsumerFine(q) ==
    /\ q.stage = "headers" => q.facts = {} /\ (q.body => Is("hmac-auth-apisix"))
    /\ q.stage = "body" => /\ Is("hmac-auth-apisix") /\ q.facts = {"valid"}
                           /\ HmacAllowed(q.key) /\ ~ NotRequired(HmacRuleSet)
    /\ q.stage \in Admitted => Entitled(q) \/ RulesForgotten
    /\ q.local => ~ Entitled(q) \/ TokenTaken(q) \/ QueryUnread(q) \/ RulesForgotten

\* What is learnt of the credentials, and of the place a key is in.
Learnt(cred) == {{cred}, {cred, "header"}, {cred, "query"}}

\* Who is entitled, by the credentials alone.
LEMMA EntitledIs ==
    ASSUME NEW q, NEW cred \in {"valid", "wrong", "missing", "many"}, q.facts \in Learnt(cred)
    PROVE  Entitled(q) <=> \/ ~ AuthRequired
                           \/ cred = "valid" /\ AsTold(q) /\ (conf.allow # {} => q.key \in conf.allow)
                           \/ conf.anonymous /\ cred = "missing"
<1>1. \A w \in {"valid", "missing"} : w \in q.facts <=> cred = w
  BY DEF Learnt
<1>2. "badDigest" \notin q.facts
  BY DEF Learnt
<1>3. QED
  BY <1>1, <1>2 DEF Entitled

\* A handler that ends with what follows leaves a request in order.
LEMMA ConsumerEnds ==
    ASSUME NEW l, Ready(l), l.stage = "headers"
    PROVE  /\ (Entitled(l) \/ RulesForgotten) /\ ~ l.body => ConsumerFine(Continued(l))
           /\ Entitled(l) \/ RulesForgotten => ConsumerFine(Continued(Unread(l)))
           /\ ~ Entitled(l) \/ TokenTaken(l) \/ QueryUnread(l) \/ RulesForgotten => ConsumerFine(Replied(l))
           /\ /\ Is("hmac-auth-apisix") /\ l.facts = {"valid"}
              /\ HmacAllowed(l.key) /\ ~ NotRequired(HmacRuleSet)
              => ConsumerFine(Postponed(l))
<1> DEFINE u == Unread(l)
<1>1. Formed(l) /\ ~ l.local
  BY DEF Ready, Sound, Holding
<1>2. Ready(u) /\ Kept(l, u) /\ Unmoved(l, u) /\ Formed(u)
  BY <1>1, ReadyNotes, UnreadFields DEF Ready
<1>3. ~ u.body
  BY <1>1 DEF Formed, Unread
<1>4. ASSUME NEW q, Ready(q), q.stage = "headers", ~ q.body, q.facts = l.facts, q.key = l.key,
             Entitled(l) \/ RulesForgotten
      PROVE  ConsumerFine(Continued(q))
  <2>1. /\ Continued(q).stage = "upstream" /\ ~ Continued(q).local
        /\ Continued(q).facts = l.facts /\ Continued(q).key = l.key
    BY <1>4, GoesOn, ContinuedFields DEF Ready, Kept
  <2>2. QED
    BY <1>4, <2>1 DEF ConsumerFine, Entitled, AsTold
<1>5. Entitled(l) \/ RulesForgotten => ConsumerFine(Continued(u))
  BY <1>2, <1>3, <1>4 DEF Kept, Unmoved
<1>6. ~ Entitled(l) \/ TokenTaken(l) \/ QueryUnread(l) \/ RulesForgotten => ConsumerFine(Replied(l))
  <2>1. Replied(l).stage = "over" /\ Replied(l).facts = l.facts /\ Replied(l).key = l.key
    BY GoesOn DEF Kept
  <2>2. QED
    BY <2>1 DEF ConsumerFine, Entitled, AsTold, TokenTaken, QueryUnread, Admitted
<1>7. ASSUME Is("hmac-auth-apisix"), l.facts = {"valid"}, HmacAllowed(l.key), ~ NotRequired(HmacRuleSet)
      PROVE  ConsumerFine(Postponed(l))
  <2>1. /\ Postponed(l).stage = "body" /\ Postponed(l).facts = l.facts /\ Postponed(l).key = l.key
        /\ ~ Postponed(l).local
    BY <1>1, PostponedFields DEF Kept
  <2>2. QED
    BY <1>7, <2>1 DEF ConsumerFine, Admitted
<1>8. QED
  BY <1>4, <1>5, <1>6, <1>7

\* The three plugins that read no body agree with what all four say of themselves.
LEMMA KnownConsumers ==
    ASSUME conf \in ConsumerConf,
           NEW q, NEW cred \in {"valid", "wrong", "missing", "many"}, q.facts \in Learnt(cred)
    PROVE  /\ NotRequired(conf.anyRule) => Entitled(q)
           /\ cred = "valid" /\ AsTold(q) /\ Authenticated(q.key, conf.anyRule) => Entitled(q)
           /\ ~ Is("hmac-auth-apisix") /\ ~ NotRequired(conf.anyRule) /\ Entitled(q) =>
                 cred = "valid" /\ AsTold(q) /\ Authenticated(q.key, conf.anyRule)
<1>1. /\ conf.globalAuth \in {"unset", "true", "false"} /\ (conf.allow # {} => conf.anyRule)
      /\ conf.anyRule \in BOOLEAN /\ (~ Is("hmac-auth-apisix") => ~ conf.anonymous)
  BY DEF ConsumerConf, Is
<1>2. Entitled(q) <=> \/ ~ AuthRequired
                      \/ cred = "valid" /\ AsTold(q) /\ (conf.allow # {} => q.key \in conf.allow)
                      \/ conf.anonymous /\ cred = "missing"
  BY EntitledIs
<1>3. AuthRequired <=> \/ conf.allow # {} \/ conf.globalAuth = "true"
                       \/ conf.globalAuth = "unset" /\ ~ conf.anyRule
  BY DEF AuthRequired
<1>4. q.key \in conf.allow => conf.allow # {}
  OBVIOUS
<1>5. NotRequired(conf.anyRule) => Entitled(q)
  BY <1>1, <1>2, <1>3 DEF NotRequired, NoAllow
<1>6. cred = "valid" /\ AsTold(q) /\ Authenticated(q.key, conf.anyRule) => Entitled(q)
  BY <1>1, <1>2, <1>3, <1>4 DEF Authenticated, NoAllow
<1>7. ~ NotRequired(conf.anyRule) => AuthRequired
  BY <1>1, <1>3 DEF NotRequired, NoAllow
<1>8. AuthRequired /\ (conf.allow # {} => q.key \in conf.allow) => Authenticated(q.key, conf.anyRule)
  BY <1>1, <1>3 DEF Authenticated, NoAllow
<1>9. ASSUME ~ Is("hmac-auth-apisix"), ~ NotRequired(conf.anyRule), Entitled(q)
      PROVE  cred = "valid" /\ AsTold(q) /\ Authenticated(q.key, conf.anyRule)
  <2>1. AuthRequired
    BY <1>7, <1>9
  <2>2. ~ conf.anonymous
    BY <1>1, <1>9
  <2>3. cred = "valid" /\ AsTold(q) /\ (conf.allow # {} => q.key \in conf.allow)
    BY <1>2, <1>9, <2>1, <2>2
  <2>4. QED
    BY <1>8, <2>1, <2>3
<1>10. QED
  BY <1>5, <1>6, <1>9

LEMMA HmacConsumers ==
    ASSUME conf \in ConsumerConf, Is("hmac-auth-apisix"),
           NEW q, NEW cred \in {"valid", "wrong", "missing"}, q.facts = {cred}
    PROVE  /\ NotRequired(HmacRuleSet) => Entitled(q)
           /\ ~ NotRequired(HmacRuleSet) => AuthRequired \/ RulesForgotten
           /\ cred = "valid" /\ HmacAllowed(q.key) => Entitled(q)
           /\ cred = "valid" /\ ~ HmacAllowed(q.key) => ~ Entitled(q)
           /\ cred = "missing" => (conf.anonymous => Entitled(q))
           /\ AuthRequired /\ (cred = "wrong" \/ (cred = "missing" /\ ~ conf.anonymous)) => ~ Entitled(q)
<1>1. conf.globalAuth \in {"unset", "true", "false"} /\ conf.anyRule \in BOOLEAN
  BY DEF ConsumerConf
<1>2. Entitled(q) <=> \/ ~ AuthRequired
                      \/ cred = "valid" /\ (conf.allow # {} => q.key \in conf.allow)
                      \/ conf.anonymous /\ cred = "missing"
  <2>1. q.facts \in Learnt(cred) /\ AsTold(q)
    BY DEF Learnt, AsTold
  <2>2. QED
    BY <2>1, EntitledIs
<1>3. AuthRequired <=> \/ conf.allow # {} \/ conf.globalAuth = "true"
                       \/ conf.globalAuth = "unset" /\ ~ conf.anyRule
  BY DEF AuthRequired
<1>4. RulesForgotten <=> conf.globalAuth = "unset" /\ conf.anyRule /\ conf.allow = {}
  BY DEF RulesForgotten, NoAllow, Is
<1>5. QED
  BY <1>1, <1>2, <1>3, <1>4 DEF NotRequired, HmacAllowed, HmacRuleSet, NoAllow

LEMMA ConsumerStep ==
    ASSUME AllRested, conf \in ConsumerConf, NEW r \in Request, ConsumerFine(req[r]), ConsumerNext(r)
    PROVE  \E p : Step(r, p) /\ ConsumerFine(p)
<1> DEFINE q == req[r]
<1>1. ASSUME Handling(r, "headers"), NEW S
      PROVE  LET l == Learning(q, S)
             IN Ready(l) /\ l.stage = "headers" /\ l.facts = S /\ l.key = q.key /\ l.body = q.body
  <2>1. Ready(q) /\ q.stage = "headers" /\ q.facts = {}
    BY <1>1, HandlingIsReady DEF Handling, Holding, ConsumerFine
  <2>2. {} \cup S = S
    OBVIOUS
  <2> DEFINE l == Learning(q, S)
  <2>3. Ready(l) /\ l.facts = q.facts \cup S /\ l.stage = q.stage /\ l.key = q.key /\ l.body = q.body
    BY <2>1, ReadyLearns
  <2> HIDE DEF l
  <2>4. l.facts = S /\ l.stage = "headers"
    BY <2>1, <2>2, <2>3
  <2>5. QED
    BY <2>3, <2>4 DEF l
<1>2. ASSUME ~ Is("hmac-auth-apisix"), Handling(r, "headers"),
             NEW cred \in {"valid", "wrong", "missing", "many"}, NEW S \in Learnt(cred), NEW admits \in BOOLEAN,
             Step(r, IF admits THEN Continued(Learning(q, S)) ELSE Replied(Learning(q, S))),
             LET l == Learning(q, S)
                 knows == cred = "valid" /\ AsTold(l) /\ Authenticated(l.key, conf.anyRule)
             IN /\ admits => NotRequired(conf.anyRule) \/ knows
                /\ ~ admits => ~ NotRequired(conf.anyRule) /\ (knows => TokenTaken(l) \/ QueryUnread(l))
      PROVE  \E p : Step(r, p) /\ ConsumerFine(p)
  <2> DEFINE l == Learning(q, S)
  <2>1. Ready(l) /\ l.stage = "headers" /\ l.facts = S /\ l.key = q.key /\ ~ l.body
    BY <1>1, <1>2 DEF ConsumerFine, Handling
  <2>2. /\ Step(r, IF admits THEN Continued(l) ELSE Replied(l))
        /\ LET knows == cred = "valid" /\ AsTold(l) /\ Authenticated(l.key, conf.anyRule)
           IN /\ admits => NotRequired(conf.anyRule) \/ knows
              /\ ~ admits => ~ NotRequired(conf.anyRule) /\ (knows => TokenTaken(l) \/ QueryUnread(l))
    BY <1>2
  <2> HIDE DEF l
  <2>3. /\ NotRequired(conf.anyRule) => Entitled(l)
        /\ cred = "valid" /\ AsTold(l) /\ Authenticated(l.key, conf.anyRule) => Entitled(l)
        /\ ~ NotRequired(conf.anyRule) /\ ~ (cred = "valid" /\ AsTold(l) /\ Authenticated(l.key, conf.anyRule))
              => ~ Entitled(l)
    BY <1>2, <2>1, KnownConsumers
  <2>4. CASE admits
    <3>1. Entitled(l)
      BY <2>2, <2>3, <2>4
    <3>2. ConsumerFine(Continued(l))
      BY <2>1, <3>1, ConsumerEnds
    <3>3. QED
      BY <2>2, <2>4, <3>2
  <2>5. CASE ~ admits
    <3>1. ~ Entitled(l) \/ TokenTaken(l) \/ QueryUnread(l)
      BY <2>2, <2>3, <2>5
    <3>2. ConsumerFine(Replied(l))
      BY <2>1, <3>1, ConsumerEnds
    <3>3. QED
      BY <2>2, <2>5, <3>2
  <2>6. QED
    BY <2>4, <2>5
<1>3. CASE Is("key-auth")
  <2>1. PICK cred \in {"valid", "wrong", "missing", "many"}, place \in {"header", "query"} :
            LET l == Learning(q, {cred, place})
            IN Step(r, IF \/ NotRequired(conf.anyRule)
                          \/ KeyFound(cred, place) = "valid" /\ Authenticated(l.key, conf.anyRule)
                       THEN Continued(l)
                       ELSE Replied(l))
    BY <1>3 DEF ConsumerNext, Is, KeyAuthHeaders
  <2>2. Handling(r, "headers")
    BY <1>3 DEF ConsumerNext, Is, KeyAuthHeaders
  <2> DEFINE S == {cred, place}
             l == Learning(q, S)
             admits == NotRequired(conf.anyRule)
                         \/ (KeyFound(cred, place) = "valid" /\ Authenticated(l.key, conf.anyRule))
  <2>3. S \in Learnt(cred) /\ l.facts = S
    BY <1>1, <2>2 DEF Learnt
  <2>4. Step(r, IF admits THEN Continued(Learning(q, S)) ELSE Replied(Learning(q, S)))
    BY <2>1
  <2>5. admits \in BOOLEAN
    BY DEF NotRequired
  <2>6. KeyFound(cred, place) = "valid" => cred = "valid" /\ AsTold(l)
    BY <2>3 DEF KeyFound, AsTold
  <2>7. cred = "valid" /\ AsTold(l) => KeyFound(cred, place) = "valid" \/ QueryUnread(l)
    BY <1>3, <2>3 DEF KeyFound, AsTold, QueryUnread, Is
  <2>8. LET knows == cred = "valid" /\ AsTold(l) /\ Authenticated(l.key, conf.anyRule)
        IN /\ admits => NotRequired(conf.anyRule) \/ knows
           /\ ~ admits => ~ NotRequired(conf.anyRule) /\ (knows => TokenTaken(l) \/ QueryUnread(l))
    BY <2>6, <2>7
  <2> HIDE DEF admits, S
  <2>9. QED
    BY <1>2, <1>3, <2>2, <2>3, <2>4, <2>5, <2>8 DEF Is
<1>7. CASE Is("basic-auth") \/ Is("jwt-auth")
  <2>1. PICK cred \in {"valid", "wrong", "missing"} :
            LET l == Learning(q, {cred})
                admits == NotRequired(conf.anyRule)
                            \/ /\ cred = "valid" /\ Authenticated(l.key, conf.anyRule)
                               /\ Is("jwt-auth") => TokenReaches(l.key)
            IN Step(r, IF admits THEN Continued(l) ELSE Replied(l))
    BY <1>7 DEF ConsumerNext, Is, BasicAuthHeaders, JwtAuthHeaders, JwtVerified
  <2>2. Handling(r, "headers")
    BY <1>7 DEF ConsumerNext, Is, BasicAuthHeaders, JwtAuthHeaders
  <2> DEFINE S == {cred}
             l == Learning(q, S)
             admits == NotRequired(conf.anyRule)
                         \/ /\ cred = "valid" /\ Authenticated(l.key, conf.anyRule)
                            /\ Is("jwt-auth") => TokenReaches(l.key)
  <2>3. S \in Learnt(cred) /\ l.facts = S
    BY <1>1, <2>2 DEF Learnt
  <2>4. Step(r, IF admits THEN Continued(Learning(q, S)) ELSE Replied(Learning(q, S)))
    BY <2>1
  <2>5. admits \in BOOLEAN
    BY DEF NotRequired
  <2>6. AsTold(l)
    BY <2>3 DEF AsTold
  <2>7. admits => NotRequired(conf.anyRule) \/ (cred = "valid" /\ Authenticated(l.key, conf.anyRule))
    OBVIOUS
  <2>8. ~ admits => /\ ~ NotRequired(conf.anyRule)
                    /\ cred = "valid" /\ Authenticated(l.key, conf.anyRule) => TokenTaken(l)
    BY DEF TokenTaken, Is
  <2> HIDE DEF admits, S
  <2>9. QED
    BY <1>2, <1>7, <2>2, <2>3, <2>4, <2>5, <2>6, <2>7, <2>8 DEF Is
<1>4. CASE HmacHeaders(r) /\ Is("hmac-auth-apisix")
  <2>1. Handling(r, "headers")
    BY <1>4 DEF HmacHeaders
  <2>2. PICK cred \in {"valid", "wrong", "missing"} :
            LET l == Learning(q, {cred})
            IN \/ NotRequired(HmacRuleSet) /\ Step(r, Continued(Unread(l)))
               \/ /\ ~ NotRequired(HmacRuleSet) /\ cred = "missing"
                  /\ Step(r, IF conf.anonymous THEN Continued(Unread(l)) ELSE Replied(l))
               \/ /\ ~ NotRequired(HmacRuleSet) /\ cred = "wrong"
                  /\ Step(r, Replied(l))
               \/ /\ ~ NotRequired(HmacRuleSet) /\ cred = "valid"
                  /\ Step(r, IF ~ HmacAllowed(l.key) THEN Replied(l)
                             ELSE IF l.body /\ conf.validateBody THEN Postponed(l)
                             ELSE Continued(Unread(l)))
    BY <1>4 DEF HmacHeaders
  <2> DEFINE l == Learning(q, {cred})
  <2>3. Ready(l) /\ l.stage = "headers" /\ l.facts = {cred}
    BY <1>1, <2>1
  <2>4. \/ NotRequired(HmacRuleSet) /\ Step(r, Continued(Unread(l)))
        \/ ~ NotRequired(HmacRuleSet) /\ cred = "missing" /\ conf.anonymous /\ Step(r, Continued(Unread(l)))
        \/ ~ NotRequired(HmacRuleSet) /\ cred = "missing" /\ ~ conf.anonymous /\ Step(r, Replied(l))
        \/ ~ NotRequired(HmacRuleSet) /\ cred = "wrong" /\ Step(r, Replied(l))
        \/ ~ NotRequired(HmacRuleSet) /\ cred = "valid" /\ ~ HmacAllowed(l.key) /\ Step(r, Replied(l))
        \/ ~ NotRequired(HmacRuleSet) /\ cred = "valid" /\ HmacAllowed(l.key) /\ Step(r, Postponed(l))
        \/ ~ NotRequired(HmacRuleSet) /\ cred = "valid" /\ HmacAllowed(l.key) /\ Step(r, Continued(Unread(l)))
    BY <2>2
  <2> HIDE DEF l
  <2>5. /\ NotRequired(HmacRuleSet) => Entitled(l)
        /\ ~ NotRequired(HmacRuleSet) => AuthRequired \/ RulesForgotten
        /\ cred = "valid" /\ HmacAllowed(l.key) => Entitled(l)
        /\ cred = "valid" /\ ~ HmacAllowed(l.key) => ~ Entitled(l)
        /\ cred = "missing" => (conf.anonymous => Entitled(l))
        /\ AuthRequired /\ (cred = "wrong" \/ (cred = "missing" /\ ~ conf.anonymous)) => ~ Entitled(l)
    BY <1>4, <2>3, HmacConsumers
  <2>6. /\ Entitled(l) \/ RulesForgotten => ConsumerFine(Continued(Unread(l)))
        /\ ~ Entitled(l) \/ RulesForgotten => ConsumerFine(Replied(l))
        /\ /\ cred = "valid" /\ HmacAllowed(l.key) /\ ~ NotRequired(HmacRuleSet)
           => ConsumerFine(Postponed(l))
    BY <1>4, <2>3, ConsumerEnds
  <2>7. QED
    BY <2>4, <2>5, <2>6
<1>5. CASE HmacBody(r) /\ Is("hmac-auth-apisix")
  <2>1. Ready(q) /\ q.stage = "body"
    BY <1>5, HandlingIsReady DEF HmacBody, Handling, Holding
  <2>2. q.facts = {"valid"} /\ HmacAllowed(q.key) /\ ~ NotRequired(HmacRuleSet)
    BY <2>1 DEF ConsumerFine
  <2>3. Entitled(q) /\ (AuthRequired \/ RulesForgotten)
    BY <1>5, <2>2, HmacConsumers
  <2>4. CASE Step(r, Continued(q))
    <3>1. /\ Continued(q).stage = "upstream" /\ Continued(q).facts = q.facts /\ Continued(q).key = q.key
          /\ ~ Continued(q).local
      BY <2>1, GoesOn, ContinuedFields DEF Ready, Kept
    <3>2. ConsumerFine(Continued(q))
      BY <2>3, <3>1 DEF ConsumerFine, Entitled, AsTold
    <3>3. QED
      BY <2>4, <3>2
  <2>5. CASE Step(r, Replied(Learning(q, {"badDigest"})))
    <3> DEFINE l == Learning(q, {"badDigest"})
    <3>1. Ready(l) /\ l.facts = q.facts \cup {"badDigest"}
      BY <2>1, ReadyLearns
    <3>2. Replied(l).stage = "over" /\ Replied(l).facts = {"valid", "badDigest"}
      BY <2>2, <3>1, GoesOn DEF Kept
    <3> HIDE DEF l
    <3>3. ConsumerFine(Replied(l))
      BY <2>3, <3>2 DEF ConsumerFine, Entitled, Admitted
    <3>4. QED
      BY <2>5, <3>3 DEF l
  <2>6. QED
    BY <1>5, <2>4, <2>5 DEF HmacBody
<1>8. QED
  BY <1>3, <1>4, <1>5, <1>7 DEF ConsumerNext, Is

\* What is in order of a request, as far as its plugin admits requests or refuses them.
Judged(q) ==
    /\ Is("ext-auth") => ExtAuthFine(q)
    /\ Is("opa") => OpaFine(q)
    /\ Is("request-validation") => ValidationFine(q)
    /\ Is("replay-protection") => ReplayFine(q)
    /\ conf.plugin \in Consumers => ConsumerFine(q)

AccessInv ==
    /\ LimitInv
    /\ conf.plugin \in Consumers => conf \in ConsumerConf
    /\ \A r \in Request : Judged(req[r])

\* Only the plugins that admit or refuse have anything to say of it.
Judging == conf.plugin \in Access \cup Consumers

LEMMA InitAccess == WasmInit => AccessInv
<1> SUFFICES ASSUME WasmInit PROVE AccessInv
  OBVIOUS
<1>1. conf.plugin \in Consumers => conf \in ConsumerConf
  BY DEF WasmInit, Alone, Sharing, Consumers, ExtAuthConf, OpaConf, ValidationConf, AiProxyConf, ChainConf,
         GuardConf, ReplayConf, ClusterLimitConf, TokenLimitConf, QuotaConf, AiCacheConf, ResponseCacheConf,
         ConversationConf
<1>2. ASSUME NEW r \in Request
      PROVE  Judged(req[r])
  <2> DEFINE q == req[r]
  <2>1. q.facts = {} /\ q.stage \in {"headers", "gone"} /\ ~ q.local
    BY InitialRequests
  <2>2. conf.plugin \in Consumers => (q.body => Is("hmac-auth-apisix"))
    BY DEF WasmInit, ReadNoBody, Consumers, Is
  <2> HIDE DEF q
  <2>3. ExtAuthFine(q) /\ OpaFine(q)
    BY <2>1 DEF ExtAuthFine, OpaFine, Admitted
  <2>4. ValidationFine(q) /\ ReplayFine(q)
    BY <2>1 DEF ValidationFine, ReplayFine, ValidationAdmits, ReplayAdmits
  <2>5. conf.plugin \in Consumers => ConsumerFine(q)
    BY <2>1, <2>2 DEF ConsumerFine, Admitted
  <2>6. QED
    BY <2>3, <2>4, <2>5 DEF Judged, q
<1>3. QED
  BY <1>1, <1>2, InitLimits DEF AccessInv

LEMMA AccessSteps ==
    ASSUME Judging, WasmNext
    PROVE  \E r \in Request :
              \/ Is("ext-auth") /\ (ExtAuthHeaders(r) \/ ExtAuthBody(r) \/ ExtAuthReturns(r))
              \/ Is("opa") /\ (OpaHeaders(r) \/ OpaBody(r) \/ RspCall(r))
              \/ Is("request-validation") /\ (ValidationHeaders(r) \/ ValidationBody(r))
              \/ /\ Is("replay-protection")
                 /\ ReplayHeaders(r) \/ ReplayReturns(r) \/ SetNX(r) \/ CallFails(r, "check")
              \/ conf.plugin \in Consumers /\ ConsumerNext(r)
              \/ World(r)
BY DEF WasmNext, Handlers, Callbacks, Answers, Fail, AnsweredCalls, Upstream, Left, Background, Is, Access,
       Consumers, Limits, Caches, Chains, ChainConf, Conversing, World, Judging

LEMMA WorldIsFine ==
    ASSUME AllFormed, NEW r \in Request, World(r), Judged(req[r])
    PROVE  Judged(req'[r])
<1> DEFINE q == req[r]  p == req'[r]
<1>1. /\ p.key = q.key /\ p.facts = q.facts /\ p.local = q.local /\ p.stage \notin Begun
      /\ p.stage \in Admitted => q.stage \in Admitted
  BY WorldFields DEF Kept, Begun, Admitted
<1> HIDE DEF p, q
<1>2. ExtAuthFine(q) => ExtAuthFine(p)
  BY <1>1 DEF ExtAuthFine, ExtAuthAdmits
<1>3. OpaFine(q) => OpaFine(p)
  BY <1>1 DEF OpaFine, OpaAdmits
<1>4. (ValidationFine(q) => ValidationFine(p)) /\ (ReplayFine(q) => ReplayFine(p))
  BY <1>1 DEF ValidationFine, ReplayFine, ValidationAdmits, ReplayAdmits
<1>5. ConsumerFine(q) => ConsumerFine(p)
  BY <1>1 DEF ConsumerFine, Entitled, AsTold, TokenTaken, QueryUnread, Begun
<1>6. QED
  BY <1>2, <1>3, <1>4, <1>5 DEF Judged, p, q

LEMMA AccessStep ==
    ASSUME AccessInv, WasmNext, Judging
    PROVE  \E r \in Request : /\ Judged(req'[r])
                              /\ \A s \in Request : s # r => req'[s] = req[s]
<1>1. AllRested /\ AllFormed
  BY RestedIsFormed DEF AccessInv, LimitInv, HostInv, LooksUpMeanwhile, Judging, Access, Consumers
<1>2. PICK r \in Request :
              \/ Is("ext-auth") /\ (ExtAuthHeaders(r) \/ ExtAuthBody(r) \/ ExtAuthReturns(r))
              \/ Is("opa") /\ (OpaHeaders(r) \/ OpaBody(r) \/ RspCall(r))
              \/ Is("request-validation") /\ (ValidationHeaders(r) \/ ValidationBody(r))
              \/ /\ Is("replay-protection")
                 /\ ReplayHeaders(r) \/ ReplayReturns(r) \/ SetNX(r) \/ CallFails(r, "check")
              \/ conf.plugin \in Consumers /\ ConsumerNext(r)
              \/ World(r)
  BY AccessSteps
<1>3. Judged(req[r])
  BY DEF AccessInv
<1>4. ASSUME NEW p, Step(r, p)
      PROVE  req'[r] = p /\ \A s \in Request : s # r => req'[s] = req[s]
  BY <1>1, <1>4, StepIs
<1>5. CASE Is("ext-auth") /\ (ExtAuthHeaders(r) \/ ExtAuthBody(r) \/ ExtAuthReturns(r))
  <2>1. PICK p : Step(r, p) /\ ExtAuthFine(p)
    BY <1>1, <1>5, ExtAuthStep
  <2>2. Judged(p)
    BY <1>5, <2>1 DEF Judged, Is, Consumers
  <2>3. QED
    BY <1>4, <2>1, <2>2
<1>6. CASE Is("opa") /\ (OpaHeaders(r) \/ OpaBody(r) \/ RspCall(r))
  <2>1. PICK p : Step(r, p) /\ OpaFine(p)
    BY <1>1, <1>3, <1>6, OpaStep DEF Judged
  <2>2. Judged(p)
    BY <1>6, <2>1 DEF Judged, Is, Consumers
  <2>3. QED
    BY <1>4, <2>1, <2>2
<1>7. CASE Is("request-validation") /\ (ValidationHeaders(r) \/ ValidationBody(r))
  <2>1. PICK p : Step(r, p) /\ ValidationFine(p)
    BY <1>1, <1>3, <1>7, ValidationStep DEF Judged
  <2>2. Judged(p)
    BY <1>7, <2>1 DEF Judged, Is, Consumers
  <2>3. QED
    BY <1>4, <2>1, <2>2
<1>8. CASE Is("replay-protection") /\ (ReplayHeaders(r) \/ ReplayReturns(r))
  <2>1. PICK p : Step(r, p) /\ ReplayFine(p)
    BY <1>1, <1>3, <1>8, ReplayAdmitsStep DEF Judged, AccessInv, LimitInv
  <2>2. Judged(p)
    BY <1>8, <2>1 DEF Judged, Is, Consumers
  <2>3. QED
    BY <1>4, <2>1, <2>2
<1>9. CASE Is("replay-protection") /\ (SetNX(r) \/ CallFails(r, "check"))
  <2>1. PICK v : Step(r, [req[r] EXCEPT !.calls["check"] = v])
    BY <1>9 DEF SetNX, Executed, CallFails
  <2>2. /\ \A s \in Request : s # r => req'[s] = req[s]
        /\ req'[r].stage = req[r].stage /\ req'[r].facts = req[r].facts
    BY <1>1, <2>1, ExecutedFields DEF Unmoved
  <2>3. ReplayFine(req'[r])
    BY <1>3, <1>9, <2>2 DEF Judged, ReplayFine, ReplayAdmits
  <2>4. Judged(req'[r])
    BY <1>9, <2>3 DEF Judged, Is, Consumers
  <2>5. QED
    BY <2>2, <2>4
<1>10. CASE conf.plugin \in Consumers /\ ConsumerNext(r)
  <2>1. PICK p : Step(r, p) /\ ConsumerFine(p)
    BY <1>1, <1>3, <1>10, ConsumerStep DEF Judged, AccessInv
  <2>2. Judged(p)
    BY <1>10, <2>1 DEF Judged, Is, Consumers
  <2>3. QED
    BY <1>4, <2>1, <2>2
<1>11. CASE World(r)
  <2>1. \A s \in Request : s # r => req'[s] = req[s]
    BY <1>1, <1>11, WorldFields
  <2>2. QED
    BY <1>1, <1>3, <1>11, <2>1, WorldIsFine
<1>12. QED
  BY <1>2, <1>5, <1>6, <1>7, <1>8, <1>9, <1>10, <1>11

LEMMA StepAccess == AccessInv /\ [WasmNext]_wasmVars => AccessInv'
<1> SUFFICES ASSUME AccessInv, [WasmNext]_wasmVars PROVE AccessInv'
  OBVIOUS
<1>1. LimitInv' /\ conf' = conf
  BY StepLimits, StepHost DEF AccessInv, LimitInv
<1>2. ASSUME \A r \in Request : Judged(req'[r])
      PROVE  \A r \in Request : Judged(req[r])'
  <2> SUFFICES ASSUME NEW r \in Request PROVE Judged(req[r])'
    OBVIOUS
  <2>1. Judged(req'[r])
    BY <1>2
  <2>2. QED
    BY <1>1, <2>1 DEF Judged, Is, ExtAuthFine, ExtAuthAdmits, OpaFine, OpaAdmits, Idle, ValidationFine, ValidationAdmits,
           ReplayFine, ReplayAdmits, ConsumerFine, Entitled, AsTold, AuthRequired, TokenTaken, TokenReaches,
           QueryUnread, RulesForgotten, NoAllow, HmacAllowed, HmacRuleSet, NotRequired
<1>3. CASE UNCHANGED wasmVars
  <2>1. \A r \in Request : Judged(req'[r])
    BY <1>3 DEF AccessInv, wasmVars, hostVars
  <2>2. QED
    BY <1>1, <1>2, <2>1 DEF AccessInv
<1>4. CASE WasmNext /\ Judging
  <2>1. \A r \in Request : Judged(req'[r])
    BY <1>4, AccessStep DEF AccessInv
  <2>2. QED
    BY <1>1, <1>2, <2>1 DEF AccessInv
<1>5. CASE ~ Judging
  <2>1. \A r \in Request : Judged(req'[r])
    BY <1>5 DEF Judged, Judging, Access, Is
  <2>2. QED
    BY <1>1, <1>2, <2>1 DEF AccessInv
<1>6. QED
  BY <1>3, <1>4, <1>5

\* Whoever is entitled by his credentials, the allow lists and global_auth is not refused, but
\* for the three cases that are named.
THEOREM EntitledAreAlwaysServed == WasmSpec => []EntitledAreServed
<1>1. AccessInv => EntitledAreServed
  BY DEF AccessInv, Judged, ConsumerFine, EntitledAreServed
<1>2. QED
  BY <1>1, InitAccess, StepAccess, PTL DEF WasmSpec

-----------------------------------------------------------------------------
(* The security guard *)

Tallied(m) ==
    m \in [pieces : Nat, images : Nat, contentIndex : Nat, imageIndex : Nat,
           accepted : {m.accepted}, failed : {m.failed}, refused : BOOLEAN, open : BOOLEAN]

Said(m) == m.accepted \cup m.failed

TextSaid(m, n) == \A i \in 1 .. m.pieces : i <= n => <<"text", i>> \in Said(m)
ImagesSaid(m, n) == \A i \in 1 .. m.images : i <= n => <<"image", i>> \in Said(m)

Cleared(m) == ~ m.refused /\ (m.open \/ Due(m) \subseteq Said(m))

\* The piece that is being checked is the next, and what comes before it was said.
TextUnderWay(m) ==
    /\ m.contentIndex \in 1 .. m.pieces /\ m.imageIndex = 0
    /\ \A i \in 1 .. m.pieces : i < m.contentIndex => <<"text", i>> \in Said(m)

ImageUnderWay(m) ==
    m.imageIndex < m.images /\ TextSaid(m, m.pieces) /\ ImagesSaid(m, m.imageIndex)

GuardFine(q, m) ==
    /\ q.calls["text"] # None => TextUnderWay(m)
    /\ q.calls["image"] # None => ImageUnderWay(m)
    /\ ~ Idle(q) => ~ m.refused /\ q.stage # "headers"
    /\ q.stage \in Begun /\ ~ q.held => m = NoModeration
    /\ q.stage = "upstream" => Cleared(m)
    /\ q.stage = "over" /\ ~ q.local /\ "replaced" \notin q.ctx => Cleared(m)

GuardInv ==
    /\ moderation = [r \in Request |-> moderation[r]]
    /\ \A r \in Request : Tallied(moderation[r]) /\ GuardFine(req[r], moderation[r])

\* What a request is moderated with before anything was checked.
Unmoderated(m, i, j) ==
    /\ Tallied(m) /\ m.pieces = i /\ m.images = j /\ m.contentIndex = 0 /\ m.imageIndex = 0
    /\ ~ m.refused

LEMMA FreshModeration ==
    ASSUME NEW i \in Nat, NEW j \in Nat, NEW m,
           \/ m = [NoModeration EXCEPT !.pieces = i, !.images = j]
           \/ j = 0 /\ m = [NoModeration EXCEPT !.pieces = i]
           \/ i = 0 /\ m = [NoModeration EXCEPT !.images = j]
    PROVE  Unmoderated(m, i, j)
<1> DEFINE n == NoModeration
<1>1. n \in [pieces : Nat, images : Nat, contentIndex : Nat, imageIndex : Nat,
             accepted : {{}}, failed : {{}}, refused : BOOLEAN, open : BOOLEAN]
  BY DEF NoModeration
<1>2. n.pieces = 0 /\ n.images = 0 /\ n.contentIndex = 0 /\ n.imageIndex = 0 /\ ~ n.refused
  BY DEF NoModeration
<1>3. \/ m = [n EXCEPT !.pieces = i, !.images = j]
      \/ j = 0 /\ m = [n EXCEPT !.pieces = i]
      \/ i = 0 /\ m = [n EXCEPT !.images = j]
  OBVIOUS
<1> HIDE DEF n
<1>4. Tallied(m)
  BY <1>1, <1>3 DEF Tallied
<1>5. m.pieces = i /\ m.images = j /\ m.contentIndex = 0 /\ m.imageIndex = 0
  BY <1>1, <1>2, <1>3
<1>6. ~ m.refused
  BY <1>1, <1>2, <1>3
<1>7. QED
  BY <1>4, <1>5, <1>6 DEF Unmoderated

LEMMA NothingDue == Tallied(NoModeration) /\ Cleared(NoModeration) /\ ~ NoModeration.refused
<1>1. Tallied(NoModeration)
  BY DEF Tallied, NoModeration
<1>2. NoModeration.pieces = 0 /\ NoModeration.images = 0
  BY DEF NoModeration
<1>3. ~ NoModeration.refused
  BY DEF NoModeration
<1>4. Due(NoModeration) = {}
  BY <1>2 DEF Due
<1>5. QED
  BY <1>1, <1>3, <1>4 DEF Cleared

LEMMA DueIsSaid ==
    ASSUME NEW m, Tallied(m), ~ m.refused, TextSaid(m, m.pieces),
           ImagesSaid(m, m.images) \/ (m.pieces # 0 /\ ~ conf.checkRequestImage)
    PROVE  Cleared(m)
<1>1. m.pieces \in Nat /\ m.images \in Nat
  BY DEF Tallied
<1>1a. (\A i \in 1 .. m.pieces : i <= m.pieces) /\ (\A i \in 1 .. m.images : i <= m.images)
  BY <1>1
<1>2. \A i \in 1 .. m.pieces : <<"text", i>> \in Said(m)
  BY <1>1a, Zenon DEF TextSaid
<1>3. m.pieces = 0 \/ conf.checkRequestImage => \A i \in 1 .. m.images : <<"image", i>> \in Said(m)
  BY <1>1a, Zenon DEF ImagesSaid
<1>4. ASSUME NEW d \in Due(m) PROVE d \in Said(m)
  <2>1. CASE d \in {"text"} \X (1 .. m.pieces)
    BY <1>2, <2>1
  <2>2. CASE (m.pieces = 0 \/ conf.checkRequestImage) /\ d \in {"image"} \X (1 .. m.images)
    BY <1>3, <2>2
  <2>3. QED
    BY <2>1, <2>2 DEF Due
<1>5. QED
  BY <1>4 DEF Cleared

\* What a handler leaves behind, and what was said of it.
LEMMA GuardPasses ==
    ASSUME NEW q, Ready(q), q.held, q.stage # "headers", NEW m, Cleared(m)
    PROVE  GuardFine(Passes(q), m)
<1>1. Formed(q) /\ Idle(q) /\ q.stage \in {"body", "answering"} /\ {"text", "image"} \subseteq CallName
  BY WasmAssumption DEF Ready, Holding, OneAtATime
<1>2. PassedOn(q).stage = "over" /\ PassedOn(q).calls = q.calls
  BY <1>1, PassedOnFields DEF Kept
<1>3. Resumed(q) = Continued(q) /\ Continued(q).calls = q.calls
  BY <1>1, ResumedFields, ContinuedFields DEF Kept
<1>4. q.stage = "body" => Continued(q).stage = "upstream"
  BY <1>1, ContinuedFields
<1>5. Passes(q).stage \in {"over", "upstream"} /\ Passes(q).calls = q.calls
  BY <1>1, <1>2, <1>3, <1>4 DEF Passes
<1>6. QED
  BY <1>1, <1>5 DEF GuardFine, Idle, Begun

LEMMA GuardAwaits ==
    ASSUME NEW q, Ready(q), q.stage # "headers", NEW m, ~ m.refused, NEW c \in {"text", "image"},
           c = "text" => TextUnderWay(m), c = "image" => ImageUnderWay(m)
    PROVE  GuardFine(Awaiting(q, c), m)
<1>1. Formed(q) /\ Idle(q) /\ q.stage \in {"body", "answering"} /\ {"text", "image"} \subseteq CallName
  BY WasmAssumption DEF Ready, Holding, OneAtATime
<1> DEFINE p == Awaiting(q, c)
<1>2. p.stage = q.stage /\ p.held /\ p.calls = [q.calls EXCEPT ![c] = Sent]
  BY <1>1, AwaitingFields
<1> HIDE DEF p
<1>3. \A d \in {"text", "image"} : p.calls[d] # None => d = c
  BY <1>1, <1>2 DEF Formed, Idle
<1>4. QED
  BY <1>1, <1>2, <1>3 DEF GuardFine, Begun, p

\* How the record of what was said changes, field by field.
SameParts(m, n) == n.pieces = m.pieces /\ n.images = m.images
SamePlace(m, n) == n.contentIndex = m.contentIndex /\ n.imageIndex = m.imageIndex

LEMMA OpenFields ==
    ASSUME NEW m, Tallied(m), ~ m.refused
    PROVE  LET n == [m EXCEPT !.open = TRUE] IN Tallied(n) /\ Cleared(n)
<1> DEFINE n == [m EXCEPT !.open = TRUE]
<1>1. Tallied(n)
  BY DEF Tallied
<1>2. n.open
  BY DEF Tallied
<1>3. ~ n.refused
  BY DEF Tallied
<1>4. QED
  BY <1>1, <1>2, <1>3 DEF Cleared

LEMMA RefusedFields ==
    ASSUME NEW m, Tallied(m)
    PROVE  Tallied([m EXCEPT !.refused = TRUE])
BY DEF Tallied

LEMMA IndexFields ==
    ASSUME NEW m, Tallied(m), NEW i \in Nat, NEW j \in Nat, NEW n,
           \/ i = m.contentIndex + 1 /\ j = m.imageIndex /\ n = [m EXCEPT !.contentIndex = @ + 1]
           \/ i = m.contentIndex /\ j = m.imageIndex + 1 /\ n = [m EXCEPT !.imageIndex = @ + 1]
    PROVE  /\ Tallied(n) /\ SameParts(m, n) /\ n.contentIndex = i /\ n.imageIndex = j
           /\ Said(n) = Said(m) /\ (~ m.refused => ~ n.refused)
<1>1. CASE i = m.contentIndex + 1 /\ j = m.imageIndex /\ n = [m EXCEPT !.contentIndex = @ + 1]
  <2>1. n = [m EXCEPT !.contentIndex = i]
    BY <1>1
  <2>2. Tallied(n)
    BY <2>1 DEF Tallied
  <2>3. SameParts(m, n) /\ n.contentIndex = i /\ n.imageIndex = j
    BY <1>1, <2>1 DEF Tallied, SameParts
  <2>4. Said(n) = Said(m)
    BY <2>1 DEF Tallied, Said
  <2>5. ~ m.refused => ~ n.refused
    BY <2>1 DEF Tallied
  <2>6. QED
    BY <2>2, <2>3, <2>4, <2>5
<1>2. CASE i = m.contentIndex /\ j = m.imageIndex + 1 /\ n = [m EXCEPT !.imageIndex = @ + 1]
  <2>1. n = [m EXCEPT !.imageIndex = j]
    BY <1>2
  <2>2. Tallied(n)
    BY <2>1 DEF Tallied
  <2>3. SameParts(m, n) /\ n.contentIndex = i /\ n.imageIndex = j
    BY <1>2, <2>1 DEF Tallied, SameParts
  <2>4. Said(n) = Said(m)
    BY <2>1 DEF Tallied, Said
  <2>5. ~ m.refused => ~ n.refused
    BY <2>1 DEF Tallied
  <2>6. QED
    BY <2>2, <2>3, <2>4, <2>5
<1>3. QED
  BY <1>1, <1>2

\* Nothing is noted but that the parts in S were said, well or not.
Notes(m, n, S) ==
    /\ Tallied(n) /\ SameParts(m, n) /\ SamePlace(m, n)
    /\ Said(n) = Said(m) \cup S /\ (~ m.refused => ~ n.refused)

LEMMA SaidFields ==
    ASSUME NEW m, Tallied(m), NEW S,
           NEW n, n = [m EXCEPT !.accepted = @ \cup S] \/ n = [m EXCEPT !.failed = @ \cup S]
    PROVE  Notes(m, n, S)
<1>1. CASE n = [m EXCEPT !.accepted = @ \cup S]
  <2>1. Tallied(n)
    BY <1>1 DEF Tallied
  <2>2. SameParts(m, n) /\ SamePlace(m, n)
    BY <1>1 DEF Tallied, SameParts, SamePlace
  <2>3. n.accepted = m.accepted \cup S /\ n.failed = m.failed
    BY <1>1 DEF Tallied
  <2>4. ~ m.refused => ~ n.refused
    BY <1>1 DEF Tallied
  <2>5. QED
    BY <2>1, <2>2, <2>3, <2>4 DEF Said, Notes
<1>2. CASE n = [m EXCEPT !.failed = @ \cup S]
  <2>1. Tallied(n)
    BY <1>2 DEF Tallied
  <2>2. SameParts(m, n) /\ SamePlace(m, n)
    BY <1>2 DEF Tallied, SameParts, SamePlace
  <2>3. n.accepted = m.accepted /\ n.failed = m.failed \cup S
    BY <1>2 DEF Tallied
  <2>4. ~ m.refused => ~ n.refused
    BY <1>2 DEF Tallied
  <2>5. QED
    BY <2>1, <2>2, <2>3, <2>4 DEF Said, Notes
<1>3. QED
  BY <1>1, <1>2

\* A step of request r that leaves what was said of it in order.
Moderates(r) ==
    \E q, m : Step(r, q) /\ Moderating(r, m) /\ Tallied(m) /\ GuardFine(q, m)

LEMMA Opens ==
    ASSUME NEW r, NEW q, Ready(q), q.stage # "headers", NEW m, Tallied(m), ~ m.refused, FailsOpen(r, q, m)
    PROVE  Moderates(r)
<1> DEFINE n == [m EXCEPT !.open = TRUE]  p == Paused(q)
<1>1. Tallied(n) /\ Cleared(n)
  BY OpenFields
<1>2. Formed(q) /\ q.stage \in Holding
  BY DEF Ready
<1>3. Ready(p) /\ p.held /\ p.stage # "headers"
  BY <1>2, ReadyGoesOn, PausedFields DEF Holding
<1> HIDE DEF n, p
<1>4. GuardFine(Passes(p), n)
  BY <1>1, <1>3, GuardPasses
<1>5. Step(r, Passes(p)) /\ Moderating(r, n)
  BY DEF FailsOpen, p, n
<1>6. QED
  BY <1>1, <1>4, <1>5 DEF Moderates

\* The next piece of the text.
LEMMA SingleCallModerates ==
    ASSUME NEW r, NEW q, Ready(q), q.stage # "headers", NEW m, Tallied(m), ~ m.refused,
           m.contentIndex < m.pieces, m.imageIndex = 0, TextSaid(m, m.contentIndex), SingleCall(r, q, m)
    PROVE  Moderates(r)
<1> DEFINE n == [m EXCEPT !.contentIndex = @ + 1]  i == m.contentIndex + 1
<1>1. m.pieces \in Nat /\ m.contentIndex \in Nat /\ i \in Nat /\ i = m.contentIndex + 1
  BY DEF Tallied
<1>2. n = [m EXCEPT !.contentIndex = @ + 1]
  OBVIOUS
<1>3. (Step(r, Awaiting(q, "text")) /\ Moderating(r, n)) \/ FailsOpen(r, q, n)
  BY DEF SingleCall
<1> HIDE DEF n, i
<1>4. /\ Tallied(n) /\ SameParts(m, n) /\ n.contentIndex = i /\ n.imageIndex = 0
      /\ Said(n) = Said(m) /\ ~ n.refused
  BY <1>1, <1>2, IndexFields
<1>5. n.pieces = m.pieces /\ i \in 1 .. m.pieces /\ \A k \in 1 .. m.pieces : k < i => k <= m.contentIndex
  BY <1>1, <1>4 DEF SameParts
<1>6. TextUnderWay(n)
  BY <1>4, <1>5, Zenon DEF TextUnderWay, TextSaid
<1>7. GuardFine(Awaiting(q, "text"), n)
  BY <1>4, <1>6, GuardAwaits
<1>8. QED
  BY <1>3, <1>4, <1>7, Opens DEF Moderates

LEMMA SingleCallForImageModerates ==
    ASSUME NEW r, NEW q, Ready(q), q.stage # "headers", NEW m, Tallied(m), ~ m.refused,
           ImageUnderWay(m), SingleCallForImage(r, q, m)
    PROVE  Moderates(r)
<1>1. GuardFine(Awaiting(q, "image"), m)
  BY GuardAwaits
<1>2. QED
  BY <1>1, Opens DEF SingleCallForImage, Moderates

LEMMA DeniedModerates ==
    ASSUME NEW r, NEW q, Ready(q), q.stage # "headers", NEW m, Tallied(m), Denied(r, q, m)
    PROVE  Moderates(r)
<1> DEFINE n == [m EXCEPT !.refused = TRUE]
<1>1. Tallied(n) /\ Moderating(r, n)
  BY RefusedFields DEF Denied
<1>2. Formed(q) /\ q.stage \in {"body", "answering"} /\ {"text", "image"} \subseteq CallName
  BY WasmAssumption DEF Ready, Holding, OneAtATime
<1>3. PICK p : /\ Step(r, p)
               /\ \/ p = PassedOn(Noting(q, {"replaced"})) \/ p = Replied(q)
                  \/ p = Learning(Paused(q), {"dead"})
  BY DEF Denied
<1> HIDE DEF n
<1>4. CASE p = PassedOn(Noting(q, {"replaced"}))
  <2> DEFINE w == Noting(q, {"replaced"})
  <2>1. Ready(w) /\ Formed(w) /\ "replaced" \in w.ctx
    BY <1>2, ReadyNotes, NotingFields
  <2> HIDE DEF w
  <2>2. PassedOn(w).stage = "over" /\ "replaced" \in PassedOn(w).ctx /\ Idle(PassedOn(w))
    BY <2>1, PassedOnFields DEF Ready, Kept, Idle
  <2>3. GuardFine(PassedOn(w), n)
    BY <1>2, <2>2 DEF GuardFine, Idle, Begun
  <2>4. QED
    BY <1>1, <1>3, <1>4, <2>3 DEF Moderates, w
<1>5. CASE p = Replied(q)
  <2>1. p.stage = "over" /\ p.local /\ Idle(p)
    BY <1>5, GoesOn DEF Ready, Kept, Idle
  <2>2. GuardFine(p, n)
    BY <1>2, <2>1 DEF GuardFine, Idle, Begun
  <2>3. QED
    BY <1>1, <1>3, <2>2 DEF Moderates
<1>6. CASE p = Learning(Paused(q), {"dead"})
  <2>1. Ready(Paused(q)) /\ Paused(q).held /\ Paused(q).stage = q.stage
    BY <1>2, ReadyGoesOn, PausedFields
  <2>2. Ready(p) /\ p.held /\ p.stage = q.stage
    BY <1>6, <2>1, ReadyLearns
  <2>3. GuardFine(p, n)
    BY <1>2, <2>2 DEF GuardFine, Ready, Idle, Begun
  <2>4. QED
    BY <1>1, <1>3, <2>3 DEF Moderates
<1>7. QED
  BY <1>3, <1>4, <1>5, <1>6

LEMMA GuardSteps ==
    ASSUME Is("ai-security-guard"), WasmNext
    PROVE  \E r \in Request :
              \/ GuardHeaders(r) \/ GuardBody(r) \/ GuardAnswered(r) \/ TextChecked(r) \/ ImageChecked(r)
              \/ UNCHANGED moderation /\ (UpstreamAnswers(r) \/ Leave(r))
BY DEF WasmNext, Handlers, Callbacks, Answers, Fail, AnsweredCalls, Upstream, Left, Background, Is, Access,
       Consumers, Limits, Caches, Chains, ChainConf, Conversing, restVars

\* A step that leaves what was said alone.
LEMMA SameModeration ==
    ASSUME GuardInv, NEW r \in Request, NEW q, Step(r, q), UNCHANGED moderation, GuardFine(q, moderation[r])
    PROVE  Moderates(r)
<1>1. moderation' = [moderation EXCEPT ![r] = moderation[r]]
  BY DEF GuardInv
<1>2. QED
  BY <1>1 DEF Moderates, Moderating, GuardInv

LEMMA GuardHeadersModerate ==
    ASSUME AllRested, GuardInv, NEW r \in Request, GuardHeaders(r)
    PROVE  Moderates(r)
<1> DEFINE q == req[r]  u == Unread(q)
<1>1. Ready(q) /\ q.stage = "headers" /\ ~ q.held /\ UNCHANGED moderation
  BY HandlingIsReady DEF GuardHeaders, Handling, Holding
<1>2. moderation[r] = NoModeration
  BY <1>1 DEF GuardInv, GuardFine, Begun
<1>3. Ready(u) /\ u.stage = "headers"
  BY <1>1, ReadyNotes, UnreadFields DEF Ready, Unmoved
<1>4. Step(r, Continued(q)) \/ Step(r, Continued(u))
  BY DEF GuardHeaders
<1> HIDE DEF u, q
<1>5. ASSUME NEW p, Ready(p), p.stage = "headers" PROVE GuardFine(Continued(p), NoModeration)
  <2>1. /\ Continued(p).stage \in {"body", "upstream"} /\ Idle(Continued(p))
        /\ {"text", "image"} \subseteq CallName
    BY <1>5, ContinuedFields, GoesOn, WasmAssumption DEF Ready, Kept, Idle, Formed, OneAtATime
  <2>2. QED
    BY <2>1, NothingDue DEF GuardFine, Idle
<1>6. QED
  BY <1>1, <1>2, <1>3, <1>4, <1>5, SameModeration DEF q

LEMMA GuardBodyModerates ==
    ASSUME AllRested, GuardInv, NEW r \in Request, GuardBody(r)
    PROVE  Moderates(r)
<1> DEFINE q == req[r]
<1>1. Ready(q) /\ q.stage = "body" /\ ~ q.held
  BY HandlingIsReady DEF GuardBody, Handling, Holding
<1>2. CASE Step(r, Continued(q)) /\ UNCHANGED moderation
  <2>1. moderation[r] = NoModeration
    BY <1>1 DEF GuardInv, GuardFine, Begun
  <2>2. /\ Continued(q).stage = "upstream" /\ Idle(Continued(q)) /\ {"text", "image"} \subseteq CallName
    BY <1>1, ContinuedFields, WasmAssumption DEF Ready, Kept, Idle, OneAtATime
  <2>3. GuardFine(Continued(q), NoModeration)
    BY <2>2, NothingDue DEF GuardFine, Idle, Begun
  <2>4. QED
    BY <1>2, <2>1, <2>3, SameModeration
<1>3. ASSUME NEW pieces \in 0 .. MaxParts, NEW images \in 0 .. MaxParts,
             LET m == [NoModeration EXCEPT !.pieces = pieces, !.images = images]
             IN \/ pieces > 0 /\ SingleCall(r, q, m)
                \/ pieces = 0 /\ images > 0 /\ SingleCallForImage(r, q, m)
      PROVE  Moderates(r)
  <2> DEFINE m == [NoModeration EXCEPT !.pieces = pieces, !.images = images]
  <2>1. pieces \in Nat /\ images \in Nat /\ m = [NoModeration EXCEPT !.pieces = pieces, !.images = images]
    BY PartsAssumption
  <2>2. \/ pieces > 0 /\ SingleCall(r, q, m)
        \/ pieces = 0 /\ images > 0 /\ SingleCallForImage(r, q, m)
    BY <1>3
  <2> HIDE DEF m
  <2>3. Unmoderated(m, pieces, images)
    BY <2>1, FreshModeration
  <2>4. /\ Tallied(m) /\ m.pieces = pieces /\ m.images = images /\ m.contentIndex = 0 /\ m.imageIndex = 0
        /\ ~ m.refused
    BY <2>3 DEF Unmoderated
  <2>5. TextSaid(m, 0) /\ ImagesSaid(m, 0)
    BY <2>4 DEF TextSaid, ImagesSaid
  <2>6. pieces = 0 /\ images > 0 => ImageUnderWay(m)
    BY <2>1, <2>4, <2>5 DEF ImageUnderWay
  <2>7. pieces > 0 => m.contentIndex < m.pieces /\ TextSaid(m, m.contentIndex)
    BY <2>1, <2>4, <2>5
  <2>8. QED
    BY <1>1, <2>4, <2>2, <2>6, <2>7, SingleCallModerates, SingleCallForImageModerates
<1>4. ASSUME NEW pieces \in 0 .. MaxParts,
             NEW images \in (IF conf.api \in {"text", "image"} THEN 0 .. MaxParts ELSE {0}),
             LET m == [NoModeration EXCEPT !.pieces = pieces, !.images = images]
             IN IF pieces > 0 THEN SingleCall(r, q, m) ELSE images > 0 /\ SingleCallForImage(r, q, m)
      PROVE  Moderates(r)
  <2>1. images \in 0 .. MaxParts /\ (pieces > 0 \/ pieces = 0)
    BY PartsAssumption
  <2>2. CASE pieces > 0
    BY <1>3, <1>4, <2>1, <2>2
  <2>3. CASE ~ (pieces > 0)
    BY <1>3, <1>4, <2>1, <2>3
  <2>4. QED
    BY <2>2, <2>3
<1>5. QED
  BY <1>2, <1>4 DEF GuardBody

LEMMA GuardAnsweredModerates ==
    ASSUME AllRested, GuardInv, NEW r \in Request, GuardAnswered(r)
    PROVE  Moderates(r)
<1> DEFINE q == req[r]
<1>1. Ready(q) /\ q.stage = "answering" /\ Formed(q) /\ {"text", "image"} \subseteq CallName
  BY HandlingIsReady, WasmAssumption DEF GuardAnswered, Handling, Holding, Ready, OneAtATime
<1>2. CASE Step(r, PassedOn(q)) /\ Moderating(r, NoModeration)
  <2>1. PassedOn(q).stage = "over" /\ Idle(PassedOn(q))
    BY <1>1, PassedOnFields DEF Ready, Kept, Idle
  <2>2. GuardFine(PassedOn(q), NoModeration)
    BY <1>1, <2>1, NothingDue DEF GuardFine, Idle, Begun
  <2>3. QED
    BY <1>2, <2>2, NothingDue DEF Moderates
<1>3. CASE Step(r, Bodyless(q)) /\ Moderating(r, NoModeration)
  <2> DEFINE p == Learning(Paused(q), {"bodyless"})
  <2>1. Ready(Paused(q)) /\ Paused(q).stage = "answering"
    BY <1>1, ReadyGoesOn, PausedFields
  <2>2. Ready(p) /\ p.stage = "answering"
    BY <2>1, ReadyLearns
  <2> HIDE DEF p
  <2>3. GuardFine(p, NoModeration)
    BY <1>1, <2>2 DEF GuardFine, Ready, Idle, Begun
  <2>4. QED
    BY <1>3, <2>3, NothingDue DEF Moderates, Bodyless, p
<1>4. ASSUME NEW n \in 1 .. MaxParts, SingleCallForImage(r, q, [NoModeration EXCEPT !.images = n])
      PROVE  Moderates(r)
  <2> DEFINE m == [NoModeration EXCEPT !.images = n]
  <2>1. n \in Nat /\ n > 0 /\ 0 \in Nat /\ m = [NoModeration EXCEPT !.images = n]
    BY PartsAssumption
  <2>2. SingleCallForImage(r, q, m)
    BY <1>4
  <2> HIDE DEF m
  <2>3. Unmoderated(m, 0, n)
    BY <2>1, FreshModeration
  <2>4. /\ Tallied(m) /\ m.pieces = 0 /\ m.images = n /\ m.contentIndex = 0 /\ m.imageIndex = 0
        /\ ~ m.refused
    BY <2>3 DEF Unmoderated
  <2>5. ImageUnderWay(m)
    BY <2>1, <2>4 DEF ImageUnderWay, TextSaid, ImagesSaid
  <2>6. QED
    BY <1>1, <2>4, <2>2, <2>5, SingleCallForImageModerates
<1>5. ASSUME NEW n \in 1 .. MaxParts, SingleCall(r, q, [NoModeration EXCEPT !.pieces = n])
      PROVE  Moderates(r)
  <2> DEFINE m == [NoModeration EXCEPT !.pieces = n]
  <2>1. n \in Nat /\ n > 0 /\ 0 \in Nat /\ m = [NoModeration EXCEPT !.pieces = n]
    BY PartsAssumption
  <2>2. SingleCall(r, q, m)
    BY <1>5
  <2> HIDE DEF m
  <2>3. Unmoderated(m, n, 0)
    BY <2>1, FreshModeration
  <2>4. /\ Tallied(m) /\ m.pieces = n /\ m.images = 0 /\ m.contentIndex = 0 /\ m.imageIndex = 0
        /\ ~ m.refused
    BY <2>3 DEF Unmoderated
  <2>5. TextSaid(m, m.contentIndex) /\ m.contentIndex < m.pieces
    BY <2>1, <2>4 DEF TextSaid
  <2>6. QED
    BY <1>1, <2>4, <2>2, <2>5, SingleCallModerates
<1>6. QED
  BY <1>2, <1>3, <1>4, <1>5 DEF GuardAnswered

\* What the callback of a call finds.
LEMMA GuardIsCalled ==
    ASSUME AllRested, GuardInv, NEW r \in Request, NEW c \in {"text", "image"}, Called(r, c)
    PROVE  /\ Ready(Back(r, c)) /\ Back(r, c).held /\ Back(r, c).stage # "headers"
           /\ Tallied(moderation[r]) /\ ~ moderation[r].refused
           /\ c = "text" => TextUnderWay(moderation[r])
           /\ c = "image" => ImageUnderWay(moderation[r])
<1>1. c \in OneAtATime /\ c \in CallName /\ Formed(req[r])
  BY WasmAssumption DEF OneAtATime, AllRested, Rested
<1>2. Ready(Back(r, c)) /\ Back(r, c).held /\ Back(r, c).stage = req[r].stage
  BY <1>1, CalledIsReady, BackFields DEF Unmoved
<1>3. req[r].calls[c] # None /\ ~ Idle(req[r])
  BY <1>1 DEF Called, Idle
<1>4. QED
  BY <1>2, <1>3 DEF GuardInv, GuardFine

LEMMA TextCheckedModerates ==
    ASSUME AllRested, GuardInv, NEW r \in Request, TextChecked(r)
    PROVE  Moderates(r)
<1> DEFINE q == Back(r, "text")
           m == moderation[r]
           part == {<<"text", m.contentIndex>>}
           fine == [m EXCEPT !.accepted = @ \cup part]
<1>1. Ready(q) /\ q.held /\ q.stage # "headers" /\ Tallied(m) /\ ~ m.refused /\ TextUnderWay(m)
  BY GuardIsCalled DEF TextChecked
<1>2. fine = [m EXCEPT !.accepted = @ \cup part] /\ part = {<<"text", m.contentIndex>>}
  OBVIOUS
<1>3. \/ FailsOpen(r, q, m)
      \/ MorePieces(m) /\ SingleCall(r, q, fine)
      \/ ~ MorePieces(m) /\ m.images > 0 /\ conf.checkRequestImage /\ SingleCallForImage(r, q, fine)
      \/ /\ ~ MorePieces(m) /\ ~ (m.images > 0 /\ conf.checkRequestImage)
         /\ Step(r, Passes(q)) /\ Moderating(r, fine)
      \/ Denied(r, q, m)
  BY DEF TextChecked
<1> HIDE DEF q, fine, m, part
<1>4. /\ Tallied(fine) /\ SameParts(m, fine) /\ SamePlace(m, fine)
      /\ Said(fine) = Said(m) \cup part /\ ~ fine.refused
  <2>1. Notes(m, fine, part)
    BY <1>1, <1>2, SaidFields
  <2>2. QED
    BY <1>1, <2>1 DEF Notes
<1>5. /\ m.pieces \in Nat /\ m.images \in Nat /\ m.contentIndex \in 1 .. m.pieces /\ m.imageIndex = 0
      /\ fine.pieces = m.pieces /\ fine.images = m.images
      /\ fine.contentIndex = m.contentIndex /\ fine.imageIndex = 0
  BY <1>1, <1>4 DEF Tallied, TextUnderWay, SameParts, SamePlace
<1>6. \A k \in 1 .. m.pieces : k <= m.contentIndex => k < m.contentIndex \/ k = m.contentIndex
  BY <1>5
<1>7. \A k \in 1 .. m.pieces : k <= m.contentIndex => <<"text", k>> \in Said(fine)
  BY <1>1, <1>2, <1>4, <1>6, Zenon DEF TextUnderWay
<1>8. TextSaid(fine, fine.contentIndex)
  BY <1>5, <1>7, Zenon DEF TextSaid
<1>9. ASSUME ~ MorePieces(m)
      PROVE  TextSaid(fine, fine.pieces)
  <2>1. m.contentIndex = m.pieces
    BY <1>5, <1>9 DEF MorePieces
  <2>2. QED
    BY <1>5, <1>8, <2>1
<1>10. CASE FailsOpen(r, q, m)
  BY <1>1, <1>10, Opens
<1>11. CASE MorePieces(m) /\ SingleCall(r, q, fine)
  <2>1. fine.contentIndex < fine.pieces
    BY <1>5, <1>11 DEF MorePieces
  <2>2. QED
    BY <1>1, <1>4, <1>5, <1>8, <1>11, <2>1, SingleCallModerates
<1>12. CASE ~ MorePieces(m) /\ m.images > 0 /\ SingleCallForImage(r, q, fine)
  <2>1. fine.imageIndex < fine.images /\ ImagesSaid(fine, fine.imageIndex)
    BY <1>5, <1>12 DEF ImagesSaid
  <2>2. ImageUnderWay(fine)
    BY <1>9, <1>12, <2>1 DEF ImageUnderWay
  <2>3. QED
    BY <1>1, <1>4, <1>12, <2>2, SingleCallForImageModerates
<1>13. CASE /\ ~ MorePieces(m) /\ ~ (m.images > 0 /\ conf.checkRequestImage)
            /\ Step(r, Passes(q)) /\ Moderating(r, fine)
  <2>1. fine.pieces # 0
    BY <1>5
  <2>2. ImagesSaid(fine, fine.images) \/ ~ conf.checkRequestImage
    BY <1>5, <1>13 DEF ImagesSaid
  <2>3. Cleared(fine)
    BY <1>4, <1>9, <1>13, <2>1, <2>2, DueIsSaid
  <2>4. GuardFine(Passes(q), fine)
    BY <1>1, <2>3, GuardPasses
  <2>5. QED
    BY <1>4, <1>13, <2>4 DEF Moderates
<1>14. CASE Denied(r, q, m)
  BY <1>1, <1>14, DeniedModerates
<1>15. QED
  BY <1>3, <1>10, <1>11, <1>12, <1>13, <1>14

LEMMA ImageCheckedModerates ==
    ASSUME AllRested, GuardInv, NEW r \in Request, ImageChecked(r)
    PROVE  Moderates(r)
<1> DEFINE q == Back(r, "image")
           o == moderation[r]
           m == [o EXCEPT !.imageIndex = @ + 1]
           part == {<<"image", m.imageIndex>>}
           n == o.imageIndex + 1
<1>1. Ready(q) /\ q.held /\ q.stage # "headers" /\ Tallied(o) /\ ~ o.refused /\ ImageUnderWay(o)
  BY GuardIsCalled DEF ImageChecked
<1>2. o.pieces \in Nat /\ o.images \in Nat /\ o.imageIndex \in Nat /\ o.contentIndex \in Nat /\ n \in Nat
  BY <1>1 DEF Tallied
<1>3. \/ \E said \in {[m EXCEPT !.accepted = @ \cup part], [m EXCEPT !.failed = @ \cup part]} :
            \/ MoreImages(m) /\ SingleCallForImage(r, q, said)
            \/ ~ MoreImages(m) /\ Step(r, Passes(q)) /\ Moderating(r, said)
      \/ Denied(r, q, m)
  BY DEF ImageChecked
<1>4. m = [o EXCEPT !.imageIndex = @ + 1] /\ n = o.imageIndex + 1 /\ part = {<<"image", m.imageIndex>>}
  OBVIOUS
<1> HIDE DEF m, n, q, part, o
<1>5. /\ Tallied(m) /\ SameParts(o, m) /\ m.imageIndex = n
      /\ Said(m) = Said(o) /\ ~ m.refused
  BY <1>1, <1>2, <1>4, IndexFields
<1>6. CASE Denied(r, q, m)
  BY <1>1, <1>5, <1>6, DeniedModerates
<1>7. ASSUME NEW said \in {[m EXCEPT !.accepted = @ \cup part], [m EXCEPT !.failed = @ \cup part]},
             \/ MoreImages(m) /\ SingleCallForImage(r, q, said)
             \/ ~ MoreImages(m) /\ Step(r, Passes(q)) /\ Moderating(r, said)
      PROVE  Moderates(r)
  <2>1. /\ Tallied(said) /\ SameParts(m, said) /\ SamePlace(m, said)
        /\ Said(said) = Said(m) \cup part /\ ~ said.refused
    <3>1. Notes(m, said, part)
      BY <1>5, <1>7, SaidFields
    <3>2. QED
      BY <1>5, <3>1 DEF Notes
  <2>2. /\ said.pieces = o.pieces /\ said.images = o.images /\ said.imageIndex = n /\ m.images = o.images
        /\ Said(o) \subseteq Said(said) /\ <<"image", n>> \in Said(said)
    BY <1>4, <1>5, <2>1 DEF SameParts, SamePlace
  <2>3. TextSaid(said, said.pieces)
    BY <1>1, <2>2, Zenon DEF ImageUnderWay, TextSaid
  <2>4. \A k \in 1 .. o.images : k <= n => k <= o.imageIndex \/ k = n
    BY <1>2, <1>4
  <2>5. ImagesSaid(said, n)
    BY <1>1, <2>2, <2>4, Zenon DEF ImageUnderWay, ImagesSaid
  <2>6. CASE MoreImages(m) /\ SingleCallForImage(r, q, said)
    <3>1. said.imageIndex < said.images
      BY <1>5, <2>2, <2>6 DEF MoreImages
    <3>2. ImageUnderWay(said)
      BY <2>2, <2>3, <2>5, <3>1 DEF ImageUnderWay
    <3>3. QED
      BY <1>1, <2>1, <2>6, <3>2, SingleCallForImageModerates
  <2>7. CASE ~ MoreImages(m) /\ Step(r, Passes(q)) /\ Moderating(r, said)
    <3>1. n = said.images
      <4>1. o.imageIndex < o.images /\ ~ (n < o.images)
        BY <1>1, <1>5, <2>2, <2>7 DEF ImageUnderWay, MoreImages
      <4>2. QED
        BY <1>2, <1>4, <2>2, <4>1
    <3>2. Cleared(said)
      BY <2>1, <2>3, <2>5, <3>1, DueIsSaid
    <3>3. GuardFine(Passes(q), said)
      BY <1>1, <3>2, GuardPasses
    <3>4. QED
      BY <2>1, <2>7, <3>3 DEF Moderates
  <2>8. QED
    BY <1>7, <2>6, <2>7
<1>8. QED
  BY <1>3, <1>6, <1>7

LEMMA GuardStep ==
    ASSUME AllRested, GuardInv, Is("ai-security-guard"), conf' = conf, [WasmNext]_wasmVars
    PROVE  GuardInv'
<1>1. AllFormed
  BY RestedIsFormed
<1>2. CASE UNCHANGED wasmVars
  <2>1. UNCHANGED <<conf, req, moderation>>
    BY <1>2 DEF wasmVars, hostVars, restVars
  <2>2. QED
    BY <2>1 DEF GuardInv, GuardFine, Cleared, Due, Idle, TextUnderWay, ImageUnderWay, TextSaid, ImagesSaid, Tallied, Said
<1>3. ASSUME NEW r \in Request, UNCHANGED moderation, UpstreamAnswers(r) \/ Leave(r)
      PROVE  Moderates(r)
  <2> DEFINE q == req[r]  m == moderation[r]
  <2>1. World(r) /\ Formed(q) /\ {"text", "image"} \subseteq CallName
    BY <1>1, <1>3, WasmAssumption DEF World, AllFormed, OneAtATime
  <2>2. PICK p : Step(r, p)
    BY <1>3 DEF UpstreamAnswers, Leave
  <2>3. req'[r] = p
    BY <1>1, <2>2, StepIs
  <2>4. p.stage \in {"answering", "gone"} /\ p.calls = q.calls
    <3>1. CASE UpstreamAnswers(r)
      <4>1. q.stage = "upstream"
        BY <3>1 DEF UpstreamAnswers
      <4> HIDE DEF q
      <4>2. QED
        BY <1>1, <2>1, <2>3, <4>1, WorldFields DEF Kept, q
    <3>2. CASE Leave(r)
      <4> DEFINE l == Gone(q)
      <4>1. p = l
        BY <1>1, <2>3, <3>2, StepIs DEF Leave, Gone
      <4>2. Kept(q, l) /\ l.stage = "gone"
        BY <2>1, LeftFields
      <4> HIDE DEF l
      <4>3. QED
        BY <4>1, <4>2 DEF Kept
    <3>3. QED
      BY <1>3, <3>1, <3>2
  <2>5. GuardFine(q, m)
    BY DEF GuardInv
  <2> HIDE DEF q, m
  <2>6. GuardFine(p, m)
    BY <2>4, <2>5 DEF GuardFine, Idle, Begun
  <2>7. QED
    BY <1>3, <2>2, <2>6, SameModeration DEF m
<1>4. CASE WasmNext
  <2>1. PICK r \in Request : Moderates(r)
    BY <1>3, <1>4, GuardSteps, GuardHeadersModerate, GuardBodyModerates, GuardAnsweredModerates,
       TextCheckedModerates, ImageCheckedModerates
  <2>2. PICK q, m : Step(r, q) /\ Moderating(r, m) /\ Tallied(m) /\ GuardFine(q, m)
    BY <2>1 DEF Moderates
  <2>3. moderation' = [s \in Request |-> IF s = r THEN m ELSE moderation[s]]
    BY <2>2 DEF GuardInv, Moderating
  <2>4. req'[r] = q /\ \A s \in Request : s # r => req'[s] = req[s]
    BY <1>1, <2>2, StepIs
  <2>5. ASSUME NEW s \in Request
        PROVE  Tallied(moderation'[s]) /\ GuardFine(req'[s], moderation'[s])
    <3>1. CASE s = r
      BY <2>2, <2>3, <2>4, <3>1
    <3>2. CASE s # r
      <4>1. moderation'[s] = moderation[s] /\ req'[s] = req[s]
        BY <2>3, <2>4, <3>2
      <4>2. QED
        BY <4>1 DEF GuardInv
    <3>3. QED
      BY <3>1, <3>2
  <2>6. moderation' = [s \in Request |-> moderation'[s]]
    BY <2>3
  <2>7. ASSUME NEW s \in Request
        PROVE  (Tallied(moderation[s]) /\ GuardFine(req[s], moderation[s]))'
    BY <2>5 DEF GuardFine, Cleared, Due, Idle, TextUnderWay, ImageUnderWay, TextSaid, ImagesSaid, Tallied, Said
  <2>8. QED
    BY <2>6, <2>7 DEF GuardInv
<1>5. QED
  BY <1>2, <1>4

LEMMA ModeratedPasses == GuardInv => OnlyModeratedPasses
<1> SUFFICES ASSUME GuardInv, NEW r \in Request,
                    req[r].stage = "upstream" \/ (req[r].stage = "over" /\ ~ req[r].local /\ "replaced" \notin req[r].ctx)
             PROVE  LET m == moderation[r]
                    IN ~ m.refused /\ (m.open \/ Due(m) \subseteq m.accepted \cup m.failed)
  BY DEF OnlyModeratedPasses
<1>1. Cleared(moderation[r])
  BY DEF GuardInv, GuardFine
<1>2. QED
  BY <1>1 DEF Cleared, Said

PermitInv == AccessInv /\ (Is("ai-security-guard") => GuardInv)

LEMMA InitPermit == WasmInit => PermitInv
<1> SUFFICES ASSUME WasmInit PROVE PermitInv
  OBVIOUS
<1>1. moderation = [r \in Request |-> NoModeration]
  BY DEF WasmInit
<1>2. ASSUME NEW r \in Request
      PROVE  GuardFine(req[r], NoModeration)
  <2>1. Idle(req[r]) /\ req[r].stage \in {"headers", "gone"} /\ {"text", "image"} \subseteq CallName
    BY InitialRequests, WasmAssumption DEF Quiet, OneAtATime
  <2>2. QED
    BY <2>1 DEF GuardFine, Idle
<1>3. GuardInv
  BY <1>1, <1>2, NothingDue DEF GuardInv
<1>4. QED
  BY <1>3, InitAccess DEF PermitInv

LEMMA StepPermit == PermitInv /\ [WasmNext]_wasmVars => PermitInv'
<1> SUFFICES ASSUME PermitInv, [WasmNext]_wasmVars PROVE PermitInv'
  OBVIOUS
<1>1. AccessInv' /\ conf' = conf
  BY StepAccess, StepHost DEF PermitInv, AccessInv, LimitInv
<1>2. Is("ai-security-guard") => AllRested
  BY DEF PermitInv, AccessInv, LimitInv, HostInv, LooksUpMeanwhile, Is
<1>3. Is("ai-security-guard") => GuardInv'
  BY <1>1, <1>2, GuardStep DEF PermitInv
<1>4. QED
  BY <1>1, <1>3 DEF PermitInv, Is

\* What the configuration lets go upstream depends on the plugin.
LEMMA PermittedIs ==
    ASSUME NEW q
    PROVE  /\ Is("ext-auth") => Permitted(q) = ExtAuthAdmits(q)
           /\ Is("opa") => Permitted(q) = OpaAdmits(q)
           /\ Is("request-validation") => Permitted(q) = ValidationAdmits(q)
           /\ Is("replay-protection") => Permitted(q) = ReplayAdmits(q)
           /\ conf.plugin \in Consumers => Permitted(q) = Entitled(q)
           /\ ~ Judging => Permitted(q) = TRUE
BY DEF Permitted, Is, Consumers, Judging, Access

\* A request goes upstream only with the permission of the server, the policy, the rules, the
\* nonce or the credentials that its plugin looks at, in whatever order the calls come back and
\* fail; and past the security guard, and back to the client, goes only what was accepted to
\* the last piece and the last image, unless an error let it go.
THEOREM OnlyPermittedEverGoUpstream == WasmSpec => []OnlyPermittedGoUpstream
<1>1. ASSUME PermitInv, NEW r \in Request, req[r].stage \in Admitted
      PROVE  Permitted(req[r]) \/ RulesForgotten
  <2>1. Judged(req[r])
    BY <1>1 DEF PermitInv, AccessInv
  <2>2. CASE Is("ext-auth")
    BY <1>1, <2>1, <2>2, PermittedIs DEF Judged, ExtAuthFine
  <2>3. CASE Is("opa")
    BY <1>1, <2>1, <2>3, PermittedIs DEF Judged, OpaFine
  <2>4. CASE Is("request-validation")
    BY <1>1, <2>1, <2>4, PermittedIs DEF Judged, ValidationFine
  <2>5. CASE Is("replay-protection")
    BY <1>1, <2>1, <2>5, PermittedIs DEF Judged, ReplayFine
  <2>6. CASE conf.plugin \in Consumers
    BY <1>1, <2>1, <2>6, PermittedIs DEF Judged, ConsumerFine
  <2>7. CASE ~ Judging
    BY <2>7, PermittedIs
  <2>8. QED
    BY <2>2, <2>3, <2>4, <2>5, <2>6, <2>7 DEF Judging, Access, Is
<1>2. PermitInv => OnlyPermittedGoUpstream
  BY <1>1, ModeratedPasses DEF PermitInv, OnlyPermittedGoUpstream, Admitted
<1>3. QED
  BY <1>2, InitPermit, StepPermit, PTL DEF WasmSpec

-----------------------------------------------------------------------------
(* The caches *)

\* An answer that a request left behind: it is over, and nothing said to leave the cache alone.
Through(q) == q.stage = "over" /\ "skip" \notin q.ctx

\* A request that was told to leave the cache alone waits for nothing and was served nothing.
LeftAlone(q) ==
    /\ "skip" \in q.ctx => /\ q.stage \notin {"headers", "body"} /\ q.facts \cap Request = {}
                           /\ Idle(q) \/ q.stage = "gone"
    /\ q.facts \cap Request # {} => q.stage = "over"

\* Whose answer a call brings, and whose a request was served.
Lineage(q) ==
    /\ q.key \in Key
    /\ q.calls["lookup"] \in Request => Close(req[q.calls["lookup"]].key, q.key)
    /\ q.calls["query"] \in Request =>
        \E v \in vectors : v.answer = q.calls["query"] /\ v.text \in q.ctx
    /\ q.calls["other"] # None => Accepted(q)
    /\ q.calls["other"] \in Request => Served(q.calls["other"], q.key)
    /\ \A a \in q.facts \cap Request : Served(a, q.key)

StoredRight(k) ==
    store[k] # None =>
        store[k] \in Request /\ Close(req[store[k]].key, k) /\ Through(req[store[k]])

PostedRight(m) ==
    /\ m.by \in Request
    /\ m.cmd = "set" => m.n \in Request
    /\ m.cmd = "upload" => m.n \in {m.by, None}
    /\ m.n \in Request => Close(req[m.n].key, req[m.by].key) /\ Through(req[m.n])

VectorRight(v) ==
    /\ v.text \in Key
    /\ v.answer # None =>
        v.answer \in Request /\ req[v.answer].key = v.text /\ Through(req[v.answer])

CacheInv ==
    /\ AllFormed /\ store = [k \in Key |-> store[k]]
    /\ \A r \in Request : Lineage(req[r]) /\ (LooksUpMeanwhile \/ LeftAlone(req[r]))
    /\ \A k \in Key : StoredRight(k)
    /\ \A m \in posted : PostedRight(m)
    /\ \A v \in vectors : VectorRight(v)

\* A step that leaves keys, vectors and what is through as they are.
LEMMA LineageStays ==
    ASSUME KeysKept, vectors \subseteq vectors', NEW CONSTANT q, Lineage(q)
    PROVE  Lineage(q)'
<1>1. \A a \in Request : req'[a].key = req[a].key
    BY DEF KeysKept
<1>2. \A a \in Request : \A k : /\ Close(req[a].key, k) <=> Close(req'[a].key, k)
                                /\ Served(a, k) <=> Served(a, k)'
    BY <1>1 DEF Served, Close
<1>. QED
    BY <1>1, <1>2 DEF Lineage, Accepted, TextFound, Close

LEMMA MarksStay ==
    ASSUME KeysKept, \A s \in Request : Through(req[s]) => Through(req'[s])
    PROVE  /\ \A k : StoredRight(k) /\ store'[k] = store[k] => StoredRight(k)'
           /\ \A m : PostedRight(m) => PostedRight(m)'
           /\ \A v : VectorRight(v) => VectorRight(v)'
<1>1. \A a \in Request : req'[a].key = req[a].key /\ (Through(req[a]) => Through(req'[a]))
    BY DEF KeysKept
<1>2. ASSUME NEW CONSTANT k, StoredRight(k), store'[k] = store[k] PROVE StoredRight(k)'
    BY <1>1, <1>2 DEF StoredRight, Close, Through
<1>3. ASSUME NEW CONSTANT m, PostedRight(m) PROVE PostedRight(m)'
    BY <1>1, <1>3 DEF PostedRight, Close, Through
<1>4. ASSUME NEW CONSTANT v, VectorRight(v) PROVE VectorRight(v)'
    BY <1>1, <1>4 DEF VectorRight, Through
<1>. QED
    BY <1>2, <1>3, <1>4

\* What a step of request r may make of it.
Proper(q, p) ==
    /\ Formed(p) /\ p.key = q.key /\ Lineage(p)
    /\ LooksUpMeanwhile \/ LeftAlone(p)
    /\ Through(q) => Through(p)

Serves(r) == \E p : Step(r, p) /\ Proper(req[r], p)

LEMMA ServesKeeps ==
    ASSUME CacheInv, NEW r \in Request, Serves(r), UNCHANGED <<conf, store, vectors>>,
           \A m \in posted' : m \in posted \/ PostedRight(m)'
    PROVE  CacheInv'
<1>1. PICK p : Step(r, p) /\ Proper(req[r], p)
    BY DEF Serves
<1>2. /\ req' = [s \in Request |-> IF s = r THEN p ELSE req[s]]
      /\ req'[r] = p /\ \A s \in Request : s # r => req'[s] = req[s]
    BY <1>1 DEF Step, CacheInv, AllFormed
<1>3. req' = [s \in Request |-> req'[s]]
    BY <1>2
<1>4. AllFormed'
    BY <1>1, <1>2, <1>3 DEF CacheInv, AllFormed, Proper
<1>5. KeysKept /\ \A s \in Request : Through(req[s]) => Through(req'[s])
    BY <1>1, <1>2 DEF KeysKept, Proper
<1>6. \A s \in Request : Lineage(req'[s]) /\ (LooksUpMeanwhile \/ LeftAlone(req'[s]))
    BY <1>1, <1>2 DEF CacheInv, Proper
<1>8. \A s \in Request : Lineage(req[s])' /\ (LooksUpMeanwhile' \/ LeftAlone(req[s])')
  <2>1. LooksUpMeanwhile' <=> LooksUpMeanwhile
      BY DEF LooksUpMeanwhile
  <2> SUFFICES ASSUME NEW CONSTANT s \in Request
               PROVE  Lineage(req[s])' /\ (LooksUpMeanwhile' \/ LeftAlone(req[s])')
      OBVIOUS
  <2>2. LeftAlone(req'[s]) => LeftAlone(req[s])'
      BY DEF LeftAlone, Idle
  <2>3. Lineage(req'[s]) => Lineage(req[s])'
    <3>1. ASSUME NEW CONSTANT q, q = req'[s], Lineage(q) PROVE Lineage(req[s])'
      <4>1. Lineage(q)'
          BY <3>1, <1>5, LineageStays
      <4>. QED
          BY <3>1, <4>1 DEF Lineage, Accepted, TextFound
    <3>. QED
        BY <3>1
  <2>. QED
      BY <1>6, <2>1, <2>2, <2>3
<1>9. \A k \in Key : StoredRight(k)'
    BY <1>5, MarksStay DEF CacheInv
<1>10. \A m \in posted' : PostedRight(m)'
    BY <1>5, MarksStay DEF CacheInv
<1>11. \A v \in vectors' : VectorRight(v)'
    BY <1>5, MarksStay DEF CacheInv
<1>12. store' = [k \in Key |-> store'[k]]
    BY DEF CacheInv
<1>. QED
    BY <1>4, <1>8, <1>9, <1>10, <1>11, <1>12 DEF CacheInv

\* Nothing says to leave the cache alone, and nothing was served.
Harmless(q, p) ==
    /\ Formed(p) /\ p.key = q.key /\ Lineage(p)
    /\ LooksUpMeanwhile \/ ("skip" \notin p.ctx /\ p.facts \cap Request = {})

LEMMA HarmlessIsAlone == \A q, p : Harmless(q, p) => LooksUpMeanwhile \/ LeftAlone(p)
BY DEF Harmless, LeftAlone

\* Words, and what a failed call leaves, are no requests.
LEMMA NoRequest ==
    /\ \A v \in Word \cup {None, Sent, Failed} : v \notin Request
    /\ \A k \in Key : k \notin Mark
BY WasmAssumption, OpaqueAssumption

LEMMA LineageKept ==
    ASSUME NEW q, NEW p, Kept(q, p), Lineage(q)
    PROVE  Lineage(p)
BY DEF Kept, Lineage, Accepted, TextFound

LEMMA LineageNotes ==
    ASSUME NEW q, NEW p, p.key = q.key, p.calls = q.calls, p.facts \cap Request = q.facts \cap Request,
           p.ctx \cap Key = q.ctx \cap Key, \A v \in vectors : VectorRight(v), Lineage(q)
    PROVE  Lineage(p)
<1>1. \A v \in vectors : v.text \in q.ctx => v.text \in p.ctx
    BY DEF VectorRight
<1>. QED
    BY <1>1 DEF Lineage, Accepted, TextFound

\* A call that is made, taken off or failed brings nobody's answer.
LEMMA LineageCalls ==
    ASSUME NEW q, Formed(q), Lineage(q), NEW p, NEW c, NEW v, v \notin Request,
           p.key = q.key, p.ctx = q.ctx, p.facts = q.facts, p.calls = [q.calls EXCEPT ![c] = v],
           c = "other" /\ v # None => Accepted(q) \/ q.calls["other"] # None
    PROVE  Lineage(p)
<1>1. q.calls \in [CallName -> {q.calls[d] : d \in CallName}] /\ {"lookup", "query", "other"} \subseteq CallName
    BY WasmAssumption DEF Formed, OneAtATime
<1>2. \A d \in {"lookup", "query", "other"} : p.calls[d] = IF d = c THEN v ELSE q.calls[d]
    BY <1>1
<1>3. /\ p.calls["lookup"] \in Request => p.calls["lookup"] = q.calls["lookup"]
      /\ p.calls["query"] \in Request => p.calls["query"] = q.calls["query"]
      /\ p.calls["other"] \in Request => p.calls["other"] = q.calls["other"]
      /\ p.calls["other"] # None => Accepted(q)
    BY <1>2 DEF Lineage
<1>4. Accepted(q) <=> Accepted(p)
    BY DEF Accepted, TextFound
<1>. QED
    BY <1>3, <1>4 DEF Lineage

\* However a handler or a callback lets a request go on, holds it or calls for it.
LEMMA HarmlessGoesOn ==
    ASSUME NEW o, NEW q, Harmless(o, q), \A v \in vectors : VectorRight(v)
    PROVE  /\ Harmless(o, Unread(q)) /\ Harmless(o, Postponed(q)) /\ Harmless(o, Paused(q))
           /\ Harmless(o, Continued(q)) /\ Harmless(o, Resumed(q)) /\ Harmless(o, AnswerPasses(q))
           /\ \A m \in {"key", "embedding"} : Harmless(o, Noting(q, {m}))
           /\ \A w \in Word : Harmless(o, Learning(q, {w}))
           /\ Harmless(o, Bodyless(q))
           /\ \A c \in {"lookup", "embed", "query"} : Harmless(o, Dispatched(q, c))
           /\ Accepted(q) => Harmless(o, Dispatched(q, "other"))
<1>1. Formed(q) /\ q.key = o.key /\ Lineage(q)
    BY DEF Harmless
<1>2. ASSUME NEW p, Formed(p), Kept(q, p) PROVE Harmless(o, p)
    BY <1>1, <1>2, LineageKept DEF Harmless, Kept
<1>3. /\ Harmless(o, Unread(q)) /\ Harmless(o, Postponed(q)) /\ Harmless(o, Paused(q))
      /\ Harmless(o, Continued(q)) /\ Harmless(o, Resumed(q)) /\ Harmless(o, AnswerPasses(q))
    BY <1>1, <1>2, UnreadFields, PostponedFields, PausedFields, ContinuedFields, ResumedFields, AnswerFields
<1>4. ASSUME NEW m \in {"key", "embedding"} PROVE Harmless(o, Noting(q, {m}))
  <2> DEFINE p == Noting(q, {m})
  <2>1. /\ Formed(p) /\ p.key = q.key /\ p.calls = q.calls /\ p.facts = q.facts
        /\ p.ctx = q.ctx \cup {m}
      BY <1>1, NotingFields DEF Unmoved
  <2>2. m \notin Key /\ m # "skip"
      BY NoRequest DEF Mark
  <2> HIDE DEF p
  <2>3. p.ctx \cap Key = q.ctx \cap Key /\ p.facts \cap Request = q.facts \cap Request
      BY <2>1, <2>2
  <2>4. Lineage(p)
      BY <1>1, <2>1, <2>3, LineageNotes
  <2>5. Harmless(o, p)
      BY <1>1, <2>1, <2>2, <2>4 DEF Harmless
  <2>. QED
      BY <2>5 DEF p
<1>5. ASSUME NEW l, Harmless(o, l), NEW w \in Word PROVE Harmless(o, Learning(l, {w}))
  <2> DEFINE p == Learning(l, {w})
  <2>0. Formed(l) /\ l.key = o.key /\ Lineage(l)
      BY <1>5 DEF Harmless
  <2>1. /\ Formed(p) /\ p.key = l.key /\ p.calls = l.calls /\ p.facts = l.facts \cup {w}
        /\ p.ctx = l.ctx
      BY <2>0, LearningFields DEF Unmoved
  <2>2. w \notin Request
      BY NoRequest
  <2> HIDE DEF p
  <2>3. p.ctx \cap Key = l.ctx \cap Key /\ p.facts \cap Request = l.facts \cap Request
      BY <2>1, <2>2
  <2>4. Lineage(p)
      BY <2>0, <2>1, <2>3, LineageNotes
  <2>5. Harmless(o, p)
      BY <1>5, <2>0, <2>1, <2>3, <2>4 DEF Harmless
  <2>. QED
      BY <2>5 DEF p
<1>7. Harmless(o, Bodyless(q))
    BY <1>3, <1>5 DEF Bodyless, Word
<1>6. ASSUME NEW c, c = "other" => Accepted(q) PROVE Harmless(o, Dispatched(q, c))
  <2> DEFINE p == Dispatched(q, c)
  <2>1. /\ Formed(p) /\ p.key = q.key /\ p.calls = [q.calls EXCEPT ![c] = Sent]
        /\ p.facts = q.facts /\ p.ctx = q.ctx
      BY <1>1, CallFields DEF Unmoved, Dispatched
  <2> HIDE DEF p
  <2>2. Lineage(p)
      BY <1>1, <1>6, <2>1, LineageCalls, NoRequest
  <2>3. Harmless(o, p)
      BY <1>1, <2>1, <2>2 DEF Harmless
  <2>. QED
      BY <2>3 DEF p
<1>. QED
    BY <1>3, <1>4, <1>5, <1>6, <1>7

\* What is answered is over, and nothing told it to leave the cache alone.
LEMMA HitServes ==
    ASSUME NEW o, NEW q, Harmless(o, q), \A v \in vectors : VectorRight(v), ~ q.local,
           NEW answer \in Request, Served(answer, q.key)
    PROVE  LET p == ProcessCacheHit(q, answer)
           IN  /\ Formed(p) /\ p.key = o.key /\ Lineage(p) /\ p.stage = "over" /\ p.ctx = q.ctx \ {"key"}
               /\ LooksUpMeanwhile \/ LeftAlone(p)
<1> DEFINE m == [q EXCEPT !.ctx = @ \ {"key"}]
           l == Learning(m, {answer})
           p == Replied(l)
<1>1. Formed(q) /\ q.key = o.key /\ Lineage(q)
    BY DEF Harmless
<1>2. Formed(m) /\ Unmoved(q, m) /\ m.calls = q.calls /\ m.facts = q.facts /\ m.ctx = q.ctx \ {"key"}
    BY <1>1 DEF Formed, Unmoved
<1>3. ProcessCacheHit(q, answer) = p
    BY DEF ProcessCacheHit
<1> HIDE DEF m
<1>4. /\ Formed(l) /\ Unmoved(m, l) /\ l.calls = q.calls /\ l.facts = q.facts \cup {answer}
      /\ l.ctx = q.ctx \ {"key"}
    BY <1>2, LearningFields
<1> HIDE DEF l
<1>5. ~ l.local /\ l.key = q.key
    BY <1>2, <1>4 DEF Unmoved
<1>6. Formed(p) /\ Kept(l, p) /\ p.stage = "over"
    BY <1>4, <1>5, RepliedFields
<1>7. \A k \in Key : k \in l.ctx <=> k \in q.ctx
    BY <1>4, NoRequest DEF Mark
<1>8. Lineage(l)
  <2>1. \A a \in l.facts \cap Request : Served(a, l.key)
      BY <1>1, <1>4, <1>5 DEF Lineage
  <2>2. Accepted(q) <=> Accepted(l)
      BY <1>5, <1>7 DEF Accepted, TextFound
  <2>3. \A v \in vectors : v.text \in q.ctx => v.text \in l.ctx
      BY <1>7 DEF VectorRight
  <2>. QED
      BY <1>1, <1>4, <1>5, <2>1, <2>2, <2>3 DEF Lineage
<1> HIDE DEF p
<1>9. Lineage(p)
    BY <1>6, <1>8, LineageKept
<1>10. LooksUpMeanwhile \/ LeftAlone(p)
    BY <1>4, <1>6 DEF Harmless, LeftAlone, Kept
<1>. QED
    BY <1>1, <1>3, <1>4, <1>5, <1>6, <1>9, <1>10 DEF Kept

\* A request that is told early to leave the cache alone goes upstream.
LEMMA SkipsEarly ==
    ASSUME NEW o, NEW q, Harmless(o, q), \A v \in vectors : VectorRight(v), LooksUpMeanwhile \/ Idle(q),
           q.stage = "body" \/ (q.stage = "headers" /\ ~ q.body)
    PROVE  LET p == Continued(Noting(q, {"skip"}))
           IN  Formed(p) /\ p.key = o.key /\ Lineage(p) /\ (LooksUpMeanwhile \/ LeftAlone(p))
<1> DEFINE n == Noting(q, {"skip"})
           p == Continued(n)
<1>1. Formed(q) /\ q.key = o.key /\ Lineage(q)
    BY DEF Harmless
<1>2. /\ Formed(n) /\ Unmoved(q, n) /\ n.calls = q.calls /\ n.ctx = q.ctx \cup {"skip"} /\ n.facts = q.facts
      /\ n.body = q.body
    BY <1>1, NotingFields
<1> HIDE DEF n
<1>3. Formed(p) /\ Kept(n, p) /\ p.stage = "upstream"
    BY <1>2, ContinuedFields DEF Unmoved
<1> HIDE DEF p
<1>4. n.ctx \cap Key = q.ctx \cap Key
    BY <1>2, NoRequest DEF Mark
<1>5. Lineage(p)
    BY <1>1, <1>2, <1>3, <1>4, LineageNotes, LineageKept DEF Unmoved
<1>6. LooksUpMeanwhile \/ LeftAlone(p)
    BY <1>2, <1>3 DEF Harmless, LeftAlone, Kept, Idle
<1>. QED
    BY <1>1, <1>2, <1>3, <1>5, <1>6 DEF Kept, Unmoved, p, n

\* A request that a handler of the caches is given.
LEMMA CacheHandles ==
    ASSUME CacheInv, LooksUpMeanwhile \/ AllRested, NEW r \in Request,
           NEW stage \in {"headers", "body", "answering", "response"}, Handling(r, stage)
    PROVE  /\ Formed(req[r]) /\ Lineage(req[r]) /\ ~ Through(req[r]) /\ req[r].stage = stage
           /\ stage \in {"headers", "body"} => Harmless(req[r], req[r])
           /\ LooksUpMeanwhile \/ req[r].facts \cap Request = {}
           /\ LooksUpMeanwhile \/ stage = "response" \/ Idle(req[r])
<1>1. /\ Formed(req[r]) /\ Lineage(req[r]) /\ (LooksUpMeanwhile \/ LeftAlone(req[r]))
      /\ req[r].stage = stage
    BY DEF CacheInv, AllFormed, Handling
<1>2. LooksUpMeanwhile \/ stage = "response" \/ Idle(req[r])
    BY HandlingIsReady DEF Holding, Ready
<1>. QED
    BY <1>1, <1>2 DEF Through, Harmless, LeftAlone

\* And one that a callback finds.
LEMMA CacheIsCalled ==
    ASSUME CacheInv, LooksUpMeanwhile \/ AllRested, NEW r \in Request, NEW c \in OneAtATime, Called(r, c)
    PROVE  /\ Harmless(req[r], Back(r, c)) /\ Back(r, c).stage = req[r].stage /\ Back(r, c).ctx = req[r].ctx
           /\ ~ LooksUpMeanwhile => /\ ~ Through(req[r]) /\ ~ Back(r, c).local
                                    /\ \A d \in OneAtATime : d # c => req[r].calls[d] = None
           /\ Accepted(Back(r, c)) <=> Accepted(req[r])
<1> DEFINE b == Back(r, c)
<1>1. Formed(req[r]) /\ Lineage(req[r]) /\ (LooksUpMeanwhile \/ LeftAlone(req[r])) /\ c \in CallName
    BY WasmAssumption DEF CacheInv, AllFormed
<1>2. /\ Formed(b) /\ Unmoved(req[r], b) /\ b.ctx = req[r].ctx /\ b.facts = req[r].facts
      /\ b.calls = [req[r].calls EXCEPT ![c] = None]
    BY <1>1, BackFields
<1>3. ~ LooksUpMeanwhile => Ready(b)
    BY CalledIsReady
<1>4. ~ LooksUpMeanwhile => ~ Idle(req[r]) /\ req[r].stage # "gone" /\ req[r].calls[c] # None
    BY <1>1 DEF Called, Idle
<1>4a. ~ LooksUpMeanwhile => \A d \in OneAtATime : d # c => req[r].calls[d] = None
    BY <1>4, WasmAssumption DEF AllRested, Rested, Sound
<1> HIDE DEF b
<1>5. Lineage(b)
    BY <1>1, <1>2, LineageCalls, NoRequest DEF Unmoved
<1>6. ~ LooksUpMeanwhile => b.stage \in Holding /\ ~ b.local
    BY <1>3 DEF Ready, Sound, Holding
<1>7. ~ LooksUpMeanwhile => "skip" \notin req[r].ctx /\ req[r].facts \cap Request = {} /\ ~ Through(req[r])
    BY <1>1, <1>2, <1>4, <1>6 DEF LeftAlone, Through, Holding, Unmoved
<1>8. Accepted(b) <=> Accepted(req[r])
    BY <1>2 DEF Accepted, TextFound, Unmoved
<1>. QED
    BY <1>1, <1>2, <1>4a, <1>5, <1>6, <1>7, <1>8 DEF Harmless, Unmoved, b

\* A harmless end of a step that did not go through is a proper one.
LEMMA HarmlessIsProper ==
    ASSUME NEW q, ~ Through(q), NEW p, Harmless(q, p)
    PROVE  Proper(q, p)
BY HarmlessIsAlone DEF Proper, Harmless

LEMMA AiCacheStarts ==
    ASSUME CacheInv, AllRested, ~ LooksUpMeanwhile, NEW r \in Request, AiCacheHeaders(r) \/ AiCacheBody(r)
    PROVE  CacheInv'
<1> DEFINE q == req[r]
<1>1. \A v \in vectors : VectorRight(v)
    BY DEF CacheInv
<1>2. CASE AiCacheHeaders(r)
  <2> DEFINE u == Unread(q)
  <2>1. Harmless(q, q) /\ ~ Through(q) /\ Idle(q) /\ q.stage = "headers" /\ Formed(q)
      BY <1>2, CacheHandles DEF AiCacheHeaders
  <2>2. Harmless(q, u) /\ Harmless(q, Continued(q)) /\ Harmless(q, Postponed(q)) /\ Harmless(q, Bodyless(q))
      BY <1>1, <2>1, HarmlessGoesOn
  <2>3. Harmless(q, Continued(u))
      BY <1>1, <2>2, HarmlessGoesOn
  <2>4. ~ u.body /\ u.stage = "headers" /\ Idle(u)
      BY <2>1 DEF Formed, Unread, Idle
  <2>5. Proper(q, Continued(Noting(u, {"skip"})))
      BY <1>1, <2>1, <2>2, <2>4, SkipsEarly DEF Proper
  <2> HIDE DEF u
  <2>6. /\ Proper(q, Continued(q)) /\ Proper(q, Continued(u))
        /\ Proper(q, Postponed(q)) /\ Proper(q, Bodyless(q))
      BY <2>1, <2>2, <2>3, HarmlessIsProper
  <2>7. Serves(r) /\ UNCHANGED <<conf, store, posted, vectors>>
      BY <1>2, <2>5, <2>6 DEF AiCacheHeaders, Serves, u
  <2>. QED
      BY <2>7, ServesKeeps
<1>3. CASE AiCacheBody(r)
  <2> DEFINE k == Noting(q, {"key"})
  <2>1. Harmless(q, q) /\ ~ Through(q) /\ Idle(q) /\ q.stage = "body"
      BY <1>3, CacheHandles DEF AiCacheBody
  <2>2. Harmless(q, k)
      BY <1>1, <2>1, HarmlessGoesOn
  <2> HIDE DEF k
  <2>3. /\ Harmless(q, Continued(k)) /\ Harmless(q, Resumed(k))
        /\ Harmless(q, Dispatched(k, "lookup")) /\ Harmless(q, Dispatched(k, "embed"))
      BY <1>1, <2>2, HarmlessGoesOn
  <2>4. /\ Harmless(q, Continued(Resumed(k)))
        /\ Harmless(q, Paused(Dispatched(k, "lookup"))) /\ Harmless(q, Paused(Dispatched(k, "embed")))
      BY <1>1, <2>3, HarmlessGoesOn
  <2>5. \A o \in CheckCacheForKey(k) : Harmless(q, IF o.err THEN Continued(o.q) ELSE Paused(o.q))
    <3> SUFFICES ASSUME NEW o \in CheckCacheForKey(k)
                 PROVE  Harmless(q, IF o.err THEN Continued(o.q) ELSE Paused(o.q))
        OBVIOUS
    <3>1. \/ o = [q |-> k, err |-> TRUE]
          \/ o = [q |-> Dispatched(k, "lookup"), err |-> FALSE]
          \/ o = [q |-> Dispatched(k, "embed"), err |-> FALSE]
          \/ o = [q |-> Resumed(k), err |-> TRUE]
        BY DEF CheckCacheForKey, PerformSimilaritySearch, GetEmbedding, Fine, Fails
    <3>2. CASE o = [q |-> k, err |-> TRUE]
        BY <2>3, <3>2
    <3>3. CASE o = [q |-> Dispatched(k, "lookup"), err |-> FALSE]
        BY <2>4, <3>3
    <3>4. CASE o = [q |-> Dispatched(k, "embed"), err |-> FALSE]
        BY <2>4, <3>4
    <3>5. CASE o = [q |-> Resumed(k), err |-> TRUE]
        BY <2>4, <3>5
    <3>. QED
        BY <3>1, <3>2, <3>3, <3>4, <3>5
  <2>6. Proper(q, Continued(Noting(q, {"skip"})))
      BY <1>1, <2>1, SkipsEarly DEF Proper
  <2>7. \A o \in CheckCacheForKey(k) : Proper(q, IF o.err THEN Continued(o.q) ELSE Paused(o.q))
      BY <2>1, <2>5, HarmlessIsProper
  <2>8. Serves(r) /\ UNCHANGED <<conf, store, posted, vectors>>
      BY <1>3, <2>6, <2>7 DEF AiCacheBody, Serves, k
  <2>. QED
      BY <2>8, ServesKeeps
<1>. QED
    BY <1>2, <1>3

\* What the answer of Redis does to a request that may be answered with it.
LEMMA CacheAnswers ==
    ASSUME NEW o, ~ Through(o), NEW q, Harmless(o, q), \A v \in vectors : VectorRight(v), ~ q.local, NEW value,
           value \in Request => Served(value, q.key), NEW similarity,
           NEW p \in HandleCacheResponse(q, value, similarity)
    PROVE  Proper(o, p)
<1>1. CASE value \in Request
  <2>1. p = ProcessCacheHit(q, value)
      BY <1>1 DEF HandleCacheResponse
  <2>. QED
      BY <1>1, <2>1, HitServes DEF Proper
<1>2. CASE value \notin Request
  <2>1. Harmless(o, Resumed(q)) /\ Harmless(o, Dispatched(q, "embed"))
      BY HarmlessGoesOn
  <2>2. Harmless(o, Resumed(Resumed(q)))
      BY <2>1, HarmlessGoesOn
  <2>3. \A e \in PerformSimilaritySearch(q) : Harmless(o, IF e.err THEN Resumed(e.q) ELSE e.q)
    <3> SUFFICES ASSUME NEW e \in PerformSimilaritySearch(q)
                 PROVE  Harmless(o, IF e.err THEN Resumed(e.q) ELSE e.q)
        OBVIOUS
    <3>1. \/ e = [q |-> q, err |-> TRUE]
          \/ e = [q |-> Dispatched(q, "embed"), err |-> FALSE]
          \/ e = [q |-> Resumed(q), err |-> TRUE]
        BY DEF PerformSimilaritySearch, GetEmbedding, Fine, Fails
    <3>2. CASE e = [q |-> q, err |-> TRUE]
        BY <2>1, <3>2
    <3>3. CASE e = [q |-> Dispatched(q, "embed"), err |-> FALSE]
        BY <2>1, <3>3
    <3>4. CASE e = [q |-> Resumed(q), err |-> TRUE]
        BY <2>2, <3>4
    <3>. QED
        BY <3>1, <3>2, <3>3, <3>4
  <2>4. p = Resumed(q) \/ \E e \in PerformSimilaritySearch(q) : p = IF e.err THEN Resumed(e.q) ELSE e.q
      BY <1>2 DEF HandleCacheResponse
  <2>. QED
      BY <2>1, <2>3, <2>4, HarmlessIsProper
<1>. QED
    BY <1>1, <1>2

LEMMA AiCacheLooksUp ==
    ASSUME CacheInv, AllRested, ~ LooksUpMeanwhile, NEW r \in Request,
           AiCacheLookedUp(r) \/ AiCacheOtherLookedUp(r) \/ EmbeddingReturns(r)
    PROVE  CacheInv'
<1> DEFINE q == req[r]
<1>1. (\A v \in vectors : VectorRight(v)) /\ Lineage(q)
    BY DEF CacheInv
<1>2. \A k \in Key : Close(k, k)
    BY DEF Close
<1>3. CASE AiCacheLookedUp(r)
  <2> DEFINE b == Back(r, "lookup")  o == Outcome(r, "lookup")
  <2>1. Harmless(q, b) /\ ~ Through(q) /\ ~ b.local
      BY <1>3, CacheIsCalled DEF AiCacheLookedUp, OneAtATime
  <2>2. o \in Request => Served(o, b.key)
      BY <1>1, <1>2, <2>1 DEF Outcome, Lineage, Served, Harmless
  <2> HIDE DEF b, o
  <2>3. \A p \in HandleCacheResponse(b, o, TRUE) : Proper(q, p)
      BY <1>1, <2>1, <2>2, CacheAnswers
  <2>4. Serves(r) /\ UNCHANGED <<conf, store, posted, vectors>>
      BY <1>3, <2>3 DEF AiCacheLookedUp, Serves, b, o
  <2>. QED
      BY <2>4, ServesKeeps
<1>4. CASE AiCacheOtherLookedUp(r)
  <2> DEFINE b == Back(r, "other")  o == Outcome(r, "other")
  <2>1. Harmless(q, b) /\ ~ Through(q) /\ ~ b.local
      BY <1>4, CacheIsCalled DEF AiCacheOtherLookedUp, OneAtATime
  <2>2. o \in Request => Served(o, b.key)
      BY <1>1, <2>1 DEF Outcome, Lineage, Harmless
  <2> HIDE DEF b, o
  <2>3. \A p \in HandleCacheResponse(b, o, FALSE) : Proper(q, p)
      BY <1>1, <2>1, <2>2, CacheAnswers
  <2>4. Serves(r) /\ UNCHANGED <<conf, store, posted, vectors>>
      BY <1>4, <2>3 DEF AiCacheOtherLookedUp, Serves, b, o
  <2>. QED
      BY <2>4, ServesKeeps
<1>5. CASE EmbeddingReturns(r)
  <2> DEFINE b == Back(r, "embed")  n == Noting(b, {"embedding"})
  <2>1. Harmless(q, b) /\ ~ Through(q)
      BY <1>5, CacheIsCalled DEF EmbeddingReturns, OneAtATime
  <2>2. Harmless(q, n) /\ Harmless(q, Resumed(b))
      BY <1>1, <2>1, HarmlessGoesOn
  <2> HIDE DEF n
  <2>3. Harmless(q, Dispatched(n, "query")) /\ Harmless(q, Resumed(n))
      BY <1>1, <2>2, HarmlessGoesOn
  <2>4. Proper(q, Resumed(b)) /\ Proper(q, Dispatched(n, "query")) /\ Proper(q, Resumed(n))
      BY <2>1, <2>2, <2>3, HarmlessIsProper
  <2>5. Serves(r) /\ UNCHANGED <<conf, store, posted, vectors>>
      BY <1>5, <2>4 DEF EmbeddingReturns, Serves, n
  <2>. QED
      BY <2>5, ServesKeeps
<1>. QED
    BY <1>3, <1>4, <1>5

\* The question that was found, and what was answered to it.
LEMMA QueryIsHandled ==
    ASSUME CacheInv, AllRested, ~ LooksUpMeanwhile, NEW r \in Request, HandleQueryResults(r)
    PROVE  CacheInv'
<1> DEFINE q == req[r]  b == Back(r, "query")  o == Outcome(r, "query")
<1>1. (\A v \in vectors : VectorRight(v)) /\ Lineage(q)
    BY DEF CacheInv
<1>2. Harmless(q, b) /\ ~ Through(q) /\ ~ b.local /\ b.ctx = q.ctx /\ (Accepted(b) <=> Accepted(q))
    BY CacheIsCalled DEF HandleQueryResults, OneAtATime
<1>3. b.key = q.key
    BY <1>2 DEF Harmless
<1>4. PICK res \in QueryEmbedding(o) :
         \/ res = "dead" /\ Step(r, Learning(b, {"dead"})) /\ UNCHANGED posted
         \/ res = "error" /\ Step(r, Resumed(b)) /\ UNCHANGED posted
         \/ res \in Request \cup {"no answer"} /\ ~ Accepted(b) /\ Step(r, Resumed(b)) /\ UNCHANGED posted
         \/ /\ res \in Request /\ Accepted(b)
            /\ Step(r, ProcessCacheHit(b, res))
            /\ posted' = posted \cup (IF conf.cache THEN {[by |-> r, cmd |-> "set", n |-> res]} ELSE {})
         \/ /\ res = "no answer" /\ Accepted(b)
            /\ \/ ~ conf.cache /\ Step(r, Resumed(b))
               \/ conf.cache /\ Step(r, Dispatched(b, "other"))
               \/ conf.cache /\ Step(r, Learning(b, {"unsent"}))
            /\ UNCHANGED posted
    BY DEF HandleQueryResults
<1>5. UNCHANGED <<conf, store, vectors>>
    BY DEF HandleQueryResults
<1>6. res \in Request => res = o
  <2>1. res \in {"error", "dead", o}
      BY <1>4 DEF QueryEmbedding, DashvectorQuery, ChromaQuery, ElasticsearchQuery, WeaviateQuery, PineconeQuery,
                  QdrantQuery, MilvusQuery
  <2>. QED
      BY <2>1, NoRequest DEF Word
<1> HIDE DEF b
<1>7. CASE /\ res \in Request /\ Accepted(b)
           /\ Step(r, ProcessCacheHit(b, res))
           /\ posted' = posted \cup (IF conf.cache THEN {[by |-> r, cmd |-> "set", n |-> res]} ELSE {})
  <2>1. PICK v \in vectors : v.answer = res /\ v.text \in q.ctx
      BY <1>1, <1>6, <1>7 DEF Outcome, Lineage
  <2>2. res # None /\ VectorRight(v)
      BY <1>1, <1>7, NoRequest
  <2>3. v.text \in Key /\ req[res].key = v.text /\ Through(req[res])
      BY <2>1, <2>2 DEF VectorRight
  <2>4. Close(req[res].key, q.key)
      BY <1>2, <1>3, <1>7, <2>1, <2>3 DEF Accepted, TextFound
  <2>5. Served(res, b.key)
      BY <1>3, <2>3, <2>4 DEF Served, Close
  <2>6. Proper(q, ProcessCacheHit(b, res))
      BY <1>1, <1>2, <1>7, <2>5, HitServes DEF Proper
  <2>7. Serves(r)
      BY <1>7, <2>6 DEF Serves
  <2>8. KeysKept /\ \A s \in Request : Through(req[s]) => Through(req'[s])
      BY <1>7, <2>6, StepIs DEF CacheInv, KeysKept, Proper
  <2>9. ASSUME NEW CONSTANT m, m = [by |-> r, cmd |-> "set", n |-> res] PROVE PostedRight(m)'
    <3>1. PostedRight(m)
        BY <1>7, <2>3, <2>4, <2>9 DEF PostedRight
    <3>. QED
        BY <2>8, <3>1, MarksStay
  <2>10. \A m \in posted' : m \in posted \/ PostedRight(m)'
      BY <1>7, <2>9
  <2>. QED
      BY <1>5, <2>7, <2>10, ServesKeeps
<1>8. CASE ~ (res \in Request /\ Accepted(b))
  <2>1. /\ Harmless(q, Resumed(b)) /\ Harmless(q, Learning(b, {"dead"})) /\ Harmless(q, Learning(b, {"unsent"}))
        /\ Accepted(b) => Harmless(q, Dispatched(b, "other"))
      BY <1>1, <1>2, HarmlessGoesOn DEF Word
  <2>2. \E p : Step(r, p) /\ Harmless(q, p)
      BY <1>4, <1>8, <2>1
  <2>3. Serves(r)
      BY <1>2, <2>2, HarmlessIsProper DEF Serves
  <2>4. UNCHANGED posted
      BY <1>4, <1>8
  <2>. QED
      BY <1>5, <2>3, <2>4, ServesKeeps
<1>9. res \in Request /\ Accepted(b) =>
        /\ Step(r, ProcessCacheHit(b, res))
        /\ posted' = posted \cup (IF conf.cache THEN {[by |-> r, cmd |-> "set", n |-> res]} ELSE {})
    BY <1>4, NoRequest DEF Word
<1>. QED
    BY <1>7, <1>8, <1>9

\* The headers of an answer, and its end.
LEMMA CacheHears ==
    ASSUME CacheInv, LooksUpMeanwhile \/ AllRested, NEW r \in Request
    PROVE  /\ Handling(r, "answering") =>
                Proper(req[r], AnswerPasses(req[r])) /\ Proper(req[r], AnswerPasses(Noting(req[r], {"skip"})))
           /\ Handling(r, "response") =>
                /\ Proper(req[r], ResponseEnds(req[r])) /\ ResponseEnds(req[r]).stage = "over"
                /\ ResponseEnds(req[r]).ctx = req[r].ctx
<1> DEFINE q == req[r]
<1>1. Formed(q) /\ Lineage(q) /\ (LooksUpMeanwhile \/ LeftAlone(q)) /\ \A v \in vectors : VectorRight(v)
    BY DEF CacheInv, AllFormed
<1>2. ASSUME Handling(r, "answering")
      PROVE  Proper(q, AnswerPasses(q)) /\ Proper(q, AnswerPasses(Noting(q, {"skip"})))
  <2> DEFINE n == Noting(q, {"skip"})  a == AnswerPasses(q)  p == AnswerPasses(n)
  <2>1. ~ Through(q) /\ (LooksUpMeanwhile \/ q.facts \cap Request = {}) /\ (LooksUpMeanwhile \/ Idle(q))
      BY <1>2, CacheHandles
  <2>2. /\ Formed(n) /\ Unmoved(q, n) /\ n.calls = q.calls /\ n.ctx = q.ctx \cup {"skip"} /\ n.facts = q.facts
      BY <1>1, NotingFields
  <2> HIDE DEF n
  <2>3. Formed(a) /\ Kept(q, a) /\ a.stage = "response"
      BY <1>1, AnswerFields
  <2>4. Formed(p) /\ Kept(n, p) /\ p.stage = "response"
      BY <2>2, AnswerFields
  <2> HIDE DEF a, p
  <2>5. n.ctx \cap Key = q.ctx \cap Key
      BY <2>2, NoRequest DEF Mark
  <2>6. Lineage(a) /\ Lineage(n)
      BY <1>1, <2>2, <2>3, <2>5, LineageNotes, LineageKept DEF Unmoved
  <2>7. Lineage(p)
      BY <2>4, <2>6, LineageKept
  <2>8. LooksUpMeanwhile \/ (LeftAlone(a) /\ LeftAlone(p))
      BY <2>1, <2>2, <2>3, <2>4 DEF LeftAlone, Kept, Idle
  <2>9. Proper(q, a) /\ Proper(q, p)
      BY <2>1, <2>2, <2>3, <2>4, <2>6, <2>7, <2>8 DEF Proper, Kept, Unmoved
  <2>. QED
      BY <2>9 DEF a, p, n
<1>3. ASSUME Handling(r, "response")
      PROVE  Proper(q, ResponseEnds(q)) /\ ResponseEnds(q).stage = "over" /\ ResponseEnds(q).ctx = q.ctx
  <2> DEFINE e == ResponseEnds(q)
  <2>1. ~ Through(q) /\ q.stage = "response"
      BY <1>3, CacheHandles
  <2>2. Formed(e) /\ Kept(q, e) /\ e.stage = "over"
      BY <1>1, AnswerFields
  <2> HIDE DEF e
  <2>3. Lineage(e) /\ (LooksUpMeanwhile \/ LeftAlone(e))
      BY <1>1, <2>1, <2>2, LineageKept DEF LeftAlone, Kept, Idle
  <2>4. Proper(q, e) /\ e.stage = "over" /\ e.ctx = q.ctx
      BY <2>1, <2>2, <2>3 DEF Proper, Kept
  <2>. QED
      BY <2>4 DEF e
<1>. QED
    BY <1>2, <1>3

\* What is stored of an answer that was not to be left alone.
LEMMA AnswerIsStored ==
    ASSUME CacheInv, NEW r \in Request, Step(r, ResponseEnds(req[r])), Proper(req[r], ResponseEnds(req[r])),
           ResponseEnds(req[r]).stage = "over", ResponseEnds(req[r]).ctx = req[r].ctx,
           UNCHANGED <<conf, store, vectors>>, "skip" \notin req[r].ctx \/ UNCHANGED posted,
           \A m \in posted' \ posted :
              m \in {[by |-> r, cmd |-> "set", n |-> r], [by |-> r, cmd |-> "upload", n |-> r],
                     [by |-> r, cmd |-> "upload", n |-> None]}
    PROVE  CacheInv'
<1> DEFINE e == ResponseEnds(req[r])
<1>1. Serves(r)
    BY DEF Serves
<1>2. req'[r] = e /\ e.stage = "over" /\ e.ctx = req[r].ctx
    BY StepIs DEF CacheInv
<1> HIDE DEF e
<1>3. "skip" \notin req[r].ctx => Through(req'[r])
    BY <1>2 DEF Through
<1>4. ASSUME NEW CONSTANT m, m \in posted', m \notin posted PROVE PostedRight(m)'
  <2>1. m \in {[by |-> r, cmd |-> "set", n |-> r], [by |-> r, cmd |-> "upload", n |-> r],
               [by |-> r, cmd |-> "upload", n |-> None]}
      BY <1>4
  <2>2. Through(req'[r])
      BY <1>3, <1>4
  <2>3. m.by = r /\ m.n \in {r, None} /\ (m.cmd = "set" => m.n = r)
      BY <2>1
  <2>. QED
      BY <2>2, <2>3, NoRequest DEF PostedRight, Through, Close
<1>. QED
    BY <1>1, <1>4, ServesKeeps

LEMMA CacheEnds ==
    ASSUME CacheInv, LooksUpMeanwhile \/ AllRested, NEW r \in Request,
           \/ AiCacheAnswered(r) \/ AiCacheEnds(r) \/ ResponseCacheAnswered(r) \/ ResponseCacheEnds(r)
    PROVE  CacheInv'
<1>1. CASE AiCacheAnswered(r) \/ ResponseCacheAnswered(r)
  <2>1. Serves(r) /\ UNCHANGED <<conf, store, posted, vectors>>
      BY <1>1, CacheHears DEF AiCacheAnswered, ResponseCacheAnswered, Serves
  <2>. QED
      BY <2>1, ServesKeeps
<1>2. CASE AiCacheEnds(r)
  <2>1. Handling(r, "response") /\ Step(r, ResponseEnds(req[r])) /\ UNCHANGED <<conf, store, vectors>>
      BY <1>2 DEF AiCacheEnds
  <2>2. "skip" \notin req[r].ctx \/ UNCHANGED posted
      BY <1>2 DEF AiCacheEnds
  <2>3. \A m \in posted' \ posted :
           m \in {[by |-> r, cmd |-> "set", n |-> r], [by |-> r, cmd |-> "upload", n |-> r],
                  [by |-> r, cmd |-> "upload", n |-> None]}
      BY <1>2 DEF AiCacheEnds, UploadEmbedding
  <2>. QED
      BY <2>1, <2>2, <2>3, CacheHears, AnswerIsStored
<1>3. CASE ResponseCacheEnds(r)
  <2>1. Handling(r, "response") /\ Step(r, ResponseEnds(req[r])) /\ UNCHANGED <<conf, store, vectors>>
      BY <1>3 DEF ResponseCacheEnds
  <2>2. "skip" \notin req[r].ctx \/ UNCHANGED posted
      BY <1>3 DEF ResponseCacheEnds
  <2>3. \A m \in posted' \ posted :
           m \in {[by |-> r, cmd |-> "set", n |-> r], [by |-> r, cmd |-> "upload", n |-> r],
                  [by |-> r, cmd |-> "upload", n |-> None]}
      BY <1>3 DEF ResponseCacheEnds
  <2>. QED
      BY <2>1, <2>2, <2>3, CacheHears, AnswerIsStored
<1>. QED
    BY <1>1, <1>2, <1>3

\* response-cache, whether it holds the request meanwhile or not.
LEMMA ResponseCacheWorks ==
    ASSUME CacheInv, LooksUpMeanwhile \/ AllRested, NEW r \in Request,
           ResponseCacheHeaders(r) \/ ResponseCacheBody(r) \/ ResponseCacheLookedUp(r)
    PROVE  CacheInv'
<1> DEFINE q == req[r]
<1>1. Formed(q) /\ Lineage(q) /\ \A v \in vectors : VectorRight(v)
    BY DEF CacheInv, AllFormed
<1>2. CASE ResponseCacheHeaders(r)
  <2> DEFINE u == Unread(q)  n == Noting(u, {"key"})
  <2>1. Harmless(q, q) /\ ~ Through(q) /\ q.stage = "headers" /\ (LooksUpMeanwhile \/ Idle(q))
      BY <1>2, CacheHandles DEF ResponseCacheHeaders
  <2>2. Harmless(q, u) /\ Harmless(q, Postponed(q)) /\ Harmless(q, Bodyless(q))
      BY <1>1, <2>1, HarmlessGoesOn
  <2>3. ~ u.body /\ u.stage = "headers" /\ (LooksUpMeanwhile \/ Idle(u))
      BY <1>1, <2>1 DEF Formed, Unread, Idle
  <2>4. Proper(q, Continued(Noting(u, {"skip"})))
      BY <1>1, <2>1, <2>2, <2>3, SkipsEarly DEF Proper
  <2>5. Harmless(q, n)
      BY <1>1, <2>2, HarmlessGoesOn
  <2> HIDE DEF n
  <2>6. Harmless(q, Continued(n)) /\ Harmless(q, Dispatched(n, "lookup"))
      BY <1>1, <2>5, HarmlessGoesOn
  <2>7. Harmless(q, Continued(Dispatched(n, "lookup")))
      BY <1>1, <2>6, HarmlessGoesOn
  <2>8. /\ Proper(q, Postponed(q)) /\ Proper(q, Bodyless(q))
        /\ Proper(q, Continued(n)) /\ Proper(q, Continued(Dispatched(n, "lookup")))
      BY <2>1, <2>2, <2>6, <2>7, HarmlessIsProper
  <2>9. Serves(r) /\ UNCHANGED <<conf, store, posted, vectors>>
      BY <1>2, <2>4, <2>8 DEF ResponseCacheHeaders, Serves, n
  <2>. QED
      BY <2>9, ServesKeeps
<1>3. CASE ResponseCacheBody(r)
  <2> DEFINE n == Noting(q, {"key"})
  <2>1. Harmless(q, q) /\ ~ Through(q) /\ q.stage = "body" /\ (LooksUpMeanwhile \/ Idle(q))
      BY <1>3, CacheHandles DEF ResponseCacheBody
  <2>2. Proper(q, Continued(Noting(q, {"skip"})))
      BY <1>1, <2>1, SkipsEarly DEF Proper
  <2>3. Harmless(q, n)
      BY <1>1, <2>1, HarmlessGoesOn
  <2> HIDE DEF n
  <2>4. Harmless(q, Continued(n)) /\ Harmless(q, Dispatched(n, "lookup"))
      BY <1>1, <2>3, HarmlessGoesOn
  <2>5. Harmless(q, Awaiting(n, "lookup"))
      BY <1>1, <2>4, HarmlessGoesOn DEF Awaiting
  <2>6. Proper(q, Continued(n)) /\ Proper(q, Awaiting(n, "lookup"))
      BY <2>1, <2>4, <2>5, HarmlessIsProper
  <2>7. Serves(r) /\ UNCHANGED <<conf, store, posted, vectors>>
      BY <1>3, <2>2, <2>6 DEF ResponseCacheBody, Serves, n
  <2>. QED
      BY <2>7, ServesKeeps
<1>4. CASE ResponseCacheLookedUp(r)
  <2> DEFINE b == Back(r, "lookup")  o == Outcome(r, "lookup")
  <2>1. /\ Harmless(q, b) /\ b.stage = q.stage /\ b.ctx = q.ctx
        /\ ~ LooksUpMeanwhile => ~ Through(q) /\ ~ b.local
      BY <1>4, CacheIsCalled DEF ResponseCacheLookedUp, OneAtATime
  <2>2. o \in Request => Served(o, b.key)
      BY <1>1, <2>1 DEF Outcome, Lineage, Served, Harmless, Close
  <2>3. Step(r, IF o \in Request THEN ProcessCacheHit(b, o) ELSE Resumed(b))
      BY <1>4 DEF ResponseCacheLookedUp
  <2> HIDE DEF b, o
  <2>4. Harmless(q, Resumed(b)) /\ Formed(b)
      BY <1>1, <2>1, HarmlessGoesOn DEF Harmless
  <2>5. Through(q) => Through(Resumed(b))
    <3> SUFFICES ASSUME Through(q) PROVE Through(Resumed(b))
        OBVIOUS
    <3>1. b.stage = "over" /\ "skip" \notin b.ctx
        BY <2>1 DEF Through
    <3>2. Continued(b) = b
        BY <2>4, <3>1, ContinuedFields
    <3>3. Resumed(b) = b
        BY <3>2 DEF Resumed
    <3>. QED
        BY <3>1, <3>3 DEF Through
  <2>6. Proper(q, Resumed(b))
      BY <2>4, <2>5, HarmlessIsAlone DEF Proper, Harmless
  <2>7. ASSUME o \in Request, ~ b.local PROVE Proper(q, ProcessCacheHit(b, o))
      BY <1>1, <2>1, <2>2, <2>7, HitServes DEF Proper, Through
  <2>8. ASSUME o \in Request, b.local PROVE Proper(q, ProcessCacheHit(b, o))
    <3> DEFINE m == [b EXCEPT !.ctx = @ \ {"key"}]  l == Learning(m, {o})
    <3>1. LooksUpMeanwhile /\ b.key = q.key /\ Lineage(b)
        BY <2>1, <2>8 DEF Harmless
    <3>2. Formed(m) /\ Unmoved(b, m) /\ m.calls = b.calls /\ m.facts = b.facts /\ m.ctx = b.ctx \ {"key"}
        BY <2>4 DEF Formed, Unmoved
    <3>3. ProcessCacheHit(b, o) = Replied(l)
        BY DEF ProcessCacheHit
    <3> HIDE DEF m
    <3>4. /\ Formed(l) /\ Unmoved(m, l) /\ l.calls = b.calls /\ l.facts = b.facts \cup {o}
          /\ l.ctx = b.ctx \ {"key"}
        BY <3>2, LearningFields
    <3> HIDE DEF l
    <3>5. l.local /\ l.key = b.key /\ l.stage = b.stage
        BY <2>8, <3>2, <3>4 DEF Unmoved
    <3>6. \A k \in Key : k \in l.ctx <=> k \in b.ctx
        BY <3>4, NoRequest DEF Mark
    <3>7. \A a \in l.facts \cap Request : Served(a, l.key)
        BY <2>2, <3>1, <3>4, <3>5 DEF Lineage
    <3>8. (Accepted(b) <=> Accepted(l)) /\ \A v \in vectors : v.text \in b.ctx => v.text \in l.ctx
        BY <1>1, <3>5, <3>6 DEF Accepted, TextFound, VectorRight
    <3>9. Lineage(l)
        BY <3>1, <3>4, <3>5, <3>7, <3>8 DEF Lineage
    <3>10. Replied(l) = l
        BY <3>4, <3>5, RepliedFields
    <3>11. Proper(q, l)
        BY <2>1, <3>1, <3>4, <3>5, <3>9 DEF Proper, Through
    <3>. QED
        BY <3>3, <3>10, <3>11
  <2>9. Serves(r) /\ UNCHANGED <<conf, store, posted, vectors>>
      BY <1>4, <2>3, <2>6, <2>7, <2>8 DEF ResponseCacheLookedUp, Serves
  <2>. QED
      BY <2>9, ServesKeeps
<1>. QED
    BY <1>2, <1>3, <1>4

\* What Redis and the vector database do with a call.
LEMMA CacheExecuted ==
    ASSUME CacheInv, LooksUpMeanwhile \/ AllRested, NEW r \in Request, UNCHANGED <<conf, store, posted, vectors>>,
           \/ RedisGet(r, "lookup", req[r].key)
           \/ ~ LooksUpMeanwhile /\ QueryRuns(r)
           \/ \E k \in TextFound(req[r]) : RedisGet(r, "other", k)
           \/ \E c \in {"lookup", "other", "query"} : CallFails(r, c)
    PROVE  CacheInv'
<1> DEFINE q == req[r]
<1>1. Formed(q) /\ Lineage(q) /\ (LooksUpMeanwhile \/ LeftAlone(q)) /\ \A v \in vectors : VectorRight(v)
    BY DEF CacheInv, AllFormed
<1>2. {"lookup", "other", "query"} \subseteq CallName /\ "miss" \notin Request /\ "nothing" \notin Request
      /\ "no answer" \notin Request /\ Failed \notin Request /\ Sent # None
    BY WasmAssumption, OpaqueAssumption DEF OneAtATime, Word
<1>3. q.calls \in [CallName -> {q.calls[d] : d \in CallName}]
    BY <1>1 DEF Formed
<1>4. ASSUME NEW p, Formed(p), Unmoved(q, p), p.facts = q.facts, Lineage(p), ~ Idle(q),
             p.ctx = q.ctx \/ \E k \in Key : p.ctx = q.ctx \cup {k}
      PROVE  Proper(q, p)
  <2>1. "skip" \in p.ctx <=> "skip" \in q.ctx
      BY <1>4, NoRequest DEF Mark
  <2>2. p.key = q.key /\ p.stage = q.stage /\ (LooksUpMeanwhile \/ LeftAlone(p))
      BY <1>1, <1>4, <2>1 DEF Unmoved, LeftAlone
  <2>. QED
      BY <1>4, <2>1, <2>2 DEF Proper, Through
<1>5. ASSUME NEW c \in {"lookup", "other", "query"}, NEW v, q.calls[c] # None, Step(r, [q EXCEPT !.calls[c] = v]),
             Lineage([q EXCEPT !.calls[c] = v])
      PROVE  CacheInv'
  <2> DEFINE p == [q EXCEPT !.calls[c] = v]
  <2>1. Formed(p) /\ Unmoved(q, p) /\ p.ctx = q.ctx /\ p.facts = q.facts
      BY <1>1, CallFields
  <2>2. ~ Idle(q)
      BY <1>2, <1>5 DEF Idle
  <2>3. Step(r, p) /\ Lineage(p)
      BY <1>5
  <2> HIDE DEF p
  <2>4. Serves(r)
      BY <1>4, <2>1, <2>2, <2>3 DEF Serves
  <2>. QED
      BY <2>4, ServesKeeps
<1>6. ASSUME NEW c \in {"lookup", "other", "query"}, NEW v
      PROVE  LET p == [q EXCEPT !.calls[c] = v]
             IN  /\ p.key = q.key /\ p.ctx = q.ctx /\ p.facts = q.facts /\ (Accepted(p) <=> Accepted(q))
                 /\ p.calls = [q.calls EXCEPT ![c] = v]
                 /\ \A d \in {"lookup", "other", "query"} : p.calls[d] = IF d = c THEN v ELSE q.calls[d]
  <2> DEFINE p == [q EXCEPT !.calls[c] = v]
  <2>1. p.key = q.key /\ p.ctx = q.ctx /\ p.facts = q.facts /\ p.calls = [q.calls EXCEPT ![c] = v]
      BY <1>1, CallFields DEF Unmoved
  <2> HIDE DEF p
  <2>2. \A d \in {"lookup", "other", "query"} : p.calls[d] = IF d = c THEN v ELSE q.calls[d]
      BY <1>2, <1>3, <2>1
  <2>3. Accepted(p) <=> Accepted(q)
      BY <2>1 DEF Accepted, TextFound
  <2>4. /\ p.key = q.key /\ p.ctx = q.ctx /\ p.facts = q.facts /\ (Accepted(p) <=> Accepted(q))
        /\ p.calls = [q.calls EXCEPT ![c] = v]
        /\ \A d \in {"lookup", "other", "query"} : p.calls[d] = IF d = c THEN v ELSE q.calls[d]
      BY <2>1, <2>2, <2>3
  <2>. QED
      BY <2>4 DEF p
<1>7. ASSUME NEW k \in Key
      PROVE  LET v == IF store[k] = None THEN "miss" ELSE store[k]
             IN  v \in Request => Close(req[v].key, k)
    BY <1>2, <1>7 DEF CacheInv, StoredRight
<1>8. CASE RedisGet(r, "lookup", q.key)
  <2> DEFINE v == IF store[q.key] = None THEN "miss" ELSE store[q.key]
             p == [q EXCEPT !.calls["lookup"] = v]
  <2>1. v \in Request => Close(req[v].key, q.key)
      BY <1>1, <1>7 DEF Lineage
  <2>2. q.calls["lookup"] # None /\ Step(r, p)
      BY <1>2, <1>8 DEF RedisGet, Executing, Executed
  <2> HIDE DEF v
  <2>3. /\ p.key = q.key /\ p.ctx = q.ctx /\ p.facts = q.facts /\ (Accepted(p) <=> Accepted(q))
        /\ \A d \in {"lookup", "other", "query"} : p.calls[d] = IF d = "lookup" THEN v ELSE q.calls[d]
      BY <1>6
  <2> HIDE DEF p
  <2>4. Lineage(p)
      BY <1>1, <2>1, <2>3 DEF Lineage
  <2>. QED
      BY <1>5, <2>2, <2>4 DEF p
<1>9. CASE \E k \in TextFound(q) : RedisGet(r, "other", k)
  <2>1. PICK k \in TextFound(q) : RedisGet(r, "other", k)
      BY <1>9
  <2> DEFINE v == IF store[k] = None THEN "miss" ELSE store[k]
             p == [q EXCEPT !.calls["other"] = v]
  <2>2. k \in Key /\ (v \in Request => Close(req[v].key, k))
      BY <1>7 DEF TextFound
  <2>3. q.calls["other"] # None /\ Step(r, p)
      BY <1>2, <2>1 DEF RedisGet, Executing, Executed
  <2>4. Accepted(q) /\ Close(k, q.key)
      BY <1>1, <2>1, <2>3 DEF Lineage, Accepted
  <2>5. v \in Request => Served(v, q.key)
      BY <2>2, <2>4 DEF Served
  <2> HIDE DEF v
  <2>6. /\ p.key = q.key /\ p.ctx = q.ctx /\ p.facts = q.facts /\ (Accepted(p) <=> Accepted(q))
        /\ \A d \in {"lookup", "other", "query"} : p.calls[d] = IF d = "other" THEN v ELSE q.calls[d]
      BY <1>6
  <2> HIDE DEF p
  <2>7. Lineage(p)
      BY <1>1, <2>4, <2>5, <2>6 DEF Lineage
  <2>. QED
      BY <1>5, <2>3, <2>7 DEF p
<1>10. CASE \E c \in {"lookup", "other", "query"} : CallFails(r, c)
  <2>1. PICK c \in {"lookup", "other", "query"} : CallFails(r, c)
      BY <1>10
  <2> DEFINE p == [q EXCEPT !.calls[c] = Failed]
  <2>2. q.calls[c] # None /\ Step(r, p)
      BY <2>1 DEF CallFails
  <2>3. p.key = q.key /\ p.ctx = q.ctx /\ p.facts = q.facts /\ p.calls = [q.calls EXCEPT ![c] = Failed]
      BY <1>6
  <2> HIDE DEF p
  <2>4. c = "other" /\ Failed # None => Accepted(q) \/ q.calls["other"] # None
      BY <2>2
  <2> HIDE DEF q
  <2>5. Lineage(p)
      BY <1>1, <1>2, <2>3, <2>4, LineageCalls
  <2>. QED
      BY <1>5, <2>2, <2>5 DEF p, q
<1>11. CASE ~ LooksUpMeanwhile /\ QueryRuns(r)
  <2>1. q.calls["query"] # None
      BY <1>2, <1>11 DEF QueryRuns, Executing
  <2>2. q.calls["other"] = None
    <3>1. Sound(q)
      BY <1>11 DEF AllRested, Rested
    <3>2. {"query", "other"} \subseteq CallName /\ "query" \notin Part /\ "other" \notin Part
      BY WasmAssumption DEF OneAtATime
    <3> HIDE DEF q
    <3>3. QED
      BY <2>1, <3>1, <3>2 DEF Sound
  <2>3. CASE vectors = {} /\ Executed(r, "query", "nothing")
    <3> DEFINE p == [q EXCEPT !.calls["query"] = "nothing"]
    <3>1. /\ p.key = q.key /\ p.ctx = q.ctx /\ p.facts = q.facts /\ p.calls = [q.calls EXCEPT !["query"] = "nothing"]
          /\ Step(r, p)
        BY <1>6, <2>3 DEF Executed
    <3> HIDE DEF p
    <3>2. Lineage(p)
        BY <1>1, <1>2, <3>1, LineageCalls
    <3>. QED
        BY <1>5, <2>1, <3>1, <3>2 DEF p
  <2>4. CASE \E v \in Nearest(q.key) :
                Step(r, Noting([q EXCEPT !.calls["query"] = IF v.answer = None THEN "no answer" ELSE v.answer],
                               {v.text}))
    <3>1. PICK v \in Nearest(q.key) :
                Step(r, Noting([q EXCEPT !.calls["query"] = IF v.answer = None THEN "no answer" ELSE v.answer],
                               {v.text}))
        BY <2>4
    <3>2. v \in vectors /\ v.text \in Key
        BY <1>1 DEF Nearest, VectorRight
    <3> DEFINE a == IF v.answer = None THEN "no answer" ELSE v.answer
               p == [q EXCEPT !.calls["query"] = a]
               n == Noting(p, {v.text})
    <3>3. a \in Request => a = v.answer
        BY <1>2
    <3>4. Step(r, n)
        BY <3>1
    <3> HIDE DEF a
    <3>5. /\ Formed(p) /\ Unmoved(q, p) /\ p.ctx = q.ctx /\ p.facts = q.facts
          /\ \A d \in {"lookup", "other", "query"} : p.calls[d] = IF d = "query" THEN a ELSE q.calls[d]
        BY <1>1, <1>6, CallFields
    <3> HIDE DEF p
    <3>6. /\ Formed(n) /\ Unmoved(p, n) /\ n.calls = p.calls /\ n.ctx = q.ctx \cup {v.text} /\ n.facts = q.facts
        BY <3>5, NotingFields
    <3> HIDE DEF n
    <3>7. Unmoved(q, n) /\ n.key = q.key
        BY <3>5, <3>6 DEF Unmoved
    <3>8. /\ n.calls["lookup"] = q.calls["lookup"] /\ n.calls["other"] = None /\ n.calls["query"] = a
        BY <2>2, <3>5, <3>6
    <3>9. None \notin Request
        BY NoRequest
    <3>10. Lineage(n)
        BY <1>1, <3>2, <3>3, <3>6, <3>7, <3>8, <3>9 DEF Lineage
    <3>11. ~ Idle(q)
        BY <1>2, <2>1 DEF Idle
    <3>12. Proper(q, n)
        BY <1>4, <3>2, <3>6, <3>7, <3>10, <3>11
    <3>13. Serves(r)
        BY <3>4, <3>12 DEF Serves
    <3>. QED
        BY <3>13, ServesKeeps
  <2>. QED
      BY <1>11, <2>3, <2>4 DEF QueryRuns
<1>. QED
    BY <1>8, <1>9, <1>10, <1>11

\* Upstream answers, or the client leaves.
LEMMA CacheSeesWorld ==
    ASSUME CacheInv, NEW r \in Request, World(r), UNCHANGED vectors
    PROVE  CacheInv'
<1> DEFINE q == req[r]  p == req'[r]
<1>1. Formed(q) /\ Lineage(q) /\ (LooksUpMeanwhile \/ LeftAlone(q)) /\ AllFormed
    BY DEF CacheInv, AllFormed
<1>2. /\ UNCHANGED <<conf, store, posted>> /\ Kept(q, p) /\ q.stage \notin {"over", "gone"}
      /\ p.stage \in {"answering", "over", "response", "gone"}
    BY <1>1, WorldFields
<1>3. \E s : Step(r, s) /\ Formed(s)
  <2>1. CASE UpstreamAnswers(r)
    <3>1. Formed([q EXCEPT !.stage = "answering"])
        BY <1>1 DEF Formed, Stage
    <3>. QED
        BY <2>1, <3>1 DEF UpstreamAnswers
  <2>2. CASE Leave(r)
    <3>1. Step(r, Gone(q)) /\ Formed(Gone(q))
        BY <1>1, <2>2, LeftFields DEF Leave, Gone
    <3>. QED
        BY <3>1
  <2>3. CASE Relay(r) \/ Step(r, AnswerPasses(q))
      BY <1>1, <2>3, AnswerFields, PassedOnFields DEF Relay
  <2>. QED
      BY <2>1, <2>2, <2>3 DEF World
<1>4. PICK s : Step(r, s) /\ Formed(s)
    BY <1>3
<1>5. p = s
    BY <1>1, <1>4, StepIs
<1>6. Kept(q, s) /\ s.stage \in {"answering", "over", "response", "gone"}
    BY <1>2, <1>5
<1> HIDE DEF p, q
<1>7. Lineage(s) /\ (LooksUpMeanwhile \/ LeftAlone(s))
    BY <1>1, <1>2, <1>6, LineageKept DEF LeftAlone, Kept, Idle
<1>8. Proper(q, s)
    BY <1>2, <1>4, <1>6, <1>7 DEF Proper, Kept, Through
<1>9. Serves(r)
    BY <1>4, <1>8 DEF Serves, q
<1>. QED
    BY <1>2, <1>9, ServesKeeps

\* Commands that nobody waits for, answers that expire, and steps that do not happen.
LEMMA CacheInBackground ==
    ASSUME CacheInv, \/ \E m \in posted : SetRuns(m) \/ UploadRuns(m)
                     \/ \E k \in Key : CacheExpires(k)
                     \/ UNCHANGED <<conf, req, store, posted, vectors>>
    PROVE  CacheInv'
<1>1. /\ AllFormed /\ store = [k \in Key |-> store[k]]
      /\ \A r \in Request : Lineage(req[r]) /\ (LooksUpMeanwhile \/ LeftAlone(req[r]))
      /\ \A k \in Key : StoredRight(k)
      /\ \A m \in posted : PostedRight(m)
      /\ \A v \in vectors : VectorRight(v)
    BY DEF CacheInv
<1>2. UNCHANGED <<conf, req>> /\ posted' \subseteq posted /\ vectors \subseteq vectors'
    BY DEF SetRuns, UploadRuns, CacheExpires
<1>3. AllFormed' /\ KeysKept /\ \A s \in Request : Through(req[s]) => Through(req'[s])
    BY <1>1, <1>2 DEF AllFormed, KeysKept
<1>4. \A r \in Request : Lineage(req[r])' /\ (LooksUpMeanwhile \/ LeftAlone(req[r]))'
  <2> SUFFICES ASSUME NEW CONSTANT r \in Request
               PROVE  Lineage(req[r])' /\ (LooksUpMeanwhile \/ LeftAlone(req[r]))'
      OBVIOUS
  <2>1. (LooksUpMeanwhile \/ LeftAlone(req[r]))'
      BY <1>1, <1>2 DEF LooksUpMeanwhile, LeftAlone, Idle
  <2>2. ASSUME NEW CONSTANT q, q = req[r], Lineage(q) PROVE Lineage(req[r])'
    <3>1. Lineage(q)'
        BY <1>2, <1>3, <2>2, LineageStays
    <3>. QED
        BY <1>2, <2>2, <3>1 DEF Lineage, Accepted, TextFound
  <2>. QED
      BY <1>1, <2>1, <2>2
<1>5. \A m \in posted' : PostedRight(m)'
    BY <1>1, <1>2, <1>3, MarksStay
<1>6. \A v \in vectors : VectorRight(v)'
    BY <1>1, <1>3, MarksStay
<1>7. \A k \in Key : store'[k] = store[k] => StoredRight(k)'
    BY <1>1, <1>3, MarksStay
<1>8. /\ store' = [k \in Key |-> store'[k]] /\ \A k \in Key : StoredRight(k)'
      /\ \A v \in vectors' : VectorRight(v)'
  <2>1. CASE \E m \in posted : SetRuns(m)
    <3>1. PICK m \in posted : SetRuns(m)
        BY <2>1
    <3>2. m.cmd = "set" /\ m.by \in Request /\ m.n \in Request
          /\ Close(req[m.n].key, req[m.by].key) /\ Through(req[m.n])
        BY <1>1, <3>1 DEF SetRuns, PostedRight
    <3>3. store' = store \/ store' = [store EXCEPT ![req[m.by].key] = m.n]
        BY <3>1 DEF SetRuns
    <3>4. vectors' = vectors
        BY <3>1 DEF SetRuns
    <3>5. ASSUME NEW CONSTANT k \in Key PROVE StoredRight(k)'
      <4>1. CASE store'[k] = store[k]
          BY <1>7, <4>1
      <4>2. CASE store'[k] # store[k]
        <5>1. k = req[m.by].key /\ store'[k] = m.n
            BY <1>1, <3>3, <3>5, <4>2
        <5>. QED
            BY <1>2, <3>2, <5>1 DEF StoredRight, Close, Through
      <4>. QED
          BY <4>1, <4>2
    <3>. QED
        BY <1>1, <1>6, <3>3, <3>4, <3>5
  <2>2. CASE \E m \in posted : UploadRuns(m)
    <3>1. PICK m \in posted : UploadRuns(m)
        BY <2>2
    <3>2. m.by \in Request /\ m.n \in {m.by, None}
          /\ (m.n \in Request => Through(req[m.n]))
        BY <1>1, <3>1 DEF UploadRuns, PostedRight
    <3>3. vectors' = vectors \/ vectors' = vectors \cup {[text |-> req[m.by].key, answer |-> m.n]}
        BY <3>1 DEF UploadRuns
    <3>4. store' = store
        BY <3>1 DEF UploadRuns
    <3>5. req[m.by].key \in Key
        BY <1>1, <3>2 DEF Lineage
    <3>6. ASSUME NEW CONSTANT v, v = [text |-> req[m.by].key, answer |-> m.n] PROVE VectorRight(v)'
        BY <1>2, <3>2, <3>5, <3>6 DEF VectorRight, Through
    <3>. QED
        BY <1>1, <1>6, <1>7, <3>3, <3>4, <3>6
  <2>3. CASE \E k \in Key : CacheExpires(k)
    <3>1. PICK l \in Key : CacheExpires(l)
        BY <2>3
    <3>2. store' = [store EXCEPT ![l] = None] /\ vectors' = vectors
        BY <3>1 DEF CacheExpires
    <3>3. ASSUME NEW CONSTANT k \in Key PROVE StoredRight(k)'
      <4>1. store'[k] = store[k] \/ store'[k] = None
          BY <1>1, <3>2
      <4>. QED
          BY <1>7, <4>1 DEF StoredRight
    <3>. QED
        BY <1>1, <1>6, <3>2, <3>3
  <2>4. CASE UNCHANGED <<conf, req, store, posted, vectors>>
      BY <1>1, <1>6, <1>7, <2>4
  <2>. QED
      BY <2>1, <2>2, <2>3, <2>4
<1>. QED
    BY <1>3, <1>4, <1>5, <1>8 DEF CacheInv

LEMMA CacheSteps ==
    ASSUME conf.plugin \in Caches, WasmNext
    PROVE  \/ \E r \in Request :
                \/ Is("ai-cache") /\ \/ AiCacheHeaders(r) \/ AiCacheBody(r) \/ AiCacheAnswered(r) \/ AiCacheEnds(r)
                                     \/ AiCacheLookedUp(r) \/ EmbeddingReturns(r) \/ HandleQueryResults(r)
                                     \/ AiCacheOtherLookedUp(r) \/ QueryRuns(r)
                                     \/ \E k \in TextFound(req[r]) : RedisGet(r, "other", k)
                \/ ResponseCacheHeaders(r) \/ ResponseCacheBody(r) \/ ResponseCacheAnswered(r) \/ ResponseCacheEnds(r)
                \/ ResponseCacheLookedUp(r)
                \/ RedisGet(r, "lookup", req[r].key)
                \/ (\E c \in {"lookup", "other", "query"} : CallFails(r, c)) /\ UNCHANGED vectors
                \/ World(r) /\ UNCHANGED vectors
           \/ \E m \in posted : SetRuns(m) \/ UploadRuns(m)
           \/ \E k \in Key : CacheExpires(k)
<1>1. Is("ai-cache") \/ Is("response-cache")
    BY DEF Caches, Is
<1>2. conf.plugin \notin Access \cup Consumers \cup Limits \cup Chains \cup Conversing
    BY <1>1 DEF Is, Access, Consumers, Limits, Chains, ChainConf, Conversing
<1>3. ~ Is("ai-proxy") /\ ~ Is("ai-security-guard") /\ ~ Is("ai-history") /\ ~ Is("replay-protection")
    BY <1>1 DEF Is
<1>4. AnsweredCalls \subseteq {"lookup", "other", "query"}
    BY <1>1 DEF AnsweredCalls, Is
<1>5. ASSUME NEW r \in Request, Fail(r)
      PROVE  (\E c \in {"lookup", "other", "query"} : CallFails(r, c)) /\ UNCHANGED vectors
    BY <1>4, <1>5 DEF Fail
<1>6. ASSUME NEW r \in Request, Upstream(r) \/ Left(r)
      PROVE  World(r) /\ UNCHANGED vectors
    BY <1>6 DEF Upstream, Left, World
<1>7. ASSUME NEW r \in Request, Answers(r)
      PROVE  \/ RedisGet(r, "lookup", req[r].key)
             \/ Is("ai-cache") /\ (QueryRuns(r) \/ \E k \in TextFound(req[r]) : RedisGet(r, "other", k))
    BY <1>2, <1>3, <1>7 DEF Answers
<1>. QED
    BY <1>2, <1>3, <1>5, <1>6, <1>7 DEF WasmNext, Handlers, Callbacks, Background, Caches

LEMMA InitCaches == WasmInit => (conf.plugin \in Caches => CacheInv)
<1> SUFFICES ASSUME WasmInit PROVE CacheInv
    OBVIOUS
<1>1. /\ req = [r \in Request |-> req[r]]
      /\ \A r \in Request : /\ Quiet(req[r]) /\ req[r].key \in Key /\ req[r].ctx = {} /\ req[r].facts = {}
    BY InitialRequests
<1>2. \A r \in Request : Lineage(req[r]) /\ LeftAlone(req[r])
    BY <1>1, NoRequest, WasmAssumption DEF Quiet, Idle, Lineage, LeftAlone, OneAtATime
<1>3. AllFormed
    BY <1>1 DEF AllFormed, Quiet
<1>4. store = [k \in Key |-> None] /\ posted = {} /\ vectors = {}
    BY DEF WasmInit
<1>5. store = [k \in Key |-> store[k]] /\ \A k \in Key : StoredRight(k)
    BY <1>4 DEF StoredRight
<1>. QED
    BY <1>2, <1>3, <1>4, <1>5 DEF CacheInv

LEMMA StepCaches ==
    ASSUME HostInv, CacheInv, conf.plugin \in Caches, [WasmNext]_wasmVars
    PROVE  CacheInv'
<1>1. LooksUpMeanwhile \/ AllRested
    BY DEF HostInv
<1>2. Is("ai-cache") => ~ LooksUpMeanwhile
    BY DEF Is, LooksUpMeanwhile
<1>3. CASE UNCHANGED wasmVars
  <2>1. UNCHANGED <<conf, req, store, posted, vectors>>
      BY <1>3 DEF wasmVars, hostVars
  <2>. QED
      BY <2>1, CacheInBackground
<1>4. CASE \E m \in posted : SetRuns(m) \/ UploadRuns(m)
    BY <1>4, CacheInBackground
<1>5. CASE \E k \in Key : CacheExpires(k)
    BY <1>5, CacheInBackground
<1>6. ASSUME NEW r \in Request, Is("ai-cache"), QueryRuns(r) \/ \E k \in TextFound(req[r]) : RedisGet(r, "other", k)
      PROVE  CacheInv'
  <2>1. UNCHANGED <<conf, store, posted, vectors>>
      BY <1>6 DEF QueryRuns, RedisGet
  <2>. QED
      BY <1>1, <1>2, <1>6, <2>1, CacheExecuted
<1>7. ASSUME NEW r \in Request, Is("ai-cache"),
             \/ AiCacheHeaders(r) \/ AiCacheBody(r) \/ AiCacheAnswered(r) \/ AiCacheEnds(r)
             \/ AiCacheLookedUp(r) \/ EmbeddingReturns(r) \/ HandleQueryResults(r) \/ AiCacheOtherLookedUp(r)
      PROVE  CacheInv'
    BY <1>1, <1>2, <1>7, AiCacheStarts, AiCacheLooksUp, QueryIsHandled, CacheEnds
<1>8. ASSUME NEW r \in Request,
             \/ ResponseCacheHeaders(r) \/ ResponseCacheBody(r) \/ ResponseCacheAnswered(r) \/ ResponseCacheEnds(r)
             \/ ResponseCacheLookedUp(r)
      PROVE  CacheInv'
    BY <1>1, <1>8, ResponseCacheWorks, CacheEnds
<1>9. ASSUME NEW r \in Request,
             \/ RedisGet(r, "lookup", req[r].key)
             \/ (\E c \in {"lookup", "other", "query"} : CallFails(r, c)) /\ UNCHANGED vectors
      PROVE  CacheInv'
  <2>1. UNCHANGED <<conf, store, posted, vectors>>
      BY <1>9 DEF CallFails, RedisGet
  <2>. QED
      BY <1>1, <1>9, <2>1, CacheExecuted
<1>10. ASSUME NEW r \in Request, World(r) /\ UNCHANGED vectors
       PROVE  CacheInv'
    BY <1>10, CacheSeesWorld
<1>11. CASE WasmNext
    BY <1>4, <1>5, <1>6, <1>7, <1>8, <1>9, <1>10, <1>11, CacheSteps
<1>. QED
    BY <1>3, <1>11

CachesInv == HostInv /\ (conf.plugin \in Caches => CacheInv)

LEMMA StepCachesInv == CachesInv /\ [WasmNext]_wasmVars => CachesInv'
<1> SUFFICES ASSUME CachesInv, [WasmNext]_wasmVars PROVE CachesInv'
    OBVIOUS
<1>1. HostInv' /\ conf' = conf
    BY StepHost DEF CachesInv
<1>2. conf.plugin \in Caches => CacheInv'
    BY StepCaches DEF CachesInv
<1>. QED
    BY <1>1, <1>2 DEF CachesInv, Caches

\* What is stored under a question was answered to it or to a similar one, and what is served is
\* at most one step further, whatever is looked up, found and stored meanwhile, by any number of
\* requests with any notion of what is similar.
THEOREM AnswersNeverDrift == WasmSpec => []AnswersDoNotDrift
<1>1. WasmInit => CachesInv
    BY InitHost, InitCaches DEF CachesInv
<1>2. CachesInv => AnswersDoNotDrift
  <2> SUFFICES ASSUME CacheInv
               PROVE  /\ \A k \in Key : store[k] \in Request => Close(req[store[k]].key, k)
                      /\ \A r \in Request : \A a \in req[r].facts \cap Request : Served(a, req[r].key)
      BY DEF CachesInv, AnswersDoNotDrift
  <2>1. \A k \in Key : store[k] \in Request => Close(req[store[k]].key, k)
      BY NoRequest DEF CacheInv, StoredRight
  <2>2. \A r \in Request : \A a \in req[r].facts \cap Request : Served(a, req[r].key)
      BY DEF CacheInv, Lineage
  <2>. QED
      BY <2>1, <2>2
<1>. QED
    BY <1>1, <1>2, StepCachesInv, PTL DEF WasmSpec

\* A request that says to leave the cache alone, or whose answer does, is nowhere in it, and was
\* served nothing from it, unless response-cache looked it up without waiting.
THEOREM SkippedNeverLeaveATrace == WasmSpec => []SkippedLeaveNoTrace
<1>1. WasmInit => CachesInv
    BY InitHost, InitCaches DEF CachesInv
<1>2. CachesInv => SkippedLeaveNoTrace
  <2> SUFFICES ASSUME CacheInv, NEW r \in Request, "skip" \in req[r].ctx
               PROVE  /\ req[r].facts \cap Request = {} \/ LooksUpMeanwhile
                      /\ \A m \in posted : m.n # r
                      /\ \A k \in Key : store[k] # r
                      /\ \A v \in vectors : v.answer # r
      BY DEF CachesInv, SkippedLeaveNoTrace
  <2>1. ~ Through(req[r]) /\ r # None
      BY NoRequest DEF Through
  <2>2. req[r].facts \cap Request = {} \/ LooksUpMeanwhile
      BY DEF CacheInv, LeftAlone
  <2>3. \A m \in posted : m.n # r
      BY <2>1 DEF CacheInv, PostedRight
  <2>4. \A k \in Key : store[k] # r
      BY <2>1 DEF CacheInv, StoredRight
  <2>5. \A v \in vectors : v.answer # r
      BY <2>1 DEF CacheInv, VectorRight
  <2>. QED
      BY <2>2, <2>3, <2>4, <2>5
<1>. QED
    BY <1>1, <1>2, StepCachesInv, PTL DEF WasmSpec
=============================================================================
