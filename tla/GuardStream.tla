----------------------------- MODULE GuardStream -----------------------------
(***************************************************************************)
(* The streamed answers that ai-security-guard checks.  Pieces of the       *)
(* answer wait in a queue while those before them are with the moderation   *)
(* service; what passed is injected into the stream.  A text answer is      *)
(* checked in batches and ended by the plugin; the events of an MCP answer  *)
(* are checked one by one, those without the path of the content not at     *)
(* all.  A piece is its number, the refusal the client is given is 0.       *)
(***************************************************************************)
EXTENDS Naturals, FiniteSets, Sequences, SequencesExt

CONSTANTS
    MaxPieces,    \* bound: the pieces of an answer
    BufferLimit   \* the pieces that wait before a batch of text is checked

ASSUME GuardAssumption == MaxPieces \in Nat /\ BufferLimit \in Nat \ {0}

VARIABLES
    api,      \* "text" or "mcp"
    guard,    \* the plugin, what was said of the pieces, and what reached the client
    answer    \* what upstream has sent

guardVars == <<api, guard, answer>>

Piece == 1 .. MaxPieces
Refusal == 0

\* bufferQueue, endOfStreamReceived and duringCall are the context of the request; asked is
\* what a callback under way holds in its closure, calling that there is one. dead is that a
\* callback broke off, unsent that a call could not be made; the rest is history as well: what passed, what was refused, what no verdict was had about, what was injected.
FreshGuard ==
    [bufferQueue |-> <<>>, endOfStreamReceived |-> FALSE, duringCall |-> FALSE,
     calling |-> FALSE, asked |-> <<>>,
     passed |-> {}, refused |-> {}, unjudged |-> {}, unsent |-> FALSE, dead |-> FALSE,
     got |-> <<>>, closed |-> FALSE, late |-> FALSE]

\* InjectEncodedDataToFilterChain
Injected(g, pieces, end) ==
    [g EXCEPT !.got = @ \o pieces, !.closed = @ \/ end, !.late = @ \/ g.closed]

\* ResumeHttpResponse, where the end of the stream was paused.
ResumedAtEnd(g) == IF g.endOfStreamReceived THEN [g EXCEPT !.closed = TRUE] ELSE g

Asking(g, n) ==
    [g EXCEPT !.bufferQueue = SubSeq(@, n + 1, Len(@)), !.duringCall = TRUE,
              !.calling = TRUE, !.asked = SubSeq(g.bufferQueue, 1, n)]

\* The callback has been called, with a verdict on what was asked or without one.
Answered(g) == [g EXCEPT !.calling = FALSE, !.asked = <<>>]
Passing(g) == [Answered(g) EXCEPT !.passed = @ \cup ToSet(g.asked)]
Unjudged(g) == [Answered(g) EXCEPT !.unjudged = @ \cup ToSet(g.asked)]
Denying(g) == [Answered(g) EXCEPT !.refused = @ \cup ToSet(g.asked)]

\* The call could not be made.
Unsent(g) == [Unjudged(g) EXCEPT !.unsent = TRUE]

-----------------------------------------------------------------------------
(* Text.  What an operator may make of the context is a set. *)

\* A batch is taken when the limit or the end is reached, and holds the pieces whose words
\* are enough, which may be any number of them. When the call cannot be made, during_call
\* stays set, and only the end of the stream is let go.
SingleCall(g) ==
    IF g.duringCall \/ ~ (Len(g.bufferQueue) >= BufferLimit \/ g.endOfStreamReceived) THEN {g}
    ELSE UNION {{Asking(g, n), ResumedAtEnd(Unsent(Asking(g, n)))}
                   : n \in IF g.bufferQueue = <<>> THEN {0} ELSE 1 .. Len(g.bufferQueue)}

\* Mutant of TextUnjudged: what could not be judged is let through.
TextUnjudgedPassing(g) == {Injected([Unjudged(g) EXCEPT !.duringCall = FALSE], g.asked, FALSE)}

\* Mutant of TextUnjudged: the end of the stream is forgotten.
TextUnjudgedHeld(g) == {[Unjudged(g) EXCEPT !.duringCall = FALSE]}

\* The service fails, or its answer cannot be read: the pieces are dropped.
TextUnjudged(g) == {ResumedAtEnd([Unjudged(g) EXCEPT !.duringCall = FALSE])}

\* A list of advice that is there and empty: its first is indexed all the same.
BrokenOff(g) == [Denying(g) EXCEPT !.dead = TRUE]

\* Mutant of TextDenied: during_call is reset, as in the other cases.
TextDeniedFreed(g) ==
    {[Injected(Denying(g), <<Refusal>>, TRUE) EXCEPT !.duringCall = FALSE], BrokenOff(g)}

\* The client is told why, and the stream ends; during_call stays set. A callback that breaks
\* off before leaves it set as well.
TextDenied(g) == {Injected(Denying(g), <<Refusal>>, TRUE), BrokenOff(g)}

TextPassed(g) ==
    LET end == g.endOfStreamReceived /\ g.bufferQueue = <<>>
        through == Injected(Passing(g), g.asked, end)
    IN IF end THEN {through} ELSE SingleCall([through EXCEPT !.duringCall = FALSE])

TextChunk(g, pieces, end) ==
    SingleCall([g EXCEPT !.bufferQueue = @ \o pieces, !.endOfStreamReceived = end])

-----------------------------------------------------------------------------
(* MCP: whatever becomes of a call, the next event is taken. *)

\* A call that cannot be made lets its event through, and waits for the next chunk.
McpCall(g) ==
    IF g.duringCall \/ g.bufferQueue = <<>> THEN {g}
    ELSE {Asking(g, 1),
          [Injected(Unsent(Asking(g, 1)), <<g.bufferQueue[1]>>, FALSE) EXCEPT !.duringCall = FALSE]}

Freed(g) == [g EXCEPT !.duringCall = FALSE]

McpUnjudged(g) == McpCall(Freed(Injected(Unjudged(g), g.asked, FALSE)))
McpDenied(g) == McpCall(Freed(Injected(Denying(g), <<Refusal>>, TRUE)))
McpPassed(g) == McpCall(Freed(Injected(Passing(g), g.asked, FALSE)))

\* An event without the path of the content goes through at once.
McpChunk(g, pieces, plain) ==
    IF plain THEN {Injected([g EXCEPT !.unjudged = @ \cup ToSet(pieces)], pieces, FALSE)}
    ELSE McpCall([g EXCEPT !.bufferQueue = @ \o pieces])

-----------------------------------------------------------------------------
GuardInit ==
    /\ api \in {"text", "mcp"}
    /\ guard = FreshGuard
    /\ answer = [sent |-> 0, ended |-> FALSE, plain |-> {}]

Next1(n) == [i \in 1 .. n |-> answer.sent + i]

\* A chunk of the answer: up to two pieces of text, or an event, and perhaps the end.
GuardChunk ==
    /\ ~ answer.ended
    /\ \E n \in 0 .. 2, end \in BOOLEAN, plain \in BOOLEAN :
        /\ answer.sent + n <= MaxPieces
        /\ n > 0 \/ end
        /\ api = "text" => ~ plain
        /\ api = "mcp" => n <= 1 /\ (n = 0 => plain)
        /\ answer' = [sent |-> answer.sent + n, ended |-> end,
                      plain |-> answer.plain \cup (IF plain THEN ToSet(Next1(n)) ELSE {})]
        /\ guard' \in IF api = "text" THEN TextChunk(guard, Next1(n), end)
                      ELSE McpChunk(guard, Next1(n), plain)
    /\ UNCHANGED api

GuardReturns ==
    /\ guard.calling
    /\ guard' \in IF api = "text" THEN TextUnjudged(guard) \cup TextDenied(guard) \cup TextPassed(guard)
                  ELSE McpUnjudged(guard) \cup McpDenied(guard) \cup McpPassed(guard)
    /\ UNCHANGED <<api, answer>>

GuardNext == GuardChunk \/ GuardReturns
GuardSpec == GuardInit /\ [][GuardNext]_guardVars

\* A callback comes for every call, with an error when the service does not answer.
GuardFair == WF_guardVars(GuardReturns)

-----------------------------------------------------------------------------
Shown == ToSet(guard.got) \ {Refusal}
Position(p) == CHOOSE n \in DOMAIN guard.got : guard.got[n] = p

\* The client sees no text that did not pass, and of an MCP answer only what passed, what
\* could not be judged and what carries no content. No piece is shown twice.
OnlyPassed ==
    /\ Shown \subseteq guard.passed \cup (IF api = "mcp" THEN guard.unjudged ELSE {})
    /\ Cardinality(Shown) = Cardinality({n \in DOMAIN guard.got : guard.got[n] # Refusal})

\* The pieces keep their order, but for the MCP events that are not checked. Where the client
\* sees a piece and not the one before, that one was refused or no verdict could be had about
\* it; and a text answer all of which passed is shown to its end. Nothing follows the end of a
\* text, the refusal included.
InOrderToTheEnd ==
    /\ \A p, q \in Shown \ answer.plain : p < q => Position(p) < Position(q)
    /\ \A p \in Piece, q \in Shown \ answer.plain : p < q => p \in Shown \cup guard.refused \cup guard.unjudged
    /\ guard.late => api = "mcp"
    /\ api = "text" /\ guard.closed =>
        Shown = 1 .. answer.sent \/ Refusal \in ToSet(guard.got) \/ guard.unjudged # {} \/ guard.unsent

\* Both: what the moderation promises, whatever order chunks and verdicts come in.
OnlyPassedInOrder == OnlyPassed /\ InOrderToTheEnd

\* A text answer that has ended ends for the client, unless a call could not be made or the
\* callback of a refusal broke off.
StreamsEnd == answer.ended ~> (guard.closed \/ api = "mcp" \/ guard.unsent \/ guard.dead)
=============================================================================
