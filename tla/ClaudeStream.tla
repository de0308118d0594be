---------------------------- MODULE ClaudeStream ----------------------------
(***************************************************************************)
(* The converter of the AI proxy that turns an OpenAI stream into a Claude  *)
(* stream.  OpenAI sends pieces of reasoning, text and tool calls, a finish *)
(* reason, the usage and [DONE]; Claude wants a message of blocks, each     *)
(* started, filled and stopped.  The converter is the state of one request. *)
(* The client is an observer that notes what no Claude stream may hold.     *)
(* A piece of content is a unit: its words play no part.                    *)
(***************************************************************************)
EXTENDS Naturals, FiniteSets, Sequences, SequencesExt

CONSTANTS
    MaxTool,    \* the tool calls of an answer are 0..MaxTool
    MaxArgs     \* bound: pieces of arguments that upstream sends for one tool call

ASSUME ClaudeAssumption == MaxTool \in Nat /\ MaxArgs \in Nat

VARIABLES
    conv,        \* the ClaudeToOpenAIConverter
    upstream,    \* what upstream has sent
    client       \* what the client made of the events it was sent

claudeVars == <<conv, upstream, client>>

ToolIndex == 0 .. MaxTool
InOrder == [n \in 1 .. MaxTool + 1 |-> n - 1]
Nobody == MaxTool + 1

Thinking == <<"thinking", 0>>
Text == <<"text", 0>>
ToolUse(i) == <<"tool_use", i>>
Tools == {ToolUse(i) : i \in ToolIndex}
Block == {Thinking, Text} \cup Tools

\* A block is new until it is started; of a tool call nothing is known at first. Blocks are
\* numbered as they start, so a block stands for its index.
FreshConverter ==
    [messageStartSent |-> FALSE, messageStopSent |-> FALSE, pendingStopReason |-> FALSE,
     block |-> [b \in Block |-> IF b \in Tools THEN "unknown" ELSE "new"],
     cachedArguments |-> [i \in ToolIndex |-> 0], activeToolIndex |-> Nobody]

-----------------------------------------------------------------------------
(* Events.  A step of the converter carries its state and what it has emitted. *)

Emitting(s, e) == [s EXCEPT !.out = Append(@, e)]

Started(s, b) ==
    Emitting([s EXCEPT !.conv.block[b] = "open"], [type |-> "content_block_start", block |-> b])
Filled(s, b, n) == Emitting(s, [type |-> "content_block_delta", block |-> b, pieces |-> n])
Stopped(s, b) ==
    IF s.conv.block[b] # "open" THEN s
    ELSE Emitting([s EXCEPT !.conv.block[b] = "closed"], [type |-> "content_block_stop", block |-> b])

MessageStart(s) == Emitting(s, [type |-> "message_start"])
MessageDelta(s, reason) == Emitting(s, [type |-> "message_delta", reason |-> reason])
MessageStop(s) ==
    Emitting([s EXCEPT !.conv.messageStopSent = TRUE], [type |-> "message_stop"])

\* Mutant of StartToolCall: what was cached is forgotten.
StartToolCallEmpty(s, i) == Started(Stopped(Stopped(s, Thinking), Text), ToolUse(i))

\* The block of a tool call begins with the arguments that came while another was active.
StartToolCall(s, i) ==
    LET begun == Started(Stopped(Stopped(s, Thinking), Text), ToolUse(i))
        cached == s.conv.cachedArguments[i]
    IN IF cached > 0 THEN Filled(begun, ToolUse(i), cached) ELSE begun

-----------------------------------------------------------------------------
(* The parts of a chunk, in the order in which they are handled. *)

WithRole(s) ==
    IF s.conv.messageStartSent THEN s
    ELSE MessageStart([s EXCEPT !.conv.messageStartSent = TRUE])

WithThinking(s) ==
    Filled(IF s.conv.block[Thinking] = "new" THEN Started(s, Thinking) ELSE s, Thinking, 1)

WithText(s) ==
    LET closed == Stopped(s, Thinking)
    IN Filled(IF closed.conv.block[Text] = "new" THEN Started(closed, Text) ELSE closed, Text, 1)

\* A tool call that comes with its name is started if no other is active, and else waits.
Named(s, i) ==
    LET known == IF s.conv.block[ToolUse(i)] = "unknown"
                 THEN [s EXCEPT !.conv.block[ToolUse(i)] = "new"] ELSE s
    IN IF known.conv.activeToolIndex = Nobody
       THEN StartToolCall([known EXCEPT !.conv.activeToolIndex = i], i)
       ELSE known

WithArguments(s, i) ==
    LET cached == [s EXCEPT !.conv.cachedArguments[i] = @ + 1]
    IN IF s.conv.block[ToolUse(i)] = "unknown" THEN s
       ELSE IF s.conv.activeToolIndex = i /\ s.conv.block[ToolUse(i)] = "open"
       THEN Filled(cached, ToolUse(i), 1)
       ELSE cached

WithTool(s, t) ==
    LET named == IF t.named THEN Named(s, t.index) ELSE s
    IN IF t.arguments THEN WithArguments(named, t.index) ELSE named

StartRemaining(s, i) == IF s.conv.block[ToolUse(i)] = "new" THEN StartToolCall(s, i) ELSE s
StopTool(s, i) == Stopped(s, ToolUse(i))

WithFinish(s) ==
    LET closed == Stopped(Stopped(s, Thinking), Text)
        begun == FoldLeft(StartRemaining, closed, InOrder)
        ended == FoldLeft(StopTool, begun, InOrder)
    IN [ended EXCEPT !.conv.activeToolIndex = Nobody, !.conv.pendingStopReason = TRUE]

\* Mutant of WithUsage: the stop reason is kept after it was given.
WithUsageKeeping(s) ==
    LET told == MessageDelta(s, s.conv.pendingStopReason)
    IN IF told.conv.messageStopSent THEN told ELSE MessageStop(told)

WithUsage(s) ==
    LET told == MessageDelta([s EXCEPT !.conv.pendingStopReason = FALSE], s.conv.pendingStopReason)
    IN IF told.conv.messageStopSent THEN told ELSE MessageStop(told)

\* Usage that comes with the finish reason is not looked at.
BuildClaudeStreamResponse(s, chunk) ==
    LET begun == IF chunk.role THEN WithRole(s) ELSE s
        filled == CASE chunk.delta = "thinking" -> WithThinking(begun)
                    [] chunk.delta = "text" -> WithText(begun)
                    [] chunk.delta = "tool" -> WithTool(begun, chunk.tool)
                    [] OTHER -> begun
    IN IF chunk.finish THEN WithFinish(filled)
       ELSE IF chunk.usage THEN WithUsage(filled) ELSE filled

\* [DONE] closes what is open, gives the stop reason nobody has asked for, ends the message
\* and leaves the converter as it was before the first chunk.
WithDone(s) ==
    LET closed == FoldLeft(StopTool, Stopped(Stopped(s, Thinking), Text), InOrder)
        told == IF s.conv.pendingStopReason THEN MessageDelta(closed, TRUE) ELSE closed
        ended == IF s.conv.messageStartSent /\ ~ s.conv.messageStopSent THEN MessageStop(told) ELSE told
    IN [ended EXCEPT !.conv = FreshConverter]

-----------------------------------------------------------------------------
(* The client *)

Fault == {"early", "late", "overlap", "outside", "again"}

Faults(c, e) ==
    (IF ~ c.started /\ e.type # "message_start" THEN {"early"} ELSE {})
    \cup (IF c.stopped THEN {"late"} ELSE {})
    \cup (IF e.type = "content_block_start" /\ c.open # {} THEN {"overlap"} ELSE {})
    \cup (IF e.type = "content_block_start" /\ e.block \in c.open \cup c.closed THEN {"again"} ELSE {})
    \cup (IF e.type \in {"content_block_delta", "content_block_stop"} /\ e.block \notin c.open
          THEN {"outside"} ELSE {})

Receives(c, e) ==
    LET seen == [c EXCEPT !.faults = @ \cup Faults(c, e)]
    IN CASE e.type = "message_start" -> [seen EXCEPT !.started = TRUE]
         [] e.type = "content_block_start" -> [seen EXCEPT !.open = @ \cup {e.block}]
         [] e.type = "content_block_delta" ->
                IF e.block \in Tools THEN [seen EXCEPT !.input[e.block[2]] = @ + e.pieces] ELSE seen
         [] e.type = "content_block_stop" ->
                [seen EXCEPT !.open = @ \ {e.block}, !.closed = @ \cup {e.block}]
         [] e.type = "message_delta" -> [seen EXCEPT !.reasons = @ + (IF e.reason THEN 1 ELSE 0)]
         [] e.type = "message_stop" -> [seen EXCEPT !.stopped = TRUE]

\* The converter goes from its state to that of s, and the client reads what was emitted.
Sends(s) ==
    /\ conv' = s.conv
    /\ client' = FoldLeft(Receives, client, s.out)

Given == [conv |-> conv, out |-> <<>>]

-----------------------------------------------------------------------------
(* Upstream: the first chunk carries the role, a tool call comes with its name before its
   arguments, nothing but the usage follows the finish reason, and [DONE] is the last. *)

ToolDelta == {t \in [index : ToolIndex, named : BOOLEAN, arguments : BOOLEAN] : t.named \/ t.arguments}
NoTool == [index |-> 0, named |-> FALSE, arguments |-> FALSE]

Chunk ==
    [role : BOOLEAN, delta : {"none", "thinking", "text"}, tool : {NoTool},
     finish : BOOLEAN, usage : BOOLEAN]
    \cup [role : BOOLEAN, delta : {"tool"}, tool : ToolDelta, finish : BOOLEAN, usage : BOOLEAN]

Rank(delta) == CASE delta = "none" -> 0 [] delta = "thinking" -> 1 [] delta = "text" -> 2 [] delta = "tool" -> 3

Offered(u, chunk) ==
    /\ u.phase = "start" => chunk.role
    /\ u.phase = "finished" => chunk.delta = "none" /\ ~ chunk.finish /\ chunk.usage
    /\ chunk.delta = "tool" =>
        /\ chunk.tool.named \/ chunk.tool.index \in u.named
        /\ chunk.tool.arguments => u.arguments[chunk.tool.index] < MaxArgs

\* rank is the latest kind of content, turnedBack that an earlier kind followed it.
Sending(u, chunk) ==
    [phase |-> IF chunk.finish THEN "finished"
               ELSE IF u.phase = "finished" THEN "counted" ELSE "deltas",
     rank |-> IF Rank(chunk.delta) > u.rank THEN Rank(chunk.delta) ELSE u.rank,
     turnedBack |-> u.turnedBack \/ (chunk.delta # "none" /\ Rank(chunk.delta) < u.rank),
     earlyUsage |-> u.earlyUsage \/ (chunk.usage /\ ~ chunk.finish /\ u.phase \in {"start", "deltas"}),
     finished |-> u.finished \/ chunk.finish,
     named |-> IF chunk.tool.named THEN u.named \cup {chunk.tool.index} ELSE u.named,
     arguments |-> IF chunk.tool.arguments
                   THEN [u.arguments EXCEPT ![chunk.tool.index] = @ + 1] ELSE u.arguments]

ClaudeInit ==
    /\ conv = FreshConverter
    /\ upstream = [phase |-> "start", rank |-> 0, turnedBack |-> FALSE, earlyUsage |-> FALSE,
                   finished |-> FALSE, named |-> {}, arguments |-> [i \in ToolIndex |-> 0]]
    /\ client = [started |-> FALSE, stopped |-> FALSE, open |-> {}, closed |-> {},
                 reasons |-> 0, input |-> [i \in ToolIndex |-> 0], faults |-> {}]

ClaudeChunk ==
    /\ upstream.phase \in {"start", "deltas", "finished"}
    /\ \E chunk \in Chunk :
        /\ Offered(upstream, chunk)
        /\ upstream' = Sending(upstream, chunk)
        /\ Sends(BuildClaudeStreamResponse(Given, chunk))

ClaudeDone ==
    /\ upstream.phase # "over"
    /\ upstream' = [upstream EXCEPT !.phase = "over"]
    /\ Sends(WithDone(Given))

ClaudeNext == ClaudeChunk \/ ClaudeDone
ClaudeSpec == ClaudeInit /\ [][ClaudeNext]_claudeVars

-----------------------------------------------------------------------------
\* One block is stopped before the next is started, as the converter says of tool calls
\* (claude_to_openai.go:615, 675), unless upstream turns back to an earlier kind of content.
OneBlockAtATime == "overlap" \in client.faults => upstream.turnedBack

\* What fills a block comes between its start and its stop, and no block is started again,
\* unless upstream turns back to a kind of content it had left.
ContentInsideBlocks ==
    client.faults \cap {"early", "again"} = {} /\ ("outside" \in client.faults => upstream.turnedBack)

\* Once the finish reason is through, every tool call has all of its arguments, those
\* included that came while another one was active.
ToolInputWhole ==
    upstream.finished => client.input = upstream.arguments

\* Every message that was begun ends with [DONE] at the latest: every block is stopped, the
\* stop reason is given once, and nothing follows the end, unless usage came before the finish.
MessageEndsOnce ==
    /\ "late" \in client.faults => upstream.earlyUsage
    /\ upstream.phase = "over" /\ client.started =>
        client.stopped /\ client.open = {} /\ client.reasons = IF upstream.finished THEN 1 ELSE 0

\* All three: what a client of Claude's protocol can read.
MessageWellFormed == ContentInsideBlocks /\ ToolInputWhole /\ MessageEndsOnce
=============================================================================
