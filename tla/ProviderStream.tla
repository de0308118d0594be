--------------------------- MODULE ProviderStream ---------------------------
(***************************************************************************)
(* The streamed answers that ai-proxy translates event by event.  Upstream  *)
(* sends events, Envoy hands the plugin chunks that are cut anywhere, and   *)
(* the providers differ in what they do about an event that is cut: some    *)
(* keep the rest of a chunk for the next one, some look at each chunk by    *)
(* itself, some do it halfway.  What a handler does not return is replaced  *)
(* by what came in, in the format of the provider.                          *)
(***************************************************************************)
EXTENDS Naturals, FiniteSets, Sequences, SequencesExt

CONSTANT MaxEvents    \* bound: the events of an answer

ASSUME ProviderStreamAssumption == MaxEvents \in Nat \ {0}

VARIABLES
    source,      \* the provider, its configuration, and the answer it sends
    delivery,    \* how much of the answer has come, and history: where it was cut
    translator,  \* the context of the request: the bytes kept, what of the answer was pushed
    received     \* what reached the client: pieces of the answer, translated or raw

providerVars == <<source, delivery, translator, received>>

Event == 1 .. MaxEvents

\* The ways of the providers: "events" (Moonshot, the compatible API of Qwen, and every provider
\* without a handler whose answer becomes a Claude stream), "qwen" (its own API), "lines" (Claude,
\* Gemini, Dify, Minimax, Spark, Triton), "vertex", "hunyuan", and "frames" (Bedrock).
Ways == {"events", "qwen", "lines", "vertex", "hunyuan", "frames"}

\* What an event of Qwen adds to the message: text, reasoning, or a tool call, at first its name.
ContentKinds == {"text", "thought", "name", "args"}
AllText(kinds) == \A e \in Event : kinds[e] = "text"

\* terminated: there is a blank line behind the last event too.
Sources ==
    {s \in [way : Ways, crlf : BOOLEAN, terminated : BOOLEAN, kinds : [Event -> ContentKinds],
            incremental : BOOLEAN, ignore : BOOLEAN] :
        /\ s.crlf => s.way \notin {"hunyuan", "frames"}
        /\ s.way = "qwen" \/ (AllText(s.kinds) /\ s.incremental /\ ~ s.ignore)
        /\ s.way = "qwen" => ~ s.crlf /\ s.terminated
        /\ s.way = "frames" => s.terminated}

PlainSource ==
    [way |-> "events", crlf |-> FALSE, terminated |-> TRUE, kinds |-> [e \in Event |-> "text"],
     incremental |-> TRUE, ignore |-> FALSE]

-----------------------------------------------------------------------------
(* The bytes of the answer, as far as the plugin tells them apart. *)

Break(s) == IF s.crlf THEN <<"CR", "LF">> ELSE <<"LF">>

Parts(e) ==
    <<"prefix", "payload">> \o
    (IF source.way = "frames" \/ (e = MaxEvents /\ ~ source.terminated) THEN <<>>
     ELSE Break(source) \o Break(source))

Bytes ==
    FlattenSeq([e \in Event |-> [n \in DOMAIN Parts(e) |-> [of |-> e, part |-> Parts(e)[n]]]])

LF == [of |-> 0, part |-> "LF"]

\* The events both parts of which are in some bytes, one behind the other.
WholeIn(bytes) ==
    FoldLeft(LAMBDA found, n :
                 IF n > 1 /\ bytes[n].part = "payload" /\ bytes[n - 1].part = "prefix"
                 THEN Append(found, bytes[n].of) ELSE found,
             <<>>, [n \in DOMAIN bytes |-> n])

Translated(events) == [raw |-> FALSE, of |-> events]
Raw == [raw |-> TRUE, of |-> {}]

\* What onStreamingResponseBody makes of a handler that returns nothing or an error: the chunk.
RawChunk(chunk) == IF chunk = <<>> THEN <<>> ELSE <<Raw>>

-----------------------------------------------------------------------------
(* ExtractStreamingEvents. *)

\* Each line end becomes one LF: of those in the bytes that are looked at.
Normalized(bytes) ==
    FoldLeft(LAMBDA s, b :
                 CASE b.part = "CR" -> [out |-> Append(s.out, LF), cr |-> TRUE]
                   [] b.part = "LF" -> [out |-> IF s.cr THEN s.out ELSE Append(s.out, LF), cr |-> FALSE]
                   [] OTHER -> [out |-> Append(s.out, b), cr |-> FALSE],
             [out |-> <<>>, cr |-> FALSE], bytes).out

\* An empty line ends the event; one outside of an event is sliced from index -1.
Scanned(s, b) ==
    IF b.part # "LF" THEN [s EXCEPT !.rest = Append(@, b)]
    ELSE IF s.rest = <<>> THEN [s EXCEPT !.panics = TRUE]
    ELSE IF Last(s.rest).part # "LF" THEN [s EXCEPT !.rest = Append(@, b)]
    ELSE [s EXCEPT !.events = Append(@, s.rest[1].of), !.rest = <<>>]

\* Mutant of ExtractStreamingEvents: an event that is not complete is not kept.
ExtractStreamingEventsAlone(kept, chunk) ==
    [FoldLeft(Scanned, [rest |-> <<>>, events |-> <<>>, panics |-> FALSE],
              Normalized(kept \o chunk)) EXCEPT !.rest = <<>>]

ExtractStreamingEvents(kept, chunk) ==
    FoldLeft(Scanned, [rest |-> <<>>, events |-> <<>>, panics |-> FALSE], Normalized(kept \o chunk))

-----------------------------------------------------------------------------
(* The handlers of events.  h is what was pushed and what is written. *)

Kind(e) == source.kinds[e]
Having(kinds, e) == {k \in 1 .. e : Kind(k) \in kinds}

\* The difference to what was pushed. A call without its arguments is not pushed at all, unless
\* the answer is finished. Reasoning is taken out only once something was pushed.
CumulativeResponse(h, e) ==
    LET pending == Having({"name"}, e) # {} /\ Having({"args"}, e) = {} /\ e # MaxEvents
        thoughts == IF source.ignore /\ h.pushed # {} THEN {} ELSE Having({"thought"}, e)
    IN IF pending THEN [pushed |-> h.pushed, delta |-> {}]
       ELSE [pushed |-> 1 .. e,
             delta |-> (Having({"text", "name", "args"}, e) \cup thoughts) \ h.pushed]

IncrementalResponse(h, e) ==
    [pushed |-> h.pushed, delta |-> IF source.ignore /\ Kind(e) = "thought" THEN {} ELSE {e}]

\* The last event carries the finish reason, and always gives a response.
QwenEvent(h, e) ==
    LET r == IF source.incremental THEN IncrementalResponse(h, e) ELSE CumulativeResponse(h, e)
    IN [pushed |-> r.pushed,
        out |-> Append(h.out, IF r.delta = {} /\ e # MaxEvents THEN Raw ELSE Translated(r.delta))]

OnStreamingEvent(h, e) ==
    IF source.way = "qwen" THEN QwenEvent(h, e)
    ELSE [h EXCEPT !.out = Append(@, Translated({e}))]

\* What a chunk does: what is kept and pushed for the next, and what is returned.
Result(kept, pushed, out) == [kept |-> kept, pushed |-> pushed, out |-> out, panics |-> FALSE]
Panic == [kept |-> <<>>, pushed |-> {}, out |-> <<>>, panics |-> TRUE]

EventsChunk(chunk) ==
    LET s == ExtractStreamingEvents(translator.kept, chunk)
        h == FoldLeft(OnStreamingEvent, [pushed |-> translator.pushed, out |-> <<>>], s.events)
    IN IF s.panics THEN Panic ELSE Result(s.rest, h.pushed, h.out)

-----------------------------------------------------------------------------
(* The handlers of chunks. *)

Converted(events) == [n \in DOMAIN events |-> Translated({events[n]})]

\* A line that is no JSON is skipped, and so are both halves of one that is cut.
LinesChunk(chunk, last) ==
    Result(<<>>, {}, IF last THEN RawChunk(chunk) ELSE Converted(WholeIn(chunk)))

\* Of the last chunk, only that it is the last is seen.
VertexChunk(chunk, last) ==
    Result(<<>>, {}, IF last THEN <<>> ELSE Converted(WholeIn(chunk)))

BlankLine(bytes) ==
    {n \in 1 .. Len(bytes) - 1 : bytes[n].part = "LF" /\ bytes[n + 1].part = "LF"}
PrefixIn(bytes) == {n \in DOMAIN bytes : bytes[n].part = "prefix"}
First(numbers) == CHOOSE n \in numbers : \A m \in numbers : n <= m
From(n, bytes) == SubSeq(bytes, n, Len(bytes))

\* convertChunkFromHunyuanToOpenAI: what is no JSON converts to nothing.
ConvertHunyuan(bytes) == IF Len(bytes) = 1 /\ bytes[1].part = "payload" THEN <<bytes[1].of>> ELSE <<>>

\* One turn of the loop: what precedes the next event is dropped, its prefix too, and then the
\* end is looked for. In the last chunk the event is taken without one, up to index -1.
HunyuanTurn(h, last) ==
    LET behind == From(First(PrefixIn(h.body)) + 1, h.body)
        end == First(BlankLine(behind))
    IN IF h.done \/ PrefixIn(h.body) = {} THEN [h EXCEPT !.done = TRUE]
       ELSE IF BlankLine(behind) = {} THEN [h EXCEPT !.body = behind, !.done = TRUE, !.panics = last]
       ELSE [h EXCEPT !.body = From(end + 2, behind),
                      !.out = @ \o ConvertHunyuan(SubSeq(behind, 1, end - 1))]

HunyuanChunk(chunk, last) ==
    LET h == FoldLeft(LAMBDA s, turn : HunyuanTurn(s, last),
                      [body |-> translator.kept \o chunk, out |-> <<>>, done |-> FALSE, panics |-> FALSE],
                      [turn \in 1 .. MaxEvents + 1 |-> turn])
    IN IF h.panics THEN Panic
       ELSE Result(h.body, {}, IF h.out = <<>> THEN RawChunk(chunk) ELSE Converted(h.out))

\* A frame says how long it is, so what is not whole stays.
ExtractAmazonEventStreamEvents(body) ==
    LET events == WholeIn(body) IN [events |-> events, rest |-> From(2 * Len(events) + 1, body)]

\* A chunk that completes no frame is an error, but for the last.
FramesChunk(chunk, last) ==
    LET s == ExtractAmazonEventStreamEvents(translator.kept \o chunk)
    IN Result(s.rest, {},
              IF s.events = <<>> /\ ~ last THEN RawChunk(chunk) ELSE Converted(s.events))

OnStreamingResponseBody(chunk, last) ==
    CASE source.way \in {"events", "qwen"} -> EventsChunk(chunk)
      [] source.way = "lines" -> LinesChunk(chunk, last)
      [] source.way = "vertex" -> VertexChunk(chunk, last)
      [] source.way = "hunyuan" -> HunyuanChunk(chunk, last)
      [] source.way = "frames" -> FramesChunk(chunk, last)

-----------------------------------------------------------------------------
\* torn: the events with a cut between their parts; parted: those with one anywhere before
\* their end; split: one between CR and LF; lastFrom: where the last chunk begins.
ProviderInit ==
    /\ source \in Sources
    /\ delivery = [at |-> 0, torn |-> {}, parted |-> {}, split |-> FALSE, ended |-> FALSE, lastFrom |-> 0]
    /\ translator = [kept |-> <<>>, pushed |-> {}, panics |-> FALSE]
    /\ received = <<>>

\* The chunk ends behind the byte with this number.
CutAt(n) ==
    LET e == Bytes[n].of
        inside == n < Len(Bytes) /\ Bytes[n + 1].of = e
    IN [delivery EXCEPT !.at = n,
                     !.torn = IF inside /\ Bytes[n].part = "prefix" THEN @ \cup {e} ELSE @,
                     !.parted = IF inside THEN @ \cup {e} ELSE @,
                     !.split = @ \/ Bytes[n].part = "CR"]

\* A chunk of the answer; the last one may be empty.
ProviderChunk ==
    /\ ~ delivery.ended /\ ~ translator.panics
    /\ \E n \in delivery.at .. Len(Bytes), last \in BOOLEAN :
        /\ n > delivery.at \/ last
        /\ last => n = Len(Bytes)
        /\ LET result == OnStreamingResponseBody(SubSeq(Bytes, delivery.at + 1, n), last)
           IN /\ translator' = [kept |-> result.kept, pushed |-> result.pushed,
                                panics |-> result.panics]
              /\ received' = received \o result.out
        /\ delivery' = [(IF n > delivery.at THEN CutAt(n) ELSE delivery) EXCEPT
                        !.ended = last, !.lastFrom = delivery.at]
    /\ UNCHANGED source

ProviderNext == ProviderChunk
ProviderStreamSpec == ProviderInit /\ [][ProviderNext]_providerVars

-----------------------------------------------------------------------------
Arrived == UNION {received[n].of : n \in DOMAIN received}
LeftRaw == \E n \in DOMAIN received : received[n].raw

PayloadOf(e) == CHOOSE n \in DOMAIN Bytes : Bytes[n].of = e /\ Bytes[n].part = "payload"
InLastChunk(e) == PayloadOf(e) > delivery.lastFrom

\* What of the answer a provider may lose, and why.
MayBeLost(e) ==
    CASE source.way \in {"lines", "vertex"} -> e \in delivery.torn \/ InLastChunk(e)
      [] source.way = "hunyuan" -> e \in delivery.parted \/ (e = MaxEvents /\ ~ source.terminated)
      [] source.way = "qwen" -> source.ignore /\ Kind(e) = "thought"
      [] source.way = "events" -> e = MaxEvents /\ ~ source.terminated
      [] source.way = "frames" -> FALSE

\* When bytes of the provider may reach the client as they are.
MayLeak ==
    \/ source.way = "lines" /\ delivery.ended
    \/ source.way \in {"hunyuan", "frames"} /\ delivery.parted # {}
    \/ source.way = "hunyuan" /\ ~ source.terminated
    \/ source.way = "qwen" /\ \E e \in Event :
        (~ source.incremental /\ Kind(e) = "name") \/ (source.ignore /\ Kind(e) = "thought")

\* Wherever the chunks are cut, the client gets every event of the answer translated, once and
\* in order, and nothing in the format of the provider. The exceptions are those of the code:
\* providers that look at chunks by themselves lose the events that are cut or in the last
\* chunk; what a handler has no answer to is passed on raw; a cut between CR and LF, or a last
\* event of Hunyuan without its end, is a panic.
EventsAreTranslated ==
    /\ \A n, m \in DOMAIN received :
        n < m => \A d \in received[n].of, e \in received[m].of : d < e
    /\ delivery.ended /\ ~ translator.panics => \A e \in Event : e \in Arrived \/ MayBeLost(e)
    /\ LeftRaw => MayLeak
    /\ translator.panics => delivery.split \/ (source.way = "hunyuan" /\ ~ source.terminated)
=============================================================================
