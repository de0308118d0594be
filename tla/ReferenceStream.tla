--------------------------- MODULE ReferenceStream ---------------------------
(***************************************************************************)
(* The streamed answers to which ai-search adds the references of what it   *)
(* found: before the content, behind the thinking that precedes it, or at   *)
(* the end.  The content is a sequence of tokens: words, the tag that opens *)
(* the thinking, and the two halves of the tag that closes it.  A message   *)
(* carries some of them, a chunk carries messages, and the last message of  *)
(* a chunk may be cut.                                                      *)
(***************************************************************************)
EXTENDS Naturals, FiniteSets, Sequences, SequencesExt

CONSTANTS
    MaxTokens,    \* bound: the tokens of an answer
    BufferSize    \* BUFFER_SIZE, in tokens

ASSUME ReferenceAssumption == MaxTokens \in Nat /\ BufferSize \in Nat \ {0}

VARIABLES
    location,    \* referenceLocation: "head" or "tail"
    content,     \* the kind of each token of the answer
    given,       \* what upstream has sent
    adder,       \* the context of the request
    shown        \* the tokens that reached the client; 0 stands for the references

referenceVars == <<location, content, given, adder, shown>>

References == 0

\* An answer is words, and may begin with thinking, in which the closing tag is whole.
Contents ==
    {[n \in 1 .. len |-> "word"] : len \in 0 .. MaxTokens}
    \cup UNION {{[n \in 1 .. len |-> CASE n = 1 -> "open" [] n = close -> "close1"
                                       [] n = close + 1 -> "close2" [] OTHER -> "word"]
                    : close \in 2 .. len - 1} : len \in 3 .. MaxTokens}

\* The first token of a kind in a sequence of tokens, or 0.
Find(kind, tokens) ==
    LET at == {n \in DOMAIN tokens : content[tokens[n]] = kind}
    IN IF at = {} THEN 0 ELSE CHOOSE n \in at : \A m \in at : n <= m

\* The closing tag is there when both halves are, one behind the other.
ThinkEnd(tokens) ==
    LET at == Find("close2", tokens)
    IN IF at > 1 /\ content[tokens[at - 1]] = "close1" THEN at ELSE 0

-----------------------------------------------------------------------------
(* processSSEMessage: s is the context and what is written, m a message. *)

Writing(s, tokens) == [s EXCEPT !.out = @ \o tokens]
Appended(s) == [s EXCEPT !.adder.referenceAppended = TRUE]
Buffering(s, tokens) == [s EXCEPT !.adder.bufferContent = tokens]

TailMessage(s, m) ==
    IF m.stop THEN Appended(Writing(s, Append(m.tokens, References))) ELSE Writing(s, m.tokens)

\* Mutant of FirstMessage: what waited in the buffer is left there.
FirstMessageShort(s, m, buffered) == Appended(Writing(s, <<References>> \o m.tokens))

\* The buffer goes out behind the references, and is not emptied.
FirstMessage(s, m, buffered) == Appended(Writing(s, <<References>> \o buffered))

ThinkingMessage(s, m, buffered) ==
    LET end == ThinkEnd(buffered)
    IN IF end > 0
       THEN Appended(Writing(s, SubSeq(buffered, 1, end) \o <<References>>
                                    \o SubSeq(buffered, end + 1, Len(buffered))))
       ELSE IF content[Last(buffered)] = "close1"
       THEN Buffering(Writing(s, Front(buffered)), <<Last(buffered)>>)
       ELSE Buffering(Writing(s, m.tokens), <<>>)

HeadMessage(s, m) ==
    LET buffered == s.adder.bufferContent \o m.tokens
        checked == [s EXCEPT !.adder.firstMessageChecked = TRUE]
    IN IF m.tokens = <<>> THEN s
       ELSE IF Len(buffered) < BufferSize THEN Buffering(s, buffered)
       ELSE IF ~ s.adder.firstMessageChecked /\ Find("open", buffered) = 0
       THEN FirstMessage(checked, m, buffered)
       ELSE ThinkingMessage(checked, m, buffered)

ProcessSSEMessage(s, m) == IF location = "tail" THEN TailMessage(s, m) ELSE HeadMessage(s, m)

-----------------------------------------------------------------------------
ReferenceInit ==
    /\ location \in {"head", "tail"}
    /\ content \in Contents
    /\ given = [tokens |-> 0, cut |-> "no", stopped |-> FALSE, ended |-> FALSE, crowded |-> FALSE]
    /\ adder = [referenceAppended |-> FALSE, firstMessageChecked |-> FALSE, bufferContent |-> <<>>]
    /\ shown = <<>>

\* The messages a chunk may complete: up to two, each with tokens that follow, the last of the
\* answer with the finish reason.
Tokens(from, n) == [i \in 1 .. n |-> from + i]

Messages ==
    {<<>>}
    \cup {<<[tokens |-> Tokens(given.tokens, n), stop |-> stop]>> :
             n \in 0 .. 2, stop \in BOOLEAN}
    \cup {<<[tokens |-> Tokens(given.tokens, n), stop |-> FALSE],
            [tokens |-> Tokens(given.tokens + n, k), stop |-> stop]>> :
             n \in 1 .. 2, k \in 0 .. 2, stop \in BOOLEAN}

Carried(messages) == FoldLeft(LAMBDA n, m : n + Len(m.tokens), 0, messages)
HasStop(messages) == messages # <<>> /\ Last(messages).stop

\* Upstream: the finish reason comes with or behind the last token, and a message that was
\* cut is completed by the next chunk.
Sendable(messages, cut) ==
    /\ messages # <<>> \/ (cut /\ given.cut = "no")
    /\ given.tokens + Carried(messages) <= Len(content)
    /\ HasStop(messages) => given.tokens + Carried(messages) = Len(content)
    /\ cut => ~ HasStop(messages)

\* With the references in place, the chunks pass as they are; of a message that began in the
\* chunk before, what was kept is missing.
PassedOn(messages) ==
    LET whole == IF given.cut = "kept" THEN Tail(messages) ELSE messages
    IN /\ shown' = shown \o FoldLeft(LAMBDA out, m : out \o m.tokens, <<>>, whole)
       /\ UNCHANGED adder

Processed(messages) ==
    LET s == FoldLeft(ProcessSSEMessage, [adder |-> adder, out |-> <<>>], messages)
    IN adder' = s.adder /\ shown' = shown \o s.out

\* crowded: something came in one chunk with the message that the references were added to.
ReferenceChunk ==
    /\ ~ given.stopped
    /\ \E messages \in Messages, cut \in BOOLEAN :
        /\ Sendable(messages, cut)
        /\ IF adder.referenceAppended THEN PassedOn(messages) ELSE Processed(messages)
        /\ given' = [tokens |-> given.tokens + Carried(messages),
                     cut |-> IF ~ cut THEN "no"
                             ELSE IF adder.referenceAppended THEN "passed" ELSE "kept",
                     stopped |-> HasStop(messages), ended |-> FALSE,
                     crowded |-> given.crowded \/
                         (~ adder.referenceAppended /\ adder'.referenceAppended
                             /\ (cut \/ Len(messages) > 1))]
    /\ UNCHANGED <<location, content>>

\* The answer has its finish reason, and the stream is over.
ReferenceEnd ==
    /\ given.stopped /\ ~ given.ended
    /\ given' = [given EXCEPT !.ended = TRUE]
    /\ UNCHANGED <<location, content, adder, shown>>

ReferenceNext == ReferenceChunk \/ ReferenceEnd
ReferenceSpec == ReferenceInit /\ [][ReferenceNext]_referenceVars

-----------------------------------------------------------------------------
Thinks == Find("open", Tokens(0, Len(content))) > 0
Words == SelectSeq(shown, LAMBDA t : t # References)
TimesShown == Len(shown) - Len(Words)

\* The references are added once, and the client sees all of the answer in its order. In front
\* of it, this takes an answer that fills the buffer, does not think, and has nothing in the
\* chunk behind the message the references went to.
AnswerIsKept ==
    /\ TimesShown > 1 => given.crowded
    /\ given.ended =>
        \/ Words = Tokens(0, Len(content)) /\ TimesShown = 1
        \/ location = "head" /\ (Thinks \/ Len(content) < BufferSize \/ given.crowded)
=============================================================================
