----------------------------- MODULE GuardPlugins -----------------------------
(***************************************************************************)
(* ai-security-guard, where it has a request or an answer before it as a    *)
(* whole: the text is cut into pieces that are given to a moderation        *)
(* service one after another, then the images one after another.  Answers   *)
(* that stream are in GuardStream.                                          *)
(***************************************************************************)
EXTENDS WasmHost

CONSTANT MaxParts    \* bound: the pieces of a text, and the images

ASSUME PartsAssumption == MaxParts \in Nat

VARIABLE moderation    \* for each request, what is checked and what was said of it

\* "plain" is the action TextModerationPlus, which knows no images; the others are the types
\* of MultiModalGuard.
GuardConf ==
    {c \in [plugin : {"ai-security-guard"}, api : {"plain", "text", "image", "mcp"},
            checkRequest : BOOLEAN, checkRequestImage : BOOLEAN, checkResponse : BOOLEAN] :
        c.checkRequestImage => c.checkRequest /\ c.api \in {"text", "image"}}

\* contentIndex and imageIndex are how far it has come. The rest is history: the parts that
\* were accepted, those whose own check failed, whether one was refused, and whether an error
\* let everything go.
NoModeration ==
    [pieces |-> 0, images |-> 0, contentIndex |-> 0, imageIndex |-> 0,
     accepted |-> {}, failed |-> {}, refused |-> FALSE, open |-> FALSE]

Moderating(r, m) == moderation' = [moderation EXCEPT ![r] = m]

\* The request goes upstream, or the answer to the client.
Passes(q) == IF q.stage = "answering" THEN PassedOn(q) ELSE Resumed(q)

\* An error lets everything go, whatever is left to check.
FailsOpen(r, q, m) == Step(r, Passes(Paused(q))) /\ Moderating(r, [m EXCEPT !.open = TRUE])

SingleCall(r, q, m) ==
    LET next == [m EXCEPT !.contentIndex = @ + 1]
    IN \/ Step(r, Awaiting(q, "text")) /\ Moderating(r, next)
       \/ FailsOpen(r, q, next)

SingleCallForImage(r, q, m) ==
    \/ Step(r, Awaiting(q, "image")) /\ Moderating(r, m)
    \/ FailsOpen(r, q, m)

\* The plugin says what the client is told instead; of an MCP answer it only replaces the
\* body. Where it takes the first of an empty list of advice or labels, the callback ends
\* there; the refusal of an image of an answer takes none.
Denied(r, q, m) ==
    /\ Moderating(r, [m EXCEPT !.refused = TRUE])
    /\ \/ Step(r, IF q.stage = "answering" /\ conf.api = "mcp"
                  THEN PassedOn(Noting(q, {"replaced"})) ELSE Replied(q))
       \/ /\ ~ (q.stage = "answering" /\ conf.api = "image")
          /\ Step(r, Learning(Paused(q), {"dead"}))

-----------------------------------------------------------------------------
GuardHeaders(r) ==
    /\ Handling(r, "headers")
    /\ Step(r, Continued(IF conf.checkRequest THEN req[r] ELSE Unread(req[r])))
    /\ UNCHANGED <<conf, store, posted, moderation>>

\* A request without content, and an MCP request that calls no tool, go on. Images alone are
\* checked whatever checkRequestImage says.
GuardBody(r) ==
    /\ Handling(r, "body")
    /\ \/ Step(r, Continued(req[r])) /\ UNCHANGED moderation
       \/ \E pieces \in 0 .. MaxParts,
             images \in (IF conf.api \in {"text", "image"} THEN 0 .. MaxParts ELSE {0}) :
            LET m == [NoModeration EXCEPT !.pieces = pieces, !.images = images]
            IN IF pieces > 0 THEN SingleCall(r, req[r], m)
               ELSE images > 0 /\ SingleCallForImage(r, req[r], m)
    /\ UNCHANGED <<conf, store, posted>>

\* An answer with another status than 200, or without content, is passed on.
GuardAnswered(r) ==
    /\ Handling(r, "answering")
    /\ \/ Step(r, PassedOn(req[r])) /\ Moderating(r, NoModeration)
       \/ /\ conf.checkResponse
          /\ \/ /\ Step(r, Bodyless(req[r]))
                /\ Moderating(r, NoModeration)
             \/ \E n \in 1 .. MaxParts :
                  IF conf.api = "image"
                  THEN SingleCallForImage(r, req[r], [NoModeration EXCEPT !.images = n])
                  ELSE SingleCall(r, req[r], [NoModeration EXCEPT !.pieces = n])
    /\ UNCHANGED <<conf, store, posted>>

\* Mutant of MorePieces: the last piece is taken for done.
MorePiecesShort(m) == m.contentIndex + 1 < m.pieces

MorePieces(m) == m.contentIndex < m.pieces
MoreImages(m) == m.imageIndex < m.images

TextChecked(r) ==
    /\ Called(r, "text")
    /\ LET q == Back(r, "text")
           m == moderation[r]
           fine == [m EXCEPT !.accepted = @ \cup {<<"text", m.contentIndex>>}]
       IN \/ FailsOpen(r, q, m)
          \/ IF MorePieces(m) THEN SingleCall(r, q, fine)
             ELSE IF m.images > 0 /\ conf.checkRequestImage THEN SingleCallForImage(r, q, fine)
             ELSE Step(r, Passes(q)) /\ Moderating(r, fine)
          \/ Denied(r, q, m)
    /\ UNCHANGED <<conf, store, posted>>

\* The failure of the check of an image only passes over that image.
ImageChecked(r) ==
    /\ Called(r, "image")
    /\ LET q == Back(r, "image")
           m == [moderation[r] EXCEPT !.imageIndex = @ + 1]
           part == {<<"image", m.imageIndex>>}
       IN \/ \E said \in {[m EXCEPT !.accepted = @ \cup part], [m EXCEPT !.failed = @ \cup part]} :
               IF MoreImages(m) THEN SingleCallForImage(r, q, said)
               ELSE Step(r, Passes(q)) /\ Moderating(r, said)
          \/ Denied(r, q, m)
    /\ UNCHANGED <<conf, store, posted>>

-----------------------------------------------------------------------------
\* The parts that must have been checked.
Due(m) ==
    ({"text"} \X (1 .. m.pieces))
    \cup (IF m.pieces = 0 \/ conf.checkRequestImage THEN {"image"} \X (1 .. m.images) ELSE {})

\* What was refused goes neither upstream nor to the client; and what goes there was accepted in
\* every part, unless the check of an image failed or an error let everything go.
OnlyModeratedPasses ==
    \A r \in Request :
        LET m == moderation[r]
            q == req[r]
        IN q.stage = "upstream" \/ (q.stage = "over" /\ ~ q.local /\ "replaced" \notin q.ctx) =>
            ~ m.refused /\ (m.open \/ Due(m) \subseteq m.accepted \cup m.failed)
=============================================================================
