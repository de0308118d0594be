---------------------------- MODULE Conversations ----------------------------
(***************************************************************************)
(* Plugins that remember what was said.  ai-history puts the last turns of  *)
(* a user, which it keeps in Redis, in front of a new question.  ai-agent   *)
(* lets a model call tools until it has the answer; the conversation is in  *)
(* one list for all requests of a VM.                                       *)
(***************************************************************************)
EXTENDS CallChains, Sequences

CONSTANTS
    Unnamed,     \* the key of a request without an identity
    MaxTurns     \* fillHistoryCnt: the turns that are kept

VARIABLES
    history,     \* of each request, the turns it read and those it was shown
    agent        \* whose messages are in the list, and what the model was sent of it

ASSUME UnnamedAssumption == Unnamed \in Key

conversationVars == <<history, agent>>

ConversationConf == [plugin : {"ai-history"}] \cup [plugin : {"ai-agent"}, jsonResp : BOOLEAN]

\* A turn is named for its request.
NoHistory == [r \in Request |-> [read |-> << >>, shown |-> {}]]

\* said: whose messages are in the list; asked: whose the model was sent for a request;
\* before: the requests that were over when it came.
NoAgent == [said |-> {}, asked |-> [r \in Request |-> {}], before |-> [r \in Request |-> {}]]

-----------------------------------------------------------------------------
(* ai-history *)

\* Without the header, all requests have the same empty identity.
Identity(q) == IF "named" \in q.ctx THEN q.key ELSE Unnamed

HistoryHeaders(r) ==
    /\ Handling(r, "headers")
    /\ \/ Step(r, Continued(Unread(req[r])))
       \/ Step(r, Continued(req[r]))
       \/ LET q == Noting(req[r], {"named"})
          IN Step(r, IF q.body THEN Postponed(q) ELSE Bodyless(q))
    /\ UNCHANGED <<progress, conversationVars>> /\ Unchanged

\* A request whose path ends in ai-history/query asks for the history itself.
HistoryBody(r) ==
    /\ Handling(r, "body")
    /\ \/ Step(r, Continued(req[r]))
       \/ \E query \in {{}, {"query"}} :
            LET q == Noting(req[r], {"question"} \cup query)
            IN Step(r, Awaiting(q, "lookup")) \/ Step(r, Continued(q))
    /\ UNCHANGED <<progress, conversationVars>> /\ Unchanged

HistoryGet(r) ==
    /\ Executing(r, "lookup")
    /\ LET kept == store[Identity(req[r])]
       IN Executed(r, "lookup", IF kept = None THEN << >> ELSE kept)
    /\ UNCHANGED <<conf, store, posted, progress, conversationVars>>

\* Whose turns they are.
Askers(turns) == {turns[i] : i \in DOMAIN turns}

\* Messages that cannot be read, and those that hold a conversation already, are not
\* changed.
HistoryReturns(r) ==
    /\ Called(r, "lookup")
    /\ Outcome(r, "lookup") # Sent
    /\ LET q == Back(r, "lookup")
           turns == Outcome(r, "lookup")
           Reading(shown) == history' = [history EXCEPT ![r] = [read |-> turns, shown |-> shown]]
       IN IF turns \in {Failed, << >>} THEN Step(r, Resumed(q)) /\ UNCHANGED history
          ELSE IF "query" \in q.ctx THEN Step(r, Replied(q)) /\ Reading(Askers(turns))
          ELSE /\ Step(r, Resumed(q))
               /\ Reading({}) \/ Reading(Askers(turns))
    /\ UNCHANGED <<progress, agent>> /\ Unchanged

\* The turn is put behind those the request read, and the oldest are dropped. An answer that
\* cannot be read is not kept.
SaveChatHistory(r) ==
    LET turns == Append(history[r].read, r)
    IN [cmd |-> "history", by |-> r,
        n |-> IF Len(turns) > MaxTurns THEN Tail(turns) ELSE turns]

HistoryAnswered(r) ==
    /\ Handling(r, "answering")
    /\ Step(r, PassedOn(req[r]))
    /\ \/ UNCHANGED posted
       \/ /\ req[r].ctx \cap {"question", "query"} = {"question"}
          /\ posted' = posted \cup {SaveChatHistory(r)}
    /\ UNCHANGED <<conf, store, progress, conversationVars>>

\* The command is executed, or lost; and the key may expire.
HistorySet(m) ==
    /\ m \in posted /\ m.cmd = "history"
    /\ posted' = posted \ {m}
    /\ store' \in {store, [store EXCEPT ![Identity(req[m.by])] = m.n]}
    /\ UNCHANGED <<conf, req, progress, conversationVars>>

HistoryExpires(k) ==
    /\ store[k] # None
    /\ store' = [store EXCEPT ![k] = None]
    /\ UNCHANGED <<conf, req, posted, progress, conversationVars>>

-----------------------------------------------------------------------------
(* ai-agent *)

\* ResumeHttpRequest while an answer is held: nothing moves.
WrongSide(q) == Learning(Paused(q), {"wrong side"})

\* Mutant of Clear: a new conversation follows the last one.
ClearNot(said) == said

Clear(said) == {}

\* The first question to the model is the request itself. A body without a question is not
\* read.
AgentBody(r) ==
    /\ Handling(r, "body")
    /\ \/ Step(r, Continued(req[r])) /\ UNCHANGED <<progress, agent>>
       \/ /\ \/ Step(r, Continued(Noting(req[r], {"counted"})))
             \/ Step(r, Replied(req[r]))
          /\ progress' = [progress EXCEPT ![r].round = 0]
          /\ agent' = [agent EXCEPT !.said = Clear(@) \cup {r},
                                    !.before[r] = {s \in Request : req[s].stage \in {"over", "gone"}}]
    /\ UNCHANGED history /\ Unchanged

AgentHeaders(r) ==
    /\ Handling(r, "headers")
    /\ Step(r, Continued(req[r]))
    /\ UNCHANGED <<progress, conversationVars>> /\ Unchanged

\* What the model said is a final answer, or the call of a tool; answered is what becomes of
\* the request with an answer. After MaxRounds calls, or if there is no such tool, an empty answer has to do. Text
\* that is JSON but no action ends the handler, as does a request without a count.
ToolsCall(r, q, answered) ==
    /\ agent' = [agent EXCEPT !.said = @ \cup {r}]
    /\ \/ Step(r, Dead(q)) /\ UNCHANGED progress
       \/ (\E a \in answered : Step(r, a)) /\ UNCHANGED progress
       \/ LET count == progress[r].round + 1
          IN /\ "counted" \in q.ctx
             /\ IF count > MaxRounds
                THEN (\E a \in answered : Step(r, a)) /\ progress' = [progress EXCEPT ![r].round = 0]
                ELSE /\ progress' = [progress EXCEPT ![r].round = count]
                     /\ \E a \in answered \cup {Awaiting(q, "tool"), WrongSide(q)} : Step(r, a)

\* The first answer of the model.
AgentAnswered(r) ==
    /\ Handling(r, "answering")
    /\ \/ Step(r, PassedOn(req[r])) /\ UNCHANGED <<progress, agent>>
       \/ Step(r, Dead(req[r])) /\ UNCHANGED <<progress, agent>>
       \/ ToolsCall(r, req[r], {PassedOn(req[r])})
    /\ UNCHANGED history /\ Unchanged

\* The model is sent the whole list with the result of the tool at its end.
ToolsCallResult(r) ==
    /\ Called(r, "tool")
    /\ LET q == Back(r, "tool")
           said == agent.said \cup {r}
       IN \/ /\ Step(r, Awaiting(q, "llm"))
             /\ agent' = [agent EXCEPT !.said = said, !.asked[r] = @ \cup said]
          \/ Step(r, WrongSide(q)) /\ agent' = [agent EXCEPT !.said = said]
    /\ UNCHANGED <<progress, history>> /\ Unchanged

\* The answer takes the place of the first one; the model may be asked to put it into JSON.
AgentAnswers(q) ==
    IF conf.jsonResp THEN {Awaiting(q, "format"), WrongSide(q)} ELSE {PassedOn(q)}

AgentThinks(r) ==
    /\ Called(r, "llm")
    /\ LET q == Back(r, "llm")
       IN \/ Step(r, Dead(q)) /\ UNCHANGED <<progress, agent>>
          \/ Step(r, WrongSide(q)) /\ UNCHANGED <<progress, agent>>
          \/ ToolsCall(r, q, AgentAnswers(q))
    /\ UNCHANGED history /\ Unchanged

JsonFormat(r) ==
    /\ Called(r, "format")
    /\ LET q == Back(r, "format") IN Step(r, PassedOn(q)) \/ Step(r, Dead(q))
    /\ UNCHANGED <<progress, conversationVars>> /\ Unchanged

-----------------------------------------------------------------------------
ConversationHandlers(r) ==
    \/ conf.plugin = "ai-history" /\ (HistoryHeaders(r) \/ HistoryBody(r) \/ HistoryAnswered(r))
    \/ conf.plugin = "ai-agent" /\ (AgentHeaders(r) \/ AgentBody(r) \/ AgentAnswered(r))

ConversationReturns(r) ==
    \/ conf.plugin = "ai-history" /\ HistoryReturns(r)
    \/ conf.plugin = "ai-agent" /\ (ToolsCallResult(r) \/ AgentThinks(r) \/ JsonFormat(r))

-----------------------------------------------------------------------------
\* Nobody is shown another's conversation: a user who is known is given turns of that user
\* only, and a model is not sent what was said in a conversation that was over before.
ConversationsApart ==
    \A r \in Request :
        /\ "named" \in req[r].ctx => \A s \in history[r].shown : req[s].key = req[r].key
        /\ agent.asked[r] \cap agent.before[r] = {}
=============================================================================
