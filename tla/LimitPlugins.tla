----------------------------- MODULE LimitPlugins -----------------------------
(***************************************************************************)
(* The plugins that count in Redis: cluster-key-rate-limit counts requests, *)
(* ai-token-ratelimit the tokens of their answers, and ai-quota takes the   *)
(* tokens from what a consumer was granted.  One script is one step of      *)
(* Redis; between the check of a request and the charge of its answer any   *)
(* other request may come, and the window may end.                          *)
(***************************************************************************)
EXTENDS WasmHost, Integers

CONSTANTS Threshold, MaxTokens
ASSUME LimitAssumption == Threshold \in Nat /\ MaxTokens \in Nat \ {0}

VARIABLE admitted    \* the requests a script let in since the window of their key began

limitVars == <<hostVars, admitted>>

Counted(k) == IF store[k] = None THEN 0 ELSE store[k]

\* The key of a window expires.
WindowEnds(k) ==
    /\ store[k] # None
    /\ store' = [store EXCEPT ![k] = None]
    /\ admitted' = {r \in admitted : req[r].key # k}
    /\ UNCHANGED <<conf, req, posted>>

\* No rule matches the request, or Redis cannot be called, and it goes on; or it is held.
LimitHeaders(r) ==
    /\ Handling(r, "headers")
    /\ \/ Step(r, Continued(Learning(req[r], {"no rule"})))
       \/ Step(r, Awaiting(Noting(req[r], {"limited"}), "check"))
       \/ Step(r, Continued(Learning(Noting(req[r], {"limited"}), {"unsent"})))
    /\ UNCHANGED <<conf, store, posted, admitted>>

\* Over the threshold the request is refused; an error lets it pass.
LimitReturns(r) ==
    /\ Called(r, "check")
    /\ Outcome(r, "check") # Sent
    /\ IF Outcome(r, "check") = Failed THEN Step(r, Resumed(Learning(Back(r, "check"), {Failed})))
       ELSE Step(r, IF Outcome(r, "check") > Threshold THEN Replied(Back(r, "check"))
                    ELSE Resumed(Back(r, "check")))
    /\ UNCHANGED <<conf, store, posted, admitted>>

-----------------------------------------------------------------------------
(* cluster-key-rate-limit *)

ClusterLimitConf == [plugin : {"cluster-key-rate-limit"}]

\* Mutant of FixedWindowScript: the last request of a window is let in twice.
FixedWindowScriptLate(r) ==
    LET k == req[r].key
        current == IF Counted(k) > Threshold THEN Counted(k) ELSE Counted(k) + 1
    IN /\ Executing(r, "check")
       /\ Executed(r, "check", IF Counted(k) > Threshold THEN current ELSE Counted(k))
       /\ store' = [store EXCEPT ![k] = current]
       /\ admitted' = IF Counted(k) > Threshold THEN admitted ELSE admitted \cup {r}
       /\ UNCHANGED <<conf, posted>>

\* The count goes one past the threshold and no further; the reply carries the new count.
FixedWindowScript(r) ==
    LET k == req[r].key
        current == IF Counted(k) > Threshold THEN Counted(k) ELSE Counted(k) + 1
    IN /\ Executing(r, "check")
       /\ Executed(r, "check", current)
       /\ store' = [store EXCEPT ![k] = current]
       /\ admitted' = IF current > Threshold THEN admitted ELSE admitted \cup {r}
       /\ UNCHANGED <<conf, posted>>

-----------------------------------------------------------------------------
(* ai-token-ratelimit *)

TokenLimitConf == [plugin : {"ai-token-ratelimit"}]

\* The check only reads.
RequestPhaseScript(r) ==
    /\ Executing(r, "check")
    /\ Executed(r, "check", Counted(req[r].key))
    /\ admitted' = IF Counted(req[r].key) <= Threshold THEN admitted \cup {r} ELSE admitted
    /\ UNCHANGED <<conf, store, posted>>

\* The answer ends; if its usage was found in it the charge is sent, and nobody waits.
TokensCharged(r) ==
    /\ Handling(r, "response")
    /\ Step(r, ResponseEnds(req[r]))
    /\ \/ UNCHANGED posted
       \/ /\ "limited" \in req[r].ctx
          /\ \E n \in 1..MaxTokens : posted' = posted \cup {[by |-> r, cmd |-> "charge", n |-> n]}
    /\ UNCHANGED <<conf, store, admitted>>

\* Mutant of ResponsePhaseScript: the tokens are added whatever the count is.
ResponsePhaseScriptAlways(m) ==
    LET k == req[m.by].key
    IN store' = [store EXCEPT ![k] = Counted(k) + m.n]

\* What is over the threshold is not added to any more.
ResponsePhaseScript(m) ==
    LET k == req[m.by].key
    IN store' = IF Counted(k) <= Threshold THEN [store EXCEPT ![k] = Counted(k) + m.n] ELSE store

ChargeRuns(m) ==
    /\ m \in posted /\ m.cmd = "charge"
    /\ posted' = posted \ {m}
    /\ ResponsePhaseScript(m) \/ UNCHANGED store
    /\ UNCHANGED <<conf, req, admitted>>

-----------------------------------------------------------------------------
(* ai-quota *)

QuotaConf == [plugin : {"ai-quota"}]

\* What a request is: a chat, or an administrator's.
QuotaHeaders(r) ==
    /\ Handling(r, "headers")
    /\ \/ Step(r, Replied(Learning(req[r], {"no consumer"})))
       \/ Step(r, Continued(Learning(req[r], {"no chat"})))
       \/ Step(r, Awaiting(Noting(Unread(req[r]), {"chat"}), "check"))
       \/ Step(r, Learning(Paused(Noting(Unread(req[r]), {"chat"})), {"unsent"}))
       \/ Step(r, Awaiting(Noting(req[r], {"query"}), "admin"))
       \/ Step(r, Replied(Learning(req[r], {"refused"})))
       \/ \E mode \in {"refresh", "grant", "take"} :
            LET q == Noting(req[r], {mode})
            IN Step(r, IF q.body THEN Postponed(q) ELSE Bodyless(q))
    /\ UNCHANGED <<conf, store, posted, admitted>>

\* An administrator's command is sent, or refused, or fails; he is answered in any case.
QuotaBody(r) ==
    /\ Handling(r, "body")
    /\ \/ Step(r, IF req[r].ctx \cap {"refresh", "grant", "take"} = {}
                  THEN Continued(req[r]) ELSE Awaiting(req[r], "admin"))
       \/ req[r].ctx # {} /\ Step(r, Replied(Learning(req[r], {"refused"})))
    /\ UNCHANGED <<conf, store, posted, admitted>>

QuotaGet(r) ==
    /\ Executing(r, "check")
    /\ Executed(r, "check", Counted(req[r].key))
    /\ admitted' = IF Counted(req[r].key) > 0 THEN admitted \cup {r} ELSE admitted
    /\ UNCHANGED <<conf, store, posted>>

\* An error, a missing key and a quota that is used up refuse.
QuotaReturns(r) ==
    /\ Called(r, "check")
    /\ Outcome(r, "check") # Sent
    /\ IF Outcome(r, "check") = Failed THEN Step(r, Replied(Back(r, "check")))
       ELSE Step(r, IF Outcome(r, "check") > 0 THEN Resumed(Back(r, "check"))
                    ELSE Replied(Back(r, "check")))
    /\ UNCHANGED <<conf, store, posted, admitted>>

\* What an administrator's command does to the quota of the consumer it names.
QuotaAdmin(r) ==
    /\ Executing(r, "admin")
    /\ Executed(r, "admin", "done")
    /\ \E k \in Key, n \in 1..MaxTokens :
        store' = CASE "refresh" \in req[r].ctx -> [store EXCEPT ![k] = n]
                   [] "grant" \in req[r].ctx -> [store EXCEPT ![k] = Counted(k) + n]
                   [] "take" \in req[r].ctx -> [store EXCEPT ![k] = Counted(k) - n]
                   [] "query" \in req[r].ctx -> store
    /\ UNCHANGED <<conf, posted, admitted>>

QuotaAdminReturns(r) ==
    /\ Called(r, "admin")
    /\ Outcome(r, "admin") # Sent
    /\ Step(r, Replied(Back(r, "admin")))
    /\ UNCHANGED <<conf, store, posted, admitted>>

\* The answer to a chat ends, and its tokens are taken from the quota.
QuotaCharged(r) ==
    /\ Handling(r, "response")
    /\ Step(r, ResponseEnds(req[r]))
    /\ \/ UNCHANGED posted
       \/ /\ "chat" \in req[r].ctx
          /\ \E n \in 1..MaxTokens : posted' = posted \cup {[by |-> r, cmd |-> "spend", n |-> n]}
    /\ UNCHANGED <<conf, store, admitted>>

SpendRuns(m) ==
    /\ m \in posted /\ m.cmd = "spend"
    /\ posted' = posted \ {m}
    /\ \/ store' = [store EXCEPT ![req[m.by].key] = Counted(req[m.by].key) - m.n]
       \/ UNCHANGED store
    /\ UNCHANGED <<conf, req, admitted>>
==============================================================================
