---------------------------- MODULE AccessPlugins ----------------------------
(***************************************************************************)
(* The plugins that admit a request or refuse it: ext-auth and opa ask a    *)
(* server, replay-protection asks Redis, request-validation looks at the    *)
(* request itself.  Each operator named after a callback is the whole       *)
(* handler.                                                                 *)
(***************************************************************************)
EXTENDS WasmHost

-----------------------------------------------------------------------------
(* ext-auth *)

ExtAuthConf ==
    [plugin : {"ext-auth"}, whitelist : BOOLEAN, withRequestBody : BOOLEAN, failureModeAllow : BOOLEAN]

\* A whitelist exempts what its rules match, a blacklist what they do not match.
IsAllowedByMode(matched) == conf.whitelist = matched

Class4xx == "4xx"
Class5xx == "5xx"

\* A server that failed lets the request pass where the configuration says so.
ServerErrorHandler(q, status) ==
    IF status = Class5xx /\ conf.failureModeAllow THEN Resumed(q) ELSE Replied(q)

\* The call is made and the request held; when it cannot be made the error handler runs
\* at once and the handler returns, so that the request goes on unless it was answered.
CheckExtAuth(r, q) ==
    \/ Step(r, Awaiting(q, "check"))
    \/ Step(r, Continued(ServerErrorHandler(Learning(q, {Class5xx}), Class5xx)))

ExtAuthHeaders(r) ==
    /\ Handling(r, "headers")
    /\ \E matched \in BOOLEAN :
        IF IsAllowedByMode(matched) THEN Step(r, Continued(Learning(Unread(req[r]), {"exempt"})))
        ELSE IF req[r].body /\ conf.withRequestBody THEN Step(r, Postponed(req[r]))
        ELSE CheckExtAuth(r, Unread(req[r]))
    /\ UNCHANGED <<conf, store, posted>>

ExtAuthBody(r) ==
    /\ Handling(r, "body")
    /\ CheckExtAuth(r, req[r])
    /\ UNCHANGED <<conf, store, posted>>

ExtAuthReturns(r) ==
    /\ Called(r, "check")
    /\ \E status \in {"200", Class4xx, Class5xx} :
        LET q == Learning(Back(r, "check"), {status})
        IN Step(r, IF status = "200" THEN Resumed(q) ELSE ServerErrorHandler(q, status))
    /\ UNCHANGED <<conf, store, posted>>

\* The server, a rule or the failure mode let the request in.
ExtAuthAdmits(q) ==
    \/ q.facts \cap {"exempt", "200"} # {}
    \/ Class5xx \in q.facts /\ conf.failureModeAllow

-----------------------------------------------------------------------------
(* opa: the policy is asked about the headers, and again about the body. *)

OpaConf == [plugin : {"opa"}]

\* A call that cannot be made leaves the request held with nothing to wake it.
OpaCall(r) ==
    \/ Step(r, Awaiting(req[r], "check"))
    \/ Step(r, Learning(Paused(req[r]), {"unsent"}))

OpaHeaders(r) ==
    /\ Handling(r, "headers")
    /\ OpaCall(r)
    /\ UNCHANGED <<conf, store, posted>>

OpaBody(r) ==
    /\ Handling(r, "body")
    /\ OpaCall(r)
    /\ UNCHANGED <<conf, store, posted>>

\* Anything but a status of 200 with a result that is true refuses.
RspCall(r) ==
    /\ Called(r, "check")
    /\ \E verdict \in {"true", "false", "unclear"} :
        LET q == Learning(Back(r, "check"), {verdict})
        IN Step(r, IF verdict = "true" THEN Resumed(q) ELSE Replied(q))
    /\ UNCHANGED <<conf, store, posted>>

OpaAdmits(q) == q.facts = {"true"}

-----------------------------------------------------------------------------
(* request-validation *)

ValidationConf == [plugin : {"request-validation"}, header : BOOLEAN, bodySchema : BOOLEAN]

\* What cannot be decoded, or compiled, is not validated and goes on.
ValidationHeaders(r) ==
    /\ Handling(r, "headers")
    /\ \E found \in {"valid", "badHeaders", "unreadable"} :
        IF conf.header /\ found = "badHeaders"
        THEN Step(r, Replied(Learning(req[r], {found})))
        ELSE Step(r, Continued(Learning(req[r], {found})))
    /\ UNCHANGED <<conf, store, posted>>

ValidationBody(r) ==
    /\ Handling(r, "body")
    /\ \E found \in {"valid", "badBody", "unreadable"} :
        IF conf.bodySchema /\ found = "badBody"
        THEN Step(r, Replied(Learning(req[r], {found})))
        ELSE Step(r, Continued(Learning(req[r], {found})))
    /\ UNCHANGED <<conf, store, posted>>

ValidationAdmits(q) ==
    /\ conf.header => "badHeaders" \notin q.facts
    /\ conf.bodySchema => "badBody" \notin q.facts

-----------------------------------------------------------------------------
(* replay-protection: the key of a nonce is set once, until it expires. *)

ReplayConf == [plugin : {"replay-protection"}, forceNonce : BOOLEAN]

ReplayHeaders(r) ==
    /\ Handling(r, "headers")
    /\ \/ Step(r, IF conf.forceNonce THEN Replied(req[r]) ELSE Continued(Learning(req[r], {"none"})))
       \/ Step(r, Replied(Learning(req[r], {"malformed"})))
       \/ Step(r, Awaiting(req[r], "check"))
       \/ Step(r, Continued(Learning(req[r], {"unsent"})))
    /\ UNCHANGED <<conf, store, posted>>

\* Redis sets the key unless it is there.
SetNX(r) ==
    /\ Executing(r, "check")
    /\ IF store[req[r].key] = None
       THEN Executed(r, "check", "OK") /\ store' = [store EXCEPT ![req[r].key] = r]
       ELSE Executed(r, "check", "duplicate") /\ UNCHANGED store
    /\ UNCHANGED <<conf, posted>>

ReplayReturns(r) ==
    /\ Called(r, "check")
    /\ Outcome(r, "check") # Sent
    /\ LET q == Learning(Back(r, "check"), {Outcome(r, "check")})
       IN Step(r, IF Outcome(r, "check") = "duplicate" THEN Replied(q) ELSE Resumed(q))
    /\ UNCHANGED <<conf, store, posted>>

\* A nonce is demanded where the configuration says so, and has the form it says.
ReplayAdmits(q) ==
    /\ "malformed" \notin q.facts
    /\ conf.forceNonce => "none" \notin q.facts

\* Nobody could tell whether the nonce is new.
Unchecked(q) == q.facts \cap {"none", "unsent", Failed} # {}
=============================================================================
