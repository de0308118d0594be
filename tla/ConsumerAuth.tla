----------------------------- MODULE ConsumerAuth -----------------------------
(***************************************************************************)
(* The plugins that know the consumers of the gateway: key-auth, basic-auth *)
(* jwt-auth and hmac-auth-apisix.  All four say of global_auth, and of the  *)
(* allow lists of routes, that they mean the same; each has its own code    *)
(* for it.  A key is a consumer; the request carries credentials that are   *)
(* those of its consumer, or wrong, or missing.                             *)
(***************************************************************************)
EXTENDS WasmHost

\* anyRule: some route has an allow list; allow: the list of the route of the requests
\* (empty: none); inHeader and inQuery are read by key-auth only, which needs one of the two
\* to be there, be it false; keepToken, source and first by jwt-auth only, anonymous and
\* validateBody by hmac-auth only.
ConsumerConf ==
    {c \in [plugin : {"key-auth", "basic-auth", "jwt-auth", "hmac-auth-apisix"},
            globalAuth : {"unset", "true", "false"}, anyRule : BOOLEAN, allow : SUBSET Key,
            inHeader : BOOLEAN, inQuery : BOOLEAN, keepToken : BOOLEAN, source : {"header", "param"}, first : Key,
            anonymous : BOOLEAN, validateBody : BOOLEAN] :
        /\ c.allow # {} => c.anyRule
        /\ c.plugin # "key-auth" => c.inHeader /\ ~ c.inQuery
        /\ c.plugin # "jwt-auth" => c.keepToken /\ c.source = "header" /\ c.first = CHOOSE k \in Key : TRUE
        /\ c.plugin # "hmac-auth-apisix" => ~ c.anonymous /\ ~ c.validateBody}

\* What the four plugins say they do.
AuthRequired ==
    \/ conf.allow # {}
    \/ conf.globalAuth = "true"
    \/ conf.globalAuth = "unset" /\ ~ conf.anyRule

\* The key is where key-auth was told to take keys from.
AsTold(q) ==
    /\ "header" \in q.facts => conf.inHeader
    /\ "query" \in q.facts => conf.inQuery

Entitled(q) ==
    \/ ~ AuthRequired
    \/ /\ "valid" \in q.facts /\ AsTold(q)
       /\ conf.allow # {} => q.key \in conf.allow
       /\ "badDigest" \notin q.facts
    \/ conf.anonymous /\ "missing" \in q.facts

-----------------------------------------------------------------------------
(* What they do. *)

NoAllow == conf.allow = {}

\* Mutant of NotRequired: an allow list that is there is not looked for.
NotRequiredAnywhere(ruleSet) ==
    conf.globalAuth = "false" \/ (conf.globalAuth = "unset" /\ ruleSet)

NotRequired(ruleSet) ==
    /\ conf.globalAuth = "false" \/ (conf.globalAuth = "unset" /\ ruleSet)
    /\ NoAllow

\* Mutant of Authenticated: a route without an allow list knows no consumer.
AuthenticatedByList(k, ruleSet) ==
    \/ conf.globalAuth = "unset" /\ ~ ruleSet
    \/ /\ conf.globalAuth # "unset" \/ ruleSet
       /\ k \in conf.allow

\* The three cases in which a known consumer is let in.
Authenticated(k, ruleSet) ==
    \/ conf.globalAuth = "true" /\ NoAllow
    \/ conf.globalAuth = "unset" /\ ~ ruleSet
    \/ /\ conf.globalAuth # "unset" \/ ruleSet
       /\ k \in conf.allow

\* The query is looked at only if the headers are not.
KeyFound(cred, place) ==
    IF place = (IF conf.inHeader THEN "header" ELSE "query") /\ (conf.inHeader \/ conf.inQuery)
    THEN cred
    ELSE "missing"

\* A request has its key in one place: what it carries in one that is not looked at makes no
\* difference.
KeyAuthHeaders(r) ==
    /\ Handling(r, "headers")
    /\ \E cred \in {"valid", "wrong", "missing", "many"}, place \in {"header", "query"} :
        LET q == Learning(req[r], {cred, place})
        IN Step(r, IF \/ NotRequired(conf.anyRule)
                      \/ KeyFound(cred, place) = "valid" /\ Authenticated(q.key, conf.anyRule)
                   THEN Continued(q)
                   ELSE Replied(q))
    /\ UNCHANGED <<conf, store, posted>>

BasicAuthHeaders(r) ==
    /\ Handling(r, "headers")
    /\ \E cred \in {"valid", "wrong", "missing"} :
        LET q == Learning(req[r], {cred})
        IN Step(r, IF \/ NotRequired(conf.anyRule)
                      \/ cred = "valid" /\ Authenticated(q.key, conf.anyRule)
                   THEN Continued(q)
                   ELSE Replied(q))
    /\ UNCHANGED <<conf, store, posted>>

\* The consumers are tried in turn, and each takes the token out of the request unless it
\* is told to keep it; out of the query only a copy is changed.
TokenReaches(k) == conf.keepToken \/ conf.source = "param" \/ k = conf.first

JwtVerified(k, cred) == cred = "valid" /\ TokenReaches(k)

JwtAuthHeaders(r) ==
    /\ Handling(r, "headers")
    /\ \E cred \in {"valid", "wrong", "missing"} :
        LET q == Learning(req[r], {cred})
        IN Step(r, IF \/ NotRequired(conf.anyRule)
                      \/ JwtVerified(q.key, cred) /\ Authenticated(q.key, conf.anyRule)
                   THEN Continued(q)
                   ELSE Replied(q))
    /\ UNCHANGED <<conf, store, posted>>

\* A route is told of its own allow list only: the configuration of the other routes does
\* not set RuleSet in the global one, which a route without a list uses.
HmacRuleSet == ~ NoAllow

HmacAllowed(k) ==
    (conf.globalAuth # "unset" \/ HmacRuleSet) => (NoAllow \/ k \in conf.allow)

HmacHeaders(r) ==
    /\ Handling(r, "headers")
    /\ \E cred \in {"valid", "wrong", "missing"} :
        LET q == Learning(req[r], {cred})
        IN \/ NotRequired(HmacRuleSet) /\ Step(r, Continued(Unread(q)))
           \/ /\ ~ NotRequired(HmacRuleSet) /\ cred = "missing"
              /\ Step(r, IF conf.anonymous THEN Continued(Unread(q)) ELSE Replied(q))
           \/ /\ ~ NotRequired(HmacRuleSet) /\ cred = "wrong"
              /\ Step(r, Replied(q))
           \/ /\ ~ NotRequired(HmacRuleSet) /\ cred = "valid"
              /\ Step(r, IF ~ HmacAllowed(q.key) THEN Replied(q)
                         ELSE IF q.body /\ conf.validateBody THEN Postponed(q)
                         ELSE Continued(Unread(q)))
    /\ UNCHANGED <<conf, store, posted>>

HmacBody(r) ==
    /\ Handling(r, "body")
    /\ \/ Step(r, Continued(req[r]))
       \/ Step(r, Replied(Learning(req[r], {"badDigest"})))
    /\ UNCHANGED <<conf, store, posted>>

ConsumerNext(r) ==
    \/ conf.plugin = "key-auth" /\ KeyAuthHeaders(r)
    \/ conf.plugin = "basic-auth" /\ BasicAuthHeaders(r)
    \/ conf.plugin = "jwt-auth" /\ JwtAuthHeaders(r)
    \/ conf.plugin = "hmac-auth-apisix" /\ (HmacHeaders(r) \/ HmacBody(r))

\* Where the code departs from what it says: a token the first consumer took away, a key in
\* the query where keys may be in the headers as well, and a route without a list that does
\* not know of the others.
TokenTaken(q) == conf.plugin = "jwt-auth" /\ ~ TokenReaches(q.key)
QueryUnread(q) ==
    conf.plugin = "key-auth" /\ conf.inHeader /\ conf.inQuery /\ "query" \in q.facts
RulesForgotten == conf.plugin = "hmac-auth-apisix" /\ conf.globalAuth = "unset" /\ conf.anyRule /\ NoAllow
==============================================================================
