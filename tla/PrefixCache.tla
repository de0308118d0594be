---------------------------- MODULE PrefixCache ----------------------------
(***************************************************************************)
(* The policy prefix_cache of ai-load-balancer: a request goes to the host  *)
(* that served the longest known beginning of its conversation, so that the *)
(* cache of the model can be used, and to a host with few requests when     *)
(* nothing is known.  The beginnings are keys in Redis, the exclusive or of *)
(* the hashes of their turns, so a key forgets the order of the turns and   *)
(* drops what occurs twice.  Counts and callbacks are those of LeastRequest.*)
(***************************************************************************)
EXTENDS LeastRequest, Sequences, SequencesExt, FiniteSetsExt

CONSTANTS
    Prompt,       \* the conversations: sequences of turns, which stand for their hashes
    MaxExpired    \* bound on the keys whose time to live passes

\* A request without turns is not balanced.
ASSUME PromptAssumption ==
    Prompt \subseteq Seq(UNION {ToSet(p) : p \in Prompt}) /\ <<>> \notin Prompt
ASSUME ExpiredAssumption == MaxExpired \in Nat

VARIABLES
    prompt,     \* the conversation each request carries
    path,       \* the host of each key, None for an absent key
    fields,     \* the hosts that have a count
    expired,    \* how many keys have expired
    routed,     \* history: the conversations and the hosts the script gave them
    disturbed   \* history: a key expired, or led to a host that was not healthy

prefixVars == <<prompt, path, fields, expired, routed, disturbed>>

Turn == UNION {ToSet(p) : p \in Prompt}

\* hex_xor of the turns: what is left are those that occur an odd number of times.
Odd(turns) == {t \in Turn : Cardinality({i \in DOMAIN turns : turns[i] = t}) % 2 = 1}
Beginning(p, n) == SubSeq(p, 1, n)

PrefixInit ==
    /\ prompt = [r \in Request |-> <<>>]
    /\ path = [key \in SUBSET Turn |-> None]
    /\ fields = {} /\ expired = 0 /\ routed = {} /\ disturbed = FALSE

PrefixRequestBody(r) ==
    /\ \E healthy \in (SUBSET Host) \ {{}} : HandleHttpRequestBody(r, healthy, healthy)
    /\ \E p \in Prompt : prompt' = [prompt EXCEPT ![r] = p]
    /\ UNCHANGED <<path, fields, expired, routed, disturbed>>

\* Mutant of Matched: only the conversation as a whole is looked for.
MatchedWhole(p, healthy) == IF path[Odd(p)] \in healthy THEN Len(p) ELSE 0

\* How many turns of the conversation lead to a healthy host.
Matched(p, healthy) ==
    Max({0} \cup {n \in 1 .. Len(p) : \A i \in 1 .. n : path[Odd(Beginning(p, i))] \in healthy})

\* The hosts without a count are left out, unless the host proposed at random is one of them.
FewRequests(healthy) == (healthy \ fields) \cup LeastLoaded(healthy \cap fields)

\* The keys that are written for the turns behind the first n. The key of a host that is not
\* healthy is where the search stopped: the turns are added to it, its own once more.
Written(p, n, stale) ==
    {Odd(Beginning(p, IF stale THEN n + 1 ELSE n) \o SubSeq(p, n + 1, i)) : i \in n + 1 .. Len(p)}

RunPrefixScript(r, h) ==
    LET p == prompt[r]
        n == Matched(p, view[r].healthy)
        stale == n < Len(p) /\ path[Odd(Beginning(p, n + 1))] \notin view[r].healthy \cup {None}
    IN  /\ eval[r] = "sent"
        /\ h \in IF n = 0 THEN FewRequests(view[r].healthy) ELSE {path[Odd(Beginning(p, n))]}
        /\ table' = [table EXCEPT ![h] = @ + 1]
        /\ fields' = fields \cup {h}
        /\ path' = [key \in SUBSET Turn |->
                       IF key \in Written(p, n, stale) THEN h ELSE path[key]]
        /\ routed' = routed \cup {[prompt |-> p, host |-> h]}
        /\ disturbed' = (disturbed \/ stale)
        /\ IF phase[r] = "paused"
           THEN /\ eval' = [eval EXCEPT ![r] = "ran"]
                /\ reply' = [reply EXCEPT ![r] = [host |-> h, count |-> 0]]
                /\ UNCHANGED lost
           ELSE /\ eval' = [eval EXCEPT ![r] = "over"]
                /\ lost' = lost \cup {h}
                /\ UNCHANGED reply
        /\ view' = [view EXCEPT ![r] = NoView]
        /\ UNCHANGED <<lastClean, decs, clock, phase, error, host, wiped, prompt, expired>>

Expires(key) ==
    /\ path[key] # None /\ expired < MaxExpired
    /\ path' = [path EXCEPT ![key] = None]
    /\ expired' = expired + 1 /\ disturbed' = TRUE
    /\ UNCHANGED <<vars, prompt, fields, routed>>

\* The callback: the reply is a host and no count, so there is no limit.
PrefixCallback(r) == Selected(r) \/ OverrideFails(r) \/ EvalFails(r)

PrefixStreamDone(r) == HandleHttpStreamDone(r)

PrefixNext ==
    /\ \/ \E r \in Request : \/ PrefixRequestBody(r)
                             \/ \E h \in Host : RunPrefixScript(r, h)
       \/ \E key \in SUBSET Turn : Expires(key)
       \/ /\ \/ \E r \in Request : NotBalanced(r) \/ PrefixCallback(r) \/ PrefixStreamDone(r)
             \/ \E h \in Host : ApplyDecrement(h) \/ LoseDecrement(h)
          /\ UNCHANGED prefixVars
    /\ UNCHANGED maxRequestCount

PrefixSpec == Init /\ PrefixInit /\ [][PrefixNext]_<<vars, prefixVars>>

-----------------------------------------------------------------------------
\* Different beginnings with the same key.
Collide(p, q) ==
    \E i \in DOMAIN p, j \in DOMAIN q :
        /\ Beginning(p, i) # Beginning(q, j)
        /\ Odd(Beginning(p, i)) = Odd(Beginning(q, j))

\* As long as no key expired and no key led to a host that was not healthy, conversations of
\* which one begins with the other are given the same host, by whatever gateways, as long as no
\* conversation that came has a beginning whose key is also that of another beginning.
PrefixesLeadBack ==
    \A one, other \in routed :
        \/ disturbed
        \/ ~ IsPrefix(one.prompt, other.prompt)
        \/ \E x, y \in routed : Collide(x.prompt, y.prompt)
        \/ one.host = other.host

\* README_EN.md of the plugin: "subsequent requests with the same prefix will also be routed to
\* pod 1", without the last exception.
SamePrefixSamePod ==
    \A one, other \in routed :
        ~ disturbed /\ IsPrefix(one.prompt, other.prompt) => one.host = other.host
=============================================================================
