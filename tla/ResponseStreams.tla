--------------------------- MODULE ResponseStreams ---------------------------
(***************************************************************************)
(* The plugins that rewrite a streamed answer piece by piece, one of them   *)
(* in a filter chain.  ai-proxy does it twice: it translates the events of  *)
(* a provider, and makes a Claude stream of them for a client that asked    *)
(* for one.                                                                 *)
(***************************************************************************)
EXTENDS ClaudeStream, GuardStream, ReferenceStream, ProviderStream

VARIABLE plugin    \* the plugin the answer passes through

streamVars == <<plugin, claudeVars, guardVars, referenceVars, providerVars>>

StreamInit ==
    /\ plugin \in {"provider", "claude", "ai-security-guard", "ai-search"}
    /\ ClaudeInit /\ GuardInit /\ ReferenceInit /\ ProviderInit
    /\ api = "text" \/ plugin = "ai-security-guard"
    /\ (location = "tail" /\ content = <<>>) \/ plugin = "ai-search"
    /\ source = PlainSource \/ plugin = "provider"

StreamNext ==
    /\ \/ plugin = "claude" /\ ClaudeNext /\ UNCHANGED <<guardVars, referenceVars, providerVars>>
       \/ plugin = "ai-security-guard" /\ GuardNext /\ UNCHANGED <<claudeVars, referenceVars, providerVars>>
       \/ plugin = "ai-search" /\ ReferenceNext /\ UNCHANGED <<claudeVars, guardVars, providerVars>>
       \/ plugin = "provider" /\ ProviderNext /\ UNCHANGED <<claudeVars, guardVars, referenceVars>>
    /\ UNCHANGED plugin

StreamSpec == StreamInit /\ [][StreamNext]_streamVars /\ GuardFair

-----------------------------------------------------------------------------
\* What upstream answers reaches the client, whole and in order, wherever chunks and messages
\* are cut: translated from the provider's events, and with the references that were added.
AnswersArrive == AnswerIsKept /\ EventsAreTranslated
=============================================================================
