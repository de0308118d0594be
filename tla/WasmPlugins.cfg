SPECIFICATION FairWasmSpec
CONSTANTS
    Request = {r1, r2}
    Key = {k1, k2, k3}
    CallName = {"check", "admin", "lookup", "other", "embed", "query", "context", "retry", "llm",
        "tool", "format", "part1", "part2", "text", "image"}
    None = None
    Sent = Sent
    Failed = Failed
    Threshold = 1
    MaxTokens = 2
    Similar = {{k1, k2}}
    VectorStores = {"dashvector", "chroma"}
    ApiToken = {t1, t2, t3, t4}
    MaxRetries = 2
    Part = {"part1", "part2"}
    MaxRounds = 2
    MaxParts = 2
    Unnamed = k3
    MaxTurns = 2
    t1 = t1
    t2 = t2
    t3 = t3
    t4 = t4
    r1 = r1
    r2 = r2
    k1 = k1
    k2 = k2
    k3 = k3
INVARIANTS
    OnlyPermittedGoUpstream
    EntitledAreServed
    LimitsHold
    OneAnswer
    AnswersDoNotDrift
    SkippedLeaveNoTrace
    RetriesAreFresh
    ConversationsApart
PROPERTY HeldRequestsMoveOn
CHECK_DEADLOCK FALSE
