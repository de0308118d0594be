\* Two machines, one token that fails twice over, one late start of a machine, and swaps
\* that may be given up; three machines that want the lease, an expiry of one tick, and time
\* for the lease to change hands twice.
SPECIFICATION BothSpec
CONSTANTS
    VM = {v1, v2}
    Token = {t1}
    None = None
    FailureThreshold = 2
    SuccessThreshold = 2
    CasMaxRetries = 2
    MaxResets = 1
    MaxFailures = 4
    Machine = {m1, m2, m3}
    Nobody = Nobody
    LeaseTime = 1
    MaxTime = 4
    MaxClears = 1
INVARIANTS
    NoTokenLost
    CountsStayNearThreshold
    LeaseExclusive
PROPERTIES
    TokensRecover
CHECK_DEADLOCK FALSE
