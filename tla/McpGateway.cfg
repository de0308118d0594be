SPECIFICATION SessionSpec
CONSTANTS
    alice = alice
    bob = bob
    MaxSessions = 2
    MaxCalls = 2
    User = {alice, bob}
    Whitelist <- MCWhitelist
    None = None
    CallLimit = 1
    Situations <- MCSituations
INVARIANTS
    SessionsAreAnswered
    CallsAreAccounted
PROPERTY
    SessionsEnd
\* Once the streams, calls and failures of the bound are over, nothing is left to do.
CHECK_DEADLOCK FALSE
