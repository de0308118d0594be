SPECIFICATION ClaudeSpec
CONSTANTS
    MaxTool = 1
    MaxArgs = 1
INVARIANT OneBlockAtATime
CHECK_DEADLOCK FALSE
