SPECIFICATION StreamSpec
CONSTANTS
    MaxTool = 2
    MaxArgs = 2
    MaxPieces = 5
    BufferLimit = 2
    MaxTokens = 7
    BufferSize = 3
    MaxEvents = 3
INVARIANTS
    MessageWellFormed
    OnlyPassedInOrder
    AnswersArrive
PROPERTY StreamsEnd
CHECK_DEADLOCK FALSE
