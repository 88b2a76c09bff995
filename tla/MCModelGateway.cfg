SPECIFICATION Spec
CONSTANTS
    Providers = {"anthropic", "responses", "compat"}
    BlockKinds = {"text", "thinking", "tool", "redacted"}
    MaxBlocks = 3
    MaxChunks = 2
    MaxPieces = 7
\* A stream that ended or failed is over.
CHECK_DEADLOCK FALSE
INVARIANTS LogIsWhatWasSaid OutputIsLog
