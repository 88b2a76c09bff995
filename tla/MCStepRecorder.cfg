SPECIFICATION Spec
CONSTANTS
    KeepFirst = FALSE
    KeepRecent = 1
    Kinds = {"AssistantMessageAppended"}
    Compactors = {"truncate", "custom"}
    MaxTurns = 2
    MaxMessages = 1
    MaxTexts = 1
    MaxFaults = 1
    MaxCrashes = 1
\* A session with no more turns to start is idle; a refused one has stopped.
CHECK_DEADLOCK FALSE
INVARIANTS SeqsAscend OncePerTurn CacheFaithful TruncateAccepted AckedKept
