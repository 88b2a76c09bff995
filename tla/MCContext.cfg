SPECIFICATION Spec
CONSTANTS
    Hidden = {"user"}
    Providers <- MCProviders
    Catalogs <- MCCatalogs
    Opened <- MCOpened
    Modes <- MCModes
    Asked <- MCAsked
    Replies <- MCReplies
    ToolOrder <- MCOrder
    Allowed = {1, 2}
    Replacements = {"Drop", "Summary"}
    Forms = {"json"}
    KeepFirst = FALSE
    KeepRecent = 1
    MaxTurns = 2
    MaxCalls = 2
    MaxTroubles = 1
\* A session with no more turns to start is idle; a refused one has stopped.
CHECK_DEADLOCK FALSE
INVARIANTS RequestFaithful ResultsMatch LaterRoundsDecided SkillOnce
