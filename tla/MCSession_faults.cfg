SPECIFICATION Spec
CONSTANTS
    JobIds = {1, 2}
    StrayJobs = {9}
    Sinks <- Incarnations
    NoSink = 0
    SinkCap = 2
    MailboxCap = 4
    MaxModelCalls = 2
    MAX_CONSECUTIVE_TOOL_ERRORS = 2
    MaxCalls = 2
    Checks = {"valid", "invalid"}
    ToolKinds = {"sync", "async", "stray"}
    Faults <- UsualFaults
    MaxInputs = 1
    MaxCancels = 0
    MaxShutdowns = 0
    MaxCrashes = 2
    FastJobs = TRUE
\* A session whose clients are done is idle.
CHECK_DEADLOCK FALSE
INVARIANTS ToolResultOnce NothingAfterTerminal MatchedUnlessBehindJob BudgetHonored AsyncChainOrdered
