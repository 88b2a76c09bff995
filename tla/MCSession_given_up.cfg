SPECIFICATION Spec
CONSTANTS
    JobIds = {1, 2}
    StrayJobs = {}
    Sinks <- Incarnations
    NoSink = 0
    SinkCap = 2
    MailboxCap = 4
    MaxModelCalls = 2
    MAX_CONSECUTIVE_TOOL_ERRORS = 4
    MaxCalls = 1
    Checks = {"valid"}
    ToolKinds = {"sync"}
    Faults = {}
    MaxInputs = 2
    MaxCancels = 0
    MaxShutdowns = 0
    MaxCrashes = 2
    FastJobs = FALSE
\* A session whose clients are done is idle.
CHECK_DEADLOCK FALSE
INVARIANTS AlwaysResumable
