SPECIFICATION CommandFairSpec
CONSTANTS
    JobIds = {j1}
    Foreground = {c1}
    Sinks = {s1}
    NoSink = NoSink
    SinkCap = 1
\* Every command may have ended and every actor gone.
CHECK_DEADLOCK FALSE
INVARIANTS StrayOnlyByAbort DoneIsDone
PROPERTIES CommandEnds
