SPECIFICATION JobFairSpec
CONSTANTS
    JobIds = {j1, j2}
    Sinks = {s1, s2}
    NoSink = NoSink
    SinkCap = 1
\* Every job may have ended and every actor gone.
CHECK_DEADLOCK FALSE
INVARIANTS JobTypeOK OneShot NothingLost TrueOutcome NoOrphanTask
PROPERTIES OutcomeFinal ImplementsContract EventuallyTold
