SPECIFICATION FairSpec
CONSTANTS
    o1 = o1
    o2 = o2
    c1 = c1
    c2 = c2
    k1 = k1
    s1 = s1
    NoHandle = NoHandle
    Openers = {o1, o2}
    Calls = {c1, c2}
    Closers = {k1}
    Sessions = {s1}
    Openable = {s1, c1}
    MaxMessages = 2
    MaxDepth = 2
    StreamCap = 2
    MaxOps = 3
\* Sessions that are gone or idle, calls that are done: nothing is left to do.
CHECK_DEADLOCK FALSE
INVARIANTS OneWriter AnswerIsFinal
PROPERTIES WaitsEnd
