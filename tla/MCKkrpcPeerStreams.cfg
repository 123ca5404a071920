\* Streams without calls, and calls beside a watch.
SPECIFICATION PartSpec
CONSTANTS
    None = None
    Reads = {s1}
    Watches = {s2}
    Writes = {w1, w2}
    HostStreams = {s1}
    Calls = {c1, c2}
    InitialCredit = 3
    Replenish = 2
    MaxPull = 3
SYMMETRY Interchangeable
INVARIANTS
    AnsweredOnce
    EndsOnce
    FlowIsRespected
    WindowNeverShuts
    WaitersAreFindable
CHECK_DEADLOCK FALSE
