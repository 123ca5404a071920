\* A read and a watch of the host at once.
SPECIFICATION WholeSpec
CONSTANTS
    None = None
    Reads = {s1}
    Watches = {s2}
    Writes = {}
    HostStreams = {}
    Calls = {}
    InitialCredit = 3
    Replenish = 2
    MaxPull = 1
PROPERTY
    HandlesAreReleased
CHECK_DEADLOCK FALSE
