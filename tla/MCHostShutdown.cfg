\* Every way to ask for a shutdown, disposers that may hang, and extensions;
\* two clients of the probe.
SPECIFICATION MCSpec
CONSTANTS
    Disposers = 3
    InitialTime = 3
    HardCap = 5
    ExitDelay = 1
    ShellTimeout = 9
    Extensions <- Asked
    Lag = 1
    MaxTokenLine = 2
    MaxReadFailures = 2
    MaxBadLines = 2
    MaxClients = 2
INVARIANTS
    FirstTriggerOwnsTheExit
    BeatsTheShell
PROPERTIES
    NotAbandonedEarly
    HostLeaves
    EveryClientHasItsTurn
    OldReadersEnd
\* The process exits, and a client may wait for ever.
CHECK_DEADLOCK FALSE
