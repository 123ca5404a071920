\* The supervisor against callers of dispatch and a child that may exit at any
\* time; the application is not exiting.
SPECIFICATION FairSpec
CONSTANTS
    MaxFailures = 3
    InitialBackoff = 1
    MaxBackoff = 2
    MaxGeneration = 2
    Commands <- Command
    MaxDispatches = 3
    AppCanExit = FALSE
INVARIANTS
    StormBudget
    SnapshotIsTrue
PROPERTIES
    GracefulStopSticks
    AdoptionIsFresh
    StopEndsChild
    RunningIntentIsServed
