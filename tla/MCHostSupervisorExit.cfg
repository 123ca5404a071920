\* The supervisor against a graceful quit or restart of the application, a
\* force quit, the exit watchdog and the final RunEvent::Exit.  The shell stops.
SPECIFICATION Spec
CONSTANTS
    MaxFailures = 1
    InitialBackoff = 1
    MaxBackoff = 1
    MaxGeneration = 1
    Commands <- Command
    MaxDispatches = 1
    AppCanExit = TRUE
INVARIANTS
    Ownership
    AbandonedChildIsReaped
PROPERTY
    GenerationsLiveOnce
CHECK_DEADLOCK FALSE
