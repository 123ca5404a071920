SPECIFICATION Spec
CONSTANTS
    MaxFailures = 2
    InitialBackoff = 1
    MaxBackoff = 2
    MaxGeneration = 2
    Commands <- Command
    MaxDispatches = 2
    AppCanExit = FALSE
PROPERTY ForceKillSticks
