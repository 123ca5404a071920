SPECIFICATION FairTraySpec
CONSTANTS
    Contents = {a, r}
    Refused = {r}
    Nothing = Nothing
    Phases = {"Stopped", "Ready"}
    FirstPhase = "Stopped"
    MaxCalls = 2
    MaxTurns = 2
    MaxFaults = 1
INVARIANT MenuCatchesUp
CHECK_DEADLOCK FALSE
