\* One plugin, saved three times while the configuration is edited twice and
\* the host stops; the configuration may give the id to a second entry.  Two
\* calls with a sound menu and one the shell refuses, a shell that attaches at
\* any time, two changes of the phase and one fault.
SPECIFICATION MCSpec
CONSTANTS
    Objects = 2
    MaxSaves = 3
    MaxEdits = 2
    Contents = {a, r}
    Refused = {r}
    Nothing = Nothing
    Phases = {"Stopped", "Ready"}
    FirstPhase = "Stopped"
    MaxCalls = 2
    MaxTurns = 2
    MaxFaults = 1
INVARIANTS
    PluginRunsOnce
    NoSilentDeath
    LastSaveIsTried
    ClosedIsQuiet
    LastCallWins
    PushedIsHeld
    MenuIsCurrent
PROPERTIES
    CloseEnds
    CallsAreAnswered
CHECK_DEADLOCK FALSE
