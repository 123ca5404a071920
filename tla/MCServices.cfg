\* Each part with the bounds the documentation gives for it.
SPECIFICATION MCSpec
CONSTANTS
    Ids <- MCIds
    CorePrefixed <- MCCorePrefixed
    HostPrefixed <- MCHostPrefixed
    Commands <- MCCommands
    Labels <- MCLabels
    Payloads <- MCPayloads
    Samples <- MCSamples
    MaxGroups = 3
    MaxItems = 16
    MaxDepth = 2
    MaxArgs = 16
    MaxInteger = 5
    MaxFailures = 1
    Carriers <- MCCarriers
    Directories <- MCDirectories
    Offsets = {0, 1, 3}
    Batches = {0, 1, 2}
    Preview = 2
    Chunks = 2
    Files = {0, 2}
    Errnos = {"ENOSPC", "ELOOP"}
    MaxFiles = 3
    MaxDeeds = 2
    Chords = {"K"}
    NoChord = "none"
    MaxCalls = 2
    MaxGenerations = 2
    MaxMeddling = 1
    MaxPresses = 1
    Values = {"starting", "ready"}
    First = "starting"
    MaxChanges = 2
    MaxMounts = 2
    Machines <- MCMachines
    Environments <- MCEnvironments
    Scripts <- MCScripts
    MaxExtraEntries = 2
    Requests <- MCRequests
    PanelRequests <- MCPanelRequests
    MaxSchemeLen = 3
    MaxRequests = 2
    MaxPanel = 1
    MaxOutside = 1
    Actions <- MCActions
    MaxActs = 4
INVARIANTS
    MenusAreSound
    WritesGoOn
    DoneIsWhole
    WatchIsFaithful
    BoundIsRouted
    MirrorFollowsTheOs
    NothingPublishedIsMissed
    StartIsHonest
    WindowObeys
    VerdictsAreTrue
CHECK_DEADLOCK FALSE
