SPECIFICATION WorkspaceSpec
CONSTANTS
    None = None
    Terminals = {1, 2, 3}
    Cwd <- MCCwd
    Activities = {"terminal", "waiting"}
    Attentions = {FALSE, TRUE}
    OtherSources <- MCOtherSources
    MaxEdits = 2
    MaxChanges = 2
    MaxOthers = 1
    MaxSteps = 5
    Bad = Bad
    Keys = {1, 2}
    Sizes = {1, 2}
    MaxSaves = 2
    MaxFormEdits = 3
    MaxRefusals = 1
    Panes = {1, 2, 3}
    MaxCapacity = 3
    MaxCached = 1
    MaxSelections = 5
    Projects = {1, 2, 3}
    Grouped = {1, 2, 3, 4}
    ProjectOf <- MCProjectOf
    MaxDrags = 5
    MaxTrouble = 1
    AgentSessions = {1, 2}
    MaxResumes = 2
    MaxActions = 2
    MaxLapses = 1
    Shells = {"t1", "t2"}
    StatusOf <- MCStatusOf
    Searches <- MCSearches
    RecentLimit = 2
    MaxGestures = 4
    MaxMishaps = 1
CHECK_DEADLOCK FALSE
 
PROPERTIES
    PredictionHolds
