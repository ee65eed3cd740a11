SPECIFICATION Spec
CONSTANTS
    Terminals = {1, 2, 3, 4}
    Existing = {1, 2, 3}
    SidebarOrder <- MCSidebarOrder
    UserChoices <- MCUserChoices
    OtherChoices <- MCOtherChoices
    None = None
    MaxEdits = 2
    MaxSteps = 3
    MaxActs = 2
    MaxEvents = 2
    MaxAnswers = 1
CHECK_DEADLOCK FALSE
 
PROPERTIES
    EditsReachServer
    CorrectionKeepsOthers
    Converges
