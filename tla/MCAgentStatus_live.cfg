\* A published status follows Codex when interrupts come while the status is
\* settled and saves succeed.
CONSTANTS
    Hook = hook
    Viewer = viewer
    Writer = writer
    MaxTurns = 2
    MaxTools = 1
    MaxAsks = 2
    MaxInterrupts = 2
    MaxAcks = 1
    MaxSamples = 0
    MaxFailures = 0
    CalmInterrupts = TRUE
    PromptInstall = TRUE
SPECIFICATION Spec
PROPERTIES
    StatusFollowsCodex
\* Codex may stay idle, or wait for the user, for ever.
CHECK_DEADLOCK FALSE
