\* Hooks, timers, pollers, keystrokes and failing saves in any order.
CONSTANTS
    Hook = hook
    Viewer = viewer
    Writer = writer
    MaxTurns = 1
    MaxTools = 1
    MaxAsks = 2
    MaxInterrupts = 1
    MaxAcks = 1
    MaxSamples = 1
    MaxFailures = 1
    CalmInterrupts = FALSE
    PromptInstall = FALSE
SPECIFICATION SafetySpec
INVARIANTS
    StatusInv
    NoOrphanWatch
PROPERTIES
    LatestHookWins
\* Codex may stay idle, or wait for the user, for ever.
CHECK_DEADLOCK FALSE
