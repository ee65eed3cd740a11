\* Calls, exits and Close make progress, whatever single store call fails and
\* whatever archive is cancelled.
CONSTANTS
    t1 = t1
    t2 = t2
    c1 = c1
    c2 = c2
    None = None
    Value = {0, 1}
    Client = {c1, c2}
    Terminal = {t1, t2}
    Restored = {t1}
    Operations = {"create", "updateAgent", "delete", "archive", "close"}
    ArchiveCancels = TRUE
    MaxCalls = 2
    MaxReservations = 9
    MaxFailures = 1
    MaxRestarts = 0
SPECIFICATION Spec
PROPERTIES
    LifecycleProgresses
    
\* The system may stop: every call returned, nobody calls again.
CHECK_DEADLOCK FALSE
