\* Every call that keeps memory and database together, one store failure.
CONSTANTS
    t1 = t1
    t2 = t2
    c1 = c1
    c2 = c2
    None = None
    Value = {0, 1}
    Client = {c1, c2}
    Terminal = {t1, t2}
    Restored = {t1}
    Operations = {"create", "rename", "delete", "archive", "close"}
    ArchiveCancels = FALSE
    MaxCalls = 3
    MaxReservations = 11
    MaxFailures = 1
    MaxRestarts = 0
SPECIFICATION SafetySpec
SYMMETRY Clients
INVARIANTS
    UnlockedMemoryIsStored
    ExitIsRecorded
    CloseInv
    LifecycleInv
PROPERTIES
    NoStaleWrite
\* The system may stop: every call returned, nobody calls again.
CHECK_DEADLOCK FALSE
