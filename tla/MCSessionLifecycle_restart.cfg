\* Creation and removal over crashes, failures and cancelled archives.
CONSTANTS
    t1 = t1
    t2 = t2
    c1 = c1
    c2 = c2
    None = None
    Value = {0, 1}
    Client = {c1, c2}
    Terminal = {t1, t2}
    Restored = {t1}
    Operations = {"create", "delete", "archive"}
    ArchiveCancels = TRUE
    MaxCalls = 3
    MaxReservations = 11
    MaxFailures = 1
    MaxRestarts = 2
SPECIFICATION SafetySpec
SYMMETRY Clients
INVARIANTS
    DeletedStaysDeleted
\* The system may stop: every call returned, nobody calls again.
CHECK_DEADLOCK FALSE
