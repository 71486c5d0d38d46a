SPECIFICATION MCFairSpec
CONSTANTS
    Readers = {x1, x2}
    Writers = {w1}
    Fences = {f1}
    Pool = 2
    Failures = 1
    Calls = {c1, c2, c3}
    Tenants = {t1}
    Signals = {s1, s2}
    Limit = 1
    PerWindow = 3
    Window = 2
    MaxAttempts = 1
    Fixed = TRUE
    Backoff = 1
    AttemptTime = 1
    TotalTime = 2
    Threshold = 2
    ResetAfter = 2
    MaxTime = 1
    Users = {u1, u2}
    Sessions = {c1, c2, c3}
    SessionTenants = {t1}
    TotalLimit = 2
    TenantLimit = 2
    ActorLimit = 1
    MaxCloses = 1
    None = None
CHECK_DEADLOCK FALSE
PROPERTIES
    FencesAreGranted
    WaitersProceed
    RoomReturns
