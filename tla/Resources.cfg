SPECIFICATION MCSpec
CONSTANTS
    Readers = {x1, x2}
    Writers = {w1}
    Fences = {f1, f2}
    Pool = 3
    Failures = 2
    Calls = {c1, c2, c3}
    Tenants = {t1, t2}
    Signals = {x1, x2}
    Limit = 1
    PerWindow = 2
    Window = 2
    MaxAttempts = 3
    Fixed = FALSE
    Backoff = 1
    AttemptTime = 1
    TotalTime = 4
    Threshold = 2
    ResetAfter = 2
    MaxTime = 3
    Users = {x1, x2}
    Sessions = {c1, c2, c3}
    SessionTenants = {t1, t2}
    TotalLimit = 2
    TenantLimit = 2
    ActorLimit = 1
    MaxCloses = 2
    None = None
SYMMETRY Symmetry
CHECK_DEADLOCK FALSE
INVARIANTS
    BarrierHolds
    SlotsAreAccounted
    CapacityIsAccounted
