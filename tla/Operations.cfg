SPECIFICATION MCSpec
CONSTANTS
    Keys = {local, external}
    External = {external}
    Bodies = {b1, b2}
    Requests = {r1, r2, r3}
    InFlight = 1
    MaxTime = 2
    Callers = {r1, r2, r3}
    Takeovers = {t1, t2}
    ReplayCalls = {p1, p2}
    None = None
SYMMETRY Symmetry
CHECK_DEADLOCK FALSE
INVARIANTS
    EffectOncePerKey
    SuccessIsTheEffect
    OriginalOnce
    OneRun
PROPERTIES
    KeyPromise
