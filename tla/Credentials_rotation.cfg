SPECIFICATION MCSpec
CONSTANTS
    Parts = {"rotation"}
    Grants = {g1, g2}
    Requests = {r1, r2, r3}
    MaxFailed = 2
    Window = 2
    LockTime = 1
    Ttl = 1
    Retain = 0
    UseLimits = {2}
    UseBound = 3
    MaxClock = 2
    Unlimited = Unlimited
    Integrations = {i1}
    Keys = {r1, r2, r3}
    Reconcilers = {g1, g2}
    MaxSecret = 4
    Callers = {g1, g2}
    Callbacks = {k1}
    Flows = {f1, f2}
    MaxSerial = 2
    MaxInst = 2
    RotationCallers = {c1}
    None = None
SYMMETRY Symmetry
CHECK_DEADLOCK FALSE
PROPERTIES RotationKeepsSecret
