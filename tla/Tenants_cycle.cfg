SPECIFICATION MCSpec
CONSTANTS
    Parts = {"units"}
    Callers = {c1, c2}
    Names = {n1, n2}
    Ops = {"provision", "suspend", "activate", "rename", "reapply"}
    MaxIds = 3
    Aliases = {a1, a2}
    ScopeCallers = {s1}
    Other = Other
    Drifts = {"organization", "scope", "default", "entry"}
    Units = {u1, u2, u3, u4}
    Writers = {w1, w2}
    MaxDepth = 4
    Top = Top
    None = None
SYMMETRY UnitSymmetry
CHECK_DEADLOCK FALSE
INVARIANTS Acyclic
