SPECIFICATION Spec
CONSTANTS
    u1 = u1
    u2 = u2
    g1 = g1
    t1 = t1
    t2 = t2
    edit = edit
    remove = remove
    approve = approve
    None = None
    Users = {u1, u2}
    Targets = {g1}
    Ops = {edit, remove, approve}
    LeaseOps = {edit, remove, approve}
    ChallengeOps = {remove}
    Deletes = {remove}
    Invokes = {approve}
    Ttl = 3
    Stamps <- MCStamps
    Txs = {t1, t2}
SYMMETRY MCSymmetry
CHECK_DEADLOCK FALSE
INVARIANTS
    LeasedChangeOnLeasedContent
    ConfirmedChangeOnShownContent
    ControlsUsedOnce
PROPERTIES
    OnlyOwnerEndsLease
