SPECIFICATION FairSpec
CONSTANTS
    j1 = j1
    j2 = j2
    w1 = w1
    w2 = w2
    k1 = k1
    known = known
    unknown = unknown
    None = None
    Jobs = {j1}
    Workers = {w1, w2}
    Tokens <- MCTokens
    Kinds = {known, unknown}
    Handled = {known}
    Keys = {}
    Budgets <- MCBudgets
    Sweeping = TRUE
    SessionsDrop = TRUE
INVARIANTS
    TypeOK
    AppliedAtMostOnce
PROPERTIES
    StaleHolderIsInert
    ImplementsLifecycle
    EventuallySettled
