SPECIFICATION Spec
CONSTANTS
    j1 = j1
    j2 = j2
    w1 = w1
    w2 = w2
    k1 = k1
    known = known
    unknown = unknown
    None = None
    Jobs = {j1, j2}
    Workers = {w1, w2}
    Tokens <- MCTokens
    Kinds = {known}
    Handled = {known}
    Keys = {k1}
    Budgets <- MCOneBudget
    Sweeping = TRUE
    SessionsDrop = FALSE
SYMMETRY MCSymmetry
INVARIANTS
    SingleLiveRun
    RunsWithinBudget
