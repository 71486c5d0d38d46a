SPECIFICATION InboundSpec
CONSTANTS
    j1 = j1
    w1 = w1
    w2 = w2
    k1 = k1
    known = known
    unsafe = unsafe
    safe = safe
    None = None
    Jobs = {j1}
    Workers = {w1, w2}
    Tokens <- MCTokens
    Kinds = {known}
    Handled = {known}
    Keys = {k1}
    Budgets <- MCOneAttempt
    Sweeping = FALSE
    SessionsDrop = TRUE
    Contracts = {safe}
    Safe = {safe}
    Writes = {safe}
    RequeueBound = 1
SYMMETRY MCSymmetry
INVARIANTS
    DeliveredWithJob
PROPERTIES
    ImplementsReceipts
