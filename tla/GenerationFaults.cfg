SPECIFICATION FairSpec
CONSTANTS
    k1 = k1
    s1 = s1
    r1 = r1
    r2 = r2
    r3 = r3
    i1 = i1
    t1 = t1
    t2 = t2
    t3 = t3
    t4 = t4
    c1 = c1
    c2 = c2
    b1 = b1
    b2 = b2
    Keys = {k1}
    Scopes = {s1}
    NoScope = NoScope
    Tasks = {t1, t2, t3}
    NoTask = NoTask
    NoLimit = NoLimit
    Unpriced = Unpriced
    KeyLimit <- MCKeyLimit
    ScopesLimit <- MCScopesLimit
    Kind <- MCKind
    DaysPerMonth = 1
    Amounts = {1, 2}
    Costs = {1}
    ClientLimits = {NoLimit}
    UniqueTasks = TRUE
    MaxHolds = 4
    MaxDay = 0
    Requests = {r1, r2}
    NoRequest = NoRequest
    IdemScopes = {i1}
    NoIdem = NoIdem
    IdemScope <- MCIdemScope
    Body <- MCBodies
    KeyOf <- MCKeyOf
    BudgetScope <- MCBudgetScope
    ClientLimit <- MCClientLimit
    Offer <- MCOffer
    Estimate <- MCEstimate
    AllowUnpriced = FALSE
    RouteHooks = TRUE
    SyncWait = {r2}
    MayCancel = {r1}
    MayClose = TRUE
CHECK_DEADLOCK FALSE
INVARIANTS
    GenerationInv
    ChargedOnce
    OneGenerationPaid
PROPERTIES
    IdempotentCreates
    EveryCreateAnswered
    ReservationsEnd
