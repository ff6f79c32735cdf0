SPECIFICATION LedgerSpec
CONSTANTS
    k1 = k1
    s1 = s1
    t1 = t1
    t2 = t2
    Keys = {k1}
    Scopes = {s1}
    NoScope = NoScope
    Tasks = {t1, t2}
    NoTask = NoTask
    NoLimit = NoLimit
    Unpriced = Unpriced
    KeyLimit <- MCKeyLimit1
    ScopesLimit <- MCScopesLimit1
    Kind <- MCDayKind1
    DaysPerMonth = 2
    Amounts <- MCAmounts
    Costs <- MCCosts
    ClientLimits <- MCClientLimits
    UniqueTasks = TRUE
    MaxHolds = 3
    MaxDay = 1
INVARIANTS
    LedgerInv
    WithinKeyBudget
    WithinScopeBudget
PROPERTIES
    PastPeriodsClose
    AccountsKept
