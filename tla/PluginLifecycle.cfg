SPECIFICATION FairSpec
CONSTANTS
    p = p
    q = q
    p1 = p1
    p2 = p2
    q1 = q1
    r1 = r1
    r2 = r2
    m1 = m1
    m2 = m2
    Plugins = {p, q}
    Gens = {p1, p2, q1}
    NoGen = NoGen
    PluginOf <- MCPluginOf
    Started = {p1, q1}
    Requests = {r1, r2}
    Matching <- MCMatching
    Creates = {r1, r2}
    Mutations = {m1, m2}
    Target <- MCTarget
    NoMutation = NoMutation
    MayCancel = {r1, m1}
    Late = {r1, r2, m1}
CHECK_DEADLOCK FALSE
INVARIANTS
    PluginInv
    NeverClosedInUse
    LoadedAccountedFor
PROPERTIES
    RetiredClose
