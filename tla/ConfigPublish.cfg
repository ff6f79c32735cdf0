SPECIFICATION FairSpec
CONSTANTS
    e1 = e1
    e2 = e2
    e3 = e3
    Edits = {e1, e2, e3}
    Replaces <- MCReplaces
    Persistent = TRUE
    MaxCancels = 1
    MaxRevision = 2
CHECK_DEADLOCK FALSE
INVARIANTS
    ConfigInv
    DiskMatchesRuntime
    EditsAllOrNothing
PROPERTIES
    EditsAnswered
