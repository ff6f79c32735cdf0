SPECIFICATION FairSpec
CONSTANTS
    c1 = c1
    c2 = c2
    Watcher = Watcher
    NoHolder = NoHolder
    None = None
    Off = off
    off = off
    on = on
    Clients = {c1, c2}
    Settings = {off, on}
    MaxCommit = 2
    MaxEdits = 2
    MaxCrashes = 1
    MayCancel = {c1}
CHECK_DEADLOCK FALSE
INVARIANTS
    PackagesKept
PROPERTIES
    ChangesSeenRecord
    EditsPickedUp
