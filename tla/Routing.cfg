SPECIFICATION Spec
CONSTANTS
    Worlds <- MCWorlds
    Requests <- MCRequests
    Profiles <- MCProfiles
    Rooms <- MCRooms
    DefaultOptimize = "balanced"
    AllowUnpriced = FALSE
    MaxTraffic = 1
INVARIANTS
    FallbackSound
PROPERTIES
    PlanSound
    ErrorSpecific
    EstimateHonest
    RegistryAgrees
