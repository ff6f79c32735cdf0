SPECIFICATION Spec
CONSTANTS
    Requests <- MCRequests
    Models <- MCModels
INVARIANTS
    InputsSupported
    DocumentedPartsSent
    AskedWithinBounds
