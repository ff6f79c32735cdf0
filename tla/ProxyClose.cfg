SPECIFICATION Spec
CONSTANTS
    Pipelines <- MCPipelines
    Accounts <- MCAccounts
    Limit = 3
    MaxFrames = 2
INVARIANT UpstreamCloseForwarded
