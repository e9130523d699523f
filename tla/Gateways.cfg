SPECIFICATION Spec
CONSTANTS
    Requests <- McRequests
    Configs <- McConfigs
    ManifestKey = "issuerKey"
    Behaviours <- McBehaviours
    GrantTtl = 1
    MaxCalls = 2
CHECK_DEADLOCK FALSE
INVARIANTS
    TypeOK
    GoCommitsArgumentsOnce
    CommitLeavesTrace
    TypeScriptClosesGrants
    GatewaysAgree
    EffectsAsPublished
