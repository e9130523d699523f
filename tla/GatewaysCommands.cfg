SPECIFICATION Spec
CONSTANTS
    Requests <- McRequests
    Configs <- McConfigs
    ManifestKey = "issuerKey"
    Behaviours <- McBehaviours
    GrantTtl = 1
    MaxCalls = 1
CHECK_DEADLOCK FALSE
INVARIANTS
    CommandManifestsVerify
