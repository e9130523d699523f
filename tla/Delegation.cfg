SPECIFICATION Spec
CONSTANTS
    Providers <- McProviders
    AudienceOf <- McAudiences
    ScopeOf <- McScopes
    Plans <- McPlans
    Misbinds <- McMisbinds
    MaxSubGrants = 2
CHECK_DEADLOCK FALSE
INVARIANTS
    TypeOK
    NeverWidens
    CredentialsStayHome
    TrailExplains
    SuccessIsComplete
