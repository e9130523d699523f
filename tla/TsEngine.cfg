SPECIFICATION Spec
CONSTANTS
    Calls = {c1, c2, c3}
    Plans <- TsPlans
    StepsOf <- TsSteps
    Faults = {"throws", "unverified"}
    GrantTtl = 1
    MaxClock = 2
    User = alice
    None = None
SYMMETRY Symmetry
CHECK_DEADLOCK FALSE
INVARIANTS
    TypeOK
    BlockedNeverRuns
    AdmittedNeverChallenged
    AuditExplains
    GrantsAccounted
    PrefixApplied
PROPERTIES
    ImplementsLedger
