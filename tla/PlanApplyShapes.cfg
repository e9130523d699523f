SPECIFICATION Spec
CONSTANTS
    Calls = {c1, c2}
    Plans <- ShapePlans
    StepsOf <- ShapeSteps
    Subjects = {alice, bob}
    PlanTtl = 1
    GrantTtl = 1
    MaxClock = 2
    None = None
SYMMETRY Symmetry
CHECK_DEADLOCK FALSE
INVARIANTS
    TypeOK
    DiffBeforeCommit
    DeniedStaysDenied
    AuditTrail
    ResultsTruthful
PROPERTIES
    ImplementsLedger
