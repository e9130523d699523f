SPECIFICATION Spec
CONSTANTS
    Calls = {c1, c2, c3, c4}
    Plans <- RacePlans
    StepsOf <- RaceSteps
    Subjects = {alice, bob}
    PlanTtl = 0
    GrantTtl = 1
    MaxClock = 1
    None = None
SYMMETRY Symmetry
CHECK_DEADLOCK FALSE
INVARIANTS
    ConsentBeforeWrite
PROPERTIES
    ImplementsLedger
