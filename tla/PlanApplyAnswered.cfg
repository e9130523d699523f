SPECIFICATION FairSpec
CONSTANTS
    Calls = {c1, c2}
    Plans <- ShapePlans
    StepsOf <- ShapeSteps
    Subjects = {alice}
    PlanTtl = 0
    GrantTtl = 1
    MaxClock = 1
    None = None
CHECK_DEADLOCK FALSE
PROPERTIES
    Answered
