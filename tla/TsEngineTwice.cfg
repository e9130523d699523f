SPECIFICATION Spec
CONSTANTS
    Calls = {c1, c2}
    Plans <- TwicePlans
    StepsOf <- TwiceSteps
    Faults = {"throws", "unverified"}
    GrantTtl = 1
    MaxClock = 1
    User = alice
    None = None
CHECK_DEADLOCK FALSE
INVARIANTS
    TaintNeverAuthorizes
