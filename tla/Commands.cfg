SPECIFICATION Spec
CONSTANTS
    Templates <- McTemplates
    Params <- McParams
    Sandboxes <- McSandboxes
    MaxChanges = 1
CHECK_DEADLOCK FALSE
INVARIANTS
    TypeOK
    StaysInSandbox
    VerdictsAreExact
    ModesDifferAsKnown
