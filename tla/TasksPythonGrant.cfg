SPECIFICATION Spec
CONSTANTS
    Ids = {t1, t2}
    Grants = {g1, g2}
    Subjects = {alice, bob}
    MaxClock = 1
    MaxReused = 1
    None = None
SYMMETRY Symmetry
CHECK_DEADLOCK FALSE
INVARIANTS
    PythonRevokesGrant
