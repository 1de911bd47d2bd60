SPECIFICATION Spec
CONSTANTS
    Periods = {p1}
    Employees = {e1, e2}
    Slips = {s1, s2, s3, s4}
    Dates = {d1, d2}
    Amounts = {a1, a2}
    NotIncluded = NotIncluded
    NoSlip = NoSlip
    NoDate = NoDate
SYMMETRY Interchangeable
CHECK_DEADLOCK FALSE
INVARIANTS
    ScreensFollowWorkflow
    PayrollConsistent
PROPERTIES
    SubmittedPayIsFrozen
    PayslipsOnlyMoveForward
