\* One rotation of the key; three requests overlap.
SPECIFICATION FaceSpec
CONSTANTS
    e1 = e1
    e2 = e2
    u1 = u1
    u2 = u2
    c1 = c1
    c2 = c2
    c3 = c3
    Null = Null
    Personnel <- MCPersonnel
    Users = {u1, u2}
    OwnEmployee <- MCOwn
    Tasks <- MCTasks
    Rotations = 1
    MaxAttempts = 1
    MaxEntries = 1
    Charges = 2
SYMMETRY Symmetry
CHECK_DEADLOCK FALSE
INVARIANTS
    TemplatesConsistent
PROPERTIES
    OnlyReplacedOnRequest
