SPECIFICATION Spec
CONSTANTS
    Periods = {p1}
    Employees = {e1, e2}
    Slips = {s1, s2}
    Dates = {d1}
    Amounts = {a1, a2}
    Keys = {k1, k2, k3}
    Jobs = {j1, j2}
    MaxVersions = 2
    MaxUnheard = 1
    Answers = {TRUE, FALSE}
    NotIncluded = NotIncluded
    NoSlip = NoSlip
    NoDate = NoDate
    NoDocument = NoDocument
    Uploaded = Uploaded
SYMMETRY Interchangeable
CHECK_DEADLOCK FALSE
INVARIANTS
    DocumentsConsistent
    FilesFollowDocuments
PROPERTIES
    HistoryIsAppendOnly
    ImplementsWorkflow
