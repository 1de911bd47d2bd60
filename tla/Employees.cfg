SPECIFICATION Spec
CONSTANTS
  e1 = e1
  e2 = e2
  admin = admin
  c1 = c1
  c2 = c2
  c3 = c3
  Seeded = {e1, e2}
  Accounts = {admin}
  Actor = admin
  Numbers = {"EMP-1", "EMP-2", "EMP-TEST-1"}
  TestNumbers = {"EMP-TEST-1"}
  InitialNumber <- MCInitialNumber
  Calls = {c1, c2, c3}
  None = None
SYMMETRY MCSymmetry
CHECK_DEADLOCK FALSE
INVARIANTS
    NothingIsLeftBehind
    ScreensFollowRecords
PROPERTIES
    ProtectedHistorySurvives
