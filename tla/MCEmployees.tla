---------------------------- MODULE MCEmployees ----------------------------
EXTENDS EmployeeScreens, TLC

CONSTANTS e1, e2, admin, c1, c2, c3

MCInitialNumber == e1 :> "EMP-1" @@ e2 :> "EMP-TEST-1"
MCSymmetry == Permutations({c1, c2, c3})
=============================================================================
