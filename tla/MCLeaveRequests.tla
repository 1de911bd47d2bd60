--------------------------- MODULE MCLeaveRequests ---------------------------
(***************************************************************************)
(* Small instances of LeaveRequests: one employee and one leave type, so   *)
(* that every request competes for the same rows; days 1 and 2 end one     *)
(* year and day 3 begins the next, so that a request may span two years.   *)
(***************************************************************************)
EXTENDS LeaveScreens

CONSTANTS ana, annual, hr, anasUser, r1, r2, r3, c1, c2

MCYearOf == [d \in Days |-> IF d <= 2 THEN 2025 ELSE 2026]
MCDefaultAllowance == [t \in LeaveTypes |-> 3]
MCUserOf == [e \in Employees |-> anasUser]
MCAdjustments == {-1, 0}
=============================================================================
