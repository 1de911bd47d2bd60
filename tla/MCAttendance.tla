----------------------------- MODULE MCAttendance -----------------------------
(***************************************************************************)
(* Two calls at a time; which of them is which does not matter.  Day 0 is  *)
(* a Friday.                                                               *)
(***************************************************************************)
EXTENDS AttendanceViews, AttendanceRecap, TLC

Interchangeable == Permutations(Calls)

Employed(hire, terminated, resigned, leaves, permissions) ==
    [hire |-> hire, terminated |-> terminated, resigned |-> resigned,
     leaves |-> leaves, permissions |-> permissions]
Sick == [from |-> 0, to |-> 1, sick |-> TRUE]
Annual == [from |-> 0, to |-> 0, sick |-> FALSE]
Out == [from |-> 0, to |-> 1]

MCCircumstances ==
    {Employed(None, None, None, {}, {}), Employed(None, None, None, {Sick}, {Out}),
     Employed(0, 1, 0, {Annual}, {Out}), Employed(2, None, None, {}, {Out})}
=============================================================================
