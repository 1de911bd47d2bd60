-------------------------- MODULE MCPayrollWorkflow --------------------------
(***************************************************************************)
(* Small instances of PayrollWorkflow and its pages.  One period is        *)
(* enough: no transaction touches two.  Payslip ids, employees and amounts *)
(* are interchangeable.                                                    *)
(***************************************************************************)
EXTENDS PayrollScreens, TLC

Interchangeable ==
    Permutations(Slips) \cup Permutations(Employees) \cup Permutations(Amounts)
=============================================================================
