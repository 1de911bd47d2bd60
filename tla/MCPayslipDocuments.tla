------------------------- MODULE MCPayslipDocuments -------------------------
(***************************************************************************)
(* Small instances of PayslipDocuments.  Ids, keys, jobs, employees and    *)
(* amounts are interchangeable.                                            *)
(***************************************************************************)
EXTENDS PayslipDocuments, TLC

Interchangeable == Permutations(Slips) \cup Permutations(Keys) \cup Permutations(Jobs)
                   \cup Permutations(Employees) \cup Permutations(Amounts)
=============================================================================
