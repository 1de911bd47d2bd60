------------------------ MODULE MCPayrollComponents ------------------------
(***************************************************************************)
(* Two components, so that a percentage has a base; two calls, so that an  *)
(* assignment changes between a guard and a write.                         *)
(***************************************************************************)
EXTENDS PayrollComponents, TLC

Definable ==
    {[type |-> "earning", method |-> "fixed", default |-> 3],
     [type |-> "deduction", method |-> "percentage", default |-> 50],
     [type |-> "deduction", method |-> "manual", default |-> 0]}

Interchangeable == Permutations(Grants) \cup Permutations(Calls) \cup Permutations(Components)
=============================================================================
