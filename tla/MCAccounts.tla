----------------------------- MODULE MCAccounts -----------------------------
(***************************************************************************)
(* Two super administrators, an administrator, an employee and one account *)
(* still to be created; an organization without anything, whose creation   *)
(* left no entry, and one still to be created; two overlapping calls.      *)
(***************************************************************************)
EXTENDS AccountScreens, TLC

CONSTANTS otherRecord, vacant

MCSeeded == SystemOrganization :> "SYSTEM" @@ tenant :> "TENANT" @@ vacant :> "VACANT"
MCEmployeeOrganization == [e \in Employees |-> tenant]

Interchangeable == Permutations(Calls) \cup Permutations({rootA, rootB})
=============================================================================
