-------------------------- MODULE MCAnnouncements --------------------------
(* Two employees, three overlapping calls, an administrator and an HR user. *)
EXTENDS Announcements, TLC

CONSTANTS e1, e2, c1, c2, c3

MCEmployees == {e1, e2}
MCCalls == {c1, c2, c3}
MCCallers == {Permissions, Permissions \ {"delete"}}
MCWindows == {[from |-> 0, until |-> 2]}
Symmetry == Permutations(MCCalls) \cup Permutations(MCEmployees)
=============================================================================
