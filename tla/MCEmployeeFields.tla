-------------------------- MODULE MCEmployeeFields --------------------------
(* Two fields, one tab, one role; a text field, and a choice on the tab. *)
EXTENDS EmployeeFields, TLC

CONSTANTS f1, f2, t1, hr, c1, c2, c3

MCFields == {f1, f2}
MCEdits == {c1, c2, c3}
Text == [type |-> "text", section |-> Builtin, required |-> FALSE, options |-> {},
         visible |-> {}, editable |-> {}]
MCFieldForms ==
    {Text,
     [Text EXCEPT !.type = "select", !.options = {"y"}, !.required = TRUE],
     [Text EXCEPT !.type = "select", !.section = t1, !.options = {"x"}, !.editable = {hr}]}
MCTabForms == {[active |-> TRUE, visible |-> {}], [active |-> TRUE, visible |-> {hr}]}
MCOrders == {<<f1, f2>>, <<f2, f1>>}
Symmetry == Permutations(MCEdits) \cup Permutations(MCFields)
=============================================================================
