-------------------------- MODULE MCFaceTemplates --------------------------
(* Two employees and two users, one of them enrolling a colleague. *)
EXTENDS FaceTemplates, TLC

CONSTANTS e1, e2, u1, u2, c1, c2, c3

MCPersonnel == {e1, e2}
MCOwn == u1 :> e1 @@ u2 :> e2
MCTasks == {c1, c2, c3}
Symmetry == Permutations(MCTasks)
=============================================================================
