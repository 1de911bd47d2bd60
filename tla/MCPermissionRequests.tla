------------------------ MODULE MCPermissionRequests ------------------------
(***************************************************************************)
(* Two employees of whom one is also a reviewer, a second reviewer, and    *)
(* three calls at a time on one request: calls on different requests share *)
(* no row.                                                                 *)
(***************************************************************************)
EXTENDS PermissionScreens

CONSTANTS ana, budi, anasUser, budisUser, hr

MCUserOf == [e \in Staff |-> IF e = ana THEN anasUser ELSE budisUser]
=============================================================================
