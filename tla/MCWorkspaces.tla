----------------------------- MODULE MCWorkspaces -----------------------------
(* Workspaces with two workspaces: the default one and one more. *)
EXTENDS Workspaces

CONSTANTS default, work
MCOrder == <<default, work>>
=============================================================================
