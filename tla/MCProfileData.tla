---------------------------- MODULE MCProfileData ----------------------------
(* ProfileData with one persistent tab in each of two workspaces. *)
EXTENDS ProfileData

CONSTANTS t1, t2, p, default, work, dark, light
MCWorkspaceOf == [t \in AllTabs |-> IF t = t2 THEN work ELSE default]
MCLooks == <<dark, light>>
=============================================================================
