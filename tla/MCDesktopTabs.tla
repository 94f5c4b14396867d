---------------------------- MODULE MCDesktopTabs ----------------------------
(* DesktopTabs with one numbered id, one restored id and one page address. *)
EXTENDS DesktopTabs

CONSTANTS initial, t2, r1, u, ntp, blank, example
MCRestoredId == <<r1>>
OneNumberedId == 2 :> t2
=============================================================================
