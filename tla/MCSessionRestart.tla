-------------------------- MODULE MCSessionRestart --------------------------
(* SessionRestart with ids written as tuples of the parts of their names. *)
EXTENDS SessionRestart

CONSTANTS initial, tnew, r1, u, ntp, blank, example

MCItemId(t, k) == <<t, k>>
MCFocusTabId(item, k) == <<item, k>>
MCItemIds == {<<initial, 1>>, <<tnew, 1>>, <<tnew, 2>>}
MCTabIds == {initial, tnew, r1} \cup (MCItemIds \X {0, 1})
MCRestoredId == <<r1>>
=============================================================================
