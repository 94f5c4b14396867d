------------------------------ MODULE TabTypes ------------------------------
(* The identity of a tab, shared by the session and by every engine. *)
CONSTANTS
  TabIds,    \* ids a tab can have, the generated ones included
  NoTabId    \* std::nullopt where an optional<TabId> is expected

ASSUME NoTabIdAssumption == NoTabId \notin TabIds
=============================================================================
