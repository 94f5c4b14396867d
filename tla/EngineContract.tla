--------------------------- MODULE EngineContract ---------------------------
(***************************************************************************)
(* What the core expects of an engine behind engine::BrowserEngine         *)
(* (src/src/engine/browser_engine.h), with no asynchrony at all: a command *)
(* has its whole effect before the call returns.  The core tests run over  *)
(* an engine of this kind.  The Chromium engine, where creating and        *)
(* closing take time, is module CefEngineOps.                              *)
(*                                                                         *)
(* An engine is a record                                                   *)
(*   surfaces  the tabs that have a page behind them                       *)
(*   shown     the tab whose page is visible, or NoTabId                   *)
(*   asleep    the tabs told to suspend                                    *)
(***************************************************************************)
EXTENDS TabTypes

EngineStates ==
  [surfaces: SUBSET TabIds, shown: TabIds \cup {NoTabId}, asleep: SUBSET TabIds]

ContractInit == [surfaces |-> {}, shown |-> NoTabId, asleep |-> {}]

ContractCreate(e, t, tab) == [e EXCEPT !.surfaces = @ \cup {t}]

ContractClose(e, t) ==
  [surfaces |-> e.surfaces \ {t},
   shown    |-> IF e.shown = t THEN NoTabId ELSE e.shown,
   asleep   |-> e.asleep \ {t}]

ContractActivate(e, t) == IF t \in e.surfaces THEN [e EXCEPT !.shown = t] ELSE e

ContractSuspend(e, t) ==
  [e EXCEPT !.asleep = IF t \in e.surfaces THEN @ \cup {t} ELSE @]

ContractResume(e, t) == [e EXCEPT !.asleep = @ \ {t}]

\* Navigate, GoBack, GoForward and Reload act inside the page: they answer later,
\* with the navigation events of the session.
ContractNavigate(e, t, url) == e
=============================================================================
