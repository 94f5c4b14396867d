---------------------------- MODULE CefEngineOps ----------------------------
(***************************************************************************)
(* desktop::CefBrowserEngine, the engine over Chromium                     *)
(* (src/apps/desktop/cef_browser_engine.cpp), as operators on its state.   *)
(* Nothing here takes effect at once: a view is created now and its        *)
(* browser appears later, a browser is asked to close now and is gone      *)
(* later, and its events arrive in between.                                *)
(*                                                                         *)
(* An engine is a record                                                   *)
(*   phase      the surface of a tab: "absent" from surfaces_, "pending"   *)
(*              when it has a view and no browser yet, "live", "closing"   *)
(*   queued     queued_navigation of a surface                             *)
(*   context    the request context its page was created in: Profile, or   *)
(*              the number of the ephemeral context                        *)
(*   visible    the tabs whose view is visible                             *)
(*   active     active_tab_id_                                             *)
(*   live       live_browser_count_                                        *)
(*   private    is_ephemeral_mode_                                         *)
(*   contexts   how many ephemeral contexts have been created              *)
(*   shared     the number of ephemeral_context_, or Profile when it is    *)
(*              null                                                       *)
(*   prompts    pending_prompts_: prompt ids and the tabs that asked       *)
(*   closeAsked, destroyed, quit                                           *)
(*              window_close_requested_, window_destroyed_,                *)
(*              message_loop_quit_requested_                               *)
(***************************************************************************)
EXTENDS TabTypes, Integers, FiniteSets

CONSTANTS NoAddress   \* an empty optional where an address is expected

Phases == {"absent", "pending", "live", "closing"}
Profile == 0

CefInit ==
  [phase |-> [t \in TabIds |-> "absent"], queued |-> [t \in TabIds |-> NoAddress],
   context |-> [t \in TabIds |-> Profile], visible |-> {}, active |-> NoTabId,
   live |-> 0, private |-> FALSE, contexts |-> 0, shared |-> Profile, prompts |-> {},
   closeAsked |-> FALSE, destroyed |-> FALSE, quit |-> FALSE]

\* A surface commands still act on.
Usable(e, t) == e.phase[t] \in {"pending", "live"}
HasBrowser(e, t) == e.phase[t] \in {"live", "closing"}

-----------------------------------------------------------------------------
\* GetOrCreateRequestContext for a page of one privacy mode.
ContextFor(e, eph) ==
  CASE ~eph /\ ~e.private -> Profile
    [] (eph \/ e.private) /\ e.shared # Profile -> e.shared
    [] OTHER -> e.contexts + 1

\* A surface that exists is left alone, even one that is closing.
CefCreate(e, t, tab) ==
  LET ctx == ContextFor(e, tab.eph)
  IN  IF e.destroyed \/ e.phase[t] # "absent" THEN e
      ELSE [e EXCEPT !.phase[t] = "pending", !.queued[t] = NoAddress, !.context[t] = ctx,
                     !.contexts = IF ctx > @ THEN ctx ELSE @,
                     !.shared = IF ctx = Profile THEN @ ELSE ctx]

DismissPromptsOf(e, t) == [e EXCEPT !.prompts = {p \in @ : p.tab # t}]

\* Mutant: the closing tab stays the engine's active one.
CloseKeepsActive(e, t) ==
  IF ~Usable(e, t) THEN e
  ELSE [DismissPromptsOf(e, t) EXCEPT
          !.visible = @ \ {t},
          !.phase[t] = IF e.phase[t] = "live" THEN "closing" ELSE "absent"]

\* A view without a browser goes at once, a browser is asked to close.
CefClose(e, t) ==
  IF ~Usable(e, t) THEN e
  ELSE [DismissPromptsOf(e, t) EXCEPT
          !.visible = @ \ {t},
          !.active = IF @ = t THEN NoTabId ELSE @,
          !.phase[t] = IF e.phase[t] = "live" THEN "closing" ELSE "absent"]

CefActivate(e, t) ==
  IF ~Usable(e, t) THEN e
  ELSE [e EXCEPT !.visible = (@ \ {e.active}) \cup {t}, !.active = t]

CefNavigate(e, t, url) ==
  IF e.phase[t] # "pending" THEN e ELSE [e EXCEPT !.queued[t] = url]

CefSuspend(e, t) == IF Usable(e, t) THEN [e EXCEPT !.visible = @ \ {t}] ELSE e

CefResume(e, t) ==
  IF Usable(e, t) /\ e.active = t THEN [e EXCEPT !.visible = @ \cup {t}] ELSE e

SetEphemeralMode(e, enabled) == [e EXCEPT !.private = enabled]
PurgeEphemeralContext(e) == [e EXCEPT !.shared = Profile]

-----------------------------------------------------------------------------
\* Mutants: the queued address stays after it was loaded; the browser is not counted.
CreatedKeepsQueue(e, t) ==
  IF e.phase[t] # "pending" THEN e ELSE [e EXCEPT !.phase[t] = "live", !.live = @ + 1]
CreatedUncounted(e, t) ==
  IF e.phase[t] # "pending" THEN e
  ELSE [e EXCEPT !.phase[t] = "live", !.queued[t] = NoAddress]

\* CEF made the browser of a view.
NotifyBrowserCreated(e, t) ==
  IF e.phase[t] # "pending" THEN e
  ELSE [e EXCEPT !.phase[t] = "live", !.live = @ + 1, !.queued[t] = NoAddress]

MaybeQuitAfterClose(e) ==
  IF e.closeAsked /\ e.destroyed /\ e.live = 0 THEN [e EXCEPT !.quit = TRUE] ELSE e

\* Mutant: a browser that goes after the window does not end the message loop.
GoneWithoutQuit(e, t) ==
  IF e.phase[t] = "absent" THEN e
  ELSE [e EXCEPT !.phase[t] = "absent", !.visible = @ \ {t},
                 !.live = IF HasBrowser(e, t) /\ @ > 0 THEN @ - 1 ELSE @,
                 !.active = IF @ = t THEN NoTabId ELSE @]

\* CEF destroyed the browser of a tab (OnBeforeClose).
NotifyBrowserBeforeClose(e, t) ==
  MaybeQuitAfterClose(
    IF e.phase[t] = "absent" THEN e
    ELSE [e EXCEPT !.phase[t] = "absent", !.visible = @ \ {t},
                   !.live = IF HasBrowser(e, t) /\ @ > 0 THEN @ - 1 ELSE @,
                   !.active = IF @ = t THEN NoTabId ELSE @])

\* Mutant: every close of a browser goes on to the window.
NeverSuppress(e) == FALSE

ShouldSuppressTopLevelCloseForTab(e) == ~e.closeAsked

BeginWindowClose(e) == [e EXCEPT !.closeAsked = TRUE]

NotifyWindowDestroyed(e) == MaybeQuitAfterClose([e EXCEPT !.destroyed = TRUE])
=============================================================================
