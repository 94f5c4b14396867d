------------------------------ MODULE Workspaces ------------------------------
(***************************************************************************)
(* Workspaces: WorkspaceManager, the TabStrip that keeps the active        *)
(* workspace and the active tab together, the shell's tab commands and     *)
(* SessionPrivacyOrchestrator as they move between workspaces, the Aura    *)
(* sidebar that selects them, and a restart from what was saved.           *)
(*                                                                         *)
(* Two parties lead in turn: a workspace command picks the tab to show,    *)
(* and a tab that comes up by any other way picks the workspace.  Every    *)
(* change of the session runs the observers, the tab strip first and the   *)
(* recorder of the session last.  Presses on the strip and on the sidebar  *)
(* are posted and handled later.                                           *)
(*                                                                         *)
(* A tab is reduced to its workspace and its privacy mode: no tab of the   *)
(* program is ever discarded, and BrowserSession.tla has the rest.  Ids    *)
(* are numbers that are never reused; PrivateMode.tla has the counters.    *)
(***************************************************************************)
EXTENDS SeqFilter, SequencesExt

CONSTANTS
  Order,        \* the workspaces as ListWorkspaces ranks them
  Default,      \* the workspace of a tab that names none
  NoWorkspace,  \* an empty workspace_id
  MaxClosed,    \* capacity of the session's list of closed tabs
  MaxTurns,     \* bound on what the user does
  MaxPosted,    \* bound on presses that wait to be handled
  MaxRuns       \* bound on launches

WorkspaceIds == {Order[i] : i \in DOMAIN Order}
NoTab == 0
SidebarStates == {"compact", "expanded", "hidden"}

ASSUME OrderAssumption == Order \in Seq(WorkspaceIds) /\ Order # <<>> /\ Default = Order[1]
ASSUME NoWorkspaceAssumption == NoWorkspace \notin WorkspaceIds

VARIABLES
  browser,  \* session, workspaces, tab strip and the files they are saved in
  sidebar,  \* AuraSidebar
  posted,   \* presses that wait for their UI task
  bounds    \* launches and user actions so far

vars == <<browser, sidebar, posted, bounds>>

(***************************************************************************)
(* browser is a record                                                     *)
(*   tabs, active, closed   the session: records [id, ws, eph], an id, and *)
(*                          records [ws, eph], oldest first                *)
(*   made                   how many tabs were ever opened                 *)
(*   current                active_workspace_id_                           *)
(*   private                whether the active profile is ephemeral        *)
(*   rows                   the tabs the strip lists                       *)
(*   marked                 the workspace the sidebar marks as active      *)
(*   disk                   active_workspace_id in workspaces.json, the    *)
(*                          session snapshot, the sidebar preference       *)
(***************************************************************************)
TabOf(b, id) == CHOOSE tab \in ToSet(b.tabs) : tab.id = id
IsOpen(b, id) == \E i \in DOMAIN b.tabs : b.tabs[i].id = id
PositionOf(b, id) == CHOOSE i \in DOMAIN b.tabs : b.tabs[i].id = id

Home(tab) == IF tab.ws = NoWorkspace THEN Default ELSE tab.ws

\* SessionPrivacyOrchestrator::IsTabVisible, and CanActivateTab which is the same test.
IsTabVisible(b, tab) == tab.eph = b.private

IsTabVisibleInCurrentContext(b, tab) == Home(tab) = b.current /\ IsTabVisible(b, tab)

Listed(b) == Kept(b.tabs, {tab \in ToSet(b.tabs) : IsTabVisibleInCurrentContext(b, tab)})
Persistent(b) == Kept(b.tabs, {tab \in ToSet(b.tabs) : ~tab.eph})
Ephemeral(b) == Kept(b.tabs, {tab \in ToSet(b.tabs) : tab.eph})

-----------------------------------------------------------------------------
\* WorkspaceManager.

\* Mutant: a switch is not saved.
SwitchedUnsaved(b, ws) == [b EXCEPT !.current = ws]

\* SetActiveWorkspace saves at once; every workspace a tab names exists.
SetActiveWorkspace(b, ws) == [b EXCEPT !.current = ws, !.disk.workspace = ws]

CycleNextWorkspace(b) ==
  LET i == CHOOSE i \in DOMAIN Order : Order[i] = b.current
  IN  SetActiveWorkspace(b, Order[(i % Len(Order)) + 1])

-----------------------------------------------------------------------------
\* What a change of the session sets off.

RebuildTabs(b) == [b EXCEPT !.rows = [i \in DOMAIN Listed(b) |-> Listed(b)[i].id]]

AddTab(b, ws, eph) ==
  [b EXCEPT !.tabs = Append(@, [id |-> b.made + 1, ws |-> ws, eph |-> eph]),
            !.made = @ + 1, !.active = b.made + 1]

\* The strip's correction of a tab of the other mode: its own notification finds the
\* new active tab in the active workspace and changes nothing more.
Corrected(b) ==
  IF Listed(b) # <<>> THEN [b EXCEPT !.active = Listed(b)[1].id]
  ELSE AddTab(b, b.current, b.private)

\* Mutant: the workspace does not follow the tab.
SyncNothing(b) == b

SyncWorkspaceToActiveTab(b) ==
  CASE b.active = NoTab -> b
    [] b.active # NoTab /\ ~IsTabVisible(b, TabOf(b, b.active)) -> Corrected(b)
    [] OTHER -> IF Home(TabOf(b, b.active)) = b.current THEN b
                ELSE SetActiveWorkspace(b, Home(TabOf(b, b.active)))

\* The sidebar's Refresh, whether it is visible or not.
Refresh(b) == [b EXCEPT !.marked = b.current]

Snapshot(b) ==
  [tabs |-> Persistent(b),
   active |-> CASE b.active = NoTab -> NoTab
                [] b.active # NoTab /\ ~TabOf(b, b.active).eph -> b.active
                [] OTHER -> IF Persistent(b) = <<>> THEN NoTab ELSE Persistent(b)[1].id]

\* SessionHistoryBridge saves while a persistent tab is active.
Recorded(b) ==
  IF b.active = NoTab \/ b.private \/ TabOf(b, b.active).eph THEN b
  ELSE [b EXCEPT !.disk.session = Snapshot(b)]

NotifyObservers(b) == Recorded(Refresh(RebuildTabs(SyncWorkspaceToActiveTab(b))))

-----------------------------------------------------------------------------
\* The session's calls.

OpenTab(b, ws, eph) == NotifyObservers(AddTab(b, ws, eph))

ActivateTab(b, id) ==
  IF ~IsOpen(b, id) \/ b.active = id THEN b ELSE NotifyObservers([b EXCEPT !.active = id])

Remembered(b, tab) ==
  LET all == Append(b.closed, [ws |-> tab.ws, eph |-> tab.eph])
  IN  IF Len(all) > MaxClosed THEN Tail(all) ELSE all

\* The tab at the closed position takes over, or the new last one; page says whether
\* the tab had left its new-tab page, so that it is remembered.
CloseTab(b, id, page, fallback) ==
  LET i    == PositionOf(b, id)
      rest == RemoveAt(b.tabs, i)
      next == CASE b.active # id -> b.active
                [] b.active = id /\ (~fallback \/ rest = <<>>) -> NoTab
                [] OTHER -> rest[IF i <= Len(rest) THEN i ELSE Len(rest)].id
  IN  IF ~IsOpen(b, id) THEN b
      ELSE NotifyObservers(
             [b EXCEPT !.tabs = rest, !.active = next,
                       !.closed = IF page THEN Remembered(b, TabOf(b, id)) ELSE @])

\* ReopenLastClosedTab brings a tab back into the workspace it was closed in.
ReopenLastClosedTab(b) ==
  LET fit == {k \in DOMAIN b.closed : b.closed[k].eph = b.private}
      k   == CHOOSE k \in fit : \A j \in fit : j <= k
  IN  IF fit = {} THEN b
      ELSE OpenTab([b EXCEPT !.closed = RemoveAt(@, k)], b.closed[k].ws, b.closed[k].eph)

CycleTab(b, forward) ==
  LET shown == Listed(b)
      at    == {i \in DOMAIN shown : shown[i].id = b.active}
      i     == CHOOSE i \in at : TRUE
      n     == Len(shown)
  IN  CASE shown = <<>> -> b
        [] shown # <<>> /\ at = {} -> ActivateTab(b, shown[1].id)
        [] OTHER -> ActivateTab(b, shown[IF forward THEN (i % n) + 1
                                         ELSE ((i + n - 2) % n) + 1].id)

-----------------------------------------------------------------------------
\* TabStrip and SessionPrivacyOrchestrator.

OpenNewTab(b) == OpenTab(b, b.current, b.private)

ActivateOrCreateTabForActiveWorkspace(b) ==
  IF Listed(b) # <<>> THEN ActivateTab(b, Listed(b)[1].id) ELSE OpenNewTab(b)

CycleWorkspace(b) ==
  Refresh(RebuildTabs(ActivateOrCreateTabForActiveWorkspace(CycleNextWorkspace(b))))

SelectWorkspace(b, ws) ==
  LET there == IF ws = b.current THEN b ELSE SetActiveWorkspace(b, ws)
  IN  Refresh(RebuildTabs(ActivateOrCreateTabForActiveWorkspace(there)))

\* The orchestrator opens its private pages without a workspace.
OpenPrivateTab(b) == OpenTab(b, NoWorkspace, TRUE)

CloseInPrivateMode(b, id, page) ==
  LET closed == CloseTab(b, id, page, FALSE)
  IN  CASE ~IsOpen(b, id) \/ ~TabOf(b, id).eph -> b
        [] IsOpen(b, id) /\ TabOf(b, id).eph /\ b.active # id -> closed
        [] OTHER -> IF Ephemeral(closed) = <<>> THEN OpenPrivateTab(closed)
                    ELSE ActivateTab(closed, Ephemeral(closed)[1].id)

OrchestratorCloseTab(b, id, page) ==
  IF b.private THEN CloseInPrivateMode(b, id, page) ELSE CloseTab(b, id, page, TRUE)

EnterPrivateMode(b) == OpenPrivateTab([b EXCEPT !.private = TRUE])

\* Step 1 of leaving: closed[i] is what is left when the private ones of the first i
\* tabs have closed.  What is closed so is forgotten, and nothing depends on its address.
WithoutPrivateTabs(b) ==
  LET closed[i \in 0 .. Len(b.tabs)] ==
        IF i = 0 THEN b
        ELSE IF b.tabs[i].eph THEN CloseTab(closed[i - 1], b.tabs[i].id, FALSE, FALSE)
        ELSE closed[i - 1]
  IN  closed[Len(b.tabs)]

ExitPrivateMode(b) ==
  LET closed == WithoutPrivateTabs(b)
      left   == [closed EXCEPT !.private = FALSE,
                               !.closed = Kept(@, {rec \in ToSet(@) : ~rec.eph})]
  IN  IF left.tabs = <<>> THEN OpenTab(left, NoWorkspace, FALSE)
      ELSE ActivateTab(left, left.tabs[1].id)

ToggleProfile(b) == IF b.private THEN ExitPrivateMode(b) ELSE EnterPrivateMode(b)

PrivateTabIsActive(b) == b.active # NoTab /\ TabOf(b, b.active).eph

\* FocusSessionController::ActivateFocusItem, for an item bound to an open tab.
ActivateFocusItem(b, id) ==
  IF PrivateTabIsActive(b) \/ TabOf(b, id).eph THEN b ELSE ActivateTab(b, id)

\* And for one whose tab is gone.
OpenFocusItem(b, ws) ==
  IF PrivateTabIsActive(b) THEN b ELSE OpenTab(b, ws, FALSE)

-----------------------------------------------------------------------------
\* Launching, from what the run before left on disk.

Restored(b) ==
  LET saved == b.disk.session
      known == \E i \in DOMAIN saved.tabs : saved.tabs[i].id = saved.active
  IN  [b EXCEPT !.tabs = saved.tabs,
                !.active = IF known THEN saved.active ELSE saved.tabs[1].id]

\* The workspaces are loaded before the session; the strip then goes to the active
\* workspace whatever tab was restored as the active one.
Launch(b) ==
  LET fresh  == [b EXCEPT !.tabs = <<>>, !.active = NoTab, !.closed = <<>>, !.private = FALSE,
                          !.current = b.disk.workspace, !.rows = <<>>]
      opened == IF b.disk.session.tabs = <<>> THEN AddTab(fresh, fresh.current, FALSE)
                ELSE Restored(fresh)
      ready  == Refresh(RebuildTabs(ActivateOrCreateTabForActiveWorkspace(opened)))
  IN  [ready EXCEPT !.disk.session = Snapshot(ready)]

\* ShutdownRuntime saves the session unless the profile is ephemeral.
ShutdownRuntime(b) == IF b.private THEN b ELSE [b EXCEPT !.disk.session = Snapshot(b)]

NewSidebar(state) ==
  [visible |-> state # "hidden", collapsed |-> state # "expanded",
   feedback |-> FALSE, generation |-> 0, timers |-> <<>>]

-----------------------------------------------------------------------------
Init ==
  /\ browser = Launch(
       [tabs |-> <<>>, active |-> NoTab, closed |-> <<>>, made |-> 0, current |-> Default,
        private |-> FALSE, rows |-> <<>>, marked |-> Default,
        disk |-> [workspace |-> Default, session |-> [tabs |-> <<>>, active |-> NoTab],
                  sidebar |-> "compact"]])
  /\ sidebar = NewSidebar("compact")
  /\ posted = <<>>
  /\ bounds = [runs |-> 1, turns |-> 0]

Turn == bounds.turns < MaxTurns /\ bounds' = [bounds EXCEPT !.turns = @ + 1]

Command(b) == Turn /\ browser' = b /\ UNCHANGED <<sidebar, posted>>

\* Shortcuts and the command palette.
Shortcut ==
  \/ Command(OpenNewTab(browser))
  \/ /\ browser.active # NoTab
     /\ \E page \in BOOLEAN : Command(OrchestratorCloseTab(browser, browser.active, page))
  \/ Command(ReopenLastClosedTab(browser))
  \/ \E forward \in BOOLEAN : Command(CycleTab(browser, forward))
  \/ Command(CycleWorkspace(browser))
  \/ Command(ToggleProfile(browser))

\* The focus queue names tabs of any workspace.
FocusItemPressed ==
  \/ \E i \in DOMAIN browser.tabs : Command(ActivateFocusItem(browser, browser.tabs[i].id))
  \/ \E ws \in WorkspaceIds : Command(OpenFocusItem(browser, ws))

Press(action) ==
  /\ Turn /\ Len(posted) < MaxPosted
  /\ posted' = Append(posted, action)
  /\ UNCHANGED <<browser, sidebar>>

\* A row activates its tab; only the active tab's has a close button.
PressStrip ==
  \/ \E i \in DOMAIN browser.rows : Press([kind |-> "Activate", target |-> browser.rows[i]])
  \/ browser.active # NoTab /\ Press([kind |-> "Close", target |-> browser.active])
  \/ Press([kind |-> "NewTab"])

PressSidebar ==
  /\ sidebar.visible
  /\ \/ \E ws \in WorkspaceIds : Press([kind |-> "SelectWorkspace", target |-> ws])
     \/ \E kind \in {"ToggleCollapsed", "ToggleDrawer", "Hide"} : Press([kind |-> kind])

\* TabStrip::HandleTabAction: the tab may have closed, or be in another workspace.
Handled(b, action, page) ==
  CASE action.kind = "Activate" ->
         IF IsOpen(b, action.target) /\ IsTabVisibleInCurrentContext(b, TabOf(b, action.target))
           THEN ActivateTab(b, action.target) ELSE b
    [] action.kind = "Close" -> OrchestratorCloseTab(b, action.target, page)
    [] action.kind = "NewTab" -> OpenNewTab(b)
    [] action.kind = "SelectWorkspace" -> SelectWorkspace(b, action.target)
    [] OTHER -> b

ShowTransientFeedback(bar) ==
  IF ~bar.visible THEN bar
  ELSE [bar EXCEPT !.feedback = TRUE, !.generation = @ + 1,
                   !.timers = Append(@, bar.generation + 1)]

\* AuraSidebar::HandleAction.
SidebarAfter(bar, action) ==
  CASE action.kind = "ToggleCollapsed" ->
         ShowTransientFeedback([bar EXCEPT !.collapsed = ~@])
    [] action.kind \in {"SelectWorkspace", "ToggleDrawer"} -> ShowTransientFeedback(bar)
    [] action.kind = "Hide" -> [bar EXCEPT !.visible = FALSE]
    [] OTHER -> bar

HandlePress ==
  /\ posted # <<>>
  /\ \E page \in BOOLEAN : browser' = Handled(browser, Head(posted), page)
  /\ sidebar' = SidebarAfter(sidebar, Head(posted))
  /\ posted' = Tail(posted)
  /\ UNCHANGED bounds

\* Ctrl+Shift+\.
ToggleAuraSidebar ==
  /\ Turn
  /\ sidebar' = [sidebar EXCEPT !.visible = ~@]
  /\ browser' = IF sidebar.visible THEN browser ELSE Refresh(browser)
  /\ UNCHANGED posted

\* Settings: the preference is saved and applied to the sidebar.
ApplyGlobalAuraSidebarState(state) ==
  /\ Turn
  /\ sidebar' = [sidebar EXCEPT !.visible = state # "hidden",
                                !.collapsed = IF state = "hidden" THEN @ ELSE state # "expanded"]
  /\ browser' = [browser EXCEPT !.disk.sidebar = state,
                                !.marked = IF state = "hidden" THEN @ ELSE browser.current]
  /\ UNCHANGED posted

\* Mutant: any timer clears the message.
ClearAlways(bar, generation) == [bar EXCEPT !.feedback = FALSE]

ClearTransientFeedback(bar, generation) ==
  IF generation # bar.generation THEN bar ELSE [bar EXCEPT !.feedback = FALSE]

\* FeedbackDismissTask: all timers have the same delay, so they fire in order.
FeedbackDismissTask ==
  /\ sidebar.timers # <<>>
  /\ sidebar' = [ClearTransientFeedback(sidebar, Head(sidebar.timers))
                   EXCEPT !.timers = Tail(@)]
  /\ UNCHANGED <<browser, posted, bounds>>

\* A quit or a crash, and the next launch.
Restart(clean) ==
  /\ bounds.runs < MaxRuns
  /\ bounds' = [bounds EXCEPT !.runs = @ + 1]
  /\ browser' = Launch(IF clean THEN ShutdownRuntime(browser) ELSE browser)
  /\ sidebar' = NewSidebar(browser.disk.sidebar)
  /\ posted' = <<>>

Next ==
  \/ Shortcut \/ FocusItemPressed \/ PressStrip \/ PressSidebar \/ HandlePress
  \/ ToggleAuraSidebar
  \/ \E state \in SidebarStates : ApplyGlobalAuraSidebarState(state)
  \/ FeedbackDismissTask
  \/ \E clean \in BOOLEAN : Restart(clean)

Spec == Init /\ [][Next]_vars

-----------------------------------------------------------------------------
\* Workspace and tab go together: after every call the active tab belongs to the mode
\* and to the active workspace, the strip lists exactly the tabs of both, and the
\* sidebar marks that workspace, whichever of the two moved first
\* (SyncWorkspaceToActiveTab, ActivateOrCreateTabForActiveWorkspace).
StripIsCurrent ==
  /\ browser.active # NoTab =>
       IsTabVisibleInCurrentContext(browser, TabOf(browser, browser.active))
  /\ browser.rows = [i \in DOMAIN Listed(browser) |-> Listed(browser)[i].id]
  /\ browser.marked = browser.current

\* A launch comes back to the workspace that was active when the last run stopped, by a
\* quit or by a crash, in private mode or not, with the persistent tabs in their order
\* and a new one only where that workspace had none.
RestartComesBack ==
  [][bounds'.runs # bounds.runs /\ browser.active # NoTab /\ Persistent(browser) # <<>> =>
       LET kept == Persistent(browser)
       IN  /\ browser'.current = browser.current
           /\ IF \E tab \in ToSet(kept) : Home(tab) = browser.current
                THEN browser'.tabs = kept
                ELSE \E tab \in ToSet(browser'.tabs) :
                       /\ browser'.tabs = Append(kept, tab)
                       /\ tab.ws = browser.current /\ ~tab.eph]_vars

\* A message of the sidebar is taken down by its own timer and by no older one, and as
\* long as it is shown that timer is running (the generation check).
FeedbackLastsItsTime ==
  /\ sidebar.feedback => sidebar.generation \in ToSet(sidebar.timers)
  /\ ~sidebar.feedback => sidebar.generation \notin ToSet(sidebar.timers)
=============================================================================
