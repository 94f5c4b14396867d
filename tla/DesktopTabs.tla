---------------------------- MODULE DesktopTabs ----------------------------
(***************************************************************************)
(* The desktop shell outside private mode: the browser session over the    *)
(* Chromium engine, the two places that open tabs, and the top-level       *)
(* window.  Calls of the shell are synchronous, browsers are not: one      *)
(* appears some time after its view, goes some time after it was asked to  *)
(* close, and sends events as long as it exists.                           *)
(*                                                                         *)
(* What Chromium does is external, and taken as it is used here: a browser *)
(* that is asked to close asks its page, which may refuse; when the page   *)
(* accepts, DoClose decides whether the close goes on to the window, which *)
(* then asks all the others; a browser whose close ended there may be      *)
(* destroyed at any later time, and the others go after their window.      *)
(***************************************************************************)
EXTENDS SessionInvariants, CefEngineOps, EngineContract

CONSTANTS
  InitialId,       \* the tab opened at startup
  NumberedId,      \* NumberedId[n] is "tab-n"
  PageUrls,        \* addresses pages are sent to and commit
  MaxActivations,  \* bound on last_activated_counter_
  HastyReuse       \* whether a number may come up again while its old browser is closing

ASSUME NumberedIdAssumption == \A n \in DOMAIN NumberedId : NumberedId[n] \in TabIds
ASSUME HastyReuseAssumption == HastyReuse \in BOOLEAN
ASSUME InitialIdAssumption == InitialId \in TabIds
ASSUME PageUrlsAssumption == PageUrls \subseteq Urls

VARIABLES
  session,     \* BrowserSession; its engine field is the CefBrowserEngine
  appIndex,    \* DesktopApp::next_tab_index_
  stripIndex,  \* TabStrip::next_tab_index_
  window,      \* "starting", "open", "closing", "destroying", "gone"
  asked,       \* browsers whose page has been asked whether it may close
  accepted     \* browsers whose close has been accepted

vars == <<session, appIndex, stripIndex, window, asked, accepted>>
external == <<window, asked, accepted>>

engine == session.engine
Browsers == {t \in TabIds : HasBrowser(engine, t)}

Init ==
  /\ session = SessionInit(CefInit)
  /\ appIndex = 1 /\ stripIndex = 1
  /\ window = "starting" /\ asked = {} /\ accepted = {}

NewTab == [url |-> NewTabUrl, title |-> "placeholder", eph |-> FALSE]

Startup ==
  /\ window = "starting"
  /\ window' = "open"
  /\ session' = OpenTab(session, InitialId, NewTab, FALSE)
  /\ UNCHANGED <<appIndex, stripIndex, asked, accepted>>

-----------------------------------------------------------------------------
\* The shell, as long as there is a window.

Usual == window \in {"open", "closing"} /\ session.clock < MaxActivations

\* The numbers the loop passes over before it opens a tab.
FreeIndex(index) ==
  {n \in DOMAIN NumberedId : n > index /\ ~IsOpen(session, NumberedId[n])}

LowestFree(index) == {n \in FreeIndex(index) : \A m \in FreeIndex(index) : n <= m}

\* The user's timing: without haste, the browser that had the number is gone.
InTime(n) == HastyReuse \/ engine.phase[NumberedId[n]] # "closing"

OpenNewTab ==
  /\ Usual
  /\ \E n \in LowestFree(appIndex) :
       /\ InTime(n)
       /\ appIndex' = n
       /\ session' = OpenTab(session, NumberedId[n], NewTab, TRUE)
  /\ UNCHANGED <<stripIndex, external>>

OpenNewTabForActiveWorkspace ==
  /\ Usual
  /\ \E n \in LowestFree(stripIndex) :
       /\ InTime(n)
       /\ stripIndex' = n
       /\ session' = OpenTab(session, NumberedId[n], NewTab, TRUE)
  /\ UNCHANGED <<appIndex, external>>

\* CloseTab also asks the browser to close, unless it is on its way out already.
CloseTabAction(t) ==
  /\ Usual /\ IsOpen(session, t)
  /\ session' = CloseTab(session, t, TRUE)
  /\ asked' = IF engine.phase[t] = "live" /\ t \notin accepted THEN asked \cup {t} ELSE asked
  /\ UNCHANGED <<appIndex, stripIndex, window, accepted>>

SessionCall ==
  \/ \E t \in Open(session) : session' = ActivateTab(session, t)
  \/ \E forward \in BOOLEAN : session' = CycleTab(session, TabIds, forward)
  \/ /\ session.restored + 1 \in DOMAIN RestoredId
     /\ session' = ReopenLastClosedTab(session, "PersistentOnly")
  \/ \E t \in Open(session), url \in PageUrls : session' = Navigate(session, t, url)

Shell ==
  \/ OpenNewTab
  \/ OpenNewTabForActiveWorkspace
  \/ \E t \in TabIds : CloseTabAction(t)
  \/ Usual /\ SessionCall /\ UNCHANGED <<appIndex, stripIndex, external>>

-----------------------------------------------------------------------------
\* Browsers.

BrowserCreated(t) ==
  /\ engine.phase[t] = "pending" /\ window \notin {"starting", "gone"}
  /\ session' = Tell(session, NotifyBrowserCreated(engine, t))
  /\ UNCHANGED <<appIndex, stripIndex, external>>

\* A browser that is closing goes on sending events.
BrowserEvent(t) ==
  /\ t \in Browsers
  /\ \/ \E url \in PageUrls : session' = OnNavigationStarted(session, t, url)
     \/ \E url \in PageUrls : session' = OnNavigationCommitted(session, t, url)
     \/ session' = OnRendererCrashed(session, t)
  /\ UNCHANGED <<appIndex, stripIndex, external>>

BrowserGone(t) ==
  /\ t \in Browsers
  /\ window = "gone" \/ (engine.phase[t] = "closing" /\ t \notin asked \cup accepted)
  /\ session' = Tell(session, NotifyBrowserBeforeClose(engine, t))
  /\ asked' = asked \ {t} /\ accepted' = accepted \ {t}
  /\ UNCHANGED <<appIndex, stripIndex, window>>

\* CanClose: every browser that has not accepted yet is asked.
CanClose(closed, state) ==
  /\ session' = Tell(session, BeginWindowClose(engine))
  /\ accepted' = closed
  /\ asked' = Browsers \ closed
  /\ window' = IF Browsers \subseteq closed THEN "destroying" ELSE state

UserClosesWindow ==
  /\ window \in {"open", "closing"}
  /\ CanClose(accepted, "closing")
  /\ UNCHANGED <<appIndex, stripIndex>>

\* DoClose: the close of a browser ends there, or goes on to the window.
PageAccepts(t) ==
  /\ t \in asked /\ window # "gone"
  /\ IF ShouldSuppressTopLevelCloseForTab(engine)
       THEN /\ asked' = asked \ {t}
            /\ UNCHANGED <<session, window, accepted>>
       ELSE CanClose(accepted \cup {t}, window)
  /\ UNCHANGED <<appIndex, stripIndex>>

PageRefuses(t) ==
  /\ t \in asked /\ window \in {"open", "closing"}
  /\ asked' = asked \ {t} /\ window' = "open"
  /\ UNCHANGED <<session, appIndex, stripIndex, accepted>>

OnWindowDestroyed ==
  /\ window = "destroying"
  /\ window' = "gone" /\ asked' = {}
  /\ session' = Tell(session, NotifyWindowDestroyed(engine))
  /\ UNCHANGED <<appIndex, stripIndex, accepted>>

Next ==
  \/ Startup
  \/ Shell
  \/ \E t \in TabIds :
       BrowserCreated(t) \/ BrowserEvent(t) \/ BrowserGone(t) \/ PageAccepts(t) \/ PageRefuses(t)
  \/ UserClosesWindow
  \/ OnWindowDestroyed

Spec == Init /\ [][Next]_vars

\* Chromium answers: pages that are asked answer, windows and browsers go.
FairSpec ==
  /\ Spec
  /\ \A t \in TabIds :
       WF_vars(PageAccepts(t)) /\ WF_vars(window = "gone" /\ BrowserGone(t))
  /\ WF_vars(OnWindowDestroyed)

-----------------------------------------------------------------------------
TypeOK ==
  /\ IsSession(session)
  /\ engine \in
       [phase: [TabIds -> Phases], queued: [TabIds -> Urls \cup {NoUrl}],
        context: [TabIds -> Nat], visible: SUBSET TabIds, active: TabIds \cup {NoTabId},
        live: Nat, private: BOOLEAN, contexts: Nat, shared: Nat,
        prompts: {{}}, closeAsked: BOOLEAN, destroyed: BOOLEAN, quit: BOOLEAN]
  /\ window \in {"starting", "open", "closing", "destroying", "gone"}
  /\ asked \subseteq Browsers /\ accepted \subseteq Browsers

Pages == {t \in TabIds : Usable(engine, t)}

\* One page per tab and one tab per page, whatever browsers come and go, and the
\* engine's idea of the active tab is the session's (CreateTab, CloseTab and
\* ActivateTab of the engine give up silently when they find no usable surface).
PagesMirrorTabs ==
  window # "gone" => Pages = Open(session) /\ engine.active = session.active

\* The active tab's page is the only visible one, whatever closed or was refused in
\* between (ActivateTab hides the page shown before, CloseTab its own).
OnlyActiveIsVisible ==
  window # "gone" =>
    engine.visible = IF session.active = NoTabId THEN {} ELSE {session.active}

\* live_browser_count_ is the number of browsers Chromium has running, though it is
\* counted up and down by callbacks of views that may be closed in between.
LiveCountExact == engine.live = Cardinality(Browsers)

\* The message loop ends after the window and the last browser, never before.
QuitIsLast == engine.quit => window = "gone" /\ Browsers = {}

\* An address asked of a tab whose browser does not exist yet is not lost: it stays
\* queued, and is the one the session shows as pending.
QueuedIsPending ==
  \A t \in Open(session) :
    engine.queued[t] # NoUrl => engine.phase[t] = "pending" /\ session.tab[t].pending = engine.queued[t]

\* The engine and the session say the same: pages, visibility, the active tab and what
\* waits for a browser, whatever browsers come and go.
EngineMirrorsSession == TypeOK /\ PagesMirrorTabs /\ OnlyActiveIsVisible /\ QueuedIsPending

\* Browsers are counted exactly, and the count ends the message loop in time.
BrowsersAreCounted == LiveCountExact /\ QuitIsLast

\* No tab takes the window along until the user has once asked to close it, whatever
\* tabs close and however their browsers answer (DoClose).
WindowOutlivesTabs ==
  [][window = "open" /\ window' = "destroying" => UserClosesWindow \/ engine.closeAsked]_vars

\* Asking to close the window ends the program unless a page refuses, whatever tabs
\* open, close or get their browsers meanwhile.
WindowCloseQuits == window = "closing" ~> (engine.quit \/ window = "open")

\* Seen from the session, the asynchronous engine is the synchronous one of
\* EngineContract: every step of the shell, of a browser or of the window is a step
\* of BrowserSession or changes nothing it can see.
CoreSession ==
  [session EXCEPT !.engine =
     [surfaces |-> IF window = "gone" THEN Open(session) ELSE Pages,
      shown |-> IF window = "gone" THEN session.active ELSE engine.active,
      asleep |-> {}]]

Core == INSTANCE BrowserSession WITH
  session <- CoreSession,
  CallerIds <- TabIds, PageUrls <- PageUrls \cup {NewTabUrl},
  PageTitles <- Titles, PrivacyModes <- {FALSE}, EngineInit <- ContractInit,
  EngineCreate <- ContractCreate, EngineClose <- ContractClose,
  EngineActivate <- ContractActivate, EngineSuspend <- ContractSuspend,
  EngineResume <- ContractResume, EngineNavigate <- ContractNavigate

ImplementsCore == Core!Spec
=============================================================================
