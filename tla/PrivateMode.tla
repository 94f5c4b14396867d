---------------------------- MODULE PrivateMode ----------------------------
(***************************************************************************)
(* Private mode: SessionPrivacyOrchestrator between the shell and the      *)
(* session, the request contexts of the engine, and SessionHistoryBridge,  *)
(* the observer that records history and saves the session.  Entering and  *)
(* leaving are single calls on the UI thread; what lives on across them    *)
(* are browsers that were asked to close and are not gone yet.             *)
(*                                                                         *)
(* The profile is reduced to whether it is ephemeral.  TabStrip corrects   *)
(* an activation of a tab that is not visible; ActiveIsVisible shows that  *)
(* it never has to, and the correction is left out.                        *)
(***************************************************************************)
EXTENDS SessionInvariants, CefEngineOps

CONSTANTS
  InitialId,       \* the tab opened at startup
  NumberedId,      \* NumberedId[n] is "tab-n"
  PrivateId,       \* PrivateId[n] is "private-tab-n"
  PublicUrls,      \* addresses visited outside private mode
  SecretUrls,      \* addresses visited in private mode
  MaxActivations,  \* bound on last_activated_counter_
  HastyReuse       \* whether a number may come up again while its old browser is closing

ASSUME IdsAssumption ==
  /\ InitialId \in TabIds
  /\ \A n \in DOMAIN NumberedId : NumberedId[n] \in TabIds
  /\ \A n \in DOMAIN PrivateId : PrivateId[n] \in TabIds
ASSUME HastyReuseAssumption == HastyReuse \in BOOLEAN
ASSUME SecretsAssumption ==
  SecretUrls \cap PublicUrls = {} /\ SecretUrls \cup PublicUrls \subseteq Urls

VARIABLES
  session,   \* BrowserSession; its engine field is the CefBrowserEngine
  private,   \* whether the active profile is ephemeral
  counters,  \* the four counters ids are made from
  disk       \* last recorded address of each tab, history, saved session

vars == <<session, private, counters, disk>>

engine == session.engine
Room == session.clock < MaxActivations

PersistentTabs(s) == {t \in Open(s) : ~s.tab[t].eph}

\* Mutant: the tabs of both modes are visible.
EveryOpenTab == Open(session)

Visible == {t \in Open(session) : session.tab[t].eph = private}

NewTab == [url |-> IF private THEN PrivateNewTabUrl ELSE NewTabUrl,
           title |-> "placeholder", eph |-> private]

\* The orchestrator still opens its pages at the legacy placeholder address.
LegacyTab(eph) == [url |-> LegacyUrl, title |-> "placeholder", eph |-> eph]

-----------------------------------------------------------------------------
\* SessionHistoryBridge.

\* What CaptureSnapshot keeps of a session.
Snapshot(s) == {<<t, s.tab[t].url>> : t \in PersistentTabs(s)}

IsVisit(tab, last) ==
  tab.committed /\ tab.nav = "Idle" /\ ~IsBlankOrNewTabUrl(tab.url) /\ tab.url # last

\* Mutant: the session is saved only when a visit is recorded.
RecordedOnVisit(s, d) ==
  LET t == s.active
      visit == IsVisit(s.tab[t], d.last[t])
  IN  IF visit THEN [last |-> [d.last EXCEPT ![t] = s.tab[t].url],
                     history |-> d.history \cup {s.tab[t].url}, saved |-> Snapshot(s)]
      ELSE d

\* What the notified observer writes when the active tab is t and persistent.
Recorded(s, d) ==
  LET t == s.active
      visit == IsVisit(s.tab[t], d.last[t])
  IN  [last    |-> IF visit THEN [d.last EXCEPT ![t] = s.tab[t].url] ELSE d.last,
       history |-> d.history \cup (IF visit THEN {s.tab[t].url} ELSE {}),
       saved   |-> Snapshot(s)]

\* Mutant: neither the profile nor the tab is asked.
RecordsAlways(s, isPrivate) == s.active # NoTabId

Records(s, isPrivate) == s.active # NoTabId /\ ~isPrivate /\ ~s.tab[s.active].eph

\* A call that changed the session notified its observers.
Notified(s, isPrivate) ==
  disk' = IF [s EXCEPT !.engine = engine] # session /\ Records(s, isPrivate)
            THEN Recorded(s, disk) ELSE disk

Step(s) ==
  /\ session' = s
  /\ Notified(s, private)
  /\ UNCHANGED private

-----------------------------------------------------------------------------
Init ==
  /\ session = SessionInit(CefInit)
  /\ private = FALSE
  /\ counters = [app |-> 1, strip |-> 1, private |-> 0, persistent |-> 0]
  /\ disk = [last |-> [t \in TabIds |-> NoUrl], history |-> {}, saved |-> {}]

Startup ==
  /\ session.clock = 0
  /\ Step(OpenTab(session, InitialId, NewTab, FALSE))
  /\ UNCHANGED counters

Started == session.clock > 0 /\ Room

FreeIndex(index) ==
  {n \in DOMAIN NumberedId : n > index /\ ~IsOpen(session, NumberedId[n])}

LowestFree(index) == {n \in FreeIndex(index) : \A m \in FreeIndex(index) : n <= m}

\* Without haste, the browser that had the number is gone.
InTime(e, n) == HastyReuse \/ e.phase[NumberedId[n]] # "closing"

OpenNewTab ==
  /\ Started
  /\ \E n \in LowestFree(counters.app) :
       /\ InTime(engine, n)
       /\ Step(OpenTab(session, NumberedId[n], NewTab, TRUE))
       /\ counters' = [counters EXCEPT !.app = n]

OpenNewTabForActiveWorkspace ==
  /\ Started
  /\ \E n \in LowestFree(counters.strip) :
       /\ InTime(engine, n)
       /\ Step(OpenTab(session, NumberedId[n], NewTab, TRUE))
       /\ counters' = [counters EXCEPT !.strip = n]

CloseOutsidePrivateMode(t) ==
  /\ Started /\ ~private /\ IsOpen(session, t)
  /\ Step(CloseTab(session, t, TRUE))
  /\ UNCHANGED counters

\* Close without the session's fallback, so that no persistent tab comes up.
CloseQuietly(s, t) == CloseTab(s, t, FALSE)

FirstOf(s, ts) == s.tabs[CHOOSE i \in DOMAIN s.tabs :
                           s.tabs[i] \in ts /\ \A j \in 1 .. i - 1 : s.tabs[j] \notin ts]

CloseInPrivateMode(t) ==
  LET closed == CloseQuietly(session, t)
      others == Open(closed) \ PersistentTabs(closed)
  IN  /\ Started /\ private /\ t \in Visible
      /\ \/ /\ session.active # t
            /\ Step(closed) /\ UNCHANGED counters
         \/ /\ session.active = t /\ others # {}
            /\ Step(ActivateTab(closed, FirstOf(closed, others))) /\ UNCHANGED counters
         \/ /\ session.active = t /\ others = {}
            /\ counters.private + 1 \in DOMAIN PrivateId
            /\ Step(OpenTab(closed, PrivateId[counters.private + 1], LegacyTab(TRUE), TRUE))
            /\ counters' = [counters EXCEPT !.private = @ + 1]

ReopenClosedTab ==
  /\ Started /\ session.restored + 1 \in DOMAIN RestoredId
  /\ Step(ReopenLastClosedTab(session, IF private THEN "EphemeralOnly" ELSE "PersistentOnly"))
  /\ UNCHANGED counters

\* CanActivateTab and the tab strip's filter both ask for a visible tab.
ActivateVisibleTab(t) ==
  /\ Started /\ t \in Visible
  /\ Step(ActivateTab(session, t))
  /\ UNCHANGED counters

CycleVisibleTabs(forward) ==
  /\ Started
  /\ Step(CycleTab(session, Visible, forward))
  /\ UNCHANGED counters

\* The address bar, bookmarks and history all navigate the active tab.
NavigateActiveTab ==
  /\ Started /\ session.active # NoTabId
  /\ \E url \in IF private THEN SecretUrls ELSE PublicUrls :
       Step(Navigate(session, session.active, url))
  /\ UNCHANGED counters

EnterPrivateMode ==
  LET s == Tell(session, SetEphemeralMode(engine, TRUE)) IN
  /\ Started /\ ~private
  /\ counters.private + 1 \in DOMAIN PrivateId
  /\ private' = TRUE
  /\ session' = OpenTab(s, PrivateId[counters.private + 1], LegacyTab(TRUE), TRUE)
  /\ Notified(session', TRUE)
  /\ counters' = [counters EXCEPT !.private = @ + 1]

\* Step 1 of ExitPrivateMode: closed[i] is the session when the private ones of its
\* first i tabs have closed, without any fallback.
WithoutPrivateTabs ==
  LET closed[i \in 0 .. Len(session.tabs)] ==
        IF i = 0 THEN session
        ELSE IF session.tab[session.tabs[i]].eph
          THEN CloseQuietly(closed[i - 1], session.tabs[i]) ELSE closed[i - 1]
  IN  closed[Len(session.tabs)]

\* Mutant: the closed private tabs can still be reopened.
LeftWithClosed(s) == Tell(s, PurgeEphemeralContext(SetEphemeralMode(s.engine, FALSE)))

\* Steps 2 to 4 of ExitPrivateMode.
Left(s) ==
  PurgeEphemeralClosedTabs(
    Tell(s, PurgeEphemeralContext(SetEphemeralMode(s.engine, FALSE))))

ExitPrivateMode ==
  LET left == Left(WithoutPrivateTabs) IN
  /\ Started /\ private
  /\ private' = FALSE
  /\ \/ /\ left.tabs = <<>>
        /\ counters.persistent + 1 \in DOMAIN NumberedId
        /\ InTime(left.engine, counters.persistent + 1)
        /\ session' = OpenTab(left, NumberedId[counters.persistent + 1], LegacyTab(FALSE), TRUE)
        /\ counters' = [counters EXCEPT !.persistent = @ + 1]
     \/ /\ left.tabs # <<>>
        /\ session' = ActivateTab(left, FirstOf(left, PersistentTabs(left)))
        /\ UNCHANGED counters
  /\ Notified(session', FALSE)

-----------------------------------------------------------------------------
\* Browsers.

BrowserCreated(t) ==
  /\ engine.phase[t] = "pending"
  /\ session' = Tell(session, NotifyBrowserCreated(engine, t))
  /\ UNCHANGED <<private, counters, disk>>

BrowserGone(t) ==
  /\ engine.phase[t] = "closing"
  /\ session' = Tell(session, NotifyBrowserBeforeClose(engine, t))
  /\ UNCHANGED <<private, counters, disk>>

PageUrls(t) == IF engine.context[t] = Profile THEN PublicUrls ELSE SecretUrls

\* A page made in an ephemeral context shows secrets, as long as its browser lives.
BrowserEvent(t) ==
  /\ HasBrowser(engine, t)
  /\ \E url \in PageUrls(t) :
       \/ Step(OnNavigationStarted(session, t, url))
       \/ Step(OnNavigationCommitted(session, t, url))
  /\ UNCHANGED counters

Next ==
  \/ Startup
  \/ OpenNewTab
  \/ OpenNewTabForActiveWorkspace
  \/ \E t \in TabIds :
       \/ CloseOutsidePrivateMode(t) \/ CloseInPrivateMode(t) \/ ActivateVisibleTab(t)
       \/ BrowserCreated(t) \/ BrowserGone(t) \/ BrowserEvent(t)
  \/ ReopenClosedTab
  \/ \E forward \in BOOLEAN : CycleVisibleTabs(forward)
  \/ NavigateActiveTab
  \/ EnterPrivateMode
  \/ ExitPrivateMode

Spec == Init /\ [][Next]_vars

-----------------------------------------------------------------------------
\* The active tab belongs to the mode the browser is in, after every call and whatever
\* closed, so that neither mode ever shows a page of the other.
ActiveIsVisible == session.active # NoTabId => session.active \in Visible

\* Leaving private mode leaves nothing of it: no open tab, no tab that can be reopened,
\* and no request context that a later page could get.
NothingPrivateIsLeft ==
  ~private =>
    /\ Open(session) = PersistentTabs(session)
    /\ \A k \in DOMAIN session.closed : ~session.closed[k].eph
    /\ ~engine.private /\ engine.shared = Profile

\* Private pages share the context of their private session, which no page of an
\* earlier one has, and persistent pages use the profile's (GetOrCreateRequestContext).
ContextsAreSeparate ==
  \A t \in Open(session) :
    engine.context[t] = IF session.tab[t].eph THEN engine.shared ELSE Profile

\* The two modes share nothing: what is shown, what stays behind, and the contexts.
ModesAreSeparate == ActiveIsVisible /\ NothingPrivateIsLeft /\ ContextsAreSeparate

\* No address of private mode reaches the history or the saved session, late events of
\* browsers that are closing included.
NoPrivateTrace ==
  /\ disk.history \cap SecretUrls = {}
  /\ \A entry \in disk.saved : entry[2] \notin SecretUrls

\* Outside private mode the saved session is the current one as soon as a tab is
\* active: no change of any tab is missed.
SavedSessionIsCurrent ==
  ~private /\ session.active # NoTabId => disk.saved = Snapshot(session)

\* Private mode keeps the persistent tabs: nothing done in it closes or opens one, and
\* leaving it opens one only if there is none.
PersistentTabsAreKept ==
  [][private =>
       LET kept == PersistentTabs(session) IN
       IF kept = {} /\ ~private' THEN Cardinality(PersistentTabs(session')) = 1
       ELSE PersistentTabs(session') = kept]_vars
=============================================================================
