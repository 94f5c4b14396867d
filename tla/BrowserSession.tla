--------------------------- MODULE BrowserSession ---------------------------
(***************************************************************************)
(* The browser session under every command the shell can give it and every *)
(* event the engine can send it, in any order.  All of it runs on the UI   *)
(* thread, so a call is one step; what interleaves is the engine's events, *)
(* which may speak of a tab that has been closed or discarded since.       *)
(***************************************************************************)
EXTENDS SessionInvariants

CONSTANTS
  CallerIds,       \* ids the shell gives to the tabs it opens
  PageUrls,        \* addresses the shell asks for and pages commit
  PageTitles,      \* titles that occur, a subset of Titles
  PrivacyModes,    \* values of is_ephemeral that occur, a subset of BOOLEAN
  MaxActivations,  \* bound on last_activated_counter_
  EngineInit       \* the engine before any command

ASSUME CallerIdsAssumption == CallerIds \subseteq TabIds
ASSUME PageUrlsAssumption == PageUrls \subseteq Urls
ASSUME PageTitlesAssumption == PageTitles \subseteq Titles
ASSUME PrivacyModesAssumption == PrivacyModes \subseteq BOOLEAN

VARIABLE session

Init == session = SessionInit(EngineInit)

\* Room for the activations a call may make before the counter's bound.
MayActivate == session.clock < MaxActivations

OpenTabCall(t, tpl, activate) ==
  /\ MayActivate
  /\ session' = OpenTab(session, t, tpl, activate)

CloseTabCall(t, fallback) ==
  /\ MayActivate
  /\ session' = CloseTab(session, t, fallback)

ReopenCall(mode) ==
  /\ session.restored + 1 \in DOMAIN RestoredId
  /\ MayActivate
  /\ session' = ReopenLastClosedTab(session, mode)

PurgeCall == session' = PurgeEphemeralClosedTabs(session)

ActivateTabCall(t) ==
  /\ MayActivate
  /\ session' = ActivateTab(session, t)

\* The shell shows the tabs of one privacy mode at a time.
CycleTabCall(forward) ==
  /\ MayActivate
  /\ \E eph \in BOOLEAN :
       session' = CycleTab(session, {t \in TabIds : session.tab[t].eph = eph}, forward)

NavigateCall(t, url) == session' = Navigate(session, t, url)
NavigationCommandCall(t) == session' = NavigationCommand(session, t)
SuspendTabCall(t) == session' = SuspendTab(session, t)
ResumeTabCall(t) == session' = ResumeTab(session, t)
DiscardTabCall(t) == session' = DiscardTab(session, t)

NavigationStartedEvent(t, url) == session' = OnNavigationStarted(session, t, url)
NavigationCommittedEvent(t, url) == session' = OnNavigationCommitted(session, t, url)
NavigationFailedEvent(t, url) == session' = OnNavigationFailed(session, t, url)
TitleChangedEvent(t, title) == session' = OnTitleChanged(session, t, title)
RendererCrashedEvent(t) == session' = OnRendererCrashed(session, t)

EngineEvent(t) ==
  \/ \E url \in PageUrls : NavigationStartedEvent(t, url)
  \/ \E url \in PageUrls : NavigationCommittedEvent(t, url)
  \/ \E url \in PageUrls : NavigationFailedEvent(t, url)
  \/ \E title \in PageTitles : TitleChangedEvent(t, title)
  \/ RendererCrashedEvent(t)

Next ==
  \/ \E t \in CallerIds, url \in PageUrls, title \in PageTitles,
        eph \in PrivacyModes, activate \in BOOLEAN :
       OpenTabCall(t, [url |-> url, title |-> title, eph |-> eph], activate)
  \/ \E t \in TabIds, fallback \in BOOLEAN : CloseTabCall(t, fallback)
  \/ \E mode \in ClosedModes : ReopenCall(mode)
  \/ PurgeCall
  \/ \E t \in TabIds : ActivateTabCall(t)
  \/ \E forward \in BOOLEAN : CycleTabCall(forward)
  \/ \E t \in TabIds, url \in PageUrls : NavigateCall(t, url)
  \/ \E t \in TabIds : NavigationCommandCall(t)
  \/ \E t \in TabIds : SuspendTabCall(t)
  \/ \E t \in TabIds : ResumeTabCall(t)
  \/ \E t \in TabIds : DiscardTabCall(t)
  \/ \E t \in TabIds : EngineEvent(t)

Spec == Init /\ [][Next]_session

-----------------------------------------------------------------------------
\* Every field holds a value of its type.
TypeOK == IsSession(session)

\* No id names two tabs: FindTab is unambiguous whatever ids callers, restores and
\* reopenings bring (the duplicate check of OpenTab).
UniqueIds == HasUniqueIds(session)

\* active_tab_id_ names an open tab, and that tab and no other is Active, through
\* every chain of demotions, wake-ups and successions.
ActiveMatchesLifecycle == HasOneActive(session)

\* The active tab carries the largest activation sequence number, so the least
\* recently used order of TabDiscardPolicy never puts it before another tab.
ActiveIsMostRecent == HasActivationOrder(session)

\* The status fields a tab shows never contradict each other: an idle tab has
\* committed, has no pending address and no error; errors and crashes are failures.
StatusCoherent == HasCoherentTabs(session)

\* closed_tabs_ stays within its capacity and holds no new-tab page.
ClosedListSound == HasSoundClosedList(session)

\* All of these together, between any two calls: what FindTab, the succession after a
\* close, the discard order and the tab strip each take for granted of the others.
SessionIsSound ==
  /\ TypeOK /\ UniqueIds
  /\ ActiveMatchesLifecycle /\ ActiveIsMostRecent
  /\ StatusCoherent /\ ClosedListSound

\* A session with tabs loses its active tab only to a close that asked for no
\* fallback, and a discarded tab takes over only when no other is left
\* (ActivateAfterClose).
CloseHandsOver ==
  [][LET lost == session.active \notin Open(session') IN
     session.active # NoTabId /\ lost /\ session'.tabs # <<>> =>
       \/ CloseTabCall(session.active, FALSE)
       \/ /\ session'.active # NoTabId
          /\ session.tab[session'.active].life = "Discarded" =>
               \A t \in Open(session') : session.tab[t].life = "Discarded"]_session

\* What a discarded tab will be restored from is frozen: no late engine event and
\* no navigation command changes it.
DiscardedIsFrozen ==
  [][\A t \in Open(session) \cap Open(session') :
       session.tab[t].life = "Discarded" =>
         [session'.tab[t] EXCEPT !.life = "Discarded", !.seq = 0]
           = [session.tab[t] EXCEPT !.seq = 0]]_session

\* Reopening undoes the last close of its privacy mode: the record that leaves
\* closed_tabs_ is the newest one of its kind, a tab with an id of its own appears
\* for it, and that tab asks for the address the record was closed at.
ReopenUndoesLastClose ==
  [][session'.restored > session.restored =>
       \E k \in DOMAIN session.closed :
         LET rec    == session.closed[k]
             opened == session'.tab[session'.active] IN
         /\ session'.closed = RemoveAt(session.closed, k)
         /\ \A j \in DOMAIN session.closed : j > k => session.closed[j].eph # rec.eph
         /\ Len(session'.tabs) = Len(session.tabs) + 1
         /\ opened.url = rec.url /\ opened.eph = rec.eph]_session
=============================================================================
