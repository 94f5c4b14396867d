------------------------ MODULE BrowserSessionProofs ------------------------
(***************************************************************************)
(* The safety of the browser session, for any set of ids and addresses, any*)
(* capacity of the closed-tab list and any engine behind the interface.    *)
(* SessionInvariant is inductive: each action is one operation of          *)
(* SessionOps, and SessionLemmas proves that each of them keeps it.        *)
(***************************************************************************)
EXTENDS SessionOverContract, SessionLemmas

\* A session without tabs satisfies the invariant.
LEMMA InitInvariant == Init => SessionInvariant(session)
BY SessionInitInvariant DEF Init

\* Every call and every engine event keeps it.
LEMMA NextInvariant ==
  SessionInvariant(session) /\ [Next]_session => SessionInvariant(session')
<1> SUFFICES ASSUME SessionInvariant(session), [Next]_session
             PROVE  SessionInvariant(session')
  OBVIOUS
<1>1. ASSUME NEW t \in CallerIds, NEW url \in PageUrls, NEW title \in PageTitles,
             NEW eph \in PrivacyModes, NEW activate \in BOOLEAN,
             OpenTabCall(t, [url |-> url, title |-> title, eph |-> eph], activate)
      PROVE  SessionInvariant(session')
  <2>1. t \in TabIds
    BY CallerIdsAssumption
  <2>2. [url |-> url, title |-> title, eph |-> eph] \in Templates
    BY PageUrlsAssumption, PageTitlesAssumption, PrivacyModesAssumption DEF Templates
  <2> QED BY <1>1, <2>1, <2>2, OpenTabKeepsInvariant DEF OpenTabCall
<1>2. ASSUME NEW t \in TabIds, NEW fallback \in BOOLEAN, CloseTabCall(t, fallback)
      PROVE  SessionInvariant(session')
  BY <1>2, CloseTabKeepsInvariant DEF CloseTabCall
<1>3. ASSUME NEW mode \in ClosedModes, ReopenCall(mode)
      PROVE  SessionInvariant(session')
  BY <1>3, ReopenKeepsInvariant DEF ReopenCall
<1>4. CASE PurgeCall
  BY <1>4, PurgeKeepsInvariant DEF PurgeCall
<1>5. ASSUME NEW t \in TabIds, ActivateTabCall(t)
      PROVE  SessionInvariant(session')
  BY <1>5, ActivateTabKeepsInvariant DEF ActivateTabCall
<1>6. ASSUME NEW forward \in BOOLEAN, CycleTabCall(forward)
      PROVE  SessionInvariant(session')
  BY <1>6, CycleTabKeepsInvariant DEF CycleTabCall
<1>7. ASSUME NEW t \in TabIds, NEW url \in PageUrls, NavigateCall(t, url)
      PROVE  SessionInvariant(session')
  BY <1>7, PageUrlsAssumption, NavigateKeepsInvariant DEF NavigateCall
<1>8. ASSUME NEW t \in TabIds, NavigationCommandCall(t)
      PROVE  SessionInvariant(session')
  BY <1>8, NavigationCommandKeepsInvariant DEF NavigationCommandCall
<1>9. ASSUME NEW t \in TabIds, SuspendTabCall(t)
      PROVE  SessionInvariant(session')
  BY <1>9, SuspendKeepsInvariant DEF SuspendTabCall
<1>10. ASSUME NEW t \in TabIds, ResumeTabCall(t)
       PROVE  SessionInvariant(session')
  BY <1>10, NavigationCommandKeepsInvariant DEF ResumeTabCall
<1>11. ASSUME NEW t \in TabIds, DiscardTabCall(t)
       PROVE  SessionInvariant(session')
  BY <1>11, DiscardKeepsInvariant DEF DiscardTabCall
<1>12. ASSUME NEW t \in TabIds, EngineEvent(t)
       PROVE  SessionInvariant(session')
  <2>1. "page" \in Titles
    BY DEF Titles
  <2>2. ASSUME NEW url \in PageUrls,
               \/ NavigationStartedEvent(t, url)
               \/ NavigationCommittedEvent(t, url)
               \/ NavigationFailedEvent(t, url)
        PROVE  SessionInvariant(session')
    BY <2>1, <2>2, PageUrlsAssumption, EventKeepsInvariant
       DEF NavigationStartedEvent, NavigationCommittedEvent, NavigationFailedEvent
  <2>3. NewTabUrl \in Urls
    BY UrlsAssumption
  <2>4. ASSUME NEW title \in PageTitles, TitleChangedEvent(t, title)
        PROVE  SessionInvariant(session')
    BY <2>3, <2>4, PageTitlesAssumption, EventKeepsInvariant DEF TitleChangedEvent
  <2>5. CASE RendererCrashedEvent(t)
    BY <2>1, <2>3, <2>5, EventKeepsInvariant DEF RendererCrashedEvent
  <2> QED BY <1>12, <2>2, <2>4, <2>5 DEF EngineEvent
<1>13. CASE UNCHANGED session
  BY <1>13
<1> QED
  BY <1>1, <1>2, <1>3, <1>4, <1>5, <1>6, <1>7, <1>8, <1>9, <1>10, <1>11, <1>12, <1>13
     DEF Next

\* The inductive invariant, as a state predicate.
Safe == SessionInvariant(session)

\* SessionInvariant holds in every reachable state.
LEMMA SafeAlways == Spec => []Safe
<1>1. Init => Safe
  BY InitInvariant DEF Safe
<1>2. Safe /\ [Next]_session => Safe'
  BY NextInvariant DEF Safe
<1> QED BY <1>1, <1>2, PTL DEF Spec

\* SessionIsSound: between any two calls and engine events, in any order and for every
\* set of ids and addresses, the fields of the session agree with each other.
THEOREM SessionSafety == Spec => []SessionIsSound
<1>1. Safe => SessionIsSound
  BY DEF Safe, SessionInvariant, SessionIsSound, TypeOK, UniqueIds, ActiveMatchesLifecycle,
         ActiveIsMostRecent, StatusCoherent, ClosedListSound
<1> QED BY <1>1, SafeAlways, PTL

\* TypeOK: every field of browser_session.h holds a value of its type, the records
\* that ReopenLastClosedTab builds tabs from included.
THEOREM TypesHold == Spec => []TypeOK
<1>1. Safe => TypeOK
  BY DEF Safe, SessionInvariant, TypeOK
<1> QED BY <1>1, SafeAlways, PTL

\* UniqueIds: whatever ids callers, restores and reopenings bring, no two open tabs
\* share one.
THEOREM IdsAreUnique == Spec => []UniqueIds
<1>1. Safe => UniqueIds
  BY DEF Safe, SessionInvariant, UniqueIds
<1> QED BY <1>1, SafeAlways, PTL

\* ActiveMatchesLifecycle: active_tab_id_ and the lifecycle fields never disagree,
\* whatever the sequence of demotions, wake-ups and successions.
THEOREM OneTabIsActive == Spec => []ActiveMatchesLifecycle
<1>1. Safe => ActiveMatchesLifecycle
  BY DEF Safe, SessionInvariant, ActiveMatchesLifecycle
<1> QED BY <1>1, SafeAlways, PTL

\* ActiveIsMostRecent: the least-recently-used order of TabDiscardPolicy never puts
\* the active tab before another.
THEOREM ActiveTabIsNewest == Spec => []ActiveIsMostRecent
<1>1. Safe => ActiveIsMostRecent
  BY DEF Safe, SessionInvariant, ActiveIsMostRecent
<1> QED BY <1>1, SafeAlways, PTL

\* StatusCoherent: no order of commands and engine events makes the status fields of a
\* tab contradict each other.
THEOREM StatusStaysCoherent == Spec => []StatusCoherent
<1>1. Safe => StatusCoherent
  BY DEF Safe, SessionInvariant, StatusCoherent
<1> QED BY <1>1, SafeAlways, PTL

\* ClosedListSound: closed_tabs_ never exceeds its capacity, however closes, reopenings
\* and purges alternate, and a new-tab page never enters it.
THEOREM ClosedListStaysSound == Spec => []ClosedListSound
<1>1. Safe => ClosedListSound
  BY DEF Safe, SessionInvariant, ClosedListSound
<1> QED BY <1>1, SafeAlways, PTL

-----------------------------------------------------------------------------
(***************************************************************************)
(* Steps.  Every step is one of seven kinds, and what a kind changes is    *)
(* said by the ...Effect lemmas of SessionLemmas; the action properties    *)
(* and the engine's invariant follow kind by kind.                         *)
(***************************************************************************)

ShellTemplates == [url: PageUrls, title: PageTitles, eph: PrivacyModes]

Opens(s, d) ==
  \E t \in CallerIds, tpl \in ShellTemplates, activate \in BOOLEAN :
    ~IsOpen(s, t) /\ d = OpenTab(s, t, tpl, activate)

Closes(s, d) ==
  /\ s.clock < MaxActivations
  /\ \E t \in Open(s), fallback \in BOOLEAN : d = CloseTab(s, t, fallback)

Reopens(s, d) ==
  \E mode \in ClosedModes :
    /\ s.restored + 1 \in DOMAIN RestoredId /\ Reopenable(s, mode) # {}
    /\ d = ReopenLastClosedTab(s, mode)

Purges(s, d) == d = PurgeEphemeralClosedTabs(s)

Activates(s, d) == \E t \in Open(s) : s.active # t /\ d = ActivateTab(s, t)

\* A command or an event about a tab that is neither closed nor discarded.
ActsOnPage(s, d) ==
  \E t \in Open(s) :
    /\ Alive(s, t)
    /\ \/ \E url \in PageUrls : d = Navigate(s, t, url)
       \/ d = Woken(s, t)
       \/ s.tab[t].life \notin {"Active", "Suspended"} /\ d = SuspendTab(s, t)
       \/ s.tab[t].life # "Active" /\ d = DiscardTab(s, t)
       \/ \E url \in PageUrls \cup {s.tab[t].url}, title \in PageTitles \cup {s.tab[t].title} :
            EventOnTab(s, d, t, url, title)

StepKinds(s, d) ==
  \/ Opens(s, d)
  \/ Closes(s, d)
  \/ Reopens(s, d)
  \/ Purges(s, d)
  \/ Activates(s, d)
  \/ ActsOnPage(s, d)
  \/ d = s

\* A call that finds nothing to do leaves the session as it was; the others are of a kind.
LEMMA NextIsOfAKind ==
  ASSUME SessionInvariant(session), [Next]_session
  PROVE  StepKinds(session, session')
<1>1. ASSUME NEW t \in CallerIds, NEW url \in PageUrls, NEW title \in PageTitles,
             NEW eph \in PrivacyModes, NEW activate \in BOOLEAN,
             OpenTabCall(t, [url |-> url, title |-> title, eph |-> eph], activate)
      PROVE  StepKinds(session, session')
  <2> DEFINE tpl == [url |-> url, title |-> title, eph |-> eph]
  <2>1. tpl \in ShellTemplates
    BY DEF ShellTemplates
  <2> HIDE DEF tpl
  <2>2. session' = OpenTab(session, t, tpl, activate)
    BY <1>1 DEF OpenTabCall, tpl
  <2>3. CASE IsOpen(session, t)
    BY <2>2, <2>3 DEF OpenTab, AcceptsId, StepKinds
  <2>4. CASE ~IsOpen(session, t)
    BY <2>1, <2>2, <2>4 DEF Opens, StepKinds
  <2> QED BY <2>3, <2>4
<1>2. ASSUME NEW t \in TabIds, NEW fallback \in BOOLEAN, CloseTabCall(t, fallback)
      PROVE  StepKinds(session, session')
  <2>1. session.clock < MaxActivations /\ session' = CloseTab(session, t, fallback)
    BY <1>2 DEF CloseTabCall, MayActivate
  <2>2. CASE IsOpen(session, t)
    BY <2>1, <2>2 DEF IsOpen, Closes, StepKinds
  <2>3. CASE ~IsOpen(session, t)
    BY <2>1, <2>3 DEF CloseTab, StepKinds
  <2> QED BY <2>2, <2>3
<1>3. ASSUME NEW mode \in ClosedModes, ReopenCall(mode)
      PROVE  StepKinds(session, session')
  <2>1. CASE Reopenable(session, mode) = {}
    BY <1>3, <2>1 DEF ReopenCall, ReopenLastClosedTab, StepKinds
  <2>2. CASE Reopenable(session, mode) # {}
    BY <1>3, <2>2 DEF ReopenCall, Reopens, StepKinds
  <2> QED BY <2>1, <2>2
<1>4. CASE PurgeCall
  BY <1>4 DEF PurgeCall, Purges, StepKinds
<1>5. ASSUME NEW t, session' = ActivateTab(session, t)
      PROVE  StepKinds(session, session')
  <2>1. CASE ~IsOpen(session, t) \/ session.active = t
    BY <1>5, <2>1 DEF ActivateTab, StepKinds
  <2>2. CASE IsOpen(session, t) /\ session.active # t
    BY <1>5, <2>2 DEF IsOpen, Activates, StepKinds
  <2> QED BY <2>1, <2>2
<1>6. ASSUME NEW t \in TabIds, ActivateTabCall(t)
      PROVE  StepKinds(session, session')
  BY <1>5, <1>6 DEF ActivateTabCall
<1>7. ASSUME NEW forward \in BOOLEAN, CycleTabCall(forward)
      PROVE  StepKinds(session, session')
  <2>1. PICK visible : session' = CycleTab(session, visible, forward)
    BY <1>7 DEF CycleTabCall
  <2>2. \/ session' = session
        \/ session' = ActivateTab(session, CycleTarget(session, visible, forward))
    BY <2>1 DEF CycleTab
  <2> QED BY <1>5, <2>2 DEF StepKinds
<1>8. ASSUME NEW t \in TabIds,
             \/ \E url \in PageUrls : NavigateCall(t, url)
             \/ NavigationCommandCall(t)
             \/ SuspendTabCall(t)
             \/ ResumeTabCall(t)
             \/ DiscardTabCall(t)
             \/ EngineEvent(t)
      PROVE  StepKinds(session, session')
  <2>1. CASE ~Alive(session, t)
    <3>1. session' = session
      BY <1>8, <2>1 DEF NavigateCall, NavigationCommandCall, SuspendTabCall, ResumeTabCall,
         DiscardTabCall, EngineEvent, NavigationStartedEvent, NavigationCommittedEvent,
         NavigationFailedEvent, TitleChangedEvent, RendererCrashedEvent,
         Navigate, NavigationCommand, SuspendTab, ResumeTab, DiscardTab, OnNavigationStarted,
         OnNavigationCommitted, OnNavigationFailed, OnTitleChanged, OnRendererCrashed
    <3> QED BY <3>1 DEF StepKinds
  <2>2. CASE Alive(session, t)
    <3>1. t \in Open(session)
      BY <2>2 DEF Alive, IsOpen
    <3>2. CASE \E url \in PageUrls : NavigateCall(t, url)
      BY <2>2, <3>1, <3>2 DEF NavigateCall, ActsOnPage, StepKinds
    <3>3. CASE NavigationCommandCall(t) \/ ResumeTabCall(t)
      BY <2>2, <3>1, <3>3 DEF NavigationCommandCall, ResumeTabCall, NavigationCommand,
                              ResumeTab, ActsOnPage, StepKinds
    <3>4. CASE SuspendTabCall(t)
      <4>1. CASE session.tab[t].life \in {"Active", "Suspended"}
        BY <3>4, <4>1 DEF SuspendTabCall, SuspendTab, StepKinds
      <4>2. CASE session.tab[t].life \notin {"Active", "Suspended"}
        BY <2>2, <3>1, <3>4, <4>2 DEF SuspendTabCall, ActsOnPage, StepKinds
      <4> QED BY <4>1, <4>2
    <3>5. CASE DiscardTabCall(t)
      <4>1. CASE session.tab[t].life = "Active"
        BY <3>5, <4>1 DEF DiscardTabCall, DiscardTab, StepKinds
      <4>2. CASE session.tab[t].life # "Active"
        BY <2>2, <3>1, <3>5, <4>2 DEF DiscardTabCall, ActsOnPage, StepKinds
      <4> QED BY <4>1, <4>2
    <3>6. CASE EngineEvent(t)
      <4> DEFINE here  == session.tab[t].url
                 named == session.tab[t].title
      <4>1. here \in Urls /\ named \in Titles
        BY <3>1, OpenTabFacts DEF TabRecords, IsCoherent
      <4>2. PageUrls \subseteq Urls /\ PageTitles \subseteq Titles
        BY PageUrlsAssumption, PageTitlesAssumption
      <4>3. \E url \in PageUrls \cup {here}, title \in PageTitles \cup {named} :
              EventOnTab(session, session', t, url, title)
        <5> HIDE DEF here, named
        <5>1. ASSUME NEW url \in PageUrls,
                     \/ NavigationStartedEvent(t, url)
                     \/ NavigationCommittedEvent(t, url)
                     \/ NavigationFailedEvent(t, url)
              PROVE  EventOnTab(session, session', t, url, named)
          BY <2>2, <4>1, <4>2, <5>1, EventEffect
             DEF NavigationStartedEvent, NavigationCommittedEvent, NavigationFailedEvent
        <5>2. ASSUME NEW title \in PageTitles, TitleChangedEvent(t, title)
              PROVE  EventOnTab(session, session', t, here, title)
          BY <2>2, <4>1, <4>2, <5>2, EventEffect DEF TitleChangedEvent
        <5>3. ASSUME RendererCrashedEvent(t)
              PROVE  EventOnTab(session, session', t, here, named)
          BY <2>2, <4>1, <5>3, EventEffect DEF RendererCrashedEvent
        <5> QED BY <3>6, <5>1, <5>2, <5>3 DEF EngineEvent
      <4> QED BY <2>2, <3>1, <4>3 DEF ActsOnPage, StepKinds
    <3> QED BY <1>8, <3>2, <3>3, <3>4, <3>5, <3>6
  <2> QED BY <2>1, <2>2
<1>9. CASE UNCHANGED session
  BY <1>9 DEF StepKinds
<1> QED BY <1>1, <1>2, <1>3, <1>4, <1>6, <1>7, <1>8, <1>9 DEF Next

\* The shell's templates are templates.
LEMMA ShellTemplatesType == ShellTemplates \subseteq Templates
BY PageUrlsAssumption, PageTitlesAssumption, PrivacyModesAssumption
   DEF ShellTemplates, Templates

\* An operation on a page writes one tab, which is not discarded.
LEMMA PageStepEffect ==
  ASSUME NEW s, SessionInvariant(s), NEW d, ActsOnPage(s, d)
  PROVE  \E t \in Open(s), rec \in TabRecords :
           /\ Alive(s, t) /\ CallOnTab(s, d, t, rec, d.engine) /\ rec.eph = s.tab[t].eph
           /\ rec.url \in PageUrls \cup {s.tab[t].url}
           /\ rec.title \in PageTitles \cup {s.tab[t].title}
<1>1. PICK t \in Open(s) :
        /\ Alive(s, t)
        /\ \/ \E url \in PageUrls : d = Navigate(s, t, url)
           \/ d = Woken(s, t)
           \/ s.tab[t].life \notin {"Active", "Suspended"} /\ d = SuspendTab(s, t)
           \/ s.tab[t].life # "Active" /\ d = DiscardTab(s, t)
           \/ \E url \in PageUrls \cup {s.tab[t].url}, title \in PageTitles \cup {s.tab[t].title} :
                EventOnTab(s, d, t, url, title)
  BY DEF ActsOnPage
<1> DEFINE tab == s.tab[t]
           Fits(rec) == /\ rec \in TabRecords /\ rec.eph = tab.eph
                        /\ rec.url \in PageUrls \cup {tab.url}
                        /\ rec.title \in PageTitles \cup {tab.title}
<1>2. tab \in TabRecords
  BY OpenTabFacts
<1>3. SUFFICES \E rec, e : CallOnTab(s, d, t, rec, e) /\ Fits(rec)
  BY <1>1 DEF CallOnTab
<1> HIDE DEF tab
<1>4. Fits(WokenTab(tab))
  BY <1>2 DEF WokenTab, Demoted, TabRecords, Lifecycles
<1>5. ASSUME NEW url \in PageUrls, d = Navigate(s, t, url)
      PROVE  \E rec, e : CallOnTab(s, d, t, rec, e) /\ Fits(rec)
  <2>1. url \in Urls
    BY PageUrlsAssumption
  <2>2. CallOnTab(s, d, t, Requested(WokenTab(tab), url),
                  EngineNavigate(WokenEngine(s, t), t, url))
    BY <1>1, <1>5, <2>1, NavigateEffect DEF tab
  <2>3. Fits(Requested(WokenTab(tab), url))
    BY <1>4, <2>1 DEF Requested, TabRecords, NavStates
  <2> QED BY <2>2, <2>3
<1>6. CASE d = Woken(s, t)
  BY <1>4, <1>6, WokenEffect DEF tab
<1>7. CASE s.tab[t].life \notin {"Active", "Suspended"} /\ d = SuspendTab(s, t)
  <2>1. Fits([tab EXCEPT !.life = "Suspended"])
    BY <1>2 DEF TabRecords, Lifecycles
  <2>2. CallOnTab(s, d, t, [tab EXCEPT !.life = "Suspended"], EngineSuspend(s.engine, t))
    BY <1>1, <1>7, RestEffect DEF tab
  <2> QED BY <2>1, <2>2
<1>8. CASE s.tab[t].life # "Active" /\ d = DiscardTab(s, t)
  <2>1. Fits([tab EXCEPT !.life = "Discarded"])
    BY <1>2 DEF TabRecords, Lifecycles
  <2>2. CallOnTab(s, d, t, [tab EXCEPT !.life = "Discarded"], EngineClose(s.engine, t))
    BY <1>1, <1>8, RestEffect DEF tab
  <2> QED BY <2>1, <2>2
<1>9. ASSUME NEW url \in PageUrls \cup {s.tab[t].url},
             NEW title \in PageTitles \cup {s.tab[t].title}, EventOnTab(s, d, t, url, title)
      PROVE  \E rec, e : CallOnTab(s, d, t, rec, e) /\ Fits(rec)
  BY <1>9 DEF EventOnTab, EventRecord, tab
<1> QED BY <1>1, <1>5, <1>6, <1>7, <1>8, <1>9

\* Only a close takes a tab away.
LEMMA OnlyCloseRemoves ==
  ASSUME NEW s, SessionInvariant(s), NEW d, StepKinds(s, d), ~Closes(s, d)
  PROVE  Open(s) \subseteq Open(d)
<1>1. CASE Opens(s, d)
  <2>1. PICK t \in CallerIds, tpl \in ShellTemplates, activate \in BOOLEAN :
          ~IsOpen(s, t) /\ d = OpenTab(s, t, tpl, activate)
    BY <1>1 DEF Opens
  <2>2. t \in TabIds /\ tpl \in Templates
    BY CallerIdsAssumption, ShellTemplatesType
  <2> QED BY <2>1, <2>2, OpenTabEffect
<1>2. CASE Reopens(s, d)
  <2>1. PICK mode \in ClosedModes :
          /\ s.restored + 1 \in DOMAIN RestoredId /\ Reopenable(s, mode) # {}
          /\ d = ReopenLastClosedTab(s, mode)
    BY <1>2 DEF Reopens
  <2> QED BY <2>1, ReopenEffect
<1>3. CASE Purges(s, d)
  BY <1>3, PurgeEffect DEF Purges
<1>4. CASE Activates(s, d)
  BY <1>4, ActivateTabEffect DEF Activates
<1>5. CASE ActsOnPage(s, d)
  BY <1>5, PageStepEffect DEF CallOnTab
<1> QED BY <1>1, <1>2, <1>3, <1>4, <1>5 DEF StepKinds

\* The counter of restored ids moves with a reopening only.
LEMMA OnlyReopenRenames ==
  ASSUME NEW s, SessionInvariant(s), NEW d, StepKinds(s, d), ~Reopens(s, d)
  PROVE  d.restored = s.restored
<1>1. CASE Opens(s, d)
  <2>1. PICK t \in CallerIds, tpl \in ShellTemplates, activate \in BOOLEAN :
          ~IsOpen(s, t) /\ d = OpenTab(s, t, tpl, activate)
    BY <1>1 DEF Opens
  <2>2. t \in TabIds /\ tpl \in Templates
    BY CallerIdsAssumption, ShellTemplatesType
  <2> QED BY <2>1, <2>2, OpenTabEffect
<1>2. CASE Closes(s, d)
  <2>1. PICK t \in Open(s), fallback \in BOOLEAN : d = CloseTab(s, t, fallback)
    BY <1>2 DEF Closes
  <2> DEFINE gone == RemoveTab(RememberClosed(s, t), t)
  <2>2. /\ SessionInvariant(gone) /\ gone.restored = s.restored
        /\ d = gone \/ \E y \in Open(gone) : d = ActivateTab(gone, y)
    BY <2>1, CloseTabEffect
  <2> HIDE DEF gone
  <2> QED BY <2>2, ActivateTabEffect
<1>3. CASE Purges(s, d)
  BY <1>3, PurgeEffect DEF Purges
<1>4. CASE Activates(s, d)
  BY <1>4, ActivateTabEffect DEF Activates
<1>5. CASE ActsOnPage(s, d)
  BY <1>5, PageStepEffect DEF CallOnTab
<1> QED BY <1>1, <1>2, <1>3, <1>4, <1>5 DEF StepKinds

\* A page a step may change is the page of a tab that is neither closed nor discarded.
LEMMA DiscardedPagesStay ==
  ASSUME NEW s, SessionInvariant(s), NEW d, StepKinds(s, d),
         NEW x \in Open(s) \cap Open(d), s.tab[x].life = "Discarded"
  PROVE  SamePage(s.tab[x], d.tab[x])
<1>0. x \in TabIds
  BY OpenAreIds DEF SessionInvariant
<1>1. CASE Opens(s, d)
  <2>1. PICK t \in CallerIds, tpl \in ShellTemplates, activate \in BOOLEAN :
          ~IsOpen(s, t) /\ d = OpenTab(s, t, tpl, activate)
    BY <1>1 DEF Opens
  <2>2. t \in TabIds /\ tpl \in Templates
    BY CallerIdsAssumption, ShellTemplatesType
  <2> QED BY <2>1, <2>2, OpenTabEffect
<1>2. CASE Closes(s, d)
  <2>1. PICK t \in Open(s), fallback \in BOOLEAN : d = CloseTab(s, t, fallback)
    BY <1>2 DEF Closes
  <2> DEFINE gone == RemoveTab(RememberClosed(s, t), t)
  <2>2. /\ SessionInvariant(gone) /\ Open(gone) = Open(s) \ {t}
        /\ \A y \in TabIds \ {t} : gone.tab[y] = s.tab[y]
        /\ d = gone \/ \E y \in Open(gone) : d = ActivateTab(gone, y)
    BY <2>1, CloseTabEffect
  <2> HIDE DEF gone
  <2>3. \A y : /\ Open(ActivateTab(gone, y)) = Open(gone)
               /\ \A z \in TabIds : SamePage(gone.tab[z], ActivateTab(gone, y).tab[z])
    BY <2>2, ActivateTabEffect
  <2>4. Open(d) = Open(gone) /\ SamePage(gone.tab[x], d.tab[x])
    BY <1>0, <2>2, <2>3 DEF SamePage
  <2>5. gone.tab[x] = s.tab[x]
    BY <1>0, <2>2, <2>4
  <2> QED BY <2>4, <2>5
<1>3. CASE Reopens(s, d)
  <2>1. PICK mode \in ClosedModes :
          /\ s.restored + 1 \in DOMAIN RestoredId /\ Reopenable(s, mode) # {}
          /\ d = ReopenLastClosedTab(s, mode)
    BY <1>3 DEF Reopens
  <2> QED BY <2>1, ReopenEffect
<1>4. CASE Purges(s, d)
  BY <1>4, PurgeEffect DEF Purges, SamePage
<1>5. CASE Activates(s, d)
  BY <1>0, <1>5, ActivateTabEffect DEF Activates
<1>6. CASE ActsOnPage(s, d)
  <2>1. PICK t \in Open(s), rec \in TabRecords :
          Alive(s, t) /\ CallOnTab(s, d, t, rec, d.engine)
    BY <1>6, PageStepEffect
  <2>2. x # t
    BY <2>1 DEF Alive
  <2>3. d.tab[x] = s.tab[x]
    BY <1>0, <2>1, <2>2 DEF CallOnTab
  <2> QED BY <2>3 DEF SamePage
<1>7. CASE d = s
  BY <1>7 DEF SamePage
<1> QED BY <1>1, <1>2, <1>3, <1>4, <1>5, <1>6, <1>7 DEF StepKinds

\* DiscardedIsFrozen: what a discarded tab will be restored from is not touched by a late
\* engine event, a navigation command or any call about other tabs; an activation only
\* writes its lifecycle and its number.
THEOREM DiscardedTabsAreFrozen == Spec => DiscardedIsFrozen
<1> DEFINE Frozen ==
      \A t \in Open(session) \cap Open(session') :
        session.tab[t].life = "Discarded" =>
          [session'.tab[t] EXCEPT !.life = "Discarded", !.seq = 0]
            = [session.tab[t] EXCEPT !.seq = 0]
<1>1. Safe /\ [Next]_session => [Frozen]_session
  <2> SUFFICES ASSUME SessionInvariant(session), [Next]_session,
                      NEW t \in Open(session) \cap Open(session'),
                      session.tab[t].life = "Discarded"
               PROVE  [session'.tab[t] EXCEPT !.life = "Discarded", !.seq = 0]
                        = [session.tab[t] EXCEPT !.seq = 0]
    BY DEF Safe
  <2>1. SamePage(session.tab[t], session'.tab[t])
    BY NextIsOfAKind, DiscardedPagesStay
  <2>2. SessionInvariant(session')
    BY NextInvariant
  <2>3. session.tab[t] \in TabRecords /\ session'.tab[t] \in TabRecords
    BY <2>2, OpenTabFacts
  <2> QED BY <2>1, <2>3 DEF SamePage, TabRecords
<1>2. Spec => [][Frozen]_session
  BY <1>1, SafeAlways, PTL DEF Spec
<1> QED BY <1>2 DEF DiscardedIsFrozen

\* CloseHandsOver: the active tab is lost only to a close; without fallback nothing takes
\* over, with it the scan of ActivateAfterClose finds a tab that is not discarded if there
\* is one.
THEOREM CloseFindsASuccessor == Spec => CloseHandsOver
<1> DEFINE HandsOver ==
      LET lost == session.active \notin Open(session') IN
      session.active # NoTabId /\ lost /\ session'.tabs # <<>> =>
        \/ CloseTabCall(session.active, FALSE)
        \/ /\ session'.active # NoTabId
           /\ session.tab[session'.active].life = "Discarded" =>
                \A t \in Open(session') : session.tab[t].life = "Discarded"
<1>1. Safe /\ [Next]_session => [HandsOver]_session
  <2> SUFFICES ASSUME SessionInvariant(session), [Next]_session,
                      session.active # NoTabId, session.active \notin Open(session'),
                      session'.tabs # <<>>
               PROVE  \/ CloseTabCall(session.active, FALSE)
                      \/ /\ session'.active # NoTabId
                         /\ session.tab[session'.active].life = "Discarded" =>
                              \A t \in Open(session') : session.tab[t].life = "Discarded"
    BY DEF Safe
  <2>1. session.active \in Open(session) /\ Open(session) \subseteq TabIds
    BY OpenAreIds, SessionFields DEF SessionInvariant, HasOneActive, IsOpen
  <2>2. Closes(session, session')
    BY <2>1, NextIsOfAKind, OnlyCloseRemoves
  <2>3. PICK t \in Open(session), fallback \in BOOLEAN :
          session.clock < MaxActivations /\ session' = CloseTab(session, t, fallback)
    BY <2>2 DEF Closes
  <2> DEFINE gone == RemoveTab(RememberClosed(session, t), t)
  <2>4. /\ SessionInvariant(gone) /\ Open(gone) = Open(session) \ {t}
        /\ \A x \in TabIds \ {t} : gone.tab[x] = session.tab[x]
        /\ \/ session' = gone /\ ~(session.active = t /\ fallback /\ gone.tabs # <<>>)
           \/ /\ session.active = t /\ fallback
              /\ \E y \in Open(gone) :
                   /\ session' = ActivateTab(gone, y)
                   /\ gone.tab[y].life = "Discarded" =>
                        \A x \in Open(gone) : gone.tab[x].life = "Discarded"
    BY <2>3, CloseTabEffect
  <2> HIDE DEF gone
  <2>5. CASE session' = gone /\ ~(session.active = t /\ fallback /\ gone.tabs # <<>>)
    <3>1. session.active = t /\ fallback = FALSE
      BY <2>1, <2>4, <2>5
    <3> QED BY <2>3, <3>1 DEF CloseTabCall, MayActivate
  <2>6. ASSUME NEW y \in Open(gone), session' = ActivateTab(gone, y),
               gone.tab[y].life = "Discarded" =>
                 \A x \in Open(gone) : gone.tab[x].life = "Discarded"
        PROVE  /\ session'.active # NoTabId
               /\ session.tab[session'.active].life = "Discarded" =>
                    \A x \in Open(session') : session.tab[x].life = "Discarded"
    <3>1. session'.active = y /\ Open(session') = Open(gone)
      BY <2>4, <2>6, ActivateTabEffect DEF IsOpen
    <3>2. \A x \in Open(gone) : gone.tab[x] = session.tab[x]
      BY <2>1, <2>4
    <3>3. y # NoTabId
      BY <2>1, <2>4, NoTabIdAssumption
    <3> QED BY <2>6, <3>1, <3>2, <3>3
  <2> QED BY <2>4, <2>5, <2>6
<1>2. Spec => [][HandsOver]_session
  BY <1>1, SafeAlways, PTL DEF Spec
<1> QED BY <1>2 DEF CloseHandsOver

-----------------------------------------------------------------------------
\* What reopening takes for granted.  The names it makes up are nobody else's: no caller
\* opens "restored-n", and the counter never repeats a number; and no page of the shell
\* looks like the placeholder of a legacy call site, which OpenTab would rewrite.
OwnRestoredIds ==
  \A n \in DOMAIN RestoredId :
    /\ RestoredId[n] \notin CallerIds
    /\ \A m \in DOMAIN RestoredId : RestoredId[m] = RestoredId[n] => m = n

NoLegacyPages == ~(LegacyUrl \in PageUrls /\ "placeholder" \in PageTitles)

GivenRecords == {rec \in Templates : rec.url \in PageUrls /\ rec.title \in PageTitles}

UsedRestoredIds(s) == {RestoredId[n] : n \in (1 .. s.restored) \cap DOMAIN RestoredId}

\* Open tabs have names that callers or earlier reopenings gave, and tabs and records
\* have the addresses and titles that were given to them.
HasKnownOrigins(s) ==
  /\ Open(s) \subseteq CallerIds \cup UsedRestoredIds(s)
  /\ \A t \in Open(s) : s.tab[t].url \in PageUrls /\ s.tab[t].title \in PageTitles
  /\ s.closed \in Seq(GivenRecords)

\* The record of a given template is that template: nothing is normalised.
LEMMA GivenTabs ==
  ASSUME NoLegacyPages, NEW tpl \in GivenRecords
  PROVE  LET fresh == FreshTab(Normalised(tpl)) IN
         fresh.url = tpl.url /\ fresh.title = tpl.title /\ fresh.eph = tpl.eph
BY DEF NoLegacyPages, GivenRecords, Normalised, IsLegacySyntheticNewTab, FreshTab, Templates

LEMMA StepKeepsOrigins ==
  ASSUME NoLegacyPages, NEW s, SessionInvariant(s), HasKnownOrigins(s), NEW d, StepKinds(s, d)
  PROVE  HasKnownOrigins(d)
<1>0. /\ Open(s) \subseteq TabIds /\ s.restored \in Nat
      /\ s.closed \in Seq(Memorable) /\ Len(s.closed) <= MaxClosed
  BY OpenAreIds, SessionFields, ClosedListFacts DEF SessionInvariant
<1>1. CASE Opens(s, d)
  <2>1. PICK t \in CallerIds, tpl \in ShellTemplates, activate \in BOOLEAN :
          ~IsOpen(s, t) /\ d = OpenTab(s, t, tpl, activate)
    BY <1>1 DEF Opens
  <2>2. t \in TabIds /\ tpl \in Templates /\ tpl \in GivenRecords
    BY CallerIdsAssumption, ShellTemplatesType DEF ShellTemplates, GivenRecords
  <2>3. /\ Open(d) = Open(s) \cup {t}
        /\ d.closed = s.closed /\ d.restored = s.restored
        /\ SamePage(FreshTab(Normalised(tpl)), d.tab[t])
        /\ \A x \in Open(s) : SamePage(s.tab[x], d.tab[x])
    BY <2>1, <2>2, OpenTabEffect
  <2>4. d.tab[t].url \in PageUrls /\ d.tab[t].title \in PageTitles
    BY <2>2, <2>3, GivenTabs DEF SamePage, GivenRecords
  <2>5. \A x \in Open(s) : d.tab[x].url \in PageUrls /\ d.tab[x].title \in PageTitles
    BY <2>3 DEF SamePage, HasKnownOrigins
  <2>6. UsedRestoredIds(d) = UsedRestoredIds(s)
    BY <2>3 DEF UsedRestoredIds
  <2> QED BY <2>3, <2>4, <2>5, <2>6 DEF HasKnownOrigins
<1>2. CASE Closes(s, d)
  <2>1. PICK t \in Open(s), fallback \in BOOLEAN : d = CloseTab(s, t, fallback)
    BY <1>2 DEF Closes
  <2> DEFINE gone == RemoveTab(RememberClosed(s, t), t)
             rec  == ClosedRecord(s.tab[t])
  <2>2. /\ SessionInvariant(gone) /\ Open(gone) = Open(s) \ {t}
        /\ gone.restored = s.restored /\ gone.closed = RememberClosed(s, t).closed
        /\ \A y \in TabIds \ {t} : gone.tab[y] = s.tab[y]
        /\ d = gone \/ \E y \in Open(gone) : d = ActivateTab(gone, y)
    BY <2>1, CloseTabEffect
  <2>3. gone.closed \in Seq(GivenRecords)
    <3>1. s.tab[t] \in TabRecords /\ IsCoherent(s.tab[t])
      BY OpenTabFacts
    <3>2. rec \in GivenRecords
      BY <3>1 DEF GivenRecords, Templates, TabRecords, IsCoherent, ClosedRecord, HasKnownOrigins
    <3> HIDE DEF gone, rec
    <3>3. Remembered(s.closed, rec) \in Seq(GivenRecords)
      BY <1>0, <3>2, RememberedType DEF HasKnownOrigins
    <3>4. gone.closed = s.closed \/ gone.closed = Remembered(s.closed, rec)
      BY <2>2, RememberClosedEffect DEF rec
    <3> QED BY <3>3, <3>4 DEF HasKnownOrigins
  <2> HIDE DEF gone, rec
  <2>4. \A y : /\ Open(ActivateTab(gone, y)) = Open(gone)
               /\ ActivateTab(gone, y).closed = gone.closed
               /\ ActivateTab(gone, y).restored = gone.restored
               /\ \A z \in TabIds : SamePage(gone.tab[z], ActivateTab(gone, y).tab[z])
    BY <2>2, ActivateTabEffect
  <2>5. /\ Open(d) = Open(gone) /\ d.closed = gone.closed /\ d.restored = s.restored
        /\ \A z \in TabIds : SamePage(gone.tab[z], d.tab[z])
    BY <2>2, <2>4 DEF SamePage
  <2>6. ASSUME NEW z \in Open(d)
        PROVE  d.tab[z].url \in PageUrls /\ d.tab[z].title \in PageTitles
    <3>1. gone.tab[z] = s.tab[z] /\ z \in Open(s) /\ SamePage(gone.tab[z], d.tab[z])
      BY <1>0, <2>2, <2>5
    <3> QED BY <3>1 DEF SamePage, HasKnownOrigins
  <2>7. UsedRestoredIds(d) = UsedRestoredIds(s)
    BY <2>5 DEF UsedRestoredIds
  <2> QED BY <2>2, <2>3, <2>5, <2>6, <2>7 DEF HasKnownOrigins
<1>3. CASE Reopens(s, d)
  <2>1. PICK mode \in ClosedModes :
          /\ s.restored + 1 \in DOMAIN RestoredId /\ Reopenable(s, mode) # {}
          /\ d = ReopenLastClosedTab(s, mode)
    BY <1>3 DEF Reopens
  <2> DEFINE k  == NewestReopenable(s, mode)
             id == RestoredId[s.restored + 1]
             tpl == s.closed[k]
  <2>2. /\ d.closed = RemoveAt(s.closed, k) /\ d.restored = s.restored + 1
        /\ id \in TabIds /\ Open(d) = Open(s) \cup {id}
        /\ \A x \in Open(s) : SamePage(s.tab[x], d.tab[x])
        /\ id \notin Open(s) => SamePage(FreshTab(Normalised(tpl)), d.tab[id])
    BY <2>1, ReopenEffect
  <2>3. k \in 1 .. Len(s.closed)
    BY <2>1, NewestReopenableEffect
  <2>a. id \in UsedRestoredIds(d)
    BY <1>0, <2>1, <2>2 DEF UsedRestoredIds
  <2> HIDE DEF k, id
  <2>4. tpl \in GivenRecords /\ RemoveAt(s.closed, k) \in Seq(GivenRecords)
    BY <2>3, ElementOfSeq, RemoveAtProperties DEF HasKnownOrigins
  <2> HIDE DEF tpl
  <2>5. id \notin Open(s) => d.tab[id].url \in PageUrls /\ d.tab[id].title \in PageTitles
    BY <2>2, <2>4, GivenTabs DEF SamePage, GivenRecords
  <2>6. \A x \in Open(s) : d.tab[x].url \in PageUrls /\ d.tab[x].title \in PageTitles
    BY <2>2 DEF SamePage, HasKnownOrigins
  <2>7. UsedRestoredIds(s) \subseteq UsedRestoredIds(d)
    BY <1>0, <2>2 DEF UsedRestoredIds
  <2> QED BY <2>2, <2>4, <2>5, <2>6, <2>7, <2>a DEF HasKnownOrigins
<1>4. CASE Purges(s, d)
  <2> DEFINE kept == {rec \in Templates : ~rec.eph}
  <2>1. /\ Open(d) = Open(s) /\ d.tab = s.tab /\ d.restored = s.restored
        /\ d.closed = Kept(s.closed, kept)
    BY <1>4, PurgeEffect DEF Purges
  <2> HIDE DEF kept
  <2>2. Kept(s.closed, kept) \in Seq(GivenRecords \cap kept)
    BY KeptType DEF HasKnownOrigins
  <2>3. Kept(s.closed, kept) \in Seq(GivenRecords)
    BY <2>2, SeqMonotonic
  <2>4. UsedRestoredIds(d) = UsedRestoredIds(s)
    BY <2>1 DEF UsedRestoredIds
  <2> QED BY <2>1, <2>3, <2>4 DEF HasKnownOrigins
<1>5. CASE Activates(s, d)
  <2>1. /\ Open(d) = Open(s) /\ d.closed = s.closed /\ d.restored = s.restored
        /\ \A x \in TabIds : SamePage(s.tab[x], d.tab[x])
    BY <1>5, ActivateTabEffect DEF Activates
  <2>2. UsedRestoredIds(d) = UsedRestoredIds(s)
    BY <2>1 DEF UsedRestoredIds
  <2> QED BY <1>0, <2>1, <2>2 DEF HasKnownOrigins, SamePage
<1>6. CASE ActsOnPage(s, d)
  <2>1. PICK t \in Open(s), rec \in TabRecords :
          /\ CallOnTab(s, d, t, rec, d.engine)
          /\ rec.url \in PageUrls \cup {s.tab[t].url}
          /\ rec.title \in PageTitles \cup {s.tab[t].title}
    BY <1>6, PageStepEffect
  <2>2. rec.url \in PageUrls /\ rec.title \in PageTitles
    BY <2>1 DEF HasKnownOrigins
  <2>3. UsedRestoredIds(d) = UsedRestoredIds(s)
    BY <2>1 DEF UsedRestoredIds, CallOnTab
  <2> QED BY <1>0, <2>1, <2>2, <2>3 DEF HasKnownOrigins, CallOnTab
<1>7. CASE d = s
  BY <1>7
<1> QED BY <1>1, <1>2, <1>3, <1>4, <1>5, <1>6, <1>7 DEF StepKinds

\* ReopenUndoesLastClose: where restored ids are not used twice and nothing is rewritten,
\* a reopening takes the newest record of its kind, under a name that is free, and opens
\* it at the address and in the privacy mode it was closed with.
THEOREM ReopeningIsFaithful ==
  ASSUME OwnRestoredIds, NoLegacyPages
  PROVE  Spec => ReopenUndoesLastClose
<1> DEFINE Undoes ==
      session'.restored > session.restored =>
        \E k \in DOMAIN session.closed :
          LET rec    == session.closed[k]
              opened == session'.tab[session'.active] IN
          /\ session'.closed = RemoveAt(session.closed, k)
          /\ \A j \in DOMAIN session.closed : j > k => session.closed[j].eph # rec.eph
          /\ Len(session'.tabs) = Len(session.tabs) + 1
          /\ opened.url = rec.url /\ opened.eph = rec.eph
           Known == Safe /\ HasKnownOrigins(session)
<1>1. Init => Known
  <2> SUFFICES ASSUME Init PROVE Known
    OBVIOUS
  <2>1. Safe
    BY InitInvariant DEF Safe
  <2>2. Open(session) = {} /\ session.closed = <<>>
    BY SessionInitInvariant DEF Init, SessionInit
  <2> QED BY <2>1, <2>2, EmptySeq DEF HasKnownOrigins
<1>2. Known /\ [Next]_session => Known'
  BY NextInvariant, NextIsOfAKind, StepKeepsOrigins DEF Safe
<1>3. Spec => []Known
  BY <1>1, <1>2, PTL DEF Spec
<1>4. Known /\ [Next]_session => [Undoes]_session
  <2> SUFFICES ASSUME SessionInvariant(session), HasKnownOrigins(session), [Next]_session,
                      session'.restored > session.restored
               PROVE  Undoes
    BY DEF Safe
  <2>1. Reopens(session, session')
    <3>1. session.restored \in Nat
      BY SessionFields DEF SessionInvariant
    <3>2. session'.restored # session.restored
      BY <3>1
    <3> QED BY <3>2, NextIsOfAKind, OnlyReopenRenames
  <2>2. PICK mode \in ClosedModes :
          /\ session.restored + 1 \in DOMAIN RestoredId /\ Reopenable(session, mode) # {}
          /\ session' = ReopenLastClosedTab(session, mode)
    BY <2>1 DEF Reopens
  <2> DEFINE k  == NewestReopenable(session, mode)
             id == RestoredId[session.restored + 1]
             rec == session.closed[k]
  <2>3. /\ session'.closed = RemoveAt(session.closed, k)
        /\ id \notin Open(session) =>
             /\ session'.tabs = Append(session.tabs, id) /\ session'.active = id
             /\ SamePage(FreshTab(Normalised(rec)), session'.tab[id])
    BY <2>2, ReopenEffect
  <2>4. /\ k \in Reopenable(session, mode) /\ k \in 1 .. Len(session.closed)
        /\ \A j \in Reopenable(session, mode) : j <= k
    BY <2>2, NewestReopenableEffect
  <2>5. id \notin Open(session)
    <3>1. session.restored \in Nat
      BY SessionFields DEF SessionInvariant
    <3>2. id \notin CallerIds
      BY <2>2 DEF OwnRestoredIds
    <3>3. id \notin UsedRestoredIds(session)
      BY <2>2, <3>1 DEF OwnRestoredIds, UsedRestoredIds
    <3> QED BY <3>2, <3>3 DEF HasKnownOrigins
  <2> HIDE DEF k, id
  <2>6. /\ DOMAIN session.closed = 1 .. Len(session.closed)
        /\ session.closed \in Seq(GivenRecords) /\ Len(session.closed) \in Nat
        /\ \A j \in 1 .. Len(session.closed) : session.closed[j] \in GivenRecords
    BY LenProperties, ElementOfSeq DEF HasKnownOrigins
  <2>7. session'.tab[id].url = rec.url /\ session'.tab[id].eph = rec.eph
    BY <2>3, <2>4, <2>5, <2>6, GivenTabs DEF SamePage
  <2>8. \A j \in DOMAIN session.closed : j > k => session.closed[j].eph # rec.eph
    <3> SUFFICES ASSUME NEW j \in 1 .. Len(session.closed), j > k
                 PROVE  session.closed[j].eph # rec.eph
      BY <2>6
    <3>1. j \notin Reopenable(session, mode)
      BY <2>4
    <3>2. /\ mode = "PersistentOnly" => session.closed[j].eph /\ ~rec.eph
          /\ mode = "EphemeralOnly" => ~session.closed[j].eph /\ rec.eph
          /\ mode # "Any"
      BY <2>4, <2>6, <3>1 DEF Reopenable, ClosedModes
    <3> QED BY <3>2 DEF ClosedModes
  <2>9. Len(session'.tabs) = Len(session.tabs) + 1
    BY <2>3, <2>5, SessionFields, AppendProperties, LenProperties DEF SessionInvariant
  <2> QED BY <2>3, <2>4, <2>5, <2>6, <2>7, <2>8, <2>9
<1>5. Spec => [][Undoes]_session
  BY <1>3, <1>4, PTL DEF Spec
<1> QED BY <1>5 DEF ReopenUndoesLastClose

-----------------------------------------------------------------------------
(***************************************************************************)
(* The session over an engine that keeps the contract: the engine is told  *)
(* of every change, by the command it needs, in an order it can obey.      *)
(***************************************************************************)

\* The engine behind the interface is the one of EngineContract.
OverContract ==
  /\ EngineInit = ContractInit
  /\ \A e, t, tab : EngineCreate(e, t, tab) = ContractCreate(e, t, tab)
  /\ \A e, t : /\ EngineClose(e, t) = ContractClose(e, t)
               /\ EngineActivate(e, t) = ContractActivate(e, t)
               /\ EngineSuspend(e, t) = ContractSuspend(e, t)
               /\ EngineResume(e, t) = ContractResume(e, t)
  /\ \A e, t, url : EngineNavigate(e, t, url) = ContractNavigate(e, t, url)

Awake(s) == {t \in Open(s) : s.tab[t].life # "Discarded"}
Asleep(s) == {t \in Open(s) : s.tab[t].life = "Suspended"}

\* The engine has these pages, shows this one, and has put these to sleep.
EngineIs(e, surfaces, shown, asleep) ==
  e \in EngineStates /\ e.surfaces = surfaces /\ e.shown = shown /\ e.asleep = asleep

InSync(s) == EngineIs(s.engine, Awake(s), s.active, Asleep(s))

\* What each command of the contract does.
LEMMA ContractCreates ==
  ASSUME OverContract, NEW e, NEW S, NEW a, NEW z, EngineIs(e, S, a, z), NEW t \in TabIds, NEW tab
  PROVE  EngineIs(EngineCreate(e, t, tab), S \cup {t}, a, z)
BY DEF OverContract, EngineIs, EngineStates, ContractCreate

LEMMA ContractCloses ==
  ASSUME OverContract, NEW e, NEW S, NEW a, NEW z, EngineIs(e, S, a, z), NEW t \in TabIds
  PROVE  EngineIs(EngineClose(e, t), S \ {t}, IF a = t THEN NoTabId ELSE a, z \ {t})
<1>1. EngineClose(e, t) = ContractClose(e, t)
  BY DEF OverContract
<1> QED BY <1>1 DEF EngineIs, EngineStates, ContractClose

LEMMA ContractActivates ==
  ASSUME OverContract, NEW e, NEW S, NEW a, NEW z, EngineIs(e, S, a, z), NEW t \in TabIds, t \in S
  PROVE  EngineIs(EngineActivate(e, t), S, t, z)
BY DEF OverContract, EngineIs, EngineStates, ContractActivate

LEMMA ContractSuspends ==
  ASSUME OverContract, NEW e, NEW S, NEW a, NEW z, EngineIs(e, S, a, z), NEW t \in TabIds, t \in S
  PROVE  EngineIs(EngineSuspend(e, t), S, a, z \cup {t})
BY DEF OverContract, EngineIs, EngineStates, ContractSuspend

LEMMA ContractResumes ==
  ASSUME OverContract, NEW e, NEW S, NEW a, NEW z, EngineIs(e, S, a, z), NEW t \in TabIds
  PROVE  EngineIs(EngineResume(e, t), S, a, z \ {t})
BY DEF OverContract, EngineIs, EngineStates, ContractResume

LEMMA ContractNavigates ==
  ASSUME OverContract, NEW e, NEW S, NEW a, NEW z, EngineIs(e, S, a, z), NEW t, NEW url
  PROVE  EngineIs(EngineNavigate(e, t, url), S, a, z)
BY DEF OverContract, ContractNavigate

\* The active tab has a page and is not asleep.
LEMMA ActiveIsAwake ==
  ASSUME NEW s, SessionInvariant(s), s.active # NoTabId
  PROVE  s.active \in Awake(s) \ Asleep(s)
BY SessionFields DEF SessionInvariant, HasOneActive, IsOpen, Awake, Asleep

\* An activation: the engine must have the page already, and nothing else to wake.
LEMMA RaiseSyncs ==
  ASSUME OverContract, NEW s, SessionInvariant(s), NEW t \in Open(s), NEW a,
         EngineIs(s.engine, Awake(s) \cup {t}, a, Asleep(s) \ {t})
  PROVE  InSync(Raise(s, t))
<1> DEFINE d == Raise(s, t)
<1>0. Open(s) \subseteq TabIds /\ s.active \in TabIds \cup {NoTabId}
  BY OpenAreIds, SessionFields DEF SessionInvariant
<1>1. /\ Open(d) = Open(s) /\ d.active = t
      /\ d.engine = EngineActivate(s.engine, t)
      /\ \A x \in TabIds :
           d.tab[x].life = IF x = t THEN "Active"
                           ELSE IF x = s.active THEN "Background" ELSE s.tab[x].life
  BY RaiseEffect
<1> HIDE DEF d
<1>2. EngineIs(d.engine, Awake(s) \cup {t}, t, Asleep(s) \ {t})
  <2>1. t \in TabIds /\ t \in Awake(s) \cup {t}
    BY <1>0
  <2>2. EngineIs(EngineActivate(s.engine, t), Awake(s) \cup {t}, t, Asleep(s) \ {t})
    BY <2>1, ContractActivates
  <2> QED BY <1>1, <2>2
<1>3. \A x \in Open(s) : x = s.active => s.tab[x].life = "Active"
  BY <1>0 DEF SessionInvariant, HasOneActive
<1>4. Awake(d) = Awake(s) \cup {t} /\ Asleep(d) = Asleep(s) \ {t}
  BY <1>0, <1>1, <1>3 DEF Awake, Asleep
<1> QED BY <1>1, <1>2, <1>4 DEF InSync, d

LEMMA ActivateSyncs ==
  ASSUME OverContract, NEW s, SessionInvariant(s), InSync(s), NEW t
  PROVE  InSync(ActivateTab(s, t))
<1>1. CASE ~IsOpen(s, t) \/ s.active = t
  BY <1>1 DEF ActivateTab
<1>2. CASE IsOpen(s, t) /\ s.active # t
  <2> DEFINE r == Revived(s, t)
  <2>0. t \in Open(s) /\ t \in TabIds
    BY <1>2, OpenAreIds DEF IsOpen, SessionInvariant
  <2>1. /\ SessionInvariant(r)
        /\ r.tab = s.tab /\ r.active = s.active /\ Open(r) = Open(s)
        /\ r.engine = CASE s.tab[t].life = "Discarded" -> EngineCreate(s.engine, t, s.tab[t])
                        [] s.tab[t].life = "Suspended" -> EngineResume(s.engine, t)
                        [] OTHER -> s.engine
    BY RevivedEffect
  <2>2. ActivateTab(s, t) = Raise(r, t)
    BY <1>2 DEF ActivateTab
  <2> HIDE DEF r
  <2>3. Awake(r) = Awake(s) /\ Asleep(r) = Asleep(s)
    BY <2>1 DEF Awake, Asleep
  <2>4. EngineIs(r.engine, Awake(s) \cup {t}, s.active, Asleep(s) \ {t})
    <3>1. CASE s.tab[t].life = "Discarded"
      <4>1. EngineIs(r.engine, Awake(s) \cup {t}, s.active, Asleep(s))
        <5>1. EngineIs(EngineCreate(s.engine, t, s.tab[t]), Awake(s) \cup {t}, s.active, Asleep(s))
          BY <2>0, ContractCreates DEF InSync
        <5> QED BY <2>1, <3>1, <5>1
      <4>2. Asleep(s) \ {t} = Asleep(s)
        BY <3>1 DEF Asleep
      <4> QED BY <4>1, <4>2
    <3>2. CASE s.tab[t].life = "Suspended"
      <4>1. EngineIs(r.engine, Awake(s), s.active, Asleep(s) \ {t})
        <5>1. EngineIs(EngineResume(s.engine, t), Awake(s), s.active, Asleep(s) \ {t})
          BY <2>0, ContractResumes DEF InSync
        <5> QED BY <2>1, <3>2, <5>1
      <4>2. Awake(s) \cup {t} = Awake(s)
        BY <2>0, <3>2 DEF Awake
      <4> QED BY <4>1, <4>2
    <3>3. CASE s.tab[t].life \notin {"Discarded", "Suspended"}
      <4>1. r.engine = s.engine
        BY <2>1, <3>3
      <4>2. Awake(s) \cup {t} = Awake(s) /\ Asleep(s) \ {t} = Asleep(s)
        BY <2>0, <3>3 DEF Awake, Asleep
      <4> QED BY <4>1, <4>2 DEF InSync
    <3> QED BY <3>1, <3>2, <3>3
  <2> QED BY <2>0, <2>1, <2>2, <2>3, <2>4, RaiseSyncs
<1> QED BY <1>1, <1>2

LEMMA OpenSyncs ==
  ASSUME OverContract, NEW s, SessionInvariant(s), InSync(s),
         NEW t \in TabIds, NEW tpl \in Templates, NEW activate
  PROVE  InSync(OpenTab(s, t, tpl, activate))
<1> DEFINE norm  == Normalised(tpl)
           added == AddTab(s, t, norm)
<1>1. CASE IsOpen(s, t)
  BY <1>1 DEF OpenTab, AcceptsId
<1>2. CASE ~IsOpen(s, t)
  <2>1. norm \in Templates /\ Open(s) \subseteq TabIds
    BY NormalisedType, OpenAreIds DEF SessionInvariant
  <2>2. /\ SessionInvariant(added) /\ Open(added) = Open(s) \cup {t}
        /\ added.active = s.active
        /\ added.engine = EngineCreate(s.engine, t, FreshTab(norm))
        /\ \A x \in TabIds : added.tab[x] = IF x = t THEN FreshTab(norm) ELSE s.tab[x]
    BY <1>2, <2>1, AddTabEffect
  <2>3. OpenTab(s, t, tpl, activate)
          = IF s.tabs = <<>> \/ activate THEN Raise(added, t) ELSE added
    BY <1>2 DEF OpenTab, AcceptsId
  <2> HIDE DEF norm, added
  <2>4. FreshTab(norm).life = "Background"
    BY DEF FreshTab
  <2>5. Awake(added) = Awake(s) \cup {t} /\ Asleep(added) = Asleep(s)
    BY <1>2, <2>1, <2>2, <2>4 DEF Awake, Asleep, IsOpen
  <2>6. EngineIs(added.engine, Awake(s) \cup {t}, s.active, Asleep(s))
    <3>1. EngineIs(EngineCreate(s.engine, t, FreshTab(norm)), Awake(s) \cup {t}, s.active, Asleep(s))
      BY ContractCreates DEF InSync
    <3> QED BY <2>2, <3>1
  <2>7. InSync(added)
    BY <2>2, <2>5, <2>6 DEF InSync
  <2>8. InSync(Raise(added, t))
    <3>1. Awake(added) \cup {t} = Awake(added) /\ Asleep(added) \ {t} = Asleep(added)
      BY <1>2, <2>5 DEF Asleep, IsOpen
    <3>2. t \in Open(added)
      BY <2>2
    <3> QED BY <2>2, <2>7, <3>1, <3>2, RaiseSyncs DEF InSync
  <2> QED BY <2>3, <2>7, <2>8
<1> QED BY <1>1, <1>2

LEMMA CloseSyncs ==
  ASSUME OverContract, NEW s, SessionInvariant(s), InSync(s), NEW t \in Open(s), NEW fallback
  PROVE  InSync(CloseTab(s, t, fallback))
<1> DEFINE gone == RemoveTab(RememberClosed(s, t), t)
           d    == CloseTab(s, t, fallback)
<1>0. Open(s) \subseteq TabIds
  BY OpenAreIds DEF SessionInvariant
<1>1. /\ SessionInvariant(gone)
      /\ Open(gone) = Open(s) \ {t}
      /\ gone.active = IF s.active = t THEN NoTabId ELSE s.active
      /\ gone.engine = EngineClose(s.engine, t)
      /\ \A x \in TabIds \ {t} : gone.tab[x] = s.tab[x]
      /\ d = gone \/ \E y \in Open(gone) : d = ActivateTab(gone, y)
  BY CloseTabEffect
<1> HIDE DEF gone, d
<1>2. Awake(gone) = Awake(s) \ {t} /\ Asleep(gone) = Asleep(s) \ {t}
  BY <1>0, <1>1 DEF Awake, Asleep
<1>3. EngineIs(gone.engine, Awake(s) \ {t}, gone.active, Asleep(s) \ {t})
  <2>1. EngineIs(EngineClose(s.engine, t), Awake(s) \ {t},
                 IF s.active = t THEN NoTabId ELSE s.active, Asleep(s) \ {t})
    BY <1>0, ContractCloses DEF InSync
  <2> QED BY <1>1, <2>1
<1>4. InSync(gone)
  BY <1>2, <1>3 DEF InSync
<1> QED BY <1>1, <1>4, ActivateSyncs DEF d

LEMMA ReopenSyncs ==
  ASSUME OverContract, NEW s, SessionInvariant(s), InSync(s), NEW mode,
         s.restored + 1 \in DOMAIN RestoredId, Reopenable(s, mode) # {}
  PROVE  InSync(ReopenLastClosedTab(s, mode))
<1> DEFINE k  == NewestReopenable(s, mode)
           id == RestoredId[s.restored + 1]
           u  == Unlisted(s, k)
<1>1. k \in 1 .. Len(s.closed)
  BY NewestReopenableEffect
<1>2. /\ ReopenLastClosedTab(s, mode) = OpenTab(u, id, s.closed[k], TRUE)
      /\ id \in TabIds /\ s.closed[k] \in Templates
  BY ReopenCases DEF Memorable
<1> HIDE DEF k
<1>3. /\ SessionInvariant(u)
      /\ u.tab = s.tab /\ u.active = s.active /\ u.engine = s.engine /\ Open(u) = Open(s)
  BY <1>1, UnlistedEffect
<1> HIDE DEF u, id
<1>4. InSync(u)
  BY <1>3 DEF InSync, Awake, Asleep
<1> QED BY <1>2, <1>3, <1>4, OpenSyncs

\* A call about one page keeps the engine in step when it tells it of the lifecycle it
\* has written.
LEMMA CallOnTabSyncs ==
  ASSUME NEW s, SessionInvariant(s), NEW t \in Open(s), NEW d, NEW rec, NEW e,
         CallOnTab(s, d, t, rec, e),
         EngineIs(e, IF rec.life = "Discarded" THEN Awake(s) \ {t} ELSE Awake(s) \cup {t},
                  s.active,
                  IF rec.life = "Suspended" THEN Asleep(s) \cup {t} ELSE Asleep(s) \ {t})
  PROVE  InSync(d)
<1>1. Open(s) \subseteq TabIds
  BY OpenAreIds DEF SessionInvariant
<1>2. /\ Awake(d) = IF rec.life = "Discarded" THEN Awake(s) \ {t} ELSE Awake(s) \cup {t}
      /\ Asleep(d) = IF rec.life = "Suspended" THEN Asleep(s) \cup {t} ELSE Asleep(s) \ {t}
  BY <1>1 DEF CallOnTab, Awake, Asleep
<1> QED BY <1>2 DEF InSync, CallOnTab

LEMMA PageStepSyncs ==
  ASSUME OverContract, NEW s, SessionInvariant(s), InSync(s), NEW d, ActsOnPage(s, d)
  PROVE  InSync(d)
<1>1. PICK t \in Open(s) :
        /\ Alive(s, t)
        /\ \/ \E url \in PageUrls : d = Navigate(s, t, url)
           \/ d = Woken(s, t)
           \/ s.tab[t].life \notin {"Active", "Suspended"} /\ d = SuspendTab(s, t)
           \/ s.tab[t].life # "Active" /\ d = DiscardTab(s, t)
           \/ \E url \in PageUrls \cup {s.tab[t].url}, title \in PageTitles \cup {s.tab[t].title} :
                EventOnTab(s, d, t, url, title)
  BY DEF ActsOnPage
<1> DEFINE tab == s.tab[t]
<1>2. /\ tab \in TabRecords /\ t \in TabIds /\ tab.life # "Discarded"
      /\ t \in Awake(s) /\ Awake(s) \cup {t} = Awake(s)
      /\ t \in Asleep(s) <=> tab.life = "Suspended"
      /\ tab.life = "Active" => s.active = t
      /\ s.active = t => tab.life = "Active"
  BY <1>1, OpenTabFacts, OpenAreIds
     DEF Alive, IsOpen, SessionInvariant, HasOneActive, Awake, Asleep
<1> HIDE DEF tab
<1>3. /\ WokenTab(tab).life \notin {"Discarded", "Suspended"}
      /\ EngineIs(WokenEngine(s, t), Awake(s) \cup {t}, s.active, Asleep(s) \ {t})
  <2>1. WokenTab(tab).life \notin {"Discarded", "Suspended"}
    BY <1>2 DEF WokenTab, Demoted, TabRecords
  <2>2. ASSUME tab.life = "Suspended"
        PROVE  EngineIs(WokenEngine(s, t), Awake(s) \cup {t}, s.active, Asleep(s) \ {t})
    <3>1. EngineIs(EngineResume(s.engine, t), Awake(s), s.active, Asleep(s) \ {t})
      BY <1>2, ContractResumes DEF InSync
    <3>2. WokenEngine(s, t) = EngineResume(s.engine, t)
      BY <2>2 DEF WokenEngine, tab
    <3> QED BY <1>2, <3>1, <3>2
  <2>3. ASSUME tab.life # "Suspended"
        PROVE  EngineIs(WokenEngine(s, t), Awake(s) \cup {t}, s.active, Asleep(s) \ {t})
    <3>1. Asleep(s) \ {t} = Asleep(s) /\ WokenEngine(s, t) = s.engine
      BY <1>2, <2>3 DEF WokenEngine, tab
    <3> QED BY <1>2, <3>1 DEF InSync
  <2> QED BY <2>1, <2>2, <2>3
<1>4. CASE \E url \in PageUrls : d = Navigate(s, t, url)
  <2>1. PICK url \in PageUrls : d = Navigate(s, t, url)
    BY <1>4
  <2> DEFINE rec == Requested(WokenTab(tab), url)
             e   == EngineNavigate(WokenEngine(s, t), t, url)
  <2>2. CallOnTab(s, d, t, rec, e)
    BY <1>1, <2>1, PageUrlsAssumption, NavigateEffect DEF tab
  <2>3. rec.life = WokenTab(tab).life
    BY <1>2 DEF Requested, WokenTab, Demoted, TabRecords
  <2>4. EngineIs(e, Awake(s) \cup {t}, s.active, Asleep(s) \ {t})
    BY <1>2, <1>3, ContractNavigates
  <2> HIDE DEF rec, e
  <2> QED BY <1>3, <2>2, <2>3, <2>4, CallOnTabSyncs
<1>5. CASE d = Woken(s, t)
  <2>1. CallOnTab(s, d, t, WokenTab(tab), WokenEngine(s, t))
    BY <1>5, WokenEffect DEF tab
  <2> QED BY <1>3, <2>1, CallOnTabSyncs
<1>6. CASE s.tab[t].life \notin {"Active", "Suspended"} /\ d = SuspendTab(s, t)
  <2> DEFINE rec == [tab EXCEPT !.life = "Suspended"]
             e   == EngineSuspend(s.engine, t)
  <2>1. CallOnTab(s, d, t, rec, e) /\ rec.life = "Suspended"
    BY <1>1, <1>2, <1>6, RestEffect DEF tab, TabRecords
  <2>2. EngineIs(e, Awake(s) \cup {t}, s.active, Asleep(s) \cup {t})
    BY <1>2, ContractSuspends DEF InSync
  <2> HIDE DEF rec, e
  <2> QED BY <2>1, <2>2, CallOnTabSyncs
<1>7. CASE s.tab[t].life # "Active" /\ d = DiscardTab(s, t)
  <2> DEFINE rec == [tab EXCEPT !.life = "Discarded"]
             e   == EngineClose(s.engine, t)
  <2>1. CallOnTab(s, d, t, rec, e) /\ rec.life = "Discarded"
    BY <1>1, <1>2, <1>7, RestEffect DEF tab, TabRecords
  <2>2. EngineIs(e, Awake(s) \ {t}, s.active, Asleep(s) \ {t})
    <3>1. EngineIs(e, Awake(s) \ {t}, IF s.active = t THEN NoTabId ELSE s.active, Asleep(s) \ {t})
      BY <1>2, ContractCloses DEF InSync
    <3> QED BY <1>2, <1>7, <3>1 DEF tab
  <2> HIDE DEF rec, e
  <2> QED BY <2>1, <2>2, CallOnTabSyncs
<1>8. CASE \E url \in PageUrls \cup {s.tab[t].url}, title \in PageTitles \cup {s.tab[t].title} :
             EventOnTab(s, d, t, url, title)
  <2>1. PICK rec \in TabRecords : CallOnTab(s, d, t, rec, s.engine) /\ rec.life = tab.life
    BY <1>8 DEF EventOnTab, EventRecord, tab
  <2>2. /\ tab.life = "Suspended" => Asleep(s) \cup {t} = Asleep(s)
        /\ tab.life # "Suspended" => Asleep(s) \ {t} = Asleep(s)
    BY <1>2
  <2>3. EngineIs(s.engine, Awake(s) \cup {t}, s.active,
                 IF rec.life = "Suspended" THEN Asleep(s) \cup {t} ELSE Asleep(s) \ {t})
    BY <1>2, <2>1, <2>2 DEF InSync
  <2> QED BY <1>2, <2>1, <2>3, CallOnTabSyncs
<1> QED BY <1>1, <1>4, <1>5, <1>6, <1>7, <1>8

\* EngineInSync: whatever is called and whatever the pages report, an engine that obeys
\* has exactly the pages of the tabs that are not discarded, shows the active one and has
\* put the suspended ones to sleep.
THEOREM EngineFollowsSession ==
  ASSUME OverContract
  PROVE  Spec => []EngineInSync
<1> DEFINE Mirror == Safe /\ InSync(session)
<1>1. Init => Mirror
  <2> SUFFICES ASSUME Init PROVE Mirror
    OBVIOUS
  <2>1. Safe /\ Open(session) = {}
    BY InitInvariant, SessionInitInvariant DEF Init, Safe
  <2>2. session.engine = ContractInit /\ session.active = NoTabId
    BY DEF Init, SessionInit, OverContract
  <2>3. ContractInit \in EngineStates
    BY DEF ContractInit, EngineStates
  <2> QED BY <2>1, <2>2, <2>3 DEF InSync, EngineIs, Awake, Asleep, ContractInit
<1>2. Mirror /\ [Next]_session => Mirror'
  <2> SUFFICES ASSUME SessionInvariant(session), InSync(session), [Next]_session
               PROVE  InSync(session')
    BY NextInvariant DEF Safe
  <2>1. CASE Opens(session, session')
    <3>1. PICK t \in CallerIds, tpl \in ShellTemplates, activate \in BOOLEAN :
            session' = OpenTab(session, t, tpl, activate)
      BY <2>1 DEF Opens
    <3>2. t \in TabIds /\ tpl \in Templates
      BY CallerIdsAssumption, ShellTemplatesType
    <3> QED BY <3>1, <3>2, OpenSyncs
  <2>2. CASE Closes(session, session')
    BY <2>2, CloseSyncs DEF Closes
  <2>3. CASE Reopens(session, session')
    BY <2>3, ReopenSyncs DEF Reopens
  <2>4. CASE Purges(session, session')
    <3> DEFINE d == PurgeEphemeralClosedTabs(session)
    <3>1. /\ Open(d) = Open(session) /\ d.tab = session.tab
          /\ d.active = session.active /\ d.engine = session.engine
      BY PurgeEffect
    <3> HIDE DEF d
    <3>2. InSync(d)
      BY <3>1 DEF InSync, Awake, Asleep
    <3> QED BY <2>4, <3>2 DEF Purges, d
  <2>5. CASE Activates(session, session')
    BY <2>5, ActivateSyncs DEF Activates
  <2>6. CASE ActsOnPage(session, session')
    BY <2>6, PageStepSyncs
  <2>7. CASE session' = session
    BY <2>7
  <2> QED BY <2>1, <2>2, <2>3, <2>4, <2>5, <2>6, <2>7, NextIsOfAKind DEF StepKinds
<1>3. Mirror => EngineInSync
  BY DEF InSync, EngineIs, Awake, Asleep, EngineInSync
<1> QED BY <1>1, <1>2, <1>3, PTL DEF Spec
=============================================================================
